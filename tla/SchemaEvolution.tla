---------------------------- MODULE SchemaEvolution ----------------------------
(***************************************************************************)
(* src/src/schema_evolution_benchmark.cc: one client that, for each        *)
(* repetition and on a subject named by it alone, registers v1, registers  *)
(* v2 and lists the versions.  It records whatever status comes; only a    *)
(* failed transfer ends it.                                                *)
(*                                                                         *)
(* The Registry (external) checks a new schema against the latest version  *)
(* of its subject, may refuse it (409), may fail (500) with or without     *)
(* effect, and may execute a request late whose sender gave up.  The host  *)
(* script runs the client again; its cleanup trap empties the Registry,    *)
(* unless the script was killed.                                           *)
(***************************************************************************)
EXTENDS Integers, Sequences

CONSTANTS
    SubjectRepetitions,  \* config.repetitions
    MaxRuns              \* bound: runs of the host script

\* What is assumed of them; MCRegistry, which instantiates this module, says so.
Counts == SubjectRepetitions \in Nat \ {0} /\ MaxRuns \in Nat \ {0}

VARIABLES
    client,    \* "curl", "phase", "sent", "answered", "done" or "failed"
    subject,   \* the repetition, which names the subject
    phase,     \* position in Phases
    reply,     \* the status of the answer
    versions,  \* the Registry: the schemas of each subject, in order of acceptance
    late,      \* registrations that may still be executed although their sender gave up
    log,       \* the CSV
    runs, emptied  \* of the host script; whether this one found the Registry empty

vars == <<client, subject, phase, reply, versions, late, log, runs, emptied>>

Subject == 1 .. SubjectRepetitions
Schemas == {"v1", "v2"}

\* Mutant: v2 first.
PhasesSwapped == <<"v2", "v1", "lookup_versions">>

\* register_v1, register_v2, lookup_versions
Phases == <<"v1", "v2", "lookup_versions">>

Posts == Phases[phase] \in Schemas

Row(status) == [phase |-> Phases[phase], repetition |-> subject, status |-> status]

Init ==
    /\ client = "curl" /\ subject = 1 /\ phase = 1 /\ reply = 0
    /\ versions = [s \in Subject |-> <<>>] /\ late = {}
    /\ log = <<>> /\ runs = 1 /\ emptied = TRUE

-------------------------------------------------------------------------------
(* The Registry *)

Known(s, schema) == \E k \in DOMAIN versions[s] : versions[s][k] = schema

Accept(s, schema) ==
    versions' = IF Known(s, schema) THEN versions ELSE [versions EXCEPT ![s] = Append(@, schema)]

Refusable(s, schema) == versions[s] # <<>> /\ ~Known(s, schema)

Serve ==
    /\ client = "sent"
    /\ client' = "answered"
    /\ \/ reply' = 200 /\ Posts /\ Accept(subject, Phases[phase])
       \/ reply' = 500 /\ Posts /\ Accept(subject, Phases[phase])
       \/ reply' = 409 /\ Posts /\ Refusable(subject, Phases[phase]) /\ UNCHANGED versions
       \/ reply' = 500 /\ UNCHANGED versions
       \/ reply' = (IF versions[subject] = <<>> THEN 404 ELSE 200) /\ ~Posts /\ UNCHANGED versions
    /\ UNCHANGED <<subject, phase, late, log, runs, emptied>>

ServeLate ==
    /\ \E request \in late :
        /\ late' = late \ {request}
        /\ Accept(request[1], request[2]) \/ UNCHANGED versions
    /\ UNCHANGED <<client, subject, phase, reply, log, runs, emptied>>

-------------------------------------------------------------------------------
(* The client *)

\* curl_easy_init: one handle per repetition
InitCurl ==
    /\ client = "curl"
    /\ client' \in {"phase", "failed"}
    /\ UNCHANGED <<subject, phase, reply, versions, late, log, runs, emptied>>

Send ==
    /\ client = "phase"
    /\ client' = "sent"
    /\ UNCHANGED <<subject, phase, reply, versions, late, log, runs, emptied>>

\* write_row, and on to the next phase, the next repetition or the end.
Receive ==
    /\ client = "answered"
    /\ log' = Append(log, Row(reply))
    /\ IF phase < Len(Phases)
       THEN client' = "phase" /\ phase' = phase + 1 /\ UNCHANGED subject
       ELSE /\ phase' = 1
            /\ IF subject < SubjectRepetitions
               THEN client' = "curl" /\ subject' = subject + 1
               ELSE client' = "done" /\ UNCHANGED subject
    /\ UNCHANGED <<reply, versions, late, runs, emptied>>

\* request throws: the connection is lost, or the time is over, before or after the execution.
Throw ==
    /\ client \in {"sent", "answered"}
    /\ client' = "failed"
    /\ late' = IF client = "sent" /\ Posts THEN late \cup {<<subject, Phases[phase]>>} ELSE late
    /\ UNCHANGED <<subject, phase, reply, versions, log, runs, emptied>>

\* The script is run again, with a new Registry or, if it was killed before `down -v`, the old one.
Rerun ==
    /\ client \in {"done", "failed"} /\ runs < MaxRuns
    /\ runs' = runs + 1
    /\ client' = "curl" /\ subject' = 1 /\ phase' = 1 /\ reply' = 0 /\ log' = <<>>
    /\ \/ emptied' = TRUE /\ versions' = [s \in Subject |-> <<>>] /\ late' = {}
       \/ emptied' = FALSE /\ UNCHANGED <<versions, late>>

Ended == client \in {"done", "failed"} /\ UNCHANGED vars

ClientStep == InitCurl \/ Send \/ Receive \/ Throw

Next == ClientStep \/ Serve \/ ServeLate \/ Rerun \/ Ended

Spec == Init /\ [][Next]_vars

\* libcurl's timeout bounds every request; the Registry owes nothing.
FairSpec == Spec /\ WF_vars(ClientStep)

-------------------------------------------------------------------------------
(* Properties *)

TypeOK ==
    /\ client \in {"curl", "phase", "sent", "answered", "done", "failed"}
    /\ subject \in Subject /\ phase \in DOMAIN Phases /\ reply \in {0, 200, 404, 409, 500}
    /\ versions \in [Subject -> Seq(Schemas)] /\ late \subseteq Subject \X Schemas
    /\ log \in Seq([phase : Schemas \cup {"lookup_versions"}, repetition : Subject,
                    status : {200, 404, 409, 500}])
    /\ runs \in 1 .. MaxRuns /\ emptied \in BOOLEAN

Succeeded(s, schema) ==
    \E k \in DOMAIN log : log[k].phase = schema /\ log[k].repetition = s /\ log[k].status = 200

\* What the statuses of a repetition show: if both registrations succeeded, v2 came second on the
\* subject of v1 and was checked against it.  A row of v2 alone shows nothing, and rows of a run
\* that found an old Registry do not either.
SuccessShowsUpgrade ==
    emptied => \A s \in Subject :
        Succeeded(s, "v1") /\ Succeeded(s, "v2") => versions[s] = <<"v1", "v2">>
===============================================================================
