---------------------------- MODULE RegistryBench ----------------------------
(***************************************************************************)
(* The live Registry paths of src/src/schema_registry_benchmark.cc: the     *)
(* main thread registers the schema, walks the sequential paths             *)
(* (run_network_rows, run_exceptional_paths) and then lets one worker per   *)
(* repetition register a subject at the same time                           *)
(* (run_concurrent_registration).  The framing between the registration and *)
(* the paths touches none of this state; it is in MeasuredRows.             *)
(*                                                                          *)
(* The Schema Registry is outside the repository.  It executes a request    *)
(* and answers 200 (any 2xx), 404 or, for other failures, 500; the answer may be *)
(* lost, and a registration whose sender gave up may still be executed      *)
(* later.  failure_url has no server: a request to it always throws.        *)
(***************************************************************************)
EXTENDS Integers, Sequences, FiniteSets

CONSTANT NetworkRepetitions  \* config.network_repetitions

ASSUME RegistryAssumption == NetworkRepetitions \in Nat \ {0}

VARIABLES
    pc,          \* main: "path", "spawn", "arrive", "released", "join", or how the process ended
    path,        \* position in Paths
    repetition,  \* of the path, and of the spawning loop
    line,        \* per thread: its HTTP request is "idle", "sent" or "answered"
    answer,      \* per thread: the answer's status
    registered,  \* the Registry: the subjects with a version
    orphans,     \* registrations that are still to be executed although their sender gave up
    workerPc,    \* per worker: "none", "init", "waiting", "request", "lock", "write", "exit"
    status,      \* per worker: its local of that name
    arrived,     \* parties start_barrier has counted
    csvMutex,    \* csv_mutex: the worker holding it, or Main
    rows         \* the CSV

mainVars == <<pc, path, repetition>>
httpVars == <<line, answer, registered, orphans>>
workerVars == <<workerPc, status, arrived, csvMutex>>
vars == <<mainVars, httpVars, workerVars, rows>>

Main == 0
Worker == 1 .. NetworkRepetitions
Thread == {Main} \cup Worker

\* The sequential paths, in order; each but the first has NetworkRepetitions rows.
Paths == <<"bootstrap", "registry_lookup_keepalive", "cold_lookup_new_connection", "cold_register",
           "cache_miss_404", "registry_unavailable", "retry_failure_then_success">>
Concurrent == "concurrent_registration"
AllPaths == {Paths[k] : k \in DOMAIN Paths} \cup {Concurrent}

\* run_network_rows throws where run_exceptional_paths records.
Tolerant(p) == p \in {"cache_miss_404", "registry_unavailable", "retry_failure_then_success", Concurrent}
Posts(p) == p \in {"bootstrap", "cold_register", Concurrent}
ReusesConnection(p) == p \in {"registry_lookup_keepalive", "cold_register"}

\* The subject in the URL; the retry path is named by its second request.
Subject(p, r) ==
    IF p \in {"cold_register", Concurrent} THEN <<p, r>>
    ELSE IF p = "cache_miss_404" THEN <<"missing", 0>> ELSE <<"base", 0>>

\* A row and the answer behind it: the last column is the status, or in run_network_rows, which
\* writes a row for a good answer only, the id of the schema.
Row(p, r, code) == [api |-> p, repetition |-> r, status |-> code]

Init ==
    /\ pc = "path" /\ path = 1 /\ repetition = 1
    /\ line = [t \in Thread |-> "idle"] /\ answer = [t \in Thread |-> 0]
    /\ registered = {} /\ orphans = {}
    /\ workerPc = [w \in Worker |-> "none"] /\ status = [w \in Worker |-> 0]
    /\ arrived = 0 /\ csvMutex = Main
    /\ rows = <<>>

Running == pc \notin {"done", "failed", "aborted"}

-------------------------------------------------------------------------------
(* HTTP and the Schema Registry *)

RequestOf(t) ==
    IF t = Main THEN [post |-> Posts(Paths[path]), subject |-> Subject(Paths[path], repetition)]
                ELSE [post |-> TRUE, subject |-> Subject(Concurrent, t)]

Send(t) ==
    /\ line[t] = "idle"
    /\ line' = [line EXCEPT ![t] = "sent"]
    /\ UNCHANGED <<answer, registered, orphans>>

\* The Registry executes a request.  A 500 says nothing about a registration's effect.
Serve(t) ==
    /\ Running /\ line[t] = "sent"
    /\ LET request == RequestOf(t) IN
        \E code \in {200, 404, 500}, stored \in BOOLEAN :
            /\ code = 404 => ~request.post
            /\ stored => request.post
            /\ code = 200 => stored \/ (~request.post /\ request.subject \in registered)
            /\ code = 404 => request.subject \notin registered
            /\ answer' = [answer EXCEPT ![t] = code]
            /\ registered' = IF stored THEN registered \cup {request.subject} ELSE registered
    /\ line' = [line EXCEPT ![t] = "answered"]
    /\ UNCHANGED <<mainVars, orphans, workerVars, rows>>

ServeOrphan(subject) ==
    /\ subject \in orphans
    /\ orphans' = orphans \ {subject}
    /\ registered' = registered \cup {subject}
    /\ UNCHANGED <<mainVars, line, answer, workerVars, rows>>

\* http_request returns the answer ...
Receive(t) ==
    /\ line[t] = "answered"
    /\ line' = [line EXCEPT ![t] = "idle"]
    /\ UNCHANGED <<answer, registered, orphans>>

\* ... or throws: connection lost or CURLOPT_TIMEOUT_MS over, before or after the request was executed.
GiveUp(t) ==
    /\ line[t] \in {"sent", "answered"}
    /\ line' = [line EXCEPT ![t] = "idle"]
    /\ orphans' = IF line[t] = "sent" /\ RequestOf(t).post
                  THEN orphans \cup {RequestOf(t).subject} ELSE orphans
    /\ UNCHANGED <<answer, registered>>

-------------------------------------------------------------------------------
(* The main thread, sequential paths *)

\* Mutant: a repetition too many.
LastRepetitionLate == path = 1 \/ repetition > NetworkRepetitions

LastRepetition == path = 1 \/ repetition = NetworkRepetitions

\* The loops of the paths; after the last one the workers are spawned.
Advance ==
    IF ~LastRepetition
    THEN repetition' = repetition + 1 /\ UNCHANGED <<pc, path>>
    ELSE /\ repetition' = 1
         /\ path' = IF path < Len(Paths) THEN path + 1 ELSE path
         /\ pc' = IF path < Len(Paths) THEN "path" ELSE "spawn"

MainSend ==
    /\ pc = "path" /\ Paths[path] # "registry_unavailable"
    /\ Send(Main)
    /\ UNCHANGED <<mainVars, workerVars, rows>>

\* curl_easy_init fails, or the handle it did not check makes http_request throw.
MainInitFails ==
    /\ pc = "path" /\ line[Main] = "idle"
    /\ ReusesConnection(Paths[path]) => repetition = 1
    /\ pc' = "failed"
    /\ UNCHANGED <<path, repetition, httpVars, workerVars, rows>>

\* response_id's and run_network_rows's test of the status; the exceptional paths take any.
Accepted(p, code) == Tolerant(p) \/ code = 200

MainReceive ==
    /\ pc = "path"
    /\ Receive(Main)
    /\ IF Accepted(Paths[path], answer[Main])
       THEN /\ Advance
            /\ rows' = IF path = 1 THEN rows
                       ELSE Append(rows, Row(Paths[path], repetition, answer[Main]))
       ELSE pc' = "failed" /\ UNCHANGED <<path, repetition, rows>>
    /\ UNCHANGED workerVars

\* An exceptional path catches the exception and records status 0; elsewhere it reaches main.
MainThrown ==
    /\ pc = "path"
    /\ GiveUp(Main)
    /\ IF Tolerant(Paths[path])
       THEN Advance /\ rows' = Append(rows, Row(Paths[path], repetition, 0))
       ELSE pc' = "failed" /\ UNCHANGED <<path, repetition, rows>>
    /\ UNCHANGED workerVars

\* The request to failure_url throws.
MainUnavailable ==
    /\ pc = "path" /\ Paths[path] = "registry_unavailable"
    /\ Advance
    /\ rows' = Append(rows, Row(Paths[path], repetition, 0))
    /\ UNCHANGED <<httpVars, workerVars>>

-------------------------------------------------------------------------------
(* run_concurrent_registration *)

MainSpawn ==
    /\ pc = "spawn"
    /\ workerPc' = [workerPc EXCEPT ![repetition] = "init"]
    /\ IF repetition < NetworkRepetitions
       THEN repetition' = repetition + 1 /\ UNCHANGED pc
       ELSE pc' = "arrive" /\ UNCHANGED repetition
    /\ UNCHANGED <<path, httpVars, status, arrived, csvMutex, rows>>

\* std::thread cannot start one: the destructor of the started ones calls std::terminate.
MainSpawnFails ==
    /\ pc = "spawn"
    /\ pc' = IF repetition = 1 THEN "failed" ELSE "aborted"
    /\ UNCHANGED <<path, repetition, httpVars, workerVars, rows>>

\* Mutants: the main thread is no party, and there is a party too many.
PartiesWorkers == NetworkRepetitions
PartiesExtra == NetworkRepetitions + 2

\* start_barrier: the workers and the main thread.
Parties == NetworkRepetitions + 1

MainArrive ==
    /\ pc = "arrive"
    /\ arrived' = arrived + 1
    /\ pc' = "released"
    /\ UNCHANGED <<path, repetition, httpVars, workerPc, status, csvMutex, rows>>

MainReleased ==
    /\ pc = "released" /\ arrived >= Parties
    /\ pc' = "join"
    /\ UNCHANGED <<path, repetition, httpVars, workerVars, rows>>

MainJoined ==
    /\ pc = "join" /\ \A w \in Worker : workerPc[w] = "exit"
    /\ pc' = "done"
    /\ UNCHANGED <<path, repetition, httpVars, workerVars, rows>>

WorkerArrive(w) ==
    /\ workerPc[w] = "init"
    /\ arrived' = arrived + 1
    /\ workerPc' = [workerPc EXCEPT ![w] = "waiting"]
    /\ UNCHANGED <<mainVars, httpVars, status, csvMutex, rows>>

\* curl_easy_init fails: the exception leaves the thread's function, which is std::terminate.
WorkerInitFails(w) ==
    /\ workerPc[w] = "init"
    /\ pc' = "aborted"
    /\ UNCHANGED <<path, repetition, httpVars, workerVars, rows>>

WorkerSend(w) ==
    /\ workerPc[w] = "waiting" /\ arrived >= Parties
    /\ Send(w)
    /\ workerPc' = [workerPc EXCEPT ![w] = "request"]
    /\ UNCHANGED <<mainVars, status, arrived, csvMutex, rows>>

WorkerReceive(w) ==
    /\ workerPc[w] = "request"
    /\ Receive(w)
    /\ status' = [status EXCEPT ![w] = answer[w]]
    /\ workerPc' = [workerPc EXCEPT ![w] = "lock"]
    /\ UNCHANGED <<mainVars, arrived, csvMutex, rows>>

\* Mutant: an exception counts as success.
WorkerThrownIgnored(w) ==
    /\ workerPc[w] = "request"
    /\ GiveUp(w)
    /\ status' = [status EXCEPT ![w] = 200]
    /\ workerPc' = [workerPc EXCEPT ![w] = "lock"]
    /\ UNCHANGED <<mainVars, arrived, csvMutex, rows>>

WorkerThrown(w) ==
    /\ workerPc[w] = "request"
    /\ GiveUp(w)
    /\ status' = [status EXCEPT ![w] = 0]
    /\ workerPc' = [workerPc EXCEPT ![w] = "lock"]
    /\ UNCHANGED <<mainVars, arrived, csvMutex, rows>>

\* Mutant: no lock_guard around the row.
WorkerLockNothing(w) ==
    /\ workerPc[w] = "lock"
    /\ workerPc' = [workerPc EXCEPT ![w] = "write"]
    /\ UNCHANGED <<mainVars, httpVars, status, arrived, csvMutex, rows>>

WorkerLock(w) ==
    /\ workerPc[w] = "lock" /\ csvMutex = Main
    /\ csvMutex' = w
    /\ workerPc' = [workerPc EXCEPT ![w] = "write"]
    /\ UNCHANGED <<mainVars, httpVars, status, arrived, rows>>

\* The row goes out in pieces: one that another worker's pieces got between is no row.
WorkerWrite(w) ==
    /\ workerPc[w] = "write"
    /\ rows' = IF \A v \in Worker \ {w} : workerPc[v] # "write"
               THEN Append(rows, Row(Concurrent, w, status[w])) ELSE rows
    /\ csvMutex' = Main
    /\ workerPc' = [workerPc EXCEPT ![w] = "exit"]
    /\ UNCHANGED <<mainVars, httpVars, status, arrived>>

-------------------------------------------------------------------------------
MainStep ==
    \/ MainSend \/ MainInitFails \/ MainReceive \/ MainThrown \/ MainUnavailable
    \/ MainSpawn \/ MainSpawnFails \/ MainArrive \/ MainReleased \/ MainJoined

WorkerStep(w) ==
    /\ Running
    /\ \/ WorkerArrive(w) \/ WorkerInitFails(w) \/ WorkerSend(w) \/ WorkerReceive(w)
       \/ WorkerThrown(w) \/ WorkerLock(w) \/ WorkerWrite(w)

RegistryStep == (\E t \in Thread : Serve(t)) \/ (\E subject \in orphans : ServeOrphan(subject))

\* main has returned, or the process is gone.
Ended == ~Running /\ UNCHANGED vars

Next == MainStep \/ (\E w \in Worker : WorkerStep(w)) \/ RegistryStep \/ Ended

Spec == Init /\ [][Next]_vars

\* Threads are scheduled, and libcurl's timeout bounds every request.  The Registry owes nothing.
FairSpec == Spec /\ WF_vars(MainStep) /\ \A w \in Worker : WF_vars(WorkerStep(w))

-------------------------------------------------------------------------------
(* Properties *)

Subjects == {Subject(p, r) : p \in AllPaths, r \in Worker}

TypeOK ==
    /\ pc \in {"path", "spawn", "arrive", "released", "join", "done", "failed", "aborted"}
    /\ path \in DOMAIN Paths /\ repetition \in Worker
    /\ line \in [Thread -> {"idle", "sent", "answered"}] /\ answer \in [Thread -> {0, 200, 404, 500}]
    /\ registered \subseteq Subjects /\ orphans \subseteq Subjects
    /\ workerPc \in [Worker -> {"none", "init", "waiting", "request", "lock", "write", "exit"}]
    /\ status \in [Worker -> {0, 200, 404, 500}]
    /\ arrived \in 0 .. NetworkRepetitions + 1 /\ csvMutex \in Thread
    /\ rows \in Seq([api : AllPaths, repetition : Worker, status : {0, 200, 404, 500}])

\* "Every live Registry request" has its row: a run that ends well wrote each repetition of
\* each path exactly once and in one piece, whatever failed, timed out or finished first.
RowsComplete ==
    pc = "done" => \A p \in AllPaths \ {"bootstrap"}, r \in Worker :
        Cardinality({k \in DOMAIN rows : rows[k].api = p /\ rows[k].repetition = r}) = 1

\* What a status says of the Registry: 200 that the subject is there, 404 that the row is a
\* cache miss; a row of the strict paths is never a failure.  A lost answer claims nothing.
RowsTellTheRegistry ==
    \A k \in DOMAIN rows :
        LET row == rows[k] IN
        /\ row.status = 200 => Subject(row.api, row.repetition) \in registered
        /\ row.status = 404 => row.api = "cache_miss_404"
        /\ ~Tolerant(row.api) => row.status = 200

\* The concurrent registrations start together: none is sent before every worker has a
\* connection handle and waits, and the main thread has let them go.
RegistrationsTogether ==
    (\E w \in Worker : workerPc[w] \notin {"none", "init", "waiting"}) =>
        /\ \A w \in Worker : workerPc[w] \notin {"none", "init"}
        /\ pc \notin {"spawn", "arrive"}

\* The process ends: nobody waits for an answer, at the barrier, for the mutex or in a join for ever.
Termination == <>~Running
===============================================================================
