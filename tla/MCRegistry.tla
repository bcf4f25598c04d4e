------------------------------ MODULE MCRegistry ------------------------------
(***************************************************************************)
(* The two programs that talk to a live Schema Registry, for TLC: the live *)
(* paths of the Registry benchmark or the evolution benchmark.  They use   *)
(* subjects of their own and never run at the same time, so that a         *)
(* behaviour is one of the one or of the other.                            *)
(***************************************************************************)
EXTENDS RegistryBench

CONSTANTS SubjectRepetitions, MaxRuns

VARIABLES
    program,  \* "registry" or "evolution"
    client, subject, phase, reply, versions, late, log, runs, emptied

Evolution == INSTANCE SchemaEvolution

ASSUME EvolutionAssumption == Evolution!Counts

evolutionVars == <<client, subject, phase, reply, versions, late, log, runs, emptied>>
mcVars == <<program, vars, evolutionVars>>

MCInit == program \in {"registry", "evolution"} /\ Init /\ Evolution!Init

RunRegistry == program = "registry" /\ Next /\ UNCHANGED <<program, evolutionVars>>

RunEvolution == program = "evolution" /\ Evolution!Next /\ UNCHANGED <<program, vars>>

MCNext == RunRegistry \/ RunEvolution

\* With the fairness of the two specifications.
MCSpec ==
    /\ MCInit /\ [][MCNext]_mcVars
    /\ WF_mcVars(program = "registry" /\ MainStep /\ UNCHANGED <<program, evolutionVars>>)
    /\ \A w \in Worker :
        WF_mcVars(program = "registry" /\ WorkerStep(w) /\ UNCHANGED <<program, evolutionVars>>)
    /\ WF_mcVars(program = "evolution" /\ Evolution!ClientStep /\ UNCHANGED <<program, vars>>)

-------------------------------------------------------------------------------
\* Every variable of both programs has its type.
TypesOK == TypeOK /\ Evolution!TypeOK

\* What the statuses of the evolution benchmark show: if both registrations of a repetition
\* succeeded, v2 came second on the subject of v1 and was checked against it.
SuccessShowsUpgrade == Evolution!SuccessShowsUpgrade

Over == IF program = "registry" THEN ~Running ELSE client \in {"done", "failed"}

\* Every run of either program ends: nobody waits for an answer, at the barrier, for the mutex
\* or in a join for ever, although the Registry may never answer.
RunsEnd == []<>Over
===============================================================================
