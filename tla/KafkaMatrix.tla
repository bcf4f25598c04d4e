----------------------------- MODULE KafkaMatrix -----------------------------
(***************************************************************************)
(* src/scripts/container_kafka_benchmark.sh and the report it ends with,    *)
(* src/scripts/kafka_report.py: invocation after invocation over one        *)
(* results directory.  An invocation either empties the directory or, with  *)
(* APPEND_RESULTS=1, numbers its runs after the CSV files it finds; it then *)
(* runs kafka_producer_benchmark once per selected configuration and writes *)
(* the report.  The script is `set -e': whatever fails ends it on the spot, *)
(* also half-way through the emptying, which unlinks one file at a time.    *)
(*                                                                          *)
(* A CSV file is its configuration and the number of its rows: the          *)
(* benchmark writes repetitions 1, 2, ... in order.  The rows reach the     *)
(* file when the stream is closed, so a kill leaves an empty file.          *)
(***************************************************************************)
EXTENDS Integers, Sequences, SequencesExt, FiniteSetsExt

CONSTANTS
    ConfigCount,     \* configurations, numbered in the order the nested loops visit them
    Contracts,       \* values of REPETITIONS
    RunLimits,       \* values of MAX_RUNS; 0 is no limit
    MaxInvocations   \* bound: invocations of the script in one behaviour

ASSUME MatrixAssumption ==
    /\ ConfigCount \in Nat \ {0}
    /\ Contracts \subseteq Nat \ {0}
    /\ RunLimits \subseteq Nat
    /\ MaxInvocations \in Nat

VARIABLES
    files,       \* kafka_producer_<n>.csv, by n
    report,      \* KAFKA_PRODUCER_REPORT.md, or NoReport
    torn,        \* history: files are left of a cleaning that has begun
    pc,          \* "ended", "clean", "loop", "bench", "write" (the report is due) or "reported"
    invocation,  \* invocations so far
    append,      \* APPEND_RESULTS = 1
    maxRuns, repetitions,  \* MAX_RUNS, REPETITIONS
    selected,    \* the configurations MODES, ACKS, ... select
    todo,        \* those of them the loops have not visited
    kept,        \* history: the files there were before the loops
    runIndex,    \* run_index
    measured     \* repetitions the running benchmark has completed

optionVars == <<append, maxRuns, repetitions, selected>>
vars == <<files, report, torn, pc, invocation, optionVars, todo, kept, runIndex, measured>>

Configs == 1 .. ConfigCount
NoReport == [configs |-> {}, runs |-> 0, repetitions |-> 0]
NoFiles == [n \in {} |-> 0]

Init ==
    /\ files = NoFiles /\ report = NoReport /\ torn = FALSE
    /\ pc = "ended" /\ invocation = 0
    /\ append = FALSE /\ maxRuns = 0 /\ repetitions = 0 /\ selected = {}
    /\ todo = {} /\ kept = 0 /\ runIndex = 0 /\ measured = 0

-------------------------------------------------------------------------------
(* The script *)

Invoke ==
    /\ pc \in {"ended", "reported"} /\ invocation < MaxInvocations
    /\ invocation' = invocation + 1
    /\ append' \in BOOLEAN
    /\ maxRuns' \in RunLimits
    /\ repetitions' \in Contracts
    /\ selected' \in SUBSET Configs \ {{}}
    /\ todo' = selected'
    /\ measured' = 0
    /\ pc' = "clean"
    /\ UNCHANGED <<files, report, torn, kept, runIndex>>

\* rm -f unlinks the files one by one: by name in the code, 10 before 2; in any order here.
RemoveFile ==
    /\ pc = "clean" /\ ~append
    /\ \E n \in DOMAIN files : files' = [m \in DOMAIN files \ {n} |-> files[m]]
    /\ torn' = TRUE
    /\ UNCHANGED <<report, pc, invocation, optionVars, todo, kept, runIndex, measured>>

\* Mutant: an appending invocation numbers from one again.
FirstIndexZero(keep) == 0

\* run_index before the loops: the number of CSV files kept.
FirstIndex(keep) == IF keep THEN Cardinality(DOMAIN files) ELSE 0

EnterLoops ==
    /\ pc = "clean" /\ (append \/ DOMAIN files = {})
    /\ torn' = (torn /\ append)
    /\ kept' = Cardinality(DOMAIN files)
    /\ runIndex' = FirstIndex(append)
    /\ pc' = "loop"
    /\ UNCHANGED <<files, report, invocation, optionVars, todo, measured>>

\* Mutant: the files are written one number too early.
FileNumberBefore == runIndex

\* The CSV of the run about to start.
FileNumber == runIndex + 1

\* The innermost loop body: the benchmark starts and opens, that is creates or empties, its CSV ...
StartBench ==
    /\ pc = "loop" /\ todo # {}
    /\ LET config == Min(todo) IN
        /\ files' = [n \in DOMAIN files \cup {FileNumber} |->
                        IF n = FileNumber THEN [config |-> config, rows |-> 0] ELSE files[n]]
        /\ todo' = todo \ {config}
    /\ runIndex' = runIndex + 1
    /\ measured' = 0
    /\ pc' = "bench"
    /\ UNCHANGED <<report, torn, invocation, optionVars, kept>>

\* ... or fails before it gets there: no producer, no topic, a bad option.
StartFails ==
    /\ pc = "loop" /\ todo # {}
    /\ runIndex' = runIndex + 1
    /\ pc' = "ended"
    /\ UNCHANGED <<files, report, torn, invocation, optionVars, todo, kept, measured>>

Repetition ==
    /\ pc = "bench" /\ measured < repetitions
    /\ measured' = measured + 1
    /\ UNCHANGED <<files, report, torn, pc, invocation, optionVars, todo, kept, runIndex>>

\* The stream is closed: every row measured so far is in the file.
CloseFile == files' = [files EXCEPT ![runIndex].rows = measured]

\* Mutant: the loops are left although MAX_RUNS sets no limit.
LimitReachedAlways == runIndex >= maxRuns

\* The test behind `break 5'.
LimitReached == maxRuns > 0 /\ runIndex >= maxRuns

\* The benchmark returns 0, and the loops go on or are left.
BenchDone ==
    /\ pc = "bench" /\ measured = repetitions
    /\ CloseFile
    /\ pc' = IF LimitReached \/ todo = {} THEN "write" ELSE "loop"
    /\ UNCHANGED <<report, torn, invocation, optionVars, todo, kept, runIndex, measured>>

\* An exception: main returns 1 after closing the file, and `set -e' ends the script.
BenchThrows ==
    /\ pc = "bench" /\ measured < repetitions
    /\ CloseFile
    /\ pc' = "ended"
    /\ UNCHANGED <<report, torn, invocation, optionVars, todo, kept, runIndex, measured>>

\* The container is killed, or, while cleaning, rm fails at a file, which ends the script as well.
Killed ==
    /\ pc \in {"clean", "loop", "bench", "write"}
    /\ pc' = "ended"
    /\ UNCHANGED <<files, report, torn, invocation, optionVars, todo, kept, runIndex, measured>>

-------------------------------------------------------------------------------
(* kafka_report.py *)

Reported == {files[n].config : n \in {m \in DOMAIN files : files[m].rows > 0}}

\* The repetition column of a configuration's rows, file after file (in any order here; the code
\* sorts by name, and Valid cannot tell: two files that both have rows never pass).
Rows(config) ==
    LET own == SetToSeq({n \in DOMAIN files : files[n].config = config})
    IN  FlattenSeq([k \in DOMAIN own |-> [r \in 1 .. files[own[k]].rows |-> r]])

\* Mutant: validate_rows only counts.
ValidByCount(config) == Len(Rows(config)) = repetitions

\* validate_rows: the rows are repetitions 1 to REPETITIONS, once each and in order.
Valid(config) == Rows(config) = [r \in 1 .. repetitions |-> r]

\* The metadata is written, then the report.
WriteReport ==
    /\ pc = "write"
    /\ Reported # {} /\ \A config \in Reported : Valid(config)
    /\ report' = [configs |-> Reported, runs |-> runIndex, repetitions |-> repetitions]
    /\ pc' = "reported"
    /\ UNCHANGED <<files, torn, invocation, optionVars, todo, kept, runIndex, measured>>

\* SystemExit: the report of an earlier invocation stays where it is.
RefuseReport ==
    /\ pc = "write"
    /\ Reported = {} \/ \E config \in Reported : ~Valid(config)
    /\ pc' = "ended"
    /\ UNCHANGED <<files, report, torn, invocation, optionVars, todo, kept, runIndex, measured>>

-------------------------------------------------------------------------------
ScriptStep ==
    \/ RemoveFile \/ EnterLoops \/ StartBench \/ StartFails \/ Repetition \/ BenchDone \/ BenchThrows
    \/ WriteReport \/ RefuseReport

\* Nobody invokes the script again.
Idle == pc \in {"ended", "reported"} /\ UNCHANGED vars

Next == Invoke \/ ScriptStep \/ Killed \/ Idle

Spec == Init /\ [][Next]_vars

-------------------------------------------------------------------------------
(* Properties *)

TypeOK ==
    /\ DOMAIN files \subseteq Nat
    /\ \A n \in DOMAIN files : files[n] \in [config : Configs, rows : Nat]
    /\ report \in [configs : SUBSET Configs, runs : Nat, repetitions : Nat]
    /\ pc \in {"ended", "clean", "loop", "bench", "write", "reported"}
    /\ invocation \in 0 .. MaxInvocations
    /\ torn \in BOOLEAN
    /\ append \in BOOLEAN /\ maxRuns \in Nat /\ repetitions \in Nat
    /\ selected \subseteq Configs /\ todo \subseteq selected
    /\ kept \in Nat /\ runIndex \in Nat /\ measured \in 0 .. repetitions
    /\ pc = "bench" => runIndex \in DOMAIN files

\* "Every configuration has one CSV file with all repetitions": a reported configuration
\* was measured by a single run of the benchmark, completely, and never pieced together
\* from the leftovers of several failed ones.
ReportedInOneRun ==
    pc = "reported" => \A config \in report.configs :
        \E n \in DOMAIN files :
            /\ files[n] = [config |-> config, rows |-> report.repetitions]
            /\ \A m \in DOMAIN files \ {n} : files[m].config = config => files[m].rows = 0

\* The configurations the invocation has run.
Visited == selected \ todo

\* The report of an invocation covers exactly what the invocation was asked for: its selection
\* in the order of the loops, ended early by MAX_RUNS alone.  The limit counts the files kept;
\* one run is done even where they have used it up.  Only appending reports on anything else.
CoversSelection ==
    pc = "reported" =>
        /\ Visited \subseteq report.configs /\ (~append => report.configs = Visited)
        /\ \A config \in Visited, later \in todo : config < later
        /\ todo = {} \/ (maxRuns > 0 /\ kept + Cardinality(Visited) >= maxRuns)
        /\ Cardinality(Visited) >= 1
        /\ maxRuns > 0 => Cardinality(Visited) = 1 \/ kept + Cardinality(Visited) =< maxRuns

\* Only a cleaning that was cut short makes a later run open, and empty, a CSV file that exists:
\* in a directory without such leftovers no measurement is overwritten, whatever failed and
\* however often the script was resumed.
OverwritesOnlyLeftovers ==
    [][\A n \in DOMAIN files \cap DOMAIN files' :
            files'[n] = files[n] \/ (pc = "bench" /\ n = runIndex) \/ torn]_vars

\* The report's "Configurations" is the run counter: every CSV file counts, the empty ones of
\* runs that failed before their first row too, and after a cleaning cut short more than there are.
RunsCountFiles ==
    pc = "reported" =>
        /\ Cardinality(DOMAIN files) =< report.runs
        /\ ~torn => report.runs = Cardinality(report.configs)
                                    + Cardinality({n \in DOMAIN files : files[n].rows = 0})
===============================================================================
