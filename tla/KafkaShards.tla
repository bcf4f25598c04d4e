----------------------------- MODULE KafkaShards -----------------------------
(***************************************************************************)
(* The Kafka half of src/.github/workflows/amd64-benchmark-sharded.yml: one *)
(* job per shard checks the repository out, runs benchmark_kafka.sh over    *)
(* its part of the matrix (see KafkaMatrix; APPEND_RESULTS is 0 here) and   *)
(* uploads the whole of results/, failed or not; when every job has ended   *)
(* one more job merges the artifacts (src/scripts/merge_kafka_results.py)   *)
(* and writes the report (src/scripts/kafka_report.py).                     *)
(*                                                                          *)
(* A CSV file is the configurations it has rows of, the number of its rows, *)
(* the directory it lies in and whether this run of the workflow wrote it.  *)
(***************************************************************************)
EXTENDS Integers, FiniteSetsExt

CONSTANTS
    Shards,       \* the strategy's matrix: mode x acks
    ConfigCount,  \* configurations of a shard, in the order of its loops
    Repetitions,  \* REPETITIONS, and EXPECTED_REPETITIONS of the merge
    Checkouts     \* which results/ are under version control: "none", "measured", "assembled"

ASSUME ShardsAssumption ==
    /\ IsFiniteSet(Shards) /\ Shards # {}
    /\ ConfigCount \in Nat \ {0}
    /\ Repetitions \in Nat \ {0}
    /\ Checkouts \subseteq {"none", "measured", "assembled"}

VARIABLES
    checkout,  \* the one of Checkouts this run of the workflow is started from
    shardPc,   \* per shard: "checkout", "loop", "upload" or "ended"
    visited,   \* per shard: configurations its loops have run
    results,   \* per shard: the CSV files under its results/
    uploaded,  \* per shard: its artifact
    assembly,  \* the last job: "waiting", "report", "reported" or "failed"
    merged,    \* the files whose rows are in kafka_producer_merged.csv
    report     \* configurations of the report

vars == <<checkout, shardPc, visited, results, uploaded, assembly, merged, report>>

Config == Shards \X (1 .. ConfigCount)

File(configs, rows, place, run) == [configs |-> configs, rows |-> rows, place |-> place, run |-> run]

\* The CSV files a local run of the matrix left in results/, and, once a run of this workflow
\* has been committed, its results/amd64/kafka_producer_merged.csv (and the shards' files it
\* keeps below results/amd64/kafka-shards, whose rows the merge would take once more).
MeasuredBefore == {File({c}, Repetitions, "results", "old") : c \in Config}
AssembledBefore ==
    MeasuredBefore \cup {File(Config, Cardinality(Config) * Repetitions, "amd64", "old")}

\* Mutant: the job runs in a working directory an earlier one has left.
CheckoutReused(kind) == IF kind = "assembled" THEN AssembledBefore ELSE MeasuredBefore

\* What results/ holds when the script starts.
Checkout(kind) ==
    CASE kind = "none" -> {} [] kind = "measured" -> MeasuredBefore [] kind = "assembled" -> AssembledBefore

Init ==
    /\ checkout \in Checkouts
    /\ shardPc = [s \in Shards |-> "checkout"] /\ visited = [s \in Shards |-> 0]
    /\ results = [s \in Shards |-> Checkout(checkout)] /\ uploaded = [s \in Shards |-> {}]
    /\ assembly = "waiting" /\ merged = {} /\ report = {}

jobVars == <<assembly, merged, report>>

-------------------------------------------------------------------------------
(* A shard's job *)

\* container_kafka_benchmark.sh gets to its `rm -f' in RESULTS_DIR, which is results/ itself.
ShardCleans(s) ==
    /\ shardPc[s] = "checkout"
    /\ results' = [results EXCEPT ![s] = {f \in @ : f.place # "results"}]
    /\ shardPc' = [shardPc EXCEPT ![s] = "loop"]
    /\ UNCHANGED <<checkout, visited, uploaded, jobVars>>

\* Mutant: the loop goes once too often.
MoreConfigsLate(s) == visited[s] =< ConfigCount

MoreConfigs(s) == visited[s] < ConfigCount

\* The next configuration is measured.
ShardMeasures(s) ==
    /\ shardPc[s] = "loop" /\ MoreConfigs(s)
    /\ results' = [results EXCEPT ![s] = @ \cup {File({<<s, visited[s] + 1>>}, Repetitions, "results", "this")}]
    /\ visited' = [visited EXCEPT ![s] = @ + 1]
    /\ UNCHANGED <<checkout, shardPc, uploaded, jobVars>>

\* All are: the script ends well.
ShardDone(s) ==
    /\ shardPc[s] = "loop" /\ ~MoreConfigs(s)
    /\ shardPc' = [shardPc EXCEPT ![s] = "upload"]
    /\ UNCHANGED <<checkout, visited, results, uploaded, jobVars>>

\* A step fails or the job runs out of time: before the cleaning, between two runs or within
\* one, whose CSV then has the rows measured so far, or is not there.
ShardFails(s) ==
    /\ shardPc[s] \in {"checkout", "loop"}
    /\ \/ UNCHANGED results
       \/ /\ shardPc[s] = "loop" /\ MoreConfigs(s)
          /\ \E rows \in 0 .. Repetitions - 1 :
                results' = [results EXCEPT ![s] = @ \cup
                    {File(IF rows = 0 THEN {} ELSE {<<s, visited[s] + 1>>}, rows, "results", "this")}]
    /\ shardPc' = [shardPc EXCEPT ![s] = "upload"]
    /\ UNCHANGED <<checkout, visited, uploaded, jobVars>>

\* `if: always()'
ShardUploads(s) ==
    /\ shardPc[s] = "upload"
    /\ uploaded' = [uploaded EXCEPT ![s] = results[s]]
    /\ shardPc' = [shardPc EXCEPT ![s] = "ended"]
    /\ UNCHANGED <<checkout, visited, results, jobVars>>

\* The runner is lost before the upload, or the upload fails.
ShardLost(s) ==
    /\ shardPc[s] # "ended"
    /\ shardPc' = [shardPc EXCEPT ![s] = "ended"]
    /\ UNCHANGED <<checkout, visited, results, uploaded, jobVars>>

-------------------------------------------------------------------------------
(* The assembling job *)

\* Mutants: the job does not wait for the shards to end; it needs all of them to succeed.
ShardsStarted == \A s \in Shards : shardPc[s] # "checkout"
ShardsSucceeded == \A s \in Shards : shardPc[s] = "ended" /\ visited[s] = ConfigCount

\* `needs: [core, kafka]' with `if: always()'
ShardsEnded == \A s \in Shards : shardPc[s] = "ended"

\* The artifacts, one directory per shard.
Artifacts == UNION {{[shard |-> s, file |-> f] : f \in uploaded[s]} : s \in Shards}

\* A file the merge takes: repetitions 1 to EXPECTED_REPETITIONS.
Merges(f) == f.rows = Repetitions

\* merge_kafka_results.py searches all of the artifacts, subdirectories included.
Merge ==
    /\ assembly = "waiting" /\ ShardsEnded
    /\ Artifacts # {} /\ \A a \in Artifacts : Merges(a.file)
    /\ merged' = Artifacts
    /\ assembly' = "report"
    /\ UNCHANGED <<checkout, shardPc, visited, results, uploaded, report>>

MergeFails ==
    /\ assembly = "waiting" /\ ShardsEnded
    /\ Artifacts = {} \/ \E a \in Artifacts : ~Merges(a.file)
    /\ assembly' = "failed"
    /\ UNCHANGED <<checkout, shardPc, visited, results, uploaded, merged, report>>

\* validate_rows: Repetitions rows of every configuration that has any.
RowsOf(config) == MapThenSumSet(LAMBDA a : a.file.rows, {a \in merged : config \in a.file.configs})
MergedConfigs == UNION {a.file.configs : a \in merged}

Report ==
    /\ assembly = "report"
    /\ \A config \in MergedConfigs : RowsOf(config) = Repetitions
    /\ report' = MergedConfigs
    /\ assembly' = "reported"
    /\ UNCHANGED <<checkout, shardPc, visited, results, uploaded, merged>>

ReportFails ==
    /\ assembly = "report"
    /\ \E config \in MergedConfigs : RowsOf(config) # Repetitions
    /\ assembly' = "failed"
    /\ UNCHANGED <<checkout, shardPc, visited, results, uploaded, merged, report>>

-------------------------------------------------------------------------------
ShardStep(s) ==
    ShardCleans(s) \/ ShardMeasures(s) \/ ShardDone(s) \/ ShardFails(s) \/ ShardUploads(s) \/ ShardLost(s)

AssembleStep == Merge \/ MergeFails \/ Report \/ ReportFails

\* The workflow run is over.
Over == assembly \in {"reported", "failed"} /\ ShardsEnded /\ UNCHANGED vars

Next == (\E s \in Shards : ShardStep(s)) \/ AssembleStep \/ Over

Spec == Init /\ [][Next]_vars

\* timeout-minutes ends every job; the last one is started whatever became of the others.
FairSpec == Spec /\ WF_vars(AssembleStep) /\ \A s \in Shards : WF_vars(ShardStep(s))

-------------------------------------------------------------------------------
(* Properties *)

CsvFile == {f \in [configs : {{}, Config} \cup {{c} : c \in Config}, rows : 0 .. Cardinality(Config) * Repetitions,
                    place : {"results", "amd64"}, run : {"this", "old"}] : f.configs = {} => f.rows = 0}

TypeOK ==
    /\ checkout \in Checkouts
    /\ shardPc \in [Shards -> {"checkout", "loop", "upload", "ended"}]
    /\ visited \in [Shards -> 0 .. ConfigCount]
    /\ results \in [Shards -> SUBSET CsvFile] /\ uploaded \in [Shards -> SUBSET CsvFile]
    /\ assembly \in {"waiting", "report", "reported", "failed"}
    /\ \A a \in merged : a.shard \in Shards /\ a.file \in CsvFile
    /\ report \subseteq Config

\* This run of the workflow has all the measurements of a configuration, in its shard's artifact.
Measured(config) == File({config}, Repetitions, "results", "this") \in uploaded[config[1]]

\* "The assembled report": whatever shards failed or were lost, at whatever point, every
\* configuration it lists was measured completely, by its own shard, in this run.  It takes a
\* checkout without results: two shards that fail before their cleaning upload what it holds.
AssembledIsMeasured == checkout = "none" => \A config \in report : Measured(config)

\* When every shard has measured its part, the report is written and has the full matrix.
CompleteShardsAssemble ==
    assembly \in {"reported", "failed"} /\ (\A config \in Config : Measured(config))
        => assembly = "reported" /\ report = Config

\* The last job ends, in a report or a failure, even if shards fail.
Termination == <>(assembly \in {"reported", "failed"})
===============================================================================
