--------------------------- MODULE KafkaShardsProofs ---------------------------
(***************************************************************************)
(* Proofs about KafkaShards, for any number of shards, of configurations   *)
(* and of repetitions: from a clean checkout the assembled report lists    *)
(* only what its own shards measured, wherever they failed or were lost;   *)
(* and unless an assembled report is checked out, shards that have         *)
(* measured all of their part assemble the whole matrix.  Last, that every *)
(* step of a workflow lowers a number.                                     *)
(***************************************************************************)
EXTENDS KafkaShards, FiniteSetTheorems, TLAPS

-------------------------------------------------------------------------------
(* The inductive invariant *)

\* A file of the shard: complete, and then of one configuration, or cut short.
OwnFile(s, f) ==
    \/ \E c \in 1 .. ConfigCount : f = File({<<s, c>>}, Repetitions, "results", "this")
    \/ f.rows # Repetitions

\* The shards of a clean checkout have files of their own and nothing else.
Own == checkout = "none" => \A s \in Shards : \A f \in results[s] \cup uploaded[s] : OwnFile(s, f)

\* What is merged and reported is in the artifacts, which are final by then.
Assembled ==
    /\ IF assembly = "waiting" THEN merged = {} /\ report = {} ELSE ShardsEnded
    /\ \A a \in merged : a.shard \in Shards /\ a.file \in uploaded[a.shard] /\ a.file.rows = Repetitions

Inv == TypeOK /\ Own /\ Assembled /\ AssembledIsMeasured

-------------------------------------------------------------------------------
(* Files *)

\* A matrix has at least as many rows as one of its configurations.
LEMMA MatrixSize ==
    /\ Repetitions \in Nat \ {0} /\ ConfigCount \in Nat \ {0}
    /\ Cardinality(Config) * Repetitions \in Nat
    /\ \A c \in Config : Repetitions =< Cardinality(Config) * Repetitions
    /\ Config = {} => Cardinality(Config) * Repetitions = 0
<1>1. IsFiniteSet(Config)
  <2>1. IsFiniteSet(1 .. ConfigCount)
    BY ShardsAssumption, FS_Interval
  <2>. QED BY <2>1, ShardsAssumption, FS_Product DEF Config
<1>2. Cardinality(Config) \in Nat /\ (Cardinality(Config) = 0 <=> Config = {})
  BY <1>1, FS_CardinalityType, FS_EmptySet
<1>3. Repetitions \in Nat \ {0} /\ ConfigCount \in Nat \ {0}
  BY ShardsAssumption
<1>4. \A m, n \in Nat : m * n \in Nat /\ (m # 0 => n =< m * n)
  OBVIOUS
<1>5. Cardinality(Config) * Repetitions \in Nat
  BY <1>2, <1>3, <1>4
<1>6. \A c \in Config : Repetitions =< Cardinality(Config) * Repetitions
  BY <1>2, <1>3, <1>4
<1>7. Config = {} => Cardinality(Config) * Repetitions = 0
  BY <1>2, <1>3
<1>. QED BY <1>3, <1>5, <1>6, <1>7

\* A matrix run leaves files of the type, complete or not.
LEMMA FileTyped ==
    ASSUME NEW c \in Config, NEW rows \in 0 .. Repetitions, NEW run \in {"this", "old"}
    PROVE  /\ File({c}, rows, "results", run) \in CsvFile
           /\ File({}, 0, "results", run) \in CsvFile
<1>1. rows \in 0 .. Cardinality(Config) * Repetitions /\ 0 \in 0 .. Cardinality(Config) * Repetitions
  BY MatrixSize
<1>. HIDE DEF Config
<1>. QED BY <1>1 DEF File, CsvFile

\* The fields of a file.
LEMMA FileFields ==
    ASSUME NEW configs, NEW rows, NEW place, NEW run
    PROVE  /\ File(configs, rows, place, run).configs = configs
           /\ File(configs, rows, place, run).rows = rows
<1>. QED BY DEF File

\* So are the files of a checkout, and a clean one has none.
LEMMA CheckoutTyped ==
    /\ \A kind \in Checkouts : Checkout(kind) \in SUBSET CsvFile
    /\ Checkout("none") = {}
<1>1. MeasuredBefore \in SUBSET CsvFile
  <2>1. Repetitions \in 0 .. Repetitions
    BY MatrixSize
  <2>. QED BY <2>1, FileTyped DEF MeasuredBefore
<1>2. File(Config, Cardinality(Config) * Repetitions, "amd64", "old") \in CsvFile
  <2>1. Cardinality(Config) * Repetitions \in 0 .. Cardinality(Config) * Repetitions
    BY MatrixSize
  <2>. QED BY <2>1, MatrixSize DEF File, CsvFile
<1>3. AssembledBefore \in SUBSET CsvFile
  BY <1>1, <1>2 DEF AssembledBefore
<1>. QED BY <1>1, <1>3, ShardsAssumption DEF Checkout

\* A complete file of a shard is the measurement of its configuration.
LEMMA OwnComplete ==
    ASSUME NEW s \in Shards, NEW f, OwnFile(s, f), f.rows = Repetitions, f \in uploaded[s]
    PROVE  \A config \in f.configs : Measured(config)
<1>1. PICK c \in 1 .. ConfigCount : f = File({<<s, c>>}, Repetitions, "results", "this")
  BY DEF OwnFile
<1>2. f.configs = {<<s, c>>}
  BY <1>1, FileFields
<1>. QED BY <1>1, <1>2 DEF Measured

-------------------------------------------------------------------------------
(* The steps *)

\* A clean checkout has no file, and nothing is assembled.
LEMMA InitInv == Init => Inv
<1>. SUFFICES ASSUME Init PROVE Inv
  OBVIOUS
<1>. USE DEF Init
<1>1. TypeOK
  <2>1. results \in [Shards -> SUBSET CsvFile] /\ uploaded \in [Shards -> SUBSET CsvFile]
    BY CheckoutTyped
  <2>. QED BY <2>1, MatrixSize DEF TypeOK
<1>2. Own
  BY CheckoutTyped DEF Own
<1>3. Assembled /\ AssembledIsMeasured
  BY DEF Assembled, AssembledIsMeasured
<1>. QED BY <1>1, <1>2, <1>3 DEF Inv

\* A shard that works adds a file of its own, or loses files; its artifact comes later.
LEMMA WorkInv ==
    ASSUME NEW s \in Shards, Inv,
           shardPc' \in [Shards -> {"checkout", "loop", "upload", "ended"}],
           visited' \in [Shards -> 0 .. ConfigCount],
           shardPc[s] # "ended" \/ shardPc' = shardPc,
           results' \in [Shards -> SUBSET CsvFile],
           \A t \in Shards : t # s => results'[t] = results[t],
           \A f \in results'[s] : f \in results[s] \/ OwnFile(s, f),
           UNCHANGED <<checkout, uploaded, jobVars>>
    PROVE  Inv'
<1>2. TypeOK'
  BY DEF Inv, TypeOK, jobVars
<1>3. Own'
  <2>. SUFFICES ASSUME checkout = "none", NEW t \in Shards, NEW f \in results'[t] \cup uploaded[t]
                PROVE  OwnFile(t, f)
    BY DEF Own, OwnFile
  <2>1. \/ f \in results[t] \cup uploaded[t]
        \/ OwnFile(t, f)
    OBVIOUS
  <2>. QED BY <2>1 DEF Inv, Own
<1>4. Assembled'
  BY DEF Inv, Assembled, jobVars, ShardsEnded
<1>5. AssembledIsMeasured'
  BY DEF Inv, AssembledIsMeasured, Measured, jobVars
<1>. QED BY <1>2, <1>3, <1>4, <1>5 DEF Inv

\* No step of a shard brings a file that is not its own.
LEMMA ShardInv ==
    ASSUME NEW s \in Shards, Inv,
           \/ ShardCleans(s) \/ ShardMeasures(s) \/ ShardDone(s) \/ ShardFails(s) \/ ShardLost(s)
    PROVE  Inv'
<1>. USE DEF jobVars
<1>1. /\ shardPc \in [Shards -> {"checkout", "loop", "upload", "ended"}]
      /\ visited \in [Shards -> 0 .. ConfigCount] /\ visited[s] \in 0 .. ConfigCount
      /\ results \in [Shards -> SUBSET CsvFile]
  BY DEF Inv, TypeOK
<1>2. \A p \in {"checkout", "loop", "upload", "ended"} :
        [shardPc EXCEPT ![s] = p] \in [Shards -> {"checkout", "loop", "upload", "ended"}]
  BY <1>1
<1>3. ASSUME NEW rows \in 0 .. Repetitions, MoreConfigs(s),
             NEW f, f = File(IF rows = 0 THEN {} ELSE {<<s, visited[s] + 1>>}, rows, "results", "this")
      PROVE  f \in CsvFile /\ OwnFile(s, f)
  <2>1. visited[s] + 1 \in 1 .. ConfigCount
    BY <1>1, <1>3, MatrixSize DEF MoreConfigs
  <2>2. <<s, visited[s] + 1>> \in Config
    BY <2>1 DEF Config
  <2>3. f \in CsvFile
    BY <1>3, <2>2, FileTyped
  <2>4. CASE rows = Repetitions
    <3>1. rows # 0 /\ f = File({<<s, visited[s] + 1>>}, Repetitions, "results", "this")
      BY <1>3, <2>4, MatrixSize
    <3>. QED BY <2>1, <2>3, <3>1 DEF OwnFile
  <2>5. CASE rows # Repetitions
    <3>1. f.rows = rows
      BY <1>3 DEF File
    <3>. QED BY <2>3, <2>5, <3>1 DEF OwnFile
  <2>. QED BY <2>3, <2>4, <2>5
<1>4. ASSUME NEW f \in CsvFile, OwnFile(s, f), results' = [results EXCEPT ![s] = results[s] \cup {f}]
      PROVE  /\ results' \in [Shards -> SUBSET CsvFile]
             /\ \A t \in Shards : t # s => results'[t] = results[t]
             /\ \A g \in results'[s] : g \in results[s] \/ OwnFile(s, g)
  <2>1. results'[s] = results[s] \cup {f} /\ results[s] \in SUBSET CsvFile
    BY <1>1, <1>4
  <2>. QED BY <1>1, <1>4, <2>1
<1>5. CASE ShardCleans(s)
  <2>1. /\ results' = [results EXCEPT ![s] = {f \in results[s] : f.place # "results"}]
        /\ shardPc[s] = "checkout" /\ shardPc' = [shardPc EXCEPT ![s] = "loop"]
        /\ UNCHANGED <<checkout, visited, uploaded, assembly, merged, report>>
    BY <1>5 DEF ShardCleans
  <2>2. /\ results' \in [Shards -> SUBSET CsvFile] /\ results'[s] \subseteq results[s]
        /\ \A t \in Shards : t # s => results'[t] = results[t]
    BY <1>1, <2>1
  <2>. QED BY <1>1, <1>2, <2>1, <2>2, WorkInv
<1>6. CASE ShardMeasures(s)
  <2>. DEFINE f == File({<<s, visited[s] + 1>>}, Repetitions, "results", "this")
  <2>1. /\ results' = [results EXCEPT ![s] = results[s] \cup {f}]
        /\ MoreConfigs(s) /\ shardPc' = shardPc /\ visited' = [visited EXCEPT ![s] = visited[s] + 1]
        /\ UNCHANGED <<checkout, uploaded, assembly, merged, report>>
    BY <1>6 DEF ShardMeasures
  <2>2. visited' \in [Shards -> 0 .. ConfigCount]
    BY <1>1, <2>1, MatrixSize DEF MoreConfigs
  <2>3. f \in CsvFile /\ OwnFile(s, f)
    BY <1>3, <2>1, MatrixSize
  <2>. HIDE DEF f
  <2>. QED BY <1>1, <1>4, <2>1, <2>2, <2>3, WorkInv
<1>7. CASE ShardDone(s) \/ ShardLost(s)
  <2>1. /\ shardPc[s] # "ended" /\ results' = results
        /\ shardPc' = [shardPc EXCEPT ![s] = "upload"] \/ shardPc' = [shardPc EXCEPT ![s] = "ended"]
        /\ UNCHANGED <<checkout, visited, uploaded, assembly, merged, report>>
    BY <1>7 DEF ShardDone, ShardLost
  <2>. QED BY <1>1, <1>2, <2>1, WorkInv
<1>8. CASE ShardFails(s)
  <2>1. /\ shardPc[s] # "ended" /\ shardPc' = [shardPc EXCEPT ![s] = "upload"]
        /\ UNCHANGED <<checkout, visited, uploaded, assembly, merged, report>>
    BY <1>8 DEF ShardFails
  <2>2. CASE results' = results
    BY <1>1, <1>2, <2>1, <2>2, WorkInv
  <2>3. CASE results' # results
    <3>1. PICK rows \in 0 .. Repetitions - 1 :
            /\ MoreConfigs(s)
            /\ results' = [results EXCEPT ![s] = results[s] \cup
                {File(IF rows = 0 THEN {} ELSE {<<s, visited[s] + 1>>}, rows, "results", "this")}]
      BY <1>8, <2>3 DEF ShardFails
    <3>. DEFINE f == File(IF rows = 0 THEN {} ELSE {<<s, visited[s] + 1>>}, rows, "results", "this")
    <3>2. rows \in 0 .. Repetitions
      BY MatrixSize
    <3>3. f \in CsvFile /\ OwnFile(s, f)
      BY <1>3, <3>1, <3>2
    <3>4. results' = [results EXCEPT ![s] = results[s] \cup {f}]
      BY <3>1
    <3>. HIDE DEF f
    <3>. QED BY <1>1, <1>2, <1>4, <2>1, <3>3, <3>4, WorkInv
  <2>. QED BY <2>2, <2>3
<1>. QED BY <1>5, <1>6, <1>7, <1>8

\* What a shard uploads before it ends nobody has merged.
LEMMA UploadInv == ASSUME NEW s \in Shards, Inv, ShardUploads(s) PROVE Inv'
<1>1. /\ shardPc[s] = "upload" /\ uploaded' = [uploaded EXCEPT ![s] = results[s]]
      /\ shardPc' = [shardPc EXCEPT ![s] = "ended"]
      /\ UNCHANGED <<checkout, visited, results, assembly, merged, report>>
  BY DEF ShardUploads, jobVars
<1>2. assembly = "waiting" /\ merged = {} /\ report = {}
  BY <1>1 DEF Inv, Assembled, ShardsEnded
<1>3. /\ results \in [Shards -> SUBSET CsvFile] /\ uploaded \in [Shards -> SUBSET CsvFile]
      /\ uploaded' \in [Shards -> SUBSET CsvFile]
  BY <1>1 DEF Inv, TypeOK
<1>4. TypeOK'
  BY <1>1, <1>3 DEF Inv, TypeOK
<1>5. Own'
  <2>. SUFFICES ASSUME checkout = "none", NEW t \in Shards, NEW f \in results[t] \cup uploaded'[t]
                PROVE  OwnFile(t, f)
    BY <1>1 DEF Own, OwnFile
  <2>1. f \in results[t] \cup uploaded[t]
    BY <1>1, <1>3
  <2>. QED BY <2>1 DEF Inv, Own
<1>6. Assembled' /\ AssembledIsMeasured'
  BY <1>1, <1>2 DEF Assembled, AssembledIsMeasured
<1>. QED BY <1>4, <1>5, <1>6 DEF Inv

\* The merge takes complete files, and the report the configurations they are of.
LEMMA AssembleInv == Inv /\ (AssembleStep \/ UNCHANGED vars) => Inv'
<1>. SUFFICES ASSUME Inv, AssembleStep \/ UNCHANGED vars PROVE Inv'
  OBVIOUS
<1>1. UNCHANGED <<checkout, shardPc, visited, results, uploaded>>
  BY DEF AssembleStep, Merge, MergeFails, Report, ReportFails, vars
<1>2. Own' /\ ShardsEnded' = ShardsEnded /\ \A config : Measured(config)' <=> Measured(config)
  BY <1>1 DEF Inv, Own, OwnFile, ShardsEnded, Measured
<1>3. CASE Merge
  <2>1. /\ assembly = "waiting" /\ ShardsEnded /\ merged' = Artifacts /\ assembly' = "report"
        /\ report' = report /\ report = {}
        /\ \A a \in Artifacts : a.file.rows = Repetitions
    BY <1>3 DEF Merge, Merges, Inv, Assembled
  <2>2. \A a \in Artifacts : a.shard \in Shards /\ a.file \in uploaded[a.shard]
    BY DEF Artifacts
  <2>3. \A a \in Artifacts : a.file \in CsvFile
    BY <2>2 DEF Inv, TypeOK
  <2>4. TypeOK'
    BY <1>1, <2>1, <2>2, <2>3 DEF Inv, TypeOK
  <2>5. Assembled'
    BY <1>1, <1>2, <2>1, <2>2 DEF Assembled
  <2>6. AssembledIsMeasured'
    BY <2>1 DEF AssembledIsMeasured
  <2>. QED BY <1>2, <2>4, <2>5, <2>6 DEF Inv
<1>4. CASE Report
  <2>1. /\ assembly = "report" /\ assembly' = "reported" /\ merged' = merged /\ report' = MergedConfigs
    BY <1>4 DEF Report
  <2>2. \A a \in merged : /\ a.shard \in Shards /\ a.file \in uploaded[a.shard]
                           /\ a.file.rows = Repetitions /\ a.file \in CsvFile
    BY DEF Inv, Assembled, TypeOK
  <2>3. \A f \in CsvFile : f.configs \subseteq Config
    BY DEF CsvFile
  <2>4. TypeOK'
    <3>1. MergedConfigs \subseteq Config
      BY <2>2, <2>3 DEF MergedConfigs
    <3>. QED BY <1>1, <2>1, <3>1 DEF Inv, TypeOK
  <2>5. Assembled'
    BY <1>1, <1>2, <2>1 DEF Inv, Assembled
  <2>6. AssembledIsMeasured'
    <3>. SUFFICES ASSUME checkout = "none", NEW config \in MergedConfigs PROVE Measured(config)
      BY <1>1, <1>2, <2>1 DEF AssembledIsMeasured
    <3>1. PICK a \in merged : config \in a.file.configs
      BY DEF MergedConfigs
    <3>2. OwnFile(a.shard, a.file)
      BY <2>2, <3>1 DEF Inv, Own
    <3>. QED BY <2>2, <3>1, <3>2, OwnComplete
  <2>. QED BY <1>2, <2>4, <2>5, <2>6 DEF Inv
<1>5. CASE MergeFails \/ ReportFails \/ UNCHANGED vars
  <2>1. /\ merged' = merged /\ report' = report
        /\ \/ assembly' = assembly
           \/ assembly' = "failed" /\ ShardsEnded
    BY <1>5 DEF MergeFails, ReportFails, vars, Inv, Assembled
  <2>2. TypeOK'
    BY <1>1, <2>1 DEF Inv, TypeOK
  <2>3. Assembled' /\ AssembledIsMeasured'
    BY <1>1, <1>2, <2>1 DEF Inv, Assembled, AssembledIsMeasured
  <2>. QED BY <1>2, <2>2, <2>3 DEF Inv
<1>. QED BY <1>3, <1>4, <1>5 DEF AssembleStep

-------------------------------------------------------------------------------
(* Theorems *)

\* The invariant holds however the jobs fail and in whatever order they end.
THEOREM Invariance == Spec => []Inv
<1>1. Inv /\ [Next]_vars => Inv'
  BY ShardInv, UploadInv, AssembleInv DEF Next, ShardStep, Over
<1>. QED BY <1>1, InitInv, PTL DEF Spec

\* Every variable keeps its type: no file has more rows than the matrix.
THEOREM Typing == Spec => []TypeOK
<1>1. Inv => TypeOK
  BY DEF Inv
<1>. QED BY <1>1, Invariance, PTL

\* From a clean checkout every configuration of the report was measured completely, by its own
\* shard, in this run of the workflow.
THEOREM ReportIsMeasured == Spec => []AssembledIsMeasured
<1>1. Inv => AssembledIsMeasured
  BY DEF Inv
<1>. QED BY <1>1, Invariance, PTL

-------------------------------------------------------------------------------
(* The whole matrix *)

\* The file of a configuration whose run ended well.
Complete(s, k) == File({<<s, k>>}, Repetitions, "results", "this")

\* Files a shard may have: none of this run; or those of the configurations visited, and what
\* a failed run left behind them.
Tidy(s, fs) ==
    \/ \A f \in fs : f.run = "old"
    \/ /\ \A k \in 1 .. ConfigCount : Complete(s, k) \in fs <=> k =< visited[s]
       /\ \A f \in fs : (\E k \in 1 .. visited[s] : f = Complete(s, k)) \/ visited[s] < ConfigCount

\* Where no assembled report is checked out, a shard's cleaning leaves nothing of its checkout.
Tidied ==
    checkout # "assembled" =>
        /\ \A s \in Shards :
            /\ shardPc[s] = "checkout" =>
                /\ \A f \in results[s] : f.run = "old" /\ f.place = "results"
                /\ visited[s] = 0
            /\ shardPc[s] = "loop" =>
                /\ \A k \in 1 .. ConfigCount : Complete(s, k) \in results[s] <=> k =< visited[s]
                /\ \A f \in results[s] : \E k \in 1 .. visited[s] : f = Complete(s, k)
            /\ Tidy(s, results[s]) /\ Tidy(s, uploaded[s])
            /\ shardPc[s] # "ended" => uploaded[s] = {}
        /\ assembly \in {"report", "reported"} => merged = Artifacts
        /\ CompleteShardsAssemble

\* The rows of a configuration that one file has.
LEMMA RowsOfOne ==
    ASSUME NEW config, NEW b, b.file.rows \in Nat, {a \in merged : config \in a.file.configs} = {b}
    PROVE  RowsOf(config) = b.file.rows
<1>. DEFINE Step(g, s) == IF s = {} THEN 0
                          ELSE LET x == CHOOSE x \in s : TRUE IN x.file.rows + g[s \ {x}]
            iter == CHOOSE g : g = [s \in SUBSET {b} |-> Step(g, s)]
            sum == [s \in SUBSET {b} |-> IF s = {} THEN 0 ELSE b.file.rows]
<1>1. RowsOf(config) = iter[{b}]
  BY DEF RowsOf, MapThenSumSet, MapThenFoldSet
<1>2. (CHOOSE x \in {b} : TRUE) = b
  OBVIOUS
<1>3. sum = [s \in SUBSET {b} |-> Step(sum, s)]
  <2>1. ASSUME NEW s \in SUBSET {b} PROVE sum[s] = Step(sum, s)
    <3>1. CASE s = {}
      BY <3>1
    <3>2. CASE s = {b}
      <4>1. sum[{b} \ {b}] = 0 /\ sum[{b}] = b.file.rows
        OBVIOUS
      <4>. QED BY <1>2, <3>2, <4>1
    <3>. QED BY <3>1, <3>2
  <2>. QED BY <2>1
<1>4. iter = [s \in SUBSET {b} |-> Step(iter, s)]
  <2>. HIDE DEF Step, sum
  <2>. QED BY <1>3
<1>5. iter[{}] = 0 /\ iter[{b}] = Step(iter, {b})
  <2>1. \A s \in SUBSET {b} : iter[s] = Step(iter, s)
    <3>. HIDE DEF iter, Step
    <3>. QED BY <1>4
  <2>2. {} \in SUBSET {b} /\ {b} \in SUBSET {b}
    OBVIOUS
  <2>. HIDE DEF iter
  <2>. QED BY <2>1, <2>2
<1>6. {b} \ {b} = {} /\ {b} # {}
  OBVIOUS
<1>7. Step(iter, {b}) = b.file.rows + iter[{}]
  <2>. HIDE DEF iter
  <2>. QED BY <1>2, <1>6
<1>. HIDE DEF iter, Step
<1>. QED BY <1>1, <1>5, <1>7

\* Complete files of different configurations differ, and a file is of this run if it is complete.
LEMMA CompleteFacts ==
    ASSUME NEW s, NEW k
    PROVE  /\ Complete(s, k).configs = {<<s, k>>} /\ Complete(s, k).rows = Repetitions
           /\ Complete(s, k).run = "this"
           /\ \A t, j : Complete(s, k) = Complete(t, j) => s = t /\ k = j
<1>1. /\ Complete(s, k).configs = {<<s, k>>} /\ Complete(s, k).rows = Repetitions
      /\ Complete(s, k).run = "this"
  BY DEF Complete, File
<1>2. \A t, j : Complete(t, j).configs = {<<t, j>>}
  BY DEF Complete, File
<1>3. \A t, j : Complete(s, k) = Complete(t, j) => s = t /\ k = j
  <2>1. ASSUME NEW t, NEW j, Complete(s, k) = Complete(t, j) PROVE s = t /\ k = j
    <3>1. {<<s, k>>} = {<<t, j>>}
      BY <1>1, <1>2, <2>1
    <3>2. <<s, k>> = <<t, j>>
      BY <3>1
    <3>3. <<s, k>>[1] = <<t, j>>[1] /\ <<s, k>>[2] = <<t, j>>[2]
      BY <3>2
    <3>. QED BY <3>3
  <2>. QED BY <2>1
<1>. QED BY <1>1, <1>3

\* A checkout that is not of an assembled report has old measurements in results/ itself, or none.
LEMMA InitTidied == Init => Tidied
<1>. SUFFICES ASSUME Init, checkout # "assembled" PROVE Tidied
  BY DEF Tidied
<1>1. \A f \in MeasuredBefore : f.run = "old" /\ f.place = "results"
  BY DEF MeasuredBefore, File
<1>2. \A s \in Shards : \A f \in results[s] : f.run = "old" /\ f.place = "results"
  BY <1>1, ShardsAssumption DEF Init, Checkout
<1>3. \A s \in Shards : visited[s] = 0 /\ shardPc[s] = "checkout" /\ uploaded[s] = {}
  BY DEF Init
<1>. QED BY <1>2, <1>3 DEF Init, Tidied, Tidy, CompleteShardsAssemble

\* When all is measured the artifacts are the complete files of every configuration.
LEMMA AllMeasured ==
    ASSUME Inv, Tidied, checkout # "assembled", \A config \in Config : Measured(config)
    PROVE  \A s \in Shards : uploaded[s] = {Complete(s, k) : k \in 1 .. ConfigCount}
<1>. SUFFICES ASSUME NEW s \in Shards PROVE uploaded[s] = {Complete(s, k) : k \in 1 .. ConfigCount}
  OBVIOUS
<1>1. \A k \in 1 .. ConfigCount : Complete(s, k) \in uploaded[s]
  <2>1. ASSUME NEW k \in 1 .. ConfigCount PROVE Complete(s, k) \in uploaded[s]
    <3>1. <<s, k>> \in Config /\ <<s, k>>[1] = s
      BY DEF Config
    <3>. QED BY <3>1 DEF Measured, Complete
  <2>. QED BY <2>1
<1>2. visited[s] \in 0 .. ConfigCount /\ ConfigCount \in 1 .. ConfigCount
  BY MatrixSize DEF Inv, TypeOK
<1>3. Complete(s, ConfigCount) \in uploaded[s] /\ Complete(s, ConfigCount).run # "old"
  BY <1>1, <1>2, CompleteFacts
<1>4. /\ ConfigCount =< visited[s]
      /\ \A f \in uploaded[s] : (\E k \in 1 .. visited[s] : f = Complete(s, k)) \/ visited[s] < ConfigCount
  BY <1>2, <1>3 DEF Tidied, Tidy
<1>5. \A f \in uploaded[s] : \E k \in 1 .. ConfigCount : f = Complete(s, k)
  BY <1>2, <1>4
<1>. QED BY <1>1, <1>5

\* The promises about the files of one shard.
ShardTidy(s) ==
    /\ shardPc[s] = "checkout" =>
        /\ \A f \in results[s] : f.run = "old" /\ f.place = "results"
        /\ visited[s] = 0
    /\ shardPc[s] = "loop" =>
        /\ \A k \in 1 .. ConfigCount : Complete(s, k) \in results[s] <=> k =< visited[s]
        /\ \A f \in results[s] : \E k \in 1 .. visited[s] : f = Complete(s, k)
    /\ Tidy(s, results[s]) /\ Tidy(s, uploaded[s])
    /\ shardPc[s] # "ended" => uploaded[s] = {}

\* While a shard works nothing is assembled, and it touches nobody else's files.
LEMMA ShardTidies ==
    ASSUME NEW s \in Shards, Inv, Tidied, checkout # "assembled", shardPc[s] # "ended",
           UNCHANGED <<checkout, jobVars>>, ShardTidy(s)',
           \A t \in Shards : t # s => /\ shardPc'[t] = shardPc[t] /\ visited'[t] = visited[t]
                                     /\ results'[t] = results[t] /\ uploaded'[t] = uploaded[t]
    PROVE  Tidied'
<1>1. assembly' = "waiting"
  BY DEF Inv, Assembled, ShardsEnded, jobVars
<1>2. ASSUME NEW t \in Shards PROVE ShardTidy(t)'
  <2>1. CASE t = s
    BY <2>1
  <2>2. CASE t # s
    <3>1. ShardTidy(t)
      BY DEF Tidied, ShardTidy
    <3>2. UNCHANGED <<shardPc[t], visited[t], results[t], uploaded[t]>>
      BY <2>2
    <3>. QED BY <3>1, <3>2 DEF ShardTidy, Tidy, Complete
  <2>. QED BY <2>1, <2>2
<1>. QED BY <1>1, <1>2 DEF Tidied, ShardTidy, CompleteShardsAssemble

\* An artifact that is not there is tidy.
LEMMA NothingTidy == \A s : Tidy(s, {})
BY DEF Tidy

\* Each step of a shard keeps its files tidy.
LEMMA ShardTidied == ASSUME NEW s \in Shards, Inv, Tidied, ShardStep(s) PROVE Tidied'
<1>. SUFFICES ASSUME checkout # "assembled" PROVE Tidied'
  BY DEF Tidied, ShardStep, ShardCleans, ShardMeasures, ShardDone, ShardFails, ShardUploads, ShardLost
<1>. USE DEF jobVars
<1>1. /\ shardPc \in [Shards -> {"checkout", "loop", "upload", "ended"}]
      /\ visited \in [Shards -> 0 .. ConfigCount] /\ visited[s] \in 0 .. ConfigCount
      /\ results \in [Shards -> SUBSET CsvFile] /\ uploaded \in [Shards -> SUBSET CsvFile]
  BY DEF Inv, TypeOK
<1>2. ShardTidy(s)
  BY DEF Tidied, ShardTidy
<1>3. CASE ShardCleans(s)
  <2>1. /\ shardPc[s] = "checkout" /\ shardPc' = [shardPc EXCEPT ![s] = "loop"]
        /\ results' = [results EXCEPT ![s] = {f \in results[s] : f.place # "results"}]
        /\ UNCHANGED <<checkout, visited, uploaded, jobVars>>
    BY <1>3 DEF ShardCleans
  <2>2. results'[s] = {} /\ visited'[s] = 0 /\ uploaded'[s] = {} /\ shardPc'[s] = "loop"
    BY <1>1, <1>2, <2>1 DEF ShardTidy
  <2>3. ShardTidy(s)'
    BY <2>2 DEF ShardTidy, Tidy
  <2>. QED BY <1>1, <2>1, <2>3, ShardTidies
<1>4. CASE ShardMeasures(s)
  <2>1. /\ shardPc[s] = "loop" /\ visited[s] < ConfigCount
        /\ results' = [results EXCEPT ![s] = results[s] \cup {Complete(s, visited[s] + 1)}]
        /\ visited' = [visited EXCEPT ![s] = visited[s] + 1]
        /\ UNCHANGED <<checkout, shardPc, uploaded, jobVars>>
    BY <1>4 DEF ShardMeasures, MoreConfigs, Complete
  <2>2. /\ results'[s] = results[s] \cup {Complete(s, visited[s] + 1)} /\ visited'[s] = visited[s] + 1
        /\ uploaded'[s] = {} /\ shardPc'[s] = "loop"
    BY <1>1, <1>2, <2>1 DEF ShardTidy
  <2>3. \A k \in 1 .. ConfigCount : Complete(s, k)' \in results'[s] <=> k =< visited'[s]
    <3>1. ASSUME NEW k \in 1 .. ConfigCount
          PROVE  Complete(s, k) \in results'[s] <=> k =< visited[s] + 1
      <4>1. Complete(s, k) = Complete(s, visited[s] + 1) <=> k = visited[s] + 1
        BY CompleteFacts
      <4>2. Complete(s, k) \in results[s] <=> k =< visited[s]
        BY <1>2, <2>1 DEF ShardTidy
      <4>3. Complete(s, k) \in results'[s] <=> k =< visited[s] \/ k = visited[s] + 1
        BY <2>2, <4>1, <4>2
      <4>. QED BY <1>1, <4>3
    <3>. QED BY <2>2, <3>1 DEF Complete
  <2>4. \A f \in results'[s] : \E k \in 1 .. visited'[s] : f = Complete(s, k)'
    <3>1. ASSUME NEW f \in results'[s] PROVE \E k \in 1 .. visited[s] + 1 : f = Complete(s, k)
      <4>1. CASE f \in results[s]
        BY <1>1, <1>2, <2>1, <4>1 DEF ShardTidy
      <4>2. CASE f = Complete(s, visited[s] + 1)
        BY <1>1, <4>2
      <4>. QED BY <2>2, <4>1, <4>2
    <3>. QED BY <2>2, <3>1 DEF Complete
  <2>5. ShardTidy(s)'
    BY <2>2, <2>3, <2>4, NothingTidy DEF ShardTidy, Tidy
  <2>. QED BY <1>1, <2>1, <2>5, ShardTidies
<1>5. CASE ShardDone(s) \/ ShardLost(s)
  <2>1. /\ shardPc[s] # "ended"
        /\ shardPc' \in {[shardPc EXCEPT ![s] = "upload"], [shardPc EXCEPT ![s] = "ended"]}
        /\ UNCHANGED <<checkout, visited, results, uploaded, jobVars>>
    BY <1>5 DEF ShardDone, ShardLost
  <2>2. shardPc'[s] \in {"upload", "ended"} /\ \A t \in Shards : t # s => shardPc'[t] = shardPc[t]
    BY <1>1, <2>1
  <2>3. ShardTidy(s)'
    BY <1>2, <2>1, <2>2 DEF ShardTidy, Tidy, Complete
  <2>. QED BY <2>1, <2>2, <2>3, ShardTidies
<1>6. CASE ShardFails(s)
  <2>1. /\ shardPc[s] \in {"checkout", "loop"} /\ shardPc' = [shardPc EXCEPT ![s] = "upload"]
        /\ UNCHANGED <<checkout, visited, uploaded, jobVars>>
    BY <1>6 DEF ShardFails
  <2>2. shardPc'[s] = "upload" /\ visited'[s] = visited[s] /\ uploaded'[s] = {}
    BY <1>1, <1>2, <2>1 DEF ShardTidy
  <2>3. CASE results' = results
    <3>1. ShardTidy(s)'
      BY <1>2, <2>1, <2>2, <2>3 DEF ShardTidy, Tidy, Complete
    <3>. QED BY <1>1, <2>1, <2>3, <3>1, ShardTidies
  <2>4. CASE results' # results
    <3>1. PICK f : /\ f.rows # Repetitions /\ visited[s] < ConfigCount /\ shardPc[s] = "loop"
                   /\ results' = [results EXCEPT ![s] = results[s] \cup {f}]
      <4>1. PICK n \in 0 .. Repetitions - 1 :
              /\ MoreConfigs(s) /\ shardPc[s] = "loop"
              /\ results' = [results EXCEPT ![s] = results[s] \cup
                  {File(IF n = 0 THEN {} ELSE {<<s, visited[s] + 1>>}, n, "results", "this")}]
        BY <1>6, <2>4 DEF ShardFails
      <4>2. File(IF n = 0 THEN {} ELSE {<<s, visited[s] + 1>>}, n, "results", "this").rows # Repetitions
        BY MatrixSize, FileFields
      <4>. QED BY <4>1, <4>2 DEF MoreConfigs
    <3>2. results'[s] = results[s] \cup {f} /\ \A t \in Shards : t # s => results'[t] = results[t]
      BY <1>1, <3>1
    <3>3. \A k \in 1 .. ConfigCount : Complete(s, k) \in results'[s] <=> k =< visited[s]
      <4>1. \A k : Complete(s, k) # f
        BY <3>1, CompleteFacts
      <4>. QED BY <1>2, <3>1, <3>2, <4>1 DEF ShardTidy
    <3>4. ShardTidy(s)'
      BY <2>2, <3>1, <3>3, NothingTidy DEF ShardTidy, Tidy, Complete
    <3>. QED BY <1>1, <2>1, <3>2, <3>4, ShardTidies
  <2>. QED BY <2>3, <2>4
<1>7. CASE ShardUploads(s)
  <2>1. /\ shardPc[s] = "upload" /\ uploaded' = [uploaded EXCEPT ![s] = results[s]]
        /\ shardPc' = [shardPc EXCEPT ![s] = "ended"]
        /\ UNCHANGED <<checkout, visited, results, jobVars>>
    BY <1>7 DEF ShardUploads
  <2>2. uploaded'[s] = results[s] /\ shardPc'[s] = "ended"
    BY <1>1, <2>1
  <2>3. ShardTidy(s)'
    BY <1>2, <2>1, <2>2 DEF ShardTidy, Tidy, Complete
  <2>. QED BY <1>1, <2>1, <2>3, ShardTidies
<1>. QED BY <1>3, <1>4, <1>5, <1>6, <1>7 DEF ShardStep

\* The last job: what is measured completely is merged and counted once.
LEMMA AssembleTidied == Inv /\ Tidied /\ (AssembleStep \/ UNCHANGED vars) => Tidied'
<1>. SUFFICES ASSUME Inv, Tidied, AssembleStep \/ UNCHANGED vars, checkout # "assembled"
              PROVE  Tidied'
  BY DEF Tidied, AssembleStep, Merge, MergeFails, Report, ReportFails, vars
<1>1. UNCHANGED <<checkout, shardPc, visited, results, uploaded>>
  BY DEF AssembleStep, Merge, MergeFails, Report, ReportFails, vars
<1>2. /\ \A s \in Shards : ShardTidy(s)'
      /\ Artifacts' = Artifacts
      /\ \A config : Measured(config)' <=> Measured(config)
  <2>1. \A s \in Shards : ShardTidy(s)'
    BY <1>1 DEF Tidied, ShardTidy, Tidy, Complete
  <2>2. Artifacts' = Artifacts
    BY <1>1 DEF Artifacts
  <2>3. \A config : Measured(config)' <=> Measured(config)
    BY <1>1 DEF Measured
  <2>. QED BY <2>1, <2>2, <2>3
<1>3. assembly' \in {"report", "reported"} => merged' = Artifacts
  BY DEF Tidied, AssembleStep, Merge, MergeFails, Report, ReportFails, vars
<1>4. CompleteShardsAssemble'
  <2>. SUFFICES ASSUME assembly' \in {"reported", "failed"}, \A config \in Config : Measured(config)
                PROVE  assembly' = "reported" /\ report' = Config
    BY <1>2 DEF CompleteShardsAssemble
  <2>1. \A s \in Shards : uploaded[s] = {Complete(s, k) : k \in 1 .. ConfigCount}
    BY AllMeasured
  <2>2. \A s \in Shards, k \in 1 .. ConfigCount : [shard |-> s, file |-> Complete(s, k)] \in Artifacts
    BY <2>1 DEF Artifacts
  <2>3. \A a \in Artifacts : \E s \in Shards, k \in 1 .. ConfigCount : a = [shard |-> s, file |-> Complete(s, k)]
    BY <2>1 DEF Artifacts
  <2>4. Artifacts # {} /\ \A a \in Artifacts : a.file.rows = Repetitions
    <3>1. PICK s \in Shards : TRUE
      BY ShardsAssumption
    <3>2. [shard |-> s, file |-> Complete(s, 1)] \in Artifacts
      BY <2>2, MatrixSize
    <3>3. ASSUME NEW a \in Artifacts PROVE a.file.rows = Repetitions
      <4>1. PICK t \in Shards, j \in 1 .. ConfigCount : a = [shard |-> t, file |-> Complete(t, j)]
        BY <2>3
      <4>. QED BY <4>1, CompleteFacts
    <3>. QED BY <3>2, <3>3
  <2>5. ~MergeFails
    BY <2>4 DEF MergeFails, Merges
  <2>6. ASSUME assembly = "report"
        PROVE  MergedConfigs = Config /\ \A config \in Config : RowsOf(config) = Repetitions
    <3>1. merged = Artifacts
      BY <2>6 DEF Tidied
    <3>2. ASSUME NEW s \in Shards, NEW k \in 1 .. ConfigCount
          PROVE  {a \in merged : <<s, k>> \in a.file.configs} = {[shard |-> s, file |-> Complete(s, k)]}
      <4>. DEFINE b == [shard |-> s, file |-> Complete(s, k)]
      <4>1. b \in merged /\ <<s, k>> \in b.file.configs
        BY <2>2, <3>1, CompleteFacts
      <4>2. ASSUME NEW a \in merged, <<s, k>> \in a.file.configs PROVE a = b
        <5>1. PICK t \in Shards, j \in 1 .. ConfigCount : a = [shard |-> t, file |-> Complete(t, j)]
          BY <2>3, <3>1
        <5>2. <<s, k>> = <<t, j>>
          BY <4>2, <5>1, CompleteFacts
        <5>3. <<s, k>>[1] = <<t, j>>[1] /\ <<s, k>>[2] = <<t, j>>[2]
          BY <5>2
        <5>. QED BY <5>1, <5>3
      <4>. HIDE DEF b
      <4>3. {a \in merged : <<s, k>> \in a.file.configs} = {b}
        BY <4>1, <4>2
      <4>. QED BY <4>3 DEF b
    <3>3. ASSUME NEW s \in Shards, NEW k \in 1 .. ConfigCount PROVE RowsOf(<<s, k>>) = Repetitions
      <4>. DEFINE b == [shard |-> s, file |-> Complete(s, k)]
      <4>1. b.file.rows = Repetitions /\ Repetitions \in Nat
        BY CompleteFacts, MatrixSize
      <4>2. {a \in merged : <<s, k>> \in a.file.configs} = {b}
        BY <3>2
      <4>. HIDE DEF b
      <4>. QED BY <4>1, <4>2, RowsOfOne
    <3>4. \A config \in Config : \E s \in Shards, k \in 1 .. ConfigCount : config = <<s, k>>
      BY DEF Config
    <3>5. MergedConfigs = Config
      <4>1. \A a \in merged : a.file.configs \subseteq Config
        <5>1. ASSUME NEW a \in merged PROVE a.file.configs \subseteq Config
          <6>1. PICK t \in Shards, j \in 1 .. ConfigCount : a = [shard |-> t, file |-> Complete(t, j)]
            BY <2>3, <3>1
          <6>2. a.file.configs = {<<t, j>>}
            BY <6>1, CompleteFacts
          <6>. QED BY <6>2 DEF Config
        <5>. QED BY <5>1
      <4>2. \A config \in Config : \E a \in merged : config \in a.file.configs
        <5>1. ASSUME NEW s \in Shards, NEW k \in 1 .. ConfigCount
              PROVE  \E a \in merged : <<s, k>> \in a.file.configs
          <6>1. [shard |-> s, file |-> Complete(s, k)] \in {a \in merged : <<s, k>> \in a.file.configs}
            BY <3>2
          <6>. QED BY <6>1
        <5>. QED BY <3>4, <5>1
      <4>. QED BY <4>1, <4>2 DEF MergedConfigs
    <3>. QED BY <3>3, <3>4, <3>5
  <2>7. CASE Report
    BY <2>6, <2>7 DEF Report
  <2>8. CASE ReportFails
    BY <2>6, <2>8 DEF ReportFails
  <2>9. CASE UNCHANGED vars
    BY <2>9 DEF vars, Tidied, CompleteShardsAssemble
  <2>10. CASE Merge
    BY <2>10 DEF Merge
  <2>. QED BY <2>5, <2>7, <2>8, <2>9, <2>10 DEF AssembleStep
<1>. QED BY <1>1, <1>2, <1>3, <1>4 DEF Tidied, ShardTidy

\* Unless a report of an earlier run is checked out, shards that have all measured their part
\* assemble the report of the full matrix, whatever the checkout left in their results.
THEOREM CompleteMatrix == Spec => [](checkout # "assembled" => CompleteShardsAssemble)
<1>1. Inv /\ Tidied /\ [Next]_vars => Tidied'
  BY ShardTidied, AssembleTidied DEF Next, Over
<1>2. Tidied => (checkout # "assembled" => CompleteShardsAssemble)
  BY DEF Tidied
<1>. QED BY <1>1, <1>2, InitTidied, Invariance, PTL DEF Spec

-------------------------------------------------------------------------------
(* Bounded work *)

\* How far a shard's job is: cleaned, one for each configuration, over, uploaded.
ShardRank(s) ==
    CASE shardPc[s] = "checkout" -> 0
      [] shardPc[s] = "loop" -> 1 + visited[s]
      [] shardPc[s] = "upload" -> ConfigCount + 2
      [] OTHER -> ConfigCount + 3

\* The steps of the shards still to come, and those of the last job.
ShardsAhead == {step \in Shards \X (1 .. ConfigCount + 3) : step[2] > ShardRank(step[1])}
AssemblyLeft == CASE assembly = "waiting" -> 2 [] assembly = "report" -> 1 [] OTHER -> 0
JobsLeft == Cardinality(ShardsAhead) + AssemblyLeft

\* Every step leaves less to do.
EveryStepCounts == [][JobsLeft' < JobsLeft]_vars

\* The shards' steps to come are finitely many.
LEMMA AheadFinite == IsFiniteSet(ShardsAhead)
<1>1. IsFiniteSet(1 .. ConfigCount + 3)
  BY ShardsAssumption, FS_Interval
<1>2. IsFiniteSet(Shards \X (1 .. ConfigCount + 3))
  BY <1>1, ShardsAssumption, FS_Product
<1>3. ShardsAhead \in SUBSET (Shards \X (1 .. ConfigCount + 3))
  BY DEF ShardsAhead
<1>. QED BY <1>2, <1>3, FS_Subset

\* So they are after a step.
LEMMA AheadFiniteNext == IsFiniteSet(ShardsAhead)'
  BY AheadFinite, PTL

\* A shard that is further, the others where they were, has a step less to come.
LEMMA ShardCounts ==
    ASSUME NEW s \in Shards, ShardRank(s) \in 0 .. ConfigCount + 2, ShardRank(s)' \in Nat,
           ShardRank(s)' > ShardRank(s), \A other \in Shards : other # s => ShardRank(other)' = ShardRank(other)
    PROVE  Cardinality(ShardsAhead') < Cardinality(ShardsAhead)
<1>1. ShardsAhead' \in SUBSET ShardsAhead
  <2>. SUFFICES ASSUME NEW step \in ShardsAhead' PROVE step \in ShardsAhead
    OBVIOUS
  <2>1. step \in Shards \X (1 .. ConfigCount + 3) /\ step[2] > ShardRank(step[1])' /\ step[1] \in Shards /\ step[2] \in Int
    BY ShardsAssumption DEF ShardsAhead
  <2>2. CASE step[1] = s
    <3>1. step[2] > ShardRank(s)'
      BY <2>1, <2>2
    <3>2. step[2] > ShardRank(s)
      BY <2>1, <3>1, ShardsAssumption
    <3>. QED BY <2>1, <2>2, <3>2 DEF ShardsAhead
  <2>3. CASE step[1] # s
    BY <2>1, <2>3 DEF ShardsAhead
  <2>. QED BY <2>2, <2>3
<1>2. PICK k \in 1 .. ConfigCount + 3 : k = ShardRank(s) + 1
  BY ShardsAssumption
<1>. DEFINE next == <<s, k>>
<1>3. next \in ShardsAhead
  BY <1>2, ShardsAssumption DEF ShardsAhead
<1>4. next \notin ShardsAhead'
  <2>. SUFFICES ASSUME next \in ShardsAhead' PROVE FALSE
    OBVIOUS
  <2>1. k > ShardRank(s)'
    BY DEF ShardsAhead
  <2>. QED BY <1>2, <2>1, ShardsAssumption
<1>. HIDE DEF next
<1>5. ShardsAhead' \in SUBSET (ShardsAhead \ {next})
  BY <1>1, <1>4
<1>6. /\ IsFiniteSet(ShardsAhead \ {next}) /\ Cardinality(ShardsAhead \ {next}) = Cardinality(ShardsAhead) - 1
      /\ Cardinality(ShardsAhead) \in Nat
  BY <1>3, AheadFinite, FS_RemoveElement, FS_CardinalityType
<1>7. Cardinality(ShardsAhead') =< Cardinality(ShardsAhead \ {next}) /\ Cardinality(ShardsAhead') \in Nat
  BY <1>5, <1>6, AheadFiniteNext, FS_Subset, FS_CardinalityType
<1>. QED BY <1>6, <1>7

\* A step of a job takes it further, the failures that end it and the loss of its runner included.
LEMMA StepCounts ==
    Inv /\ Inv' /\ [Next]_vars => JobsLeft' < JobsLeft \/ UNCHANGED vars
<1>. SUFFICES ASSUME Inv, Inv', [Next]_vars PROVE JobsLeft' < JobsLeft \/ UNCHANGED vars
  OBVIOUS
<1>1. /\ Cardinality(ShardsAhead) \in Nat /\ Cardinality(ShardsAhead') \in Nat
  BY AheadFinite, AheadFiniteNext, FS_CardinalityType
<1>2. /\ shardPc \in [Shards -> {"checkout", "loop", "upload", "ended"}]
      /\ shardPc' \in [Shards -> {"checkout", "loop", "upload", "ended"}]
      /\ visited \in [Shards -> 0 .. ConfigCount] /\ visited' \in [Shards -> 0 .. ConfigCount]
      /\ ConfigCount \in Nat
      /\ assembly \in {"waiting", "report", "reported", "failed"}
  BY ShardsAssumption DEF Inv, TypeOK
<1>3. ASSUME NEW s \in Shards, ShardStep(s)
      PROVE  JobsLeft' < JobsLeft
  <2>1. \A other \in Shards : other # s => ShardRank(other)' = ShardRank(other)
    BY <1>2, <1>3 DEF ShardStep, ShardCleans, ShardMeasures, ShardDone, ShardFails, ShardUploads, ShardLost, ShardRank
  <2>2. ShardRank(s) \in 0 .. ConfigCount + 2 /\ ShardRank(s)' \in Nat /\ ShardRank(s)' > ShardRank(s)
    <3>1. CASE ShardCleans(s)
      BY <1>2, <3>1 DEF ShardCleans, ShardRank
    <3>2. CASE ShardMeasures(s)
      BY <1>2, <3>2 DEF ShardMeasures, MoreConfigs, ShardRank
    <3>3. CASE ShardDone(s) \/ ShardFails(s)
      BY <1>2, <3>3 DEF ShardDone, ShardFails, ShardRank
    <3>4. CASE ShardUploads(s) \/ ShardLost(s)
      BY <1>2, <3>4 DEF ShardUploads, ShardLost, ShardRank
    <3>. QED BY <1>3, <3>1, <3>2, <3>3, <3>4 DEF ShardStep
  <2>3. Cardinality(ShardsAhead') < Cardinality(ShardsAhead)
    BY <2>1, <2>2, ShardCounts
  <2>4. AssemblyLeft' = AssemblyLeft /\ AssemblyLeft \in Nat
    BY <1>3 DEF ShardStep, ShardCleans, ShardMeasures, ShardDone, ShardFails, ShardUploads, ShardLost, jobVars, AssemblyLeft
  <2>. QED BY <1>1, <2>3, <2>4 DEF JobsLeft
<1>4. CASE AssembleStep
  <2>1. ShardsAhead' = ShardsAhead
    BY <1>4 DEF AssembleStep, Merge, MergeFails, Report, ReportFails, ShardsAhead, ShardRank
  <2>2. AssemblyLeft' < AssemblyLeft /\ AssemblyLeft \in Nat /\ AssemblyLeft' \in Nat
    BY <1>4 DEF AssembleStep, Merge, MergeFails, Report, ReportFails, AssemblyLeft
  <2>. QED BY <1>1, <2>1, <2>2 DEF JobsLeft
<1>. QED BY <1>3, <1>4 DEF Next, Over

\* A run of the workflow is a bounded number of steps, whatever fails in it: what Termination needs is
\* that a job that can go on does, which timeout-minutes and `if: always()' see to.
THEOREM BoundedWorkflow == Spec => [](JobsLeft \in Nat) /\ EveryStepCounts
<1>1. Inv /\ Inv' /\ [Next]_vars => [JobsLeft' < JobsLeft]_vars
  BY StepCounts
<1>2. JobsLeft \in Nat
  BY AheadFinite, FS_CardinalityType DEF JobsLeft, AssemblyLeft
<1>. QED BY <1>1, <1>2, Invariance, PTL DEF Spec, EveryStepCounts
===============================================================================
