---------------------------- MODULE RegistryProofs ----------------------------
(***************************************************************************)
(* Proofs about MCRegistry and the two programs in it, for any number of   *)
(* repetitions and so of concurrent workers, and any number of runs.       *)
(* RegistryBench: the workers register together, no status of a row says   *)
(* of the Registry what is not so, and each repetition has one row.        *)
(* SchemaEvolution: two successes on one subject of a fresh Registry show  *)
(* that v2 was checked against v1, whatever was lost or executed late.     *)
(* Then that the composition keeps what is shown of either, that no thread *)
(* waits for ever, and that every step leaves fewer steps to come.         *)
(***************************************************************************)
EXTENDS MCRegistry, FiniteSetTheorems, TLAPS

-------------------------------------------------------------------------------
(* RegistryBench: the inductive invariant *)

Base == <<"base", 0>>

\* The workers that have arrived at the barrier, and those that are past it.
Arrived == {w \in Worker : workerPc[w] \notin {"none", "init"}}
Past(w) == workerPc[w] \notin {"none", "init", "waiting"}

\* The barrier counts who has arrived, and nobody is past it before it is open.
Barrier ==
    /\ pc = "path" => \A w \in Worker : workerPc[w] = "none"
    /\ pc = "spawn" => \A w \in Worker : w >= repetition => workerPc[w] = "none"
    /\ Running => arrived = Cardinality(Arrived) + (IF pc \in {"released", "join"} THEN 1 ELSE 0)
    /\ arrived >= Parties => Arrived = Worker /\ pc \notin {"path", "spawn", "arrive"}
    /\ \A w \in Worker : Past(w) => arrived >= Parties

\* A good answer on its way says that the subject is there, and only a cache miss is a 404.
Answers ==
    /\ line[Main] # "idle" => pc = "path" /\ Paths[path] # "registry_unavailable"
    /\ \A w \in Worker : line[w] # "idle" => workerPc[w] = "request"
    /\ path # 1 => Base \in registered
    /\ \A t \in Thread : line[t] = "answered" =>
        /\ answer[t] = 200 => RequestOf(t).subject \in registered
        /\ answer[t] = 404 => t = Main /\ Paths[path] = "cache_miss_404"
    /\ \A w \in Worker :
        /\ status[w] = 200 => Subject(Concurrent, w) \in registered
        /\ status[w] # 404

Inv == TypeOK /\ Barrier /\ Answers /\ RowsTellTheRegistry

RowType == [api : AllPaths, repetition : Worker, status : {0, 200, 404, 500}]
LineType == [Thread -> {"idle", "sent", "answered"}]
AnswerType == [Thread -> {0, 200, 404, 500}]
WorkerPcType == [Worker -> {"none", "init", "waiting", "request", "lock", "write", "exit"}]

-------------------------------------------------------------------------------
(* Constants *)

\* The seven sequential paths, and what they ask for.
LEMMA PathFacts ==
    /\ DOMAIN Paths = 1 .. 7 /\ Len(Paths) = 7
    /\ \A k \in 1 .. 7 : Paths[k] \in AllPaths
    /\ Concurrent \in AllPaths
    /\ Paths[1] = "bootstrap"
<1>1. DOMAIN Paths = 1 .. 7 /\ Len(Paths) = 7 /\ Paths[1] = "bootstrap"
  BY DEF Paths
<1>2. \A k \in 1 .. 7 : Paths[k] \in AllPaths
  BY <1>1 DEF AllPaths
<1>. QED BY <1>1, <1>2 DEF AllPaths

\* The threads: the main thread is none of the workers.
LEMMA ThreadFacts == 1 \in Worker /\ Worker \subseteq Thread /\ Main \in Thread /\ Main \notin Worker
BY RegistryAssumption DEF Worker, Thread, Main

\* A request is for one of the subjects.
LEMMA RequestFacts ==
    ASSUME TypeOK, NEW t \in Thread
    PROVE  /\ RequestOf(t).subject \in Subjects /\ RequestOf(t).post \in BOOLEAN
           /\ t # Main => RequestOf(t).post /\ RequestOf(t).subject = Subject(Concurrent, t)
           /\ t = Main => /\ RequestOf(t).post = Posts(Paths[path])
                          /\ RequestOf(t).subject = Subject(Paths[path], repetition)
<1>1. \A p \in AllPaths, r \in Worker : Subject(p, r) \in Subjects
  BY DEF Subjects
<1>2. path \in 1 .. 7 /\ repetition \in Worker
  BY PathFacts DEF TypeOK
<1>3. Posts(Paths[path]) \in BOOLEAN
  BY DEF Posts
<1>4. t # Main => t \in Worker
  BY DEF Thread
<1>. QED BY <1>1, <1>2, <1>3, <1>4, PathFacts DEF RequestOf

\* The workers are finitely many, and as many as have arrived when all have.
LEMMA ArrivedCounted ==
    ASSUME NEW T \in SUBSET Worker
    PROVE  /\ IsFiniteSet(T) /\ Cardinality(T) \in 0 .. NetworkRepetitions
           /\ Cardinality(T) = NetworkRepetitions => T = Worker
<1>. USE RegistryAssumption
<1>1. IsFiniteSet(Worker) /\ Cardinality(Worker) = NetworkRepetitions
  BY FS_Interval DEF Worker
<1>2. /\ IsFiniteSet(T) /\ Cardinality(T) =< Cardinality(Worker)
      /\ Cardinality(Worker) = Cardinality(T) => Worker = T
  BY <1>1, FS_Subset
<1>3. Cardinality(T) \in Nat
  BY <1>2, FS_CardinalityType
<1>. QED BY <1>1, <1>2, <1>3

-------------------------------------------------------------------------------
(* What several steps have in common *)

\* A row that tells the truth joins rows that do, and the Registry forgets nothing.
LEMMA RowsGrow ==
    ASSUME rows \in Seq(RowType), RowsTellTheRegistry, registered \subseteq registered',
           NEW p \in AllPaths, NEW r \in Worker, NEW code \in {0, 200, 404, 500},
           code = 200 => Subject(p, r) \in registered',
           code = 404 => p = "cache_miss_404",
           ~Tolerant(p) => code = 200,
           rows' = Append(rows, Row(p, r, code))
    PROVE  RowsTellTheRegistry' /\ rows' \in Seq(RowType)
<1>1. Row(p, r, code) = [api |-> p, repetition |-> r, status |-> code] /\ Row(p, r, code) \in RowType
  BY DEF Row, RowType
<1>2. rows' \in Seq(RowType)
  BY <1>1
<1>3. ASSUME NEW k \in DOMAIN rows'
      PROVE  /\ rows'[k].status = 200 => Subject(rows'[k].api, rows'[k].repetition) \in registered'
             /\ rows'[k].status = 404 => rows'[k].api = "cache_miss_404"
             /\ ~Tolerant(rows'[k].api) => rows'[k].status = 200
  <2>1. (k \in DOMAIN rows /\ rows'[k] = rows[k]) \/ rows'[k] = Row(p, r, code)
    BY <1>1, <1>3
  <2>2. CASE k \in DOMAIN rows /\ rows'[k] = rows[k]
    BY <2>2 DEF RowsTellTheRegistry
  <2>3. CASE rows'[k] = Row(p, r, code)
    BY <1>1, <2>3
  <2>. QED BY <2>1, <2>2, <2>3
<1>. QED BY <1>2, <1>3 DEF RowsTellTheRegistry

\* The Registry only learns, so rows stay true.
LEMMA RowsStay ==
    ASSUME RowsTellTheRegistry, registered \subseteq registered', rows' = rows
    PROVE  RowsTellTheRegistry'
BY DEF RowsTellTheRegistry

\* A step of the sequential paths that ends a request, or needs none.
LEMMA PathStep ==
    ASSUME Inv, pc = "path", UNCHANGED <<workerVars, answer, registered>>,
           line' \in LineType, line'[Main] = "idle", \A w \in Worker : line'[w] = line[w],
           orphans' \subseteq Subjects,
           pc' \in {"path", "spawn", "failed"}, path' \in DOMAIN Paths, repetition' \in Worker,
           path' # 1 => Base \in registered,
           RowsTellTheRegistry', rows' \in Seq(RowType)
    PROVE  Inv'
<1>. USE DEF workerVars
<1>1. TypeOK'
  BY DEF Inv, TypeOK, RowType, LineType
<1>2. \A w \in Worker : workerPc[w] = "none"
  BY DEF Inv, Barrier
<1>3. \A w \in Worker : line'[w] = "idle"
  BY <1>2 DEF Inv, Answers
<1>4. Barrier'
  <2>1. arrived \in Nat /\ Arrived' = Arrived /\ Arrived = {}
    BY <1>2 DEF Inv, TypeOK, Arrived
  <2>2. arrived = Cardinality(Arrived) + 0
    BY DEF Inv, Barrier, Running
  <2>3. ~(arrived >= Parties)
    BY DEF Inv, Barrier
  <2>. QED BY <1>2, <2>1, <2>2, <2>3 DEF Barrier, Running, Past, Parties
<1>5. Answers'
  <2>1. \A t \in Thread : line'[t] = "idle"
    BY <1>3 DEF Thread
  <2>. QED BY <1>3, <2>1, ThreadFacts DEF Inv, Answers
<1>. QED BY <1>1, <1>4, <1>5 DEF Inv

\* The loops of the paths go on.
LEMMA AdvanceFacts ==
    ASSUME TypeOK, pc = "path", Advance
    PROVE  pc' \in {"path", "spawn"} /\ path' \in DOMAIN Paths /\ repetition' \in Worker
<1>. USE RegistryAssumption
<1>1. path \in 1 .. 7 /\ repetition \in 1 .. NetworkRepetitions
  BY PathFacts DEF TypeOK, Worker
<1>2. CASE LastRepetition
  BY <1>1, <1>2, PathFacts, ThreadFacts DEF Advance
<1>3. CASE ~LastRepetition
  BY <1>1, <1>3, PathFacts DEF Advance, LastRepetition, Worker
<1>. QED BY <1>2, <1>3

-------------------------------------------------------------------------------
(* The initial states and the main thread *)

\* Nothing has been asked at first.
LEMMA InitInv == Init => Inv
<1>. SUFFICES ASSUME Init PROVE Inv
  OBVIOUS
<1>. USE RegistryAssumption
<1>1. TypeOK
  <2>1. 1 \in DOMAIN Paths /\ 1 \in Worker /\ 0 \in 0 .. NetworkRepetitions + 1 /\ Main \in Thread
    BY PathFacts, ThreadFacts
  <2>. QED BY <2>1 DEF Init, TypeOK
<1>2. Arrived = {} /\ Cardinality({}) = 0
  BY FS_EmptySet DEF Init, Arrived
<1>3. Barrier
  BY <1>2 DEF Init, Barrier, Past, Parties
<1>4. Answers
  BY ThreadFacts DEF Init, Answers
<1>5. RowsTellTheRegistry
  BY DEF Init, RowsTellTheRegistry
<1>. QED BY <1>1, <1>3, <1>4, <1>5 DEF Inv

\* The sequential paths up to the first worker.
LEMMA MainPathInv ==
    Inv /\ (MainSend \/ MainInitFails \/ MainReceive \/ MainThrown \/ MainUnavailable) => Inv'
<1>. SUFFICES ASSUME Inv, MainSend \/ MainInitFails \/ MainReceive \/ MainThrown \/ MainUnavailable
              PROVE  Inv'
  OBVIOUS
<1>0. /\ pc = "path" /\ path \in DOMAIN Paths /\ path \in 1 .. 7 /\ repetition \in Worker
      /\ line \in LineType /\ answer \in AnswerType /\ rows \in Seq(RowType) /\ orphans \subseteq Subjects
      /\ Paths[path] \in AllPaths /\ Main \in Thread /\ Main \notin Worker /\ Worker \subseteq Thread
  BY PathFacts, ThreadFacts
     DEF MainSend, MainInitFails, MainReceive, MainThrown, MainUnavailable, Inv, TypeOK, RowType, LineType, AnswerType
<1>1. CASE MainSend
  <2>1. /\ line[Main] = "idle" /\ line' = [line EXCEPT ![Main] = "sent"]
        /\ Paths[path] # "registry_unavailable"
        /\ UNCHANGED <<mainVars, answer, registered, orphans, workerVars, rows>>
    BY <1>1 DEF MainSend, Send
  <2>. USE DEF mainVars, workerVars
  <2>2. TypeOK'
    BY <1>0, <2>1 DEF Inv, TypeOK, LineType
  <2>3. Barrier'
    BY <2>1 DEF Inv, Barrier, Running, Past, Arrived
  <2>4. Answers'
    <3>1. \A t \in Thread : line'[t] = "answered" => line[t] = "answered"
      BY <1>0, <2>1 DEF LineType
    <3>2. \A t : RequestOf(t)' = RequestOf(t)
      BY <2>1 DEF RequestOf
    <3>. QED BY <1>0, <2>1, <3>1, <3>2 DEF Inv, Answers, LineType
  <2>. QED BY <2>1, <2>2, <2>3, <2>4, RowsStay DEF Inv
<1>2. CASE MainInitFails
  <2>1. /\ line[Main] = "idle" /\ pc' = "failed"
        /\ UNCHANGED <<path, repetition, httpVars, workerVars, rows>>
    BY <1>2 DEF MainInitFails
  <2>2. UNCHANGED <<workerVars, answer, registered, line, orphans>>
    BY <2>1 DEF httpVars
  <2>3. RowsTellTheRegistry'
    BY <2>1, <2>2, RowsStay DEF Inv
  <2>. QED BY <1>0, <2>1, <2>2, <2>3, PathStep DEF Inv, Answers
<1>3. CASE MainReceive
  <2>1. /\ line[Main] = "answered" /\ line' = [line EXCEPT ![Main] = "idle"]
        /\ UNCHANGED <<answer, registered, orphans, workerVars>>
    BY <1>3 DEF MainReceive, Receive
  <2>2. line' \in LineType /\ line'[Main] = "idle" /\ \A w \in Worker : line'[w] = line[w]
    BY <1>0, <2>1 DEF LineType
  <2>3. /\ answer[Main] = 200 => Subject(Paths[path], repetition) \in registered
        /\ answer[Main] = 404 => Paths[path] = "cache_miss_404"
    BY <1>0, <2>1, RequestFacts DEF Inv, Answers
  <2>4. CASE Accepted(Paths[path], answer[Main])
    <3>1. /\ Advance
          /\ rows' = IF path = 1 THEN rows ELSE Append(rows, Row(Paths[path], repetition, answer[Main]))
      BY <1>3, <2>4 DEF MainReceive
    <3>2. pc' \in {"path", "spawn"} /\ path' \in DOMAIN Paths /\ repetition' \in Worker
      BY <1>0, <3>1, AdvanceFacts DEF Inv
    <3>3. Base \in registered
      <4>1. CASE path = 1
        <5>1. Paths[path] = "bootstrap" /\ answer[Main] = 200
          BY <2>4, <4>1, PathFacts DEF Accepted, Tolerant, Concurrent
        <5>2. Subject(Paths[path], repetition) = Base
          BY <5>1 DEF Subject, Base, Concurrent
        <5>. QED BY <2>3, <5>1, <5>2
      <4>2. CASE path # 1
        BY <4>2 DEF Inv, Answers
      <4>. QED BY <4>1, <4>2
    <3>4. RowsTellTheRegistry' /\ rows' \in Seq(RowType)
      <4>1. CASE path = 1
        BY <1>0, <2>1, <3>1, <4>1, RowsStay DEF Inv
      <4>2. CASE path # 1
        <5>1. rows' = Append(rows, Row(Paths[path], repetition, answer[Main]))
          BY <3>1, <4>2
        <5>2. answer[Main] \in {0, 200, 404, 500} /\ registered \subseteq registered' /\ RowsTellTheRegistry
          BY <1>0, <2>1 DEF AnswerType, Inv
        <5>3. ~Tolerant(Paths[path]) => answer[Main] = 200
          BY <2>4 DEF Accepted
        <5>4. answer[Main] = 200 => Subject(Paths[path], repetition) \in registered'
          BY <2>1, <2>3
        <5>. QED BY <1>0, <2>3, <5>1, <5>2, <5>3, <5>4, RowsGrow
      <4>. QED BY <4>1, <4>2
    <3>. QED BY <1>0, <2>1, <2>2, <3>2, <3>3, <3>4, PathStep
  <2>5. CASE ~Accepted(Paths[path], answer[Main])
    <3>1. pc' = "failed" /\ UNCHANGED <<path, repetition, rows>>
      BY <1>3, <2>5 DEF MainReceive
    <3>2. RowsTellTheRegistry'
      BY <2>1, <3>1, RowsStay DEF Inv
    <3>. QED BY <1>0, <2>1, <2>2, <3>1, <3>2, PathStep DEF Inv, Answers
  <2>. QED BY <2>4, <2>5
<1>4. CASE MainThrown
  <2>1. /\ line' = [line EXCEPT ![Main] = "idle"] /\ UNCHANGED <<answer, registered, workerVars>>
        /\ orphans' \in {orphans, orphans \cup {RequestOf(Main).subject}}
    BY <1>4 DEF MainThrown, GiveUp
  <2>2. /\ line' \in LineType /\ line'[Main] = "idle" /\ \A w \in Worker : line'[w] = line[w]
        /\ orphans' \subseteq Subjects
    BY <1>0, <2>1, RequestFacts DEF LineType, Inv
  <2>3. CASE Tolerant(Paths[path])
    <3>1. Advance /\ rows' = Append(rows, Row(Paths[path], repetition, 0))
      BY <1>4, <2>3 DEF MainThrown
    <3>2. pc' \in {"path", "spawn"} /\ path' \in DOMAIN Paths /\ repetition' \in Worker
      BY <1>0, <3>1, AdvanceFacts DEF Inv
    <3>3. path # 1
      BY <2>3, PathFacts DEF Tolerant, Concurrent
    <3>4. RowsTellTheRegistry' /\ rows' \in Seq(RowType)
      BY <1>0, <2>1, <2>3, <3>1, RowsGrow DEF Inv
    <3>. QED BY <1>0, <2>1, <2>2, <3>2, <3>3, <3>4, PathStep DEF Inv, Answers
  <2>4. CASE ~Tolerant(Paths[path])
    <3>1. pc' = "failed" /\ UNCHANGED <<path, repetition, rows>>
      BY <1>4, <2>4 DEF MainThrown
    <3>2. RowsTellTheRegistry'
      BY <2>1, <3>1, RowsStay DEF Inv
    <3>. QED BY <1>0, <2>1, <2>2, <3>1, <3>2, PathStep DEF Inv, Answers
  <2>. QED BY <2>3, <2>4
<1>5. CASE MainUnavailable
  <2>1. /\ Paths[path] = "registry_unavailable" /\ Advance /\ UNCHANGED <<httpVars, workerVars>>
        /\ rows' = Append(rows, Row(Paths[path], repetition, 0))
    BY <1>5 DEF MainUnavailable
  <2>2. UNCHANGED <<workerVars, answer, registered, line, orphans>> /\ line[Main] = "idle"
    BY <2>1 DEF httpVars, Inv, Answers
  <2>3. pc' \in {"path", "spawn"} /\ path' \in DOMAIN Paths /\ repetition' \in Worker
    BY <1>0, <2>1, AdvanceFacts DEF Inv
  <2>4. path # 1 /\ Tolerant(Paths[path])
    BY <2>1, PathFacts DEF Tolerant
  <2>5. RowsTellTheRegistry' /\ rows' \in Seq(RowType)
    BY <1>0, <2>1, <2>2, <2>4, RowsGrow DEF Inv
  <2>. QED BY <1>0, <2>2, <2>3, <2>4, <2>5, PathStep DEF Inv, Answers
<1>. QED BY <1>1, <1>2, <1>3, <1>4, <1>5

-------------------------------------------------------------------------------
(* The concurrent registrations *)

\* After the sequential paths the main thread asks nothing, so that a step which leaves the
\* requests alone leaves what is known of them.
LEMMA AnswersStay ==
    ASSUME Inv, pc # "path", UNCHANGED <<path, httpVars, status>>,
           \A w \in Worker : line[w] # "idle" => workerPc'[w] = "request"
    PROVE  Answers'
<1>. USE DEF httpVars
<1>1. line[Main] = "idle"
  BY DEF Inv, Answers
<1>2. \A t \in Thread : line[t] = "answered" => t # Main /\ RequestOf(t)' = RequestOf(t)
  BY <1>1 DEF RequestOf
<1>3. \A t \in Thread : line'[t] = "answered" =>
        /\ answer'[t] = 200 => RequestOf(t)'.subject \in registered'
        /\ answer'[t] = 404 => FALSE
  BY <1>2 DEF Inv, Answers
<1>. QED BY <1>1, <1>3 DEF Inv, Answers

\* The main thread starts the workers, meets them and joins them.
LEMMA MainWorkersInv ==
    Inv /\ (MainSpawn \/ MainSpawnFails \/ MainArrive \/ MainReleased \/ MainJoined) => Inv'
<1>. SUFFICES ASSUME Inv, MainSpawn \/ MainSpawnFails \/ MainArrive \/ MainReleased \/ MainJoined
              PROVE  Inv'
  OBVIOUS
<1>. USE RegistryAssumption
<1>0. /\ pc \in {"spawn", "arrive", "released", "join"} /\ Running
      /\ repetition \in 1 .. NetworkRepetitions /\ Worker = 1 .. NetworkRepetitions
      /\ workerPc \in WorkerPcType /\ arrived \in 0 .. NetworkRepetitions + 1
      /\ UNCHANGED <<path, httpVars, status, csvMutex, rows>>
  BY DEF MainSpawn, MainSpawnFails, MainArrive, MainReleased, MainJoined, workerVars, Inv, TypeOK,
         Running, Worker, WorkerPcType
<1>1. arrived = Cardinality(Arrived) + (IF pc \in {"released", "join"} THEN 1 ELSE 0)
  BY <1>0 DEF Inv, Barrier
<1>2. /\ Cardinality(Arrived) \in 0 .. NetworkRepetitions
      /\ Cardinality(Arrived) = NetworkRepetitions => Arrived = Worker
  BY ArrivedCounted DEF Arrived
<1>3. RowsTellTheRegistry'
  BY <1>0, RowsStay DEF Inv, httpVars
<1>4. CASE MainSpawn
  <2>1. /\ pc = "spawn" /\ workerPc' = [workerPc EXCEPT ![repetition] = "init"] /\ arrived' = arrived
        /\ \/ repetition < NetworkRepetitions /\ repetition' = repetition + 1 /\ pc' = pc
           \/ ~(repetition < NetworkRepetitions) /\ repetition' = repetition /\ pc' = "arrive"
    BY <1>4 DEF MainSpawn
  <2>2. workerPc[repetition] = "none" /\ repetition \in Worker
    BY <1>0, <2>1 DEF Inv, Barrier
  <2>3. workerPc' \in WorkerPcType /\ repetition' \in Worker /\ pc' \in {"spawn", "arrive"}
    BY <1>0, <2>1 DEF WorkerPcType
  <2>4. TypeOK'
    BY <1>0, <2>1, <2>3 DEF Inv, TypeOK, httpVars, WorkerPcType
  <2>5. Arrived' = Arrived /\ \A w \in Worker : Past(w)' <=> Past(w)
    BY <1>0, <2>1, <2>2 DEF Arrived, Past, WorkerPcType
  <2>6. ~(arrived >= Parties)
    BY <2>1 DEF Inv, Barrier
  <2>7. Barrier'
    <3>1. pc' = "spawn" => \A w \in Worker : w >= repetition' => workerPc'[w] = "none"
      BY <1>0, <2>1 DEF Inv, Barrier, WorkerPcType
    <3>2. arrived' = Cardinality(Arrived') + (IF pc' \in {"released", "join"} THEN 1 ELSE 0)
      BY <1>1, <2>1, <2>3, <2>5
    <3>. QED BY <2>1, <2>3, <2>5, <2>6, <3>1, <3>2 DEF Inv, Barrier, Parties
  <2>8. Answers'
    BY <1>0, <2>1, <2>2, AnswersStay DEF Inv, Answers, WorkerPcType
  <2>. QED BY <1>3, <2>4, <2>7, <2>8 DEF Inv
<1>5. CASE MainSpawnFails
  <2>1. pc = "spawn" /\ pc' \in {"failed", "aborted"} /\ UNCHANGED <<repetition, workerPc, arrived>>
    BY <1>5 DEF MainSpawnFails, workerVars
  <2>2. TypeOK'
    BY <1>0, <2>1 DEF Inv, TypeOK, httpVars
  <2>3. Barrier'
    BY <2>1 DEF Inv, Barrier, Running, Arrived, Past, Parties
  <2>4. Answers'
    BY <1>0, <2>1, AnswersStay DEF Inv, Answers
  <2>. QED BY <1>3, <2>2, <2>3, <2>4 DEF Inv
<1>6. CASE MainArrive
  <2>1. pc = "arrive" /\ pc' = "released" /\ arrived' = arrived + 1 /\ UNCHANGED <<repetition, workerPc>>
    BY <1>6 DEF MainArrive
  <2>2. arrived = Cardinality(Arrived)
    BY <1>1, <1>2, <2>1
  <2>3. TypeOK'
    BY <1>0, <1>2, <2>1, <2>2 DEF Inv, TypeOK, httpVars
  <2>4. Arrived' = Arrived /\ \A w \in Worker : Past(w)' <=> Past(w)
    BY <2>1 DEF Arrived, Past
  <2>5. arrived' >= Parties => Arrived = Worker
    BY <1>2, <2>1, <2>2 DEF Parties
  <2>6. \A w \in Worker : Past(w) => arrived' >= Parties
    BY <1>0, <2>1 DEF Inv, Barrier, Parties
  <2>7. Barrier'
    BY <2>1, <2>2, <2>4, <2>5, <2>6 DEF Barrier, Parties
  <2>8. Answers'
    BY <1>0, <2>1, AnswersStay DEF Inv, Answers
  <2>. QED BY <1>3, <2>3, <2>7, <2>8 DEF Inv
<1>7. CASE MainReleased \/ MainJoined
  <2>1. /\ pc \in {"released", "join"} /\ pc' \in {"join", "done"} /\ (pc' = "join" => pc = "released")
        /\ UNCHANGED <<repetition, workerPc, arrived>>
    BY <1>7 DEF MainReleased, MainJoined, workerVars
  <2>2. TypeOK'
    BY <1>0, <2>1 DEF Inv, TypeOK, httpVars
  <2>3. Arrived' = Arrived /\ \A w \in Worker : Past(w)' <=> Past(w)
    BY <2>1 DEF Arrived, Past
  <2>4. Barrier'
    BY <1>1, <2>1, <2>3 DEF Inv, Barrier, Running, Parties
  <2>5. Answers'
    BY <1>0, <2>1, AnswersStay DEF Inv, Answers
  <2>. QED BY <1>3, <2>2, <2>4, <2>5 DEF Inv
<1>. QED BY <1>4, <1>5, <1>6, <1>7

\* A worker exists from its spawning on, so that the sequential paths are over.
LEMMA WorkerRuns ==
    ASSUME Inv, NEW w \in Worker, workerPc[w] # "none"
    PROVE  pc # "path"
BY DEF Inv, Barrier

\* The barrier counts a worker, and lets go when the main thread and the other workers wait.
LEMMA WorkerArriveInv == ASSUME NEW w \in Worker PROVE Inv /\ Running /\ WorkerArrive(w) => Inv'
<1>. SUFFICES ASSUME Inv, Running, WorkerArrive(w) PROVE Inv'
  OBVIOUS
<1>. USE RegistryAssumption
<1>1. /\ workerPc[w] = "init" /\ workerPc' = [workerPc EXCEPT ![w] = "waiting"] /\ arrived' = arrived + 1
      /\ UNCHANGED <<mainVars, httpVars, status, csvMutex, rows>>
  BY DEF WorkerArrive
<1>. USE DEF mainVars
<1>2. workerPc \in WorkerPcType /\ arrived \in Nat /\ pc # "path"
  BY <1>1, WorkerRuns DEF Inv, TypeOK, WorkerPcType
<1>3. Arrived' = Arrived \cup {w} /\ w \notin Arrived /\ Arrived' \in SUBSET Worker
  BY <1>1, <1>2 DEF Arrived, WorkerPcType
<1>4. Cardinality(Arrived') = Cardinality(Arrived) + 1 /\ Cardinality(Arrived) \in Nat
  <2>1. Arrived \in SUBSET Worker
    BY DEF Arrived
  <2>2. IsFiniteSet(Arrived) /\ Cardinality(Arrived) \in Nat
    BY <2>1, ArrivedCounted
  <2>3. Cardinality(Arrived \cup {w}) = Cardinality(Arrived) + 1
    BY <1>3, <2>2, FS_AddElement
  <2>. QED BY <1>3, <2>2, <2>3
<1>5. /\ Cardinality(Arrived') \in 0 .. NetworkRepetitions
      /\ Cardinality(Arrived') = NetworkRepetitions => Arrived' = Worker
  BY <1>3, ArrivedCounted
<1>6. arrived = Cardinality(Arrived) + (IF pc \in {"released", "join"} THEN 1 ELSE 0)
  BY DEF Inv, Barrier
<1>7. arrived' = Cardinality(Arrived') + (IF pc' \in {"released", "join"} THEN 1 ELSE 0)
  BY <1>1, <1>4, <1>6
<1>8. TypeOK'
  <2>1. arrived' \in 0 .. NetworkRepetitions + 1
    BY <1>5, <1>7
  <2>2. workerPc' \in WorkerPcType
    BY <1>1, <1>2 DEF WorkerPcType
  <2>. QED BY <1>1, <2>1, <2>2 DEF Inv, TypeOK, httpVars, WorkerPcType
<1>9. Barrier'
  <2>1. arrived' >= Parties => Arrived' = Worker /\ pc' \notin {"path", "spawn", "arrive"}
    BY <1>2, <1>1, <1>5, <1>7 DEF Parties, Running
  <2>2. \A v \in Worker : Past(v)' => Past(v)
    BY <1>1, <1>2 DEF Past, WorkerPcType
  <2>3. \A v \in Worker : Past(v)' => arrived' >= Parties
    BY <1>1, <1>2, <2>2 DEF Inv, Barrier, Parties
  <2>4. pc' = "spawn" => \A v \in Worker : v >= repetition' => workerPc'[v] = "none"
    BY <1>1, <1>2 DEF Inv, Barrier, WorkerPcType
  <2>. QED BY <1>1, <1>2, <1>7, <2>1, <2>3, <2>4 DEF Barrier, Parties
<1>10. Answers'
  <2>1. \A v \in Worker : line[v] # "idle" => workerPc'[v] = "request"
    BY <1>1, <1>2 DEF Inv, Answers, WorkerPcType
  <2>. QED BY <1>1, <1>2, <2>1, AnswersStay
<1>11. RowsTellTheRegistry'
  BY <1>1, RowsStay DEF Inv, httpVars
<1>. QED BY <1>8, <1>9, <1>10, <1>11 DEF Inv

\* A worker without a connection handle takes the process with it.
LEMMA WorkerInitFailsInv == ASSUME NEW w \in Worker PROVE Inv /\ WorkerInitFails(w) => Inv'
<1>. SUFFICES ASSUME Inv, WorkerInitFails(w) PROVE Inv'
  OBVIOUS
<1>1. /\ workerPc[w] = "init" /\ pc' = "aborted"
      /\ UNCHANGED <<path, repetition, httpVars, workerVars, rows>>
  BY DEF WorkerInitFails
<1>. USE DEF workerVars
<1>2. pc # "path"
  BY <1>1, WorkerRuns
<1>3. TypeOK'
  BY <1>1 DEF Inv, TypeOK, httpVars
<1>4. Barrier'
  BY <1>1 DEF Inv, Barrier, Running, Arrived, Past, Parties
<1>5. Answers'
  BY <1>1, <1>2, AnswersStay DEF Inv, Answers
<1>6. RowsTellTheRegistry'
  BY <1>1, RowsStay DEF Inv, httpVars
<1>. QED BY <1>3, <1>4, <1>5, <1>6 DEF Inv

\* What the steps past the barrier have in common.
LEMMA WorkerPast ==
    ASSUME Inv, Running, NEW w \in Worker, NEW to \in {"request", "lock", "write", "exit"},
           workerPc[w] = "waiting" => arrived >= Parties,
           workerPc[w] \in {"waiting", "request", "lock", "write"},
           workerPc' = [workerPc EXCEPT ![w] = to], UNCHANGED <<mainVars, arrived>>
    PROVE  /\ pc # "path" /\ workerPc \in WorkerPcType /\ workerPc' \in WorkerPcType
           /\ Barrier'
<1>. USE DEF mainVars
<1>1. workerPc \in WorkerPcType /\ pc # "path"
  BY WorkerRuns DEF Inv, TypeOK, WorkerPcType
<1>2. workerPc' \in WorkerPcType
  BY <1>1 DEF WorkerPcType
<1>3. Arrived' = Arrived
  BY <1>1 DEF Arrived, WorkerPcType
<1>4. arrived >= Parties
  BY DEF Inv, Barrier, Past
<1>5. pc \notin {"path", "spawn", "arrive"} /\ Arrived = Worker
  BY <1>4 DEF Inv, Barrier
<1>6. Barrier'
  BY <1>3, <1>4, <1>5 DEF Inv, Barrier, Running, Parties
<1>. QED BY <1>1, <1>2, <1>6

\* A worker sends its registration when the barrier is open.
LEMMA WorkerSendInv == ASSUME NEW w \in Worker PROVE Inv /\ Running /\ WorkerSend(w) => Inv'
<1>. SUFFICES ASSUME Inv, Running, WorkerSend(w) PROVE Inv'
  OBVIOUS
<1>1. /\ workerPc[w] = "waiting" /\ arrived >= Parties /\ line' = [line EXCEPT ![w] = "sent"]
      /\ workerPc' = [workerPc EXCEPT ![w] = "request"]
      /\ UNCHANGED <<mainVars, answer, registered, orphans, status, arrived, csvMutex, rows>>
  BY DEF WorkerSend, Send
<1>2. pc # "path" /\ workerPc \in WorkerPcType /\ workerPc' \in WorkerPcType /\ Barrier'
  BY <1>1, WorkerPast
<1>. USE DEF mainVars
<1>3. w \in Thread /\ w # Main /\ line \in LineType
  BY ThreadFacts DEF Inv, TypeOK, LineType
<1>4. TypeOK'
  BY <1>1, <1>2, <1>3 DEF Inv, TypeOK, LineType, WorkerPcType
<1>5. Answers'
  <2>1. \A t \in Thread : line'[t] = "answered" => line[t] = "answered"
    BY <1>1, <1>3 DEF LineType
  <2>2. \A t : RequestOf(t)' = RequestOf(t)
    BY <1>1 DEF RequestOf
  <2>3. line'[Main] = line[Main] /\ \A v \in Worker : line'[v] # "idle" => workerPc'[v] = "request"
    BY <1>1, <1>2, <1>3, ThreadFacts DEF Inv, Answers, LineType, WorkerPcType
  <2>. QED BY <1>1, <2>1, <2>2, <2>3 DEF Inv, Answers
<1>6. RowsTellTheRegistry'
  BY <1>1, RowsStay DEF Inv
<1>. QED BY <1>2, <1>4, <1>5, <1>6 DEF Inv

\* A worker takes the status of its answer, or 0 for an answer that was lost.
LEMMA WorkerAnsweredInv ==
    ASSUME NEW w \in Worker PROVE Inv /\ Running /\ (WorkerReceive(w) \/ WorkerThrown(w)) => Inv'
<1>. SUFFICES ASSUME Inv, Running, WorkerReceive(w) \/ WorkerThrown(w) PROVE Inv'
  OBVIOUS
<1>1. /\ workerPc[w] = "request" /\ line' = [line EXCEPT ![w] = "idle"]
      /\ workerPc' = [workerPc EXCEPT ![w] = "lock"]
      /\ UNCHANGED <<mainVars, answer, registered, arrived, csvMutex, rows>>
      /\ orphans' \in {orphans, orphans \cup {RequestOf(w).subject}}
      /\ \/ line[w] = "answered" /\ status' = [status EXCEPT ![w] = answer[w]]
         \/ status' = [status EXCEPT ![w] = 0]
  BY DEF WorkerReceive, WorkerThrown, Receive, GiveUp
<1>2. pc # "path" /\ workerPc \in WorkerPcType /\ workerPc' \in WorkerPcType /\ Barrier'
  BY <1>1, WorkerPast
<1>. USE DEF mainVars
<1>3. /\ w \in Thread /\ w # Main /\ line \in LineType /\ answer \in AnswerType
      /\ status \in [Worker -> {0, 200, 404, 500}]
  BY ThreadFacts DEF Inv, TypeOK, LineType, AnswerType
<1>4. RequestOf(w).subject = Subject(Concurrent, w) /\ RequestOf(w).subject \in Subjects
  BY <1>3, RequestFacts DEF Inv
<1>5. TypeOK'
  <2>1. status' \in [Worker -> {0, 200, 404, 500}]
    BY <1>1, <1>3 DEF AnswerType
  <2>2. line' \in LineType /\ orphans' \subseteq Subjects
    BY <1>1, <1>3, <1>4 DEF LineType, Inv, TypeOK
  <2>. QED BY <1>1, <1>2, <2>1, <2>2 DEF Inv, TypeOK, LineType, WorkerPcType
<1>6. Answers'
  <2>1. \A t \in Thread : line'[t] = "answered" => line[t] = "answered"
    BY <1>1, <1>3 DEF LineType
  <2>2. \A t : RequestOf(t)' = RequestOf(t)
    BY <1>1 DEF RequestOf
  <2>3. line'[Main] = line[Main] /\ \A v \in Worker : line'[v] # "idle" => workerPc'[v] = "request"
    BY <1>1, <1>2, <1>3, ThreadFacts DEF Inv, Answers, LineType, WorkerPcType
  <2>4. line[w] = "answered" =>
            (answer[w] = 200 => Subject(Concurrent, w) \in registered) /\ answer[w] # 404
    BY <1>3, <1>4 DEF Inv, Answers
  <2>5. \A v \in Worker : (status'[v] = 200 => Subject(Concurrent, v) \in registered) /\ status'[v] # 404
    BY <1>1, <1>3, <2>4 DEF Inv, Answers
  <2>. QED BY <1>1, <2>1, <2>2, <2>3, <2>5 DEF Inv, Answers
<1>7. RowsTellTheRegistry'
  BY <1>1, RowsStay DEF Inv
<1>. QED BY <1>2, <1>5, <1>6, <1>7 DEF Inv

\* A worker's row, under the mutex, has its status.
LEMMA WorkerRowInv ==
    ASSUME NEW w \in Worker PROVE Inv /\ Running /\ (WorkerLock(w) \/ WorkerWrite(w)) => Inv'
<1>. SUFFICES ASSUME Inv, Running, WorkerLock(w) \/ WorkerWrite(w) PROVE Inv'
  OBVIOUS
<1>1. PICK to \in {"write", "exit"} : workerPc' = [workerPc EXCEPT ![w] = to]
  BY DEF WorkerLock, WorkerWrite
<1>2. /\ workerPc[w] \in {"lock", "write"} /\ UNCHANGED <<mainVars, httpVars, status, arrived>>
      /\ csvMutex' \in {Main, w}
      /\ rows' \in {rows, Append(rows, Row(Concurrent, w, status[w]))}
  BY DEF WorkerLock, WorkerWrite
<1>3. pc # "path" /\ workerPc \in WorkerPcType /\ workerPc' \in WorkerPcType /\ Barrier'
  BY <1>1, <1>2, WorkerPast
<1>4. rows \in Seq(RowType) /\ status[w] \in {0, 200, 404, 500} /\ Concurrent \in AllPaths
  BY PathFacts DEF Inv, TypeOK, RowType
<1>5. RowsTellTheRegistry' /\ rows' \in Seq(RowType)
  <2>1. registered' = registered /\ RowsTellTheRegistry
    BY <1>2 DEF httpVars, Inv
  <2>2. CASE rows' = rows
    BY <1>4, <2>1, <2>2, RowsStay
  <2>3. CASE rows' = Append(rows, Row(Concurrent, w, status[w]))
    <3>1. Tolerant(Concurrent)
      BY DEF Tolerant
    <3>2. (status[w] = 200 => Subject(Concurrent, w) \in registered) /\ status[w] # 404
      BY DEF Inv, Answers
    <3>. QED BY <1>4, <2>1, <2>3, <3>1, <3>2, RowsGrow
  <2>. QED BY <1>2, <2>2, <2>3
<1>6. TypeOK'
  <2>1. csvMutex' \in Thread
    BY <1>2, ThreadFacts
  <2>. QED BY <1>2, <1>3, <1>5, <2>1 DEF Inv, TypeOK, mainVars, httpVars, RowType, WorkerPcType
<1>7. Answers'
  <2>1. \A v \in Worker : line[v] # "idle" => workerPc'[v] = "request"
    BY <1>1, <1>2, <1>3 DEF Inv, Answers, WorkerPcType
  <2>. QED BY <1>2, <1>3, <2>1, AnswersStay DEF mainVars
<1>. QED BY <1>3, <1>5, <1>6, <1>7 DEF Inv

-------------------------------------------------------------------------------
(* The Schema Registry *)

\* A good answer follows the execution, and a 404 is about a subject nobody has registered.
LEMMA ServeInv == ASSUME NEW t \in Thread PROVE Inv /\ Serve(t) => Inv'
<1>. SUFFICES ASSUME Inv, Serve(t) PROVE Inv'
  OBVIOUS
<1>. DEFINE request == RequestOf(t)
<1>1. PICK code \in {200, 404, 500}, stored \in BOOLEAN :
        /\ code = 404 => ~request.post
        /\ stored => request.post
        /\ code = 200 => stored \/ (~request.post /\ request.subject \in registered)
        /\ code = 404 => request.subject \notin registered
        /\ answer' = [answer EXCEPT ![t] = code]
        /\ registered' = IF stored THEN registered \cup {request.subject} ELSE registered
  BY DEF Serve
<1>2. /\ line[t] = "sent" /\ line' = [line EXCEPT ![t] = "answered"]
      /\ UNCHANGED <<mainVars, orphans, workerVars, rows>>
  BY DEF Serve
<1>. USE DEF mainVars, workerVars
<1>3. registered \subseteq registered' /\ registered' \subseteq registered \cup {request.subject}
  BY <1>1
<1>4. /\ request.subject \in Subjects
      /\ t # Main => request.post
      /\ t = Main => /\ request.post = Posts(Paths[path])
                     /\ request.subject = Subject(Paths[path], repetition)
  BY RequestFacts DEF Inv
<1>5. \A u : RequestOf(u)' = RequestOf(u)
  BY <1>2 DEF RequestOf
<1>6. code = 200 => request.subject \in registered'
  BY <1>1
<1>7. code = 404 => t = Main /\ Paths[path] = "cache_miss_404"
  <2>1. SUFFICES ASSUME code = 404 PROVE t = Main /\ Paths[path] = "cache_miss_404"
    OBVIOUS
  <2>2. t = Main /\ ~Posts(Paths[path]) /\ Subject(Paths[path], repetition) \notin registered
    BY <1>1, <1>4, <2>1
  <2>3. path # 1
    BY <2>2, PathFacts DEF Posts
  <2>4. Subject(Paths[path], repetition) # Base
    BY <2>2, <2>3 DEF Inv, Answers
  <2>. QED BY <2>2, <2>4 DEF Subject, Base, Posts
<1>. HIDE DEF request
<1>8. line \in LineType /\ answer \in AnswerType
  BY DEF Inv, TypeOK, LineType, AnswerType
<1>9. TypeOK'
  <2>1. line' \in LineType /\ answer' \in AnswerType /\ registered' \subseteq Subjects
    BY <1>1, <1>2, <1>3, <1>4, <1>8 DEF LineType, AnswerType, Inv, TypeOK
  <2>. QED BY <1>2, <2>1 DEF Inv, TypeOK, LineType, AnswerType
<1>10. Barrier'
  BY <1>2 DEF Inv, Barrier, Running, Arrived, Past
<1>11. Answers'
  <2>1. \A u \in Thread : line'[u] # "idle" => line[u] # "idle"
    BY <1>2, <1>8 DEF LineType
  <2>2. ASSUME NEW u \in Thread, line'[u] = "answered"
        PROVE  /\ answer'[u] = 200 => RequestOf(u)'.subject \in registered'
               /\ answer'[u] = 404 => u = Main /\ Paths[path] = "cache_miss_404"
    <3>1. CASE u = t
      BY <1>1, <1>5, <1>6, <1>7, <1>8, <3>1 DEF AnswerType, request
    <3>2. CASE u # t
      <4>1. line[u] = "answered" /\ answer'[u] = answer[u]
        BY <1>1, <1>2, <1>8, <2>2, <3>2 DEF LineType, AnswerType
      <4>. QED BY <1>3, <1>5, <4>1 DEF Inv, Answers
    <3>. QED BY <3>1, <3>2
  <2>. QED BY <1>2, <1>3, <2>1, <2>2, ThreadFacts DEF Inv, Answers
<1>12. RowsTellTheRegistry'
  BY <1>2, <1>3, RowsStay DEF Inv
<1>. QED BY <1>9, <1>10, <1>11, <1>12 DEF Inv

\* A late registration adds a subject that somebody asked for.
LEMMA ServeOrphanInv == ASSUME NEW s PROVE Inv /\ ServeOrphan(s) => Inv'
<1>. SUFFICES ASSUME Inv, ServeOrphan(s) PROVE Inv'
  OBVIOUS
<1>1. /\ s \in orphans /\ orphans' = orphans \ {s}
      /\ registered' = registered \cup {s}
      /\ UNCHANGED <<mainVars, line, answer, workerVars, rows>>
  BY DEF ServeOrphan
<1>. USE DEF mainVars, workerVars
<1>2. TypeOK'
  BY <1>1 DEF Inv, TypeOK
<1>3. Barrier'
  BY <1>1 DEF Inv, Barrier, Running, Arrived, Past
<1>4. \A t : RequestOf(t)' = RequestOf(t)
  BY <1>1 DEF RequestOf
<1>5. Answers'
  BY <1>1, <1>4 DEF Inv, Answers
<1>6. RowsTellTheRegistry'
  BY <1>1, RowsStay DEF Inv
<1>. QED BY <1>2, <1>3, <1>5, <1>6 DEF Inv

-------------------------------------------------------------------------------
(* RegistryBench: theorems *)

\* No step disturbs the invariant.
LEMMA NextInv == Inv /\ [Next]_vars => Inv'
<1>. SUFFICES ASSUME Inv, [Next]_vars PROVE Inv'
  OBVIOUS
<1>1. CASE MainStep
  BY <1>1, MainPathInv, MainWorkersInv DEF MainStep
<1>2. ASSUME NEW w \in Worker, WorkerStep(w)
      PROVE  Inv'
  BY <1>2, WorkerArriveInv, WorkerInitFailsInv, WorkerSendInv, WorkerAnsweredInv, WorkerRowInv
     DEF WorkerStep
<1>3. CASE RegistryStep
  BY <1>3, ServeInv, ServeOrphanInv DEF RegistryStep
<1>4. CASE UNCHANGED vars
  <2>. USE <1>4 DEF vars, mainVars, httpVars, workerVars
  <2>1. TypeOK' /\ RowsTellTheRegistry'
    BY RowsStay DEF Inv, TypeOK
  <2>2. Barrier'
    BY DEF Inv, Barrier, Running, Arrived, Past
  <2>3. \A t : RequestOf(t)' = RequestOf(t)
    BY DEF RequestOf
  <2>4. Answers'
    BY <2>3 DEF Inv, Answers
  <2>. QED BY <2>1, <2>2, <2>4 DEF Inv
<1>. QED BY <1>1, <1>2, <1>3, <1>4 DEF Next, Ended

\* A run keeps the invariant, whatever the Registry answers, loses or executes late.
THEOREM Invariance == Spec => []Inv
BY InitInv, NextInv, PTL DEF Spec

\* Behind the barrier everybody has arrived.
LEMMA InvTogether == Inv => RegistrationsTogether
BY DEF Inv, Barrier, Past, Arrived, RegistrationsTogether

\* However many workers there are, none registers before all have a connection and wait.
THEOREM Together == Spec => []RegistrationsTogether
BY InvTogether, Invariance, PTL

\* A 200 says that the subject is at the Registry, a 404 that the row is a cache miss, and a
\* row of the strict paths is never a failure.
THEOREM TruthfulRows == Spec => []RowsTellTheRegistry
<1>1. Inv => RowsTellTheRegistry
  BY DEF Inv
<1>. QED BY <1>1, Invariance, PTL

-------------------------------------------------------------------------------
(* Complete rows *)

\* The rows of a repetition of a path, and that there is one.
Written(p, r) == {k \in DOMAIN rows : rows[k].api = p /\ rows[k].repetition = r}
Once(p, r) == \E k \in DOMAIN rows : Written(p, r) = {k}

\* The sequential paths have yet to come to this repetition.
Pending(k, r) == pc = "path" /\ (k > path \/ (k = path /\ r >= repetition))

\* While nothing has gone wrong each repetition that is over has its row, and a worker that
\* writes one has the lock.
Rowed ==
    pc \notin {"failed", "aborted"} =>
        /\ \A k \in 2 .. 7, r \in Worker :
            IF Pending(k, r) THEN Written(Paths[k], r) = {} ELSE Once(Paths[k], r)
        /\ \A w \in Worker :
            /\ IF workerPc[w] = "exit" THEN Once(Concurrent, w) ELSE Written(Concurrent, w) = {}
            /\ workerPc[w] = "write" => csvMutex = w
            /\ pc = "done" => workerPc[w] = "exit"

\* No path is walked twice.
LEMMA PathsDiffer ==
    /\ \A j, k \in 1 .. 7 : j # k => Paths[j] # Paths[k]
    /\ \A k \in 1 .. 7 : Paths[k] # Concurrent
    /\ AllPaths \ {"bootstrap"} = {Paths[k] : k \in 2 .. 7} \cup {Concurrent}
<1>1. /\ \A j, k \in 1 .. 7 : j # k => Paths[j] # Paths[k]
      /\ \A k \in 1 .. 7 : Paths[k] # Concurrent
  BY DEF Paths, Concurrent
<1>2. AllPaths \ {"bootstrap"} = {Paths[k] : k \in 2 .. 7} \cup {Concurrent}
  <2>1. AllPaths = {Paths[k] : k \in 1 .. 7} \cup {Concurrent} /\ Paths[1] = "bootstrap"
    BY PathFacts DEF AllPaths
  <2>2. \A k \in 1 .. 7 : k \in 2 .. 7 <=> Paths[k] # "bootstrap"
    BY <1>1, <2>1
  <2>. QED BY <1>1, <2>1, <2>2 DEF Concurrent
<1>. QED BY <1>1, <1>2

\* The one row is among the rows.
LEMMA OnceFacts ==
    ASSUME NEW p, NEW r
    PROVE  /\ Once(p, r) <=> \E k : Written(p, r) = {k}
           /\ Once(p, r)' <=> \E k : Written(p, r)' = {k}
  BY DEF Once, Written

\* A row is one more of its own repetition and path.
LEMMA RowAdded ==
    ASSUME rows \in Seq(RowType), NEW p, NEW r, NEW code, rows' = Append(rows, Row(p, r, code))
    PROVE  \A q, s : Written(q, s)' = IF q = p /\ s = r THEN Written(q, s) \cup {Len(rows) + 1}
                                     ELSE Written(q, s)
<1>1. /\ DOMAIN rows = 1 .. Len(rows) /\ DOMAIN rows' = 1 .. Len(rows) + 1 /\ Len(rows) \in Nat
      /\ \A k \in 1 .. Len(rows) : rows'[k] = rows[k]
      /\ rows'[Len(rows) + 1] = Row(p, r, code)
  <2>. HIDE DEF RowType
  <2>. QED OBVIOUS
<1>2. Row(p, r, code).api = p /\ Row(p, r, code).repetition = r
  BY DEF Row
<1>. QED BY <1>1, <1>2 DEF Written

\* Without a new row the repetitions have the rows they had.
LEMMA NoRowAdded ==
    ASSUME rows' = rows
    PROVE  \A q, s : (Written(q, s)' = Written(q, s)) /\ (Once(q, s)' <=> Once(q, s))
BY DEF Written, Once

\* The repetition that is over has got its row, and the loops go on behind it.
LEMMA AdvanceRowed ==
    ASSUME Inv, Rowed, pc = "path", Advance, UNCHANGED <<workerPc, csvMutex>>,
           path = 1 => rows' = rows,
           path # 1 => \E code : rows' = Append(rows, Row(Paths[path], repetition, code))
    PROVE  Rowed'
<1>. USE RegistryAssumption
<1>0. \A k \in 2 .. 7, r \in Worker :
        IF Pending(k, r) THEN Written(Paths[k], r) = {} ELSE Once(Paths[k], r)
  BY DEF Rowed
<1>1. /\ path \in 1 .. 7 /\ repetition \in Worker /\ Worker = 1 .. NetworkRepetitions
      /\ rows \in Seq(RowType)
  BY PathFacts DEF Inv, TypeOK, RowType, Worker
<1>2. \/ path = 1 /\ path' = 2 /\ repetition' = 1 /\ pc' = "path"
      \/ path # 1 /\ repetition # NetworkRepetitions /\ path' = path /\ repetition' = repetition + 1 /\ pc' = "path"
      \/ path # 1 /\ repetition = NetworkRepetitions /\ path < 7 /\ path' = path + 1 /\ repetition' = 1 /\ pc' = "path"
      \/ path = 7 /\ repetition = NetworkRepetitions /\ pc' = "spawn"
  BY <1>1, PathFacts DEF Advance, LastRepetition
<1>3. \A k \in 2 .. 7, r \in Worker :
        Pending(k, r)' <=> Pending(k, r) /\ ~(k = path /\ r = repetition)
  BY <1>1, <1>2 DEF Pending
<1>4. \A q, s : Written(q, s)' = Written(q, s) \/ (q = Paths[path] /\ s = repetition /\ path # 1)
  <2>1. CASE path = 1
    BY <2>1, NoRowAdded
  <2>2. CASE path # 1
    BY <1>1, <2>2, RowAdded
  <2>. QED BY <2>1, <2>2
<1>5. ASSUME NEW k \in 2 .. 7, NEW r \in Worker
      PROVE  IF Pending(k, r)' THEN Written(Paths[k], r)' = {} ELSE Once(Paths[k], r)'
  <2>1. CASE k = path /\ r = repetition
    <3>1. Written(Paths[k], r) = {}
      <4>1. Pending(k, r)
        BY <1>1, <2>1 DEF Pending
      <4>. QED BY <1>5, <1>0, <4>1
    <3>2. Written(Paths[k], r)' = {Len(rows) + 1}
      BY <1>1, <1>5, <2>1, <3>1, RowAdded
    <3>. QED BY <1>3, <2>1, <3>2 DEF Once
  <2>2. CASE ~(k = path /\ r = repetition)
    <3>1. Written(Paths[k], r)' = Written(Paths[k], r)
      BY <1>1, <1>4, <2>2, PathsDiffer
    <3>2. Pending(k, r)' <=> Pending(k, r)
      BY <1>3, <2>2
    <3>3. Once(Paths[k], r)' <=> Once(Paths[k], r)
      BY <3>1, OnceFacts
    <3>. QED BY <1>0, <1>5, <3>1, <3>2, <3>3
  <2>. QED BY <2>1, <2>2
<1>6. ASSUME NEW w \in Worker
      PROVE  /\ IF workerPc[w] = "exit" THEN Once(Concurrent, w)' ELSE Written(Concurrent, w)' = {}
             /\ workerPc[w] = "write" => csvMutex = w
  <2>1. Written(Concurrent, w)' = Written(Concurrent, w)
    BY <1>1, <1>4, PathsDiffer
  <2>. QED BY <2>1 DEF Rowed, Once
<1>7. pc' # "done"
  BY <1>2
<1>. QED BY <1>5, <1>6, <1>7 DEF Rowed

\* Steps of the main thread: a row for a repetition that is over, and none otherwise.
LEMMA MainRowed == Inv /\ Rowed /\ MainStep => Rowed'
<1>. SUFFICES ASSUME Inv, Rowed, MainStep PROVE Rowed'
  OBVIOUS
<1>1. CASE pc' \in {"failed", "aborted"}
  BY <1>1 DEF Rowed
<1>2. CASE MainSend \/ MainArrive \/ MainReleased \/ MainJoined
  <2>1. /\ UNCHANGED <<path, repetition, workerPc, csvMutex, rows>>
        /\ pc' = "path" <=> pc = "path"
        /\ pc' = "done" => \A w \in Worker : workerPc[w] = "exit"
        /\ pc \notin {"failed", "aborted"}
    BY <1>2 DEF MainSend, MainArrive, MainReleased, MainJoined, mainVars, workerVars
  <2>. QED BY <2>1, NoRowAdded DEF Rowed, Pending
<1>3. CASE MainSpawn
  <2>1. /\ pc = "spawn" /\ pc' \in {"spawn", "arrive"} /\ UNCHANGED <<path, csvMutex, rows>>
        /\ workerPc' = [workerPc EXCEPT ![repetition] = "init"]
    BY <1>3 DEF MainSpawn
  <2>2. repetition \in Worker /\ workerPc \in WorkerPcType
    BY DEF Inv, TypeOK, WorkerPcType
  <2>3. workerPc[repetition] = "none"
    BY <2>1, <2>2, RegistryAssumption DEF Inv, Barrier, Worker
  <2>4. \A w \in Worker : /\ workerPc'[w] = "exit" <=> workerPc[w] = "exit"
                          /\ workerPc'[w] = "write" => workerPc[w] = "write"
    BY <2>1, <2>2, <2>3 DEF WorkerPcType
  <2>. QED BY <2>1, <2>4, NoRowAdded DEF Rowed, Pending
<1>4. CASE MainReceive /\ pc' \notin {"failed", "aborted"}
  <2>1. /\ pc = "path" /\ Advance /\ UNCHANGED <<workerPc, csvMutex>>
        /\ rows' = IF path = 1 THEN rows ELSE Append(rows, Row(Paths[path], repetition, answer[Main]))
    BY <1>4 DEF MainReceive, workerVars
  <2>. QED BY <2>1, AdvanceRowed
<1>5. CASE (MainThrown \/ MainUnavailable) /\ pc' \notin {"failed", "aborted"}
  <2>1. /\ pc = "path" /\ Advance /\ UNCHANGED <<workerPc, csvMutex>>
        /\ rows' = Append(rows, Row(Paths[path], repetition, 0))
        /\ Tolerant(Paths[path])
    BY <1>5 DEF MainThrown, MainUnavailable, workerVars, Tolerant
  <2>2. path # 1
    BY <2>1, PathFacts DEF Tolerant, Concurrent
  <2>. QED BY <2>1, <2>2, AdvanceRowed
<1>6. CASE MainInitFails \/ MainSpawnFails
  BY <1>1, <1>6 DEF MainInitFails, MainSpawnFails
<1>. QED BY <1>1, <1>2, <1>3, <1>4, <1>5, <1>6 DEF MainStep

\* Steps of a worker: its row is in one piece, as it holds the lock, and its only one.
LEMMA WorkerRowed == ASSUME NEW w \in Worker PROVE Inv /\ Rowed /\ WorkerStep(w) => Rowed'
<1>. SUFFICES ASSUME Inv, Rowed, WorkerStep(w) PROVE Rowed'
  OBVIOUS
<1>1. workerPc \in WorkerPcType /\ rows \in Seq(RowType) /\ Running
  BY DEF Inv, TypeOK, WorkerPcType, RowType, WorkerStep
<1>2. CASE WorkerInitFails(w)
  BY <1>2 DEF WorkerInitFails, Rowed
<1>3. ASSUME NEW to \in {"waiting", "request", "lock"},
             workerPc' = [workerPc EXCEPT ![w] = to], workerPc[w] # "exit",
             UNCHANGED <<mainVars, csvMutex, rows>>
      PROVE  Rowed'
  <2>1. \A v \in Worker : /\ workerPc'[v] = "exit" <=> workerPc[v] = "exit"
                          /\ workerPc'[v] = "write" => workerPc[v] = "write"
    BY <1>1, <1>3 DEF WorkerPcType
  <2>. QED BY <1>3, <2>1, NoRowAdded DEF Rowed, Pending, mainVars
<1>4. CASE WorkerArrive(w) \/ WorkerSend(w) \/ WorkerReceive(w) \/ WorkerThrown(w)
  BY <1>3, <1>4 DEF WorkerArrive, WorkerSend, WorkerReceive, WorkerThrown
<1>5. CASE WorkerLock(w)
  <2>1. /\ workerPc[w] = "lock" /\ csvMutex = Main /\ csvMutex' = w
        /\ workerPc' = [workerPc EXCEPT ![w] = "write"] /\ UNCHANGED <<mainVars, rows>>
    BY <1>5 DEF WorkerLock
  <2>2. \A v \in Worker : workerPc[v] # "write"
    BY <1>1, <2>1, ThreadFacts DEF Rowed, Running
  <2>3. \A v \in Worker : /\ workerPc'[v] = "exit" <=> workerPc[v] = "exit"
                          /\ workerPc'[v] = "write" => v = w
    BY <1>1, <2>1, <2>2 DEF WorkerPcType
  <2>. QED BY <2>1, <2>3, NoRowAdded DEF Rowed, Pending, mainVars
<1>6. CASE WorkerWrite(w)
  <2>1. /\ workerPc[w] = "write" /\ csvMutex' = Main
        /\ workerPc' = [workerPc EXCEPT ![w] = "exit"] /\ UNCHANGED mainVars
        /\ rows' = IF \A v \in Worker \ {w} : workerPc[v] # "write"
                   THEN Append(rows, Row(Concurrent, w, status[w])) ELSE rows
    BY <1>6 DEF WorkerWrite
  <2>2. \A v \in Worker \ {w} : workerPc[v] # "write"
    BY <1>1, <2>1 DEF Rowed, Running
  <2>3. rows' = Append(rows, Row(Concurrent, w, status[w]))
    BY <2>1, <2>2
  <2>4. \A v \in Worker : /\ v # w => workerPc'[v] = workerPc[v] /\ workerPc'[v] # "write"
                          /\ v = w => workerPc'[v] = "exit"
    BY <1>1, <2>1, <2>2 DEF WorkerPcType
  <2>5. ASSUME NEW q, NEW s, ~(q = Concurrent /\ s = w)
        PROVE  (Written(q, s)' = Written(q, s)) /\ (Once(q, s)' <=> Once(q, s))
    <3>1. Written(q, s)' = Written(q, s)
      BY <1>1, <2>3, <2>5, RowAdded
    <3>. QED BY <3>1, OnceFacts
  <2>6. Once(Concurrent, w)'
    <3>1. Written(Concurrent, w) = {}
      BY <1>1, <2>1 DEF Rowed, Running
    <3>2. Written(Concurrent, w)' = {Len(rows) + 1}
      BY <1>1, <2>3, <3>1, RowAdded
    <3>. QED BY <3>2, OnceFacts
  <2>7. ASSUME NEW v \in Worker
        PROVE  /\ IF workerPc'[v] = "exit" THEN Once(Concurrent, v)' ELSE Written(Concurrent, v)' = {}
               /\ workerPc'[v] = "write" => csvMutex' = v
               /\ pc' = "done" => workerPc'[v] = "exit"
    <3>1. CASE v = w
      BY <2>4, <2>6, <3>1
    <3>2. CASE v # w
      BY <1>1, <2>1, <2>4, <2>5, <3>2 DEF Rowed, Running, mainVars
    <3>. QED BY <3>1, <3>2
  <2>8. \A k \in 2 .. 7, r \in Worker :
            IF Pending(k, r)' THEN Written(Paths[k], r)' = {} ELSE Once(Paths[k], r)'
    BY <1>1, <2>1, <2>5, PathsDiffer DEF Rowed, Running, Pending, mainVars
  <2>. QED BY <2>7, <2>8 DEF Rowed
<1>. QED BY <1>2, <1>4, <1>5, <1>6 DEF WorkerStep

\* In the first state every repetition is to come.
LEMMA InitRowed == Init => Rowed
<1>. SUFFICES ASSUME Init PROVE Rowed
  OBVIOUS
<1>1. \A q, s : Written(q, s) = {}
  BY DEF Init, Written
<1>2. \A k \in 2 .. 7, r \in Worker : Pending(k, r)
  BY DEF Init, Pending
<1>. QED BY <1>1, <1>2 DEF Init, Rowed

\* No step writes a row that is not due, or leaves one out.
LEMMA NextRowed == Inv /\ Rowed /\ [Next]_vars => Rowed'
<1>. SUFFICES ASSUME Inv, Rowed, [Next]_vars PROVE Rowed'
  OBVIOUS
<1>1. CASE RegistryStep \/ UNCHANGED vars
  <2>1. UNCHANGED <<mainVars, workerVars, rows>>
    BY <1>1 DEF RegistryStep, Serve, ServeOrphan, vars
  <2>. QED BY <2>1, NoRowAdded DEF Rowed, Pending, mainVars, workerVars
<1>. QED BY <1>1, MainRowed, WorkerRowed DEF Next, Ended

\* At the end every repetition is over.
LEMMA RowedAtEnd == Rowed => RowsComplete
<1>. SUFFICES ASSUME Rowed, pc = "done", NEW p \in AllPaths \ {"bootstrap"}, NEW r \in Worker
              PROVE  Cardinality(Written(p, r)) = 1
  BY DEF RowsComplete, Written
<1>1. Once(p, r)
  BY PathsDiffer DEF Rowed, Pending
<1>. QED BY <1>1, FS_Singleton DEF Once

\* A run that ends well wrote each repetition of each path exactly once and in one piece.
THEOREM EveryRowOnce == Spec => []RowsComplete
BY InitRowed, NextRowed, RowedAtEnd, Invariance, PTL DEF Spec

-------------------------------------------------------------------------------
(* SchemaEvolution: the inductive invariant *)

ClientRuns == client \in {"curl", "phase", "sent", "answered"}

\* The rows are those of the steps before this one.
RowsBefore ==
    /\ client = "curl" => phase = 1
    /\ client = "answered" => reply # 0
    /\ ClientRuns => \A k \in DOMAIN log :
        /\ log[k].repetition =< subject
        /\ log[k].repetition = subject =>
            /\ log[k].phase = "v1" => phase >= 2
            /\ log[k].phase = "v2" => phase = 3

\* While the client of a fresh Registry runs nothing is late, subjects to come are empty, and
\* the present one holds what its answers have said.
FreshRegistry ==
    ClientRuns =>
        /\ late = {}
        /\ \A s \in Evolution!Subject : s > subject => versions[s] = <<>>
        /\ phase = 1 /\ client # "answered" => versions[subject] = <<>>
        /\ phase = 1 /\ client = "answered" /\ reply = 200 => versions[subject] = <<"v1">>
        /\ phase = 2 /\ Evolution!Succeeded(subject, "v1") =>
            IF client = "answered" /\ reply = 200 THEN versions[subject] = <<"v1", "v2">>
            ELSE client = "answered" \/ versions[subject] = <<"v1">>

EvolutionInv == Evolution!TypeOK /\ RowsBefore /\ (emptied => FreshRegistry) /\ Evolution!SuccessShowsUpgrade

-------------------------------------------------------------------------------
(* Phases and rows *)

\* The three phases, the first two of which register.
LEMMA PhaseFacts ==
    /\ DOMAIN Evolution!Phases = 1 .. 3 /\ Len(Evolution!Phases) = 3
    /\ Evolution!Phases[1] = "v1" /\ Evolution!Phases[2] = "v2" /\ Evolution!Phases[3] = "lookup_versions"
    /\ \A k \in 1 .. 3 : Evolution!Phases[k] \in Evolution!Schemas \cup {"lookup_versions"}
<1>. QED BY DEF Evolution!Phases, Evolution!Schemas

\* A received answer is one more success, or none.
LEMMA OneMoreRow ==
    ASSUME EvolutionInv, Evolution!Receive
    PROVE  /\ log' \in Seq([phase : Evolution!Schemas \cup {"lookup_versions"}, repetition : Evolution!Subject,
                              status : {200, 404, 409, 500}])
           /\ \A k \in DOMAIN log' :
                /\ log'[k].repetition \in Evolution!Subject
                /\ \/ k \in DOMAIN log /\ log'[k] = log[k]
                   \/ log'[k].repetition = subject /\ log'[k].phase = Evolution!Phases[phase]
           /\ \A s, schema : Evolution!Succeeded(s, schema)' <=>
                \/ Evolution!Succeeded(s, schema)
                \/ s = subject /\ schema = Evolution!Phases[phase] /\ reply = 200
<1>. DEFINE LogType == [phase : Evolution!Schemas \cup {"lookup_versions"}, repetition : Evolution!Subject,
                        status : {200, 404, 409, 500}]
<1>1. log' = Append(log, Evolution!Row(reply)) /\ log \in Seq(LogType)
  BY DEF EvolutionInv, Evolution!TypeOK, Evolution!Receive
<1>2. Evolution!Row(reply) \in LogType
  BY PhaseFacts DEF EvolutionInv, Evolution!TypeOK, RowsBefore, Evolution!Receive, Evolution!Row
<1>3. /\ log' \in Seq(LogType) /\ DOMAIN log = 1 .. Len(log) /\ DOMAIN log' = 1 .. Len(log) + 1
      /\ Len(log) \in Nat
      /\ \A k \in 1 .. Len(log) : log'[k] = log[k]
      /\ log'[Len(log) + 1] = Evolution!Row(reply)
  BY <1>1, <1>2
<1>4. \A k \in DOMAIN log' :
        /\ log'[k].repetition \in Evolution!Subject
        /\ \/ k \in DOMAIN log /\ log'[k] = log[k]
           \/ log'[k].repetition = subject /\ log'[k].phase = Evolution!Phases[phase]
  <2>. SUFFICES ASSUME NEW k \in DOMAIN log'
                PROVE  /\ log'[k].repetition \in Evolution!Subject
                       /\ \/ k \in DOMAIN log /\ log'[k] = log[k]
                          \/ log'[k].repetition = subject /\ log'[k].phase = Evolution!Phases[phase]
    OBVIOUS
  <2>1. ASSUME k = Len(log) + 1 PROVE log'[k].repetition \in Evolution!Subject
    BY <1>2, <1>3, <2>1
  <2>2. ASSUME k \in 1 .. Len(log) PROVE log'[k].repetition \in Evolution!Subject
    <3>1. log[k] \in LogType
      <4>. HIDE DEF LogType
      <4>. QED BY <1>1, <2>2
    <3>. QED BY <1>3, <2>2, <3>1
  <2>3. \/ k \in DOMAIN log /\ log'[k] = log[k]
        \/ log'[k] = Evolution!Row(reply)
    BY <1>3
  <2>4. log'[k].repetition \in Evolution!Subject
    BY <1>3, <2>1, <2>2
  <2>. QED BY <2>3, <2>4 DEF Evolution!Row
<1>5. ASSUME NEW s, NEW schema
      PROVE  Evolution!Succeeded(s, schema)' <=>
                \/ Evolution!Succeeded(s, schema)
                \/ s = subject /\ schema = Evolution!Phases[phase] /\ reply = 200
  <2>1. /\ Evolution!Row(reply).phase = Evolution!Phases[phase] /\ Evolution!Row(reply).repetition = subject
        /\ Evolution!Row(reply).status = reply
    BY DEF Evolution!Row
  <2>2. Evolution!Succeeded(s, schema)' <=>
            \/ \E k \in 1 .. Len(log) :
                    log'[k].phase = schema /\ log'[k].repetition = s /\ log'[k].status = 200
            \/ LET k == Len(log) + 1
               IN log'[k].phase = schema /\ log'[k].repetition = s /\ log'[k].status = 200
    BY <1>3 DEF Evolution!Succeeded
  <2>. QED BY <1>3, <2>1, <2>2 DEF Evolution!Succeeded
<1>. QED BY <1>3, <1>4, <1>5

-------------------------------------------------------------------------------
(* The steps *)

\* The first run finds an empty Registry.
LEMMA EvolutionInitInv == Evolution!Counts /\ Evolution!Init => EvolutionInv
<1>. SUFFICES ASSUME Evolution!Counts, Evolution!Init PROVE EvolutionInv
  OBVIOUS
<1>. USE DEF Evolution!Init
<1>1. Evolution!TypeOK
  BY PhaseFacts DEF Evolution!Counts, Evolution!TypeOK, Evolution!Subject, Evolution!Schemas
<1>2. RowsBefore
  BY DEF RowsBefore
<1>3. FreshRegistry
  BY <1>1 DEF FreshRegistry, Evolution!Succeeded, Evolution!TypeOK
<1>4. Evolution!SuccessShowsUpgrade
  BY DEF Evolution!SuccessShowsUpgrade, Evolution!Succeeded
<1>. QED BY <1>1, <1>2, <1>3, <1>4 DEF EvolutionInv

\* A handle, or a request on its way, changes nothing that is promised.
LEMMA QuietInv == EvolutionInv /\ (Evolution!InitCurl \/ Evolution!Send \/ UNCHANGED Evolution!vars) => EvolutionInv'
<1>. SUFFICES ASSUME EvolutionInv, Evolution!InitCurl \/ Evolution!Send \/ UNCHANGED Evolution!vars PROVE EvolutionInv'
  OBVIOUS
<1>1. /\ UNCHANGED <<subject, phase, reply, versions, late, log, runs, emptied>>
      /\ \/ client' \in {"phase", "failed"} /\ client = "curl"
         \/ client' = "sent" /\ client = "phase"
         \/ client' = client
  BY DEF Evolution!InitCurl, Evolution!Send, Evolution!vars
<1>2. \A s, schema : Evolution!Succeeded(s, schema)' <=> Evolution!Succeeded(s, schema)
  BY <1>1 DEF Evolution!Succeeded
<1>3. Evolution!TypeOK'
  BY <1>1 DEF EvolutionInv, Evolution!TypeOK
<1>4. RowsBefore'
  BY <1>1 DEF EvolutionInv, RowsBefore, ClientRuns
<1>5. emptied' => FreshRegistry'
  BY <1>1, <1>2 DEF EvolutionInv, FreshRegistry, ClientRuns
<1>6. Evolution!SuccessShowsUpgrade'
  BY <1>1, <1>2 DEF EvolutionInv, Evolution!SuccessShowsUpgrade
<1>. QED BY <1>3, <1>4, <1>5, <1>6 DEF EvolutionInv

\* A row is written, with what its status says already so.
LEMMA ReceiveInv == Evolution!Counts /\ EvolutionInv /\ Evolution!Receive => EvolutionInv'
<1>. SUFFICES ASSUME Evolution!Counts, EvolutionInv, Evolution!Receive PROVE EvolutionInv'
  OBVIOUS
<1>1. /\ client = "answered" /\ reply # 0
      /\ subject \in Evolution!Subject /\ phase \in 1 .. 3
      /\ UNCHANGED <<reply, versions, late, runs, emptied>>
  BY PhaseFacts DEF EvolutionInv, Evolution!TypeOK, RowsBefore, Evolution!Receive
<1>2. \/ phase < 3 /\ client' = "phase" /\ phase' = phase + 1 /\ subject' = subject
      \/ phase = 3 /\ phase' = 1 /\ client' = "curl" /\ subject' = subject + 1 /\ subject' \in Evolution!Subject
      \/ phase = 3 /\ phase' = 1 /\ client' = "done" /\ subject' = subject
  BY <1>1, PhaseFacts DEF Evolution!Receive, Evolution!Subject, Evolution!Counts
<1>3. Evolution!TypeOK'
  <2>1. subject' \in Evolution!Subject /\ phase' \in 1 .. 3 /\ client' \in {"curl", "phase", "done"}
    BY <1>1, <1>2
  <2>. QED BY <1>1, <2>1, OneMoreRow, PhaseFacts DEF EvolutionInv, Evolution!TypeOK
<1>4. RowsBefore'
  <2>1. subject \in Int /\ \A k \in DOMAIN log' : log'[k].repetition \in Int
    BY <1>1, OneMoreRow DEF Evolution!Subject
  <2>2. ASSUME NEW k \in DOMAIN log'
        PROVE  /\ log'[k].repetition =< subject
               /\ log'[k].repetition = subject => /\ log'[k].phase = "v1" => phase >= 1
                                                  /\ log'[k].phase = "v2" => phase >= 2
    <3>1. CASE k \in DOMAIN log /\ log'[k] = log[k]
      BY <1>1, <3>1 DEF EvolutionInv, RowsBefore, ClientRuns
    <3>2. CASE log'[k].repetition = subject /\ log'[k].phase = Evolution!Phases[phase]
      BY <1>1, <2>1, <3>2, PhaseFacts
    <3>. QED BY <3>1, <3>2, OneMoreRow
  <2>3. client' = "curl" => phase' = 1
    BY <1>2
  <2>4. client' # "answered"
    BY <1>2
  <2>5. ASSUME NEW k \in DOMAIN log', ClientRuns'
        PROVE  /\ log'[k].repetition =< subject'
               /\ log'[k].repetition = subject' => /\ log'[k].phase = "v1" => phase' >= 2
                                                   /\ log'[k].phase = "v2" => phase' = 3
    <3>1. CASE phase < 3 /\ phase' = phase + 1 /\ subject' = subject
      BY <1>1, <2>2, <3>1
    <3>2. CASE subject' = subject + 1
      BY <2>1, <2>2, <3>2
    <3>. QED BY <1>2, <2>5, <3>1, <3>2 DEF ClientRuns
  <2>. QED BY <2>3, <2>4, <2>5 DEF RowsBefore
<1>5. Evolution!SuccessShowsUpgrade'
  <2>. SUFFICES ASSUME emptied, NEW s \in Evolution!Subject, Evolution!Succeeded(s, "v1")', Evolution!Succeeded(s, "v2")'
                PROVE  versions[s] = <<"v1", "v2">>
    BY <1>1 DEF Evolution!SuccessShowsUpgrade
  <2>1. CASE Evolution!Succeeded(s, "v1") /\ Evolution!Succeeded(s, "v2")
    BY <2>1 DEF EvolutionInv, Evolution!SuccessShowsUpgrade
  <2>2. CASE ~Evolution!Succeeded(s, "v2")
    <3>1. s = subject /\ phase = 2 /\ reply = 200
      BY <1>1, <2>2, OneMoreRow, PhaseFacts
    <3>2. Evolution!Succeeded(s, "v1")
      BY <3>1, OneMoreRow, PhaseFacts
    <3>. QED BY <1>1, <3>1, <3>2 DEF EvolutionInv, FreshRegistry, ClientRuns
  <2>3. CASE Evolution!Succeeded(s, "v2") /\ ~Evolution!Succeeded(s, "v1")
    <3>1. s = subject /\ phase = 1
      BY <1>1, <2>3, OneMoreRow, PhaseFacts
    <3>. QED BY <1>1, <2>3, <3>1 DEF EvolutionInv, RowsBefore, ClientRuns, Evolution!Succeeded
  <2>. QED BY <2>1, <2>2, <2>3
<1>6. emptied' => FreshRegistry'
  <2>. SUFFICES ASSUME emptied PROVE FreshRegistry'
    BY <1>1
  <2>1. FreshRegistry /\ ClientRuns
    BY <1>1 DEF EvolutionInv, ClientRuns
  <2>2. CASE phase = 1
    <3>1. ~Evolution!Succeeded(subject, "v1")
      BY <1>1, <2>2 DEF EvolutionInv, RowsBefore, ClientRuns, Evolution!Succeeded
    <3>2. \A s : s = subject /\ Evolution!Succeeded(s, "v1")' => reply = 200
      BY <3>1, OneMoreRow
    <3>3. client' = "phase" /\ phase' = 2 /\ subject' = subject
      BY <1>2, <2>2
    <3>4. \A s : s = subject /\ Evolution!Succeeded(s, "v1")' => versions[subject] = <<"v1">>
      BY <1>1, <2>1, <2>2, <3>2 DEF FreshRegistry
    <3>. QED BY <1>1, <2>1, <3>3, <3>4 DEF FreshRegistry
  <2>3. CASE phase = 2
    BY <1>1, <1>2, <2>1, <2>3 DEF FreshRegistry, ClientRuns
  <2>4. CASE phase = 3
    BY <1>1, <1>2, <2>1, <2>4 DEF FreshRegistry, ClientRuns, Evolution!Subject
  <2>. QED BY <1>1, <2>2, <2>3, <2>4
<1>. QED BY <1>3, <1>4, <1>5, <1>6 DEF EvolutionInv

\* A failed transfer ends the client; only then is a registration late.
LEMMA ThrowInv == EvolutionInv /\ Evolution!Throw => EvolutionInv'
<1>. SUFFICES ASSUME EvolutionInv, Evolution!Throw PROVE EvolutionInv'
  OBVIOUS
<1>1. /\ client' = "failed" /\ UNCHANGED <<subject, phase, reply, versions, log, runs, emptied>>
      /\ \/ late' = late
         \/ Evolution!Phases[phase] \in Evolution!Schemas /\ late' = late \cup {<<subject, Evolution!Phases[phase]>>}
  BY DEF Evolution!Throw, Evolution!Posts
<1>2. Evolution!TypeOK'
  <2>1. late' \subseteq Evolution!Subject \X Evolution!Schemas
    BY <1>1 DEF EvolutionInv, Evolution!TypeOK
  <2>. QED BY <1>1, <2>1 DEF EvolutionInv, Evolution!TypeOK
<1>3. RowsBefore' /\ FreshRegistry'
  BY <1>1 DEF RowsBefore, FreshRegistry, ClientRuns
<1>4. Evolution!SuccessShowsUpgrade'
  BY <1>1 DEF EvolutionInv, Evolution!SuccessShowsUpgrade, Evolution!Succeeded
<1>. QED BY <1>2, <1>3, <1>4 DEF EvolutionInv

\* An acceptance keeps the type of the versions, changes one subject and appends what is new.
LEMMA AcceptFacts ==
    ASSUME Evolution!TypeOK, NEW s \in Evolution!Subject, NEW schema \in Evolution!Schemas, Evolution!Accept(s, schema)
    PROVE  /\ versions' \in [Evolution!Subject -> Seq(Evolution!Schemas)]
           /\ \A t \in Evolution!Subject : t # s => versions'[t] = versions[t]
           /\ versions[s] = <<>> => versions'[s] = <<schema>>
           /\ versions[s] = <<"v1">> /\ schema = "v2" => versions'[s] = <<"v1", "v2">>
           /\ versions[s] = <<"v1", "v2">> => versions'[s] = versions[s]
<1>1. versions \in [Evolution!Subject -> Seq(Evolution!Schemas)] /\ versions[s] \in Seq(Evolution!Schemas)
  BY DEF Evolution!TypeOK
<1>2. /\ Evolution!Known(s, schema) => versions' = versions
      /\ ~Evolution!Known(s, schema) => versions' = [versions EXCEPT ![s] = Append(versions[s], schema)]
  BY DEF Evolution!Accept
<1>3. Append(versions[s], schema) \in Seq(Evolution!Schemas)
  BY <1>1
<1>4. versions' \in [Evolution!Subject -> Seq(Evolution!Schemas)] /\ \A t \in Evolution!Subject : t # s => versions'[t] = versions[t]
  BY <1>1, <1>2, <1>3
<1>5. versions[s] = <<>> => versions'[s] = <<schema>>
  BY <1>1, <1>2 DEF Evolution!Known
<1>6. versions[s] = <<"v1">> /\ schema = "v2" => versions'[s] = <<"v1", "v2">>
  BY <1>1, <1>2 DEF Evolution!Known
<1>7. versions[s] = <<"v1", "v2">> => versions'[s] = versions[s]
  BY <1>2 DEF Evolution!Known, Evolution!Schemas
<1>. QED BY <1>4, <1>5, <1>6, <1>7

\* What the Registry answers is so when it answers.
LEMMA EvolutionServeInv == EvolutionInv /\ Evolution!Serve => EvolutionInv'
<1>. SUFFICES ASSUME EvolutionInv, Evolution!Serve PROVE EvolutionInv'
  OBVIOUS
<1>1. /\ client = "sent" /\ client' = "answered" /\ phase \in 1 .. 3 /\ subject \in Evolution!Subject
      /\ UNCHANGED <<subject, phase, late, log, runs, emptied>>
      /\ reply' \in {200, 404, 409, 500}
  BY PhaseFacts DEF EvolutionInv, Evolution!TypeOK, Evolution!Serve
<1>2. \/ phase \in {1, 2} /\ Evolution!Phases[phase] \in Evolution!Schemas /\ Evolution!Accept(subject, Evolution!Phases[phase])
      \/ phase \in {1, 2} /\ reply' # 200 /\ versions' = versions
      \/ phase = 3 /\ versions' = versions
  BY <1>1, PhaseFacts DEF Evolution!Serve, Evolution!Posts, Evolution!Schemas
<1>3. \A s, schema : Evolution!Succeeded(s, schema)' <=> Evolution!Succeeded(s, schema)
  BY <1>1 DEF Evolution!Succeeded
<1>4. /\ versions' \in [Evolution!Subject -> Seq(Evolution!Schemas)]
      /\ \A t \in Evolution!Subject : t # subject => versions'[t] = versions[t]
  BY <1>1, <1>2, AcceptFacts DEF EvolutionInv, Evolution!TypeOK
<1>5. Evolution!TypeOK'
  BY <1>1, <1>4 DEF EvolutionInv, Evolution!TypeOK
<1>6. RowsBefore'
  BY <1>1 DEF EvolutionInv, RowsBefore, ClientRuns
<1>7. Evolution!SuccessShowsUpgrade'
  <2>. SUFFICES ASSUME emptied, NEW s \in Evolution!Subject, Evolution!Succeeded(s, "v1"), Evolution!Succeeded(s, "v2")
                PROVE  versions'[s] = <<"v1", "v2">>
    BY <1>1, <1>3 DEF Evolution!SuccessShowsUpgrade
  <2>1. versions[s] = <<"v1", "v2">>
    BY DEF EvolutionInv, Evolution!SuccessShowsUpgrade
  <2>2. versions'[subject] = versions[subject] \/ versions[subject] # <<"v1", "v2">>
    BY <1>1, <1>2, AcceptFacts DEF EvolutionInv
  <2>. QED BY <1>4, <2>1, <2>2
<1>8. emptied' => FreshRegistry'
  <2>. SUFFICES ASSUME emptied PROVE FreshRegistry'
    BY <1>1
  <2>1. /\ late = {} /\ \A s \in Evolution!Subject : s > subject => versions[s] = <<>>
        /\ phase = 1 => versions[subject] = <<>>
        /\ phase = 2 /\ Evolution!Succeeded(subject, "v1") => versions[subject] = <<"v1">>
    BY <1>1 DEF EvolutionInv, FreshRegistry, ClientRuns
  <2>2. \A s \in Evolution!Subject : s > subject => versions'[s] = <<>>
    BY <1>1, <1>4, <2>1 DEF Evolution!Subject
  <2>3. phase = 1 /\ reply' = 200 => versions'[subject] = <<"v1">>
    BY <1>1, <1>2, <2>1, AcceptFacts, PhaseFacts DEF EvolutionInv
  <2>4. phase = 2 /\ reply' = 200 /\ Evolution!Succeeded(subject, "v1") => versions'[subject] = <<"v1", "v2">>
    BY <1>1, <1>2, <2>1, AcceptFacts, PhaseFacts DEF EvolutionInv
  <2>. QED BY <1>1, <1>3, <2>1, <2>2, <2>3, <2>4 DEF FreshRegistry
<1>. QED BY <1>5, <1>6, <1>7, <1>8 DEF EvolutionInv

\* A late registration finds the client gone, and both schemas where both succeeded.
LEMMA ServeLateInv == EvolutionInv /\ Evolution!ServeLate => EvolutionInv'
<1>. SUFFICES ASSUME EvolutionInv, Evolution!ServeLate PROVE EvolutionInv'
  OBVIOUS
<1>1. UNCHANGED <<client, subject, phase, reply, log, runs, emptied>>
  BY DEF Evolution!ServeLate
<1>2. PICK request \in late : /\ late' = late \ {request}
                              /\ Evolution!Accept(request[1], request[2]) \/ versions' = versions
  BY DEF Evolution!ServeLate
<1>3. request[1] \in Evolution!Subject /\ request[2] \in Evolution!Schemas
  BY <1>2 DEF EvolutionInv, Evolution!TypeOK
<1>4. \A s, schema : Evolution!Succeeded(s, schema)' <=> Evolution!Succeeded(s, schema)
  BY <1>1 DEF Evolution!Succeeded
<1>5. /\ versions' \in [Evolution!Subject -> Seq(Evolution!Schemas)]
      /\ \A t \in Evolution!Subject : versions[t] = <<"v1", "v2">> => versions'[t] = versions[t]
  BY <1>2, <1>3, AcceptFacts DEF EvolutionInv, Evolution!TypeOK
<1>6. Evolution!TypeOK'
  BY <1>1, <1>2, <1>5 DEF EvolutionInv, Evolution!TypeOK
<1>7. RowsBefore'
  BY <1>1 DEF EvolutionInv, RowsBefore, ClientRuns
<1>8. emptied' => FreshRegistry'
  BY <1>1, <1>2 DEF EvolutionInv, FreshRegistry, ClientRuns
<1>9. Evolution!SuccessShowsUpgrade'
  BY <1>1, <1>4, <1>5 DEF EvolutionInv, Evolution!SuccessShowsUpgrade
<1>. QED BY <1>6, <1>7, <1>8, <1>9 DEF EvolutionInv

\* A new run starts with a CSV of its own; an old Registry promises nothing.
LEMMA RerunInv == Evolution!Counts /\ EvolutionInv /\ Evolution!Rerun => EvolutionInv'
<1>. SUFFICES ASSUME Evolution!Counts, EvolutionInv, Evolution!Rerun PROVE EvolutionInv'
  OBVIOUS
<1>1. /\ runs' = runs + 1 /\ runs < MaxRuns
      /\ client' = "curl" /\ subject' = 1 /\ phase' = 1 /\ reply' = 0 /\ log' = <<>>
      /\ \/ emptied' = TRUE /\ versions' = [s \in Evolution!Subject |-> <<>>] /\ late' = {}
         \/ emptied' = FALSE /\ versions' = versions /\ late' = late
  BY DEF Evolution!Rerun
<1>2. Evolution!TypeOK'
  <2>1. runs' \in 1 .. MaxRuns /\ subject' \in Evolution!Subject /\ phase' \in DOMAIN Evolution!Phases
    BY <1>1, PhaseFacts DEF Evolution!Counts, EvolutionInv, Evolution!TypeOK, Evolution!Subject
  <2>2. versions \in [Evolution!Subject -> Seq(Evolution!Schemas)] /\ late \subseteq Evolution!Subject \X Evolution!Schemas
    BY DEF EvolutionInv, Evolution!TypeOK
  <2>3. <<>> \in Seq(Evolution!Schemas)
    OBVIOUS
  <2>4. versions' \in [Evolution!Subject -> Seq(Evolution!Schemas)] /\ late' \subseteq Evolution!Subject \X Evolution!Schemas
    BY <1>1, <2>2, <2>3
  <2>5. log' \in Seq([phase : Evolution!Schemas \cup {"lookup_versions"}, repetition : Evolution!Subject,
                       status : {200, 404, 409, 500}])
    BY <1>1
  <2>6. client' = "curl" /\ reply' = 0 /\ emptied' \in BOOLEAN
    BY <1>1
  <2>. QED BY <2>1, <2>4, <2>5, <2>6 DEF Evolution!TypeOK
<1>3. RowsBefore'
  BY <1>1 DEF RowsBefore
<1>4. emptied' => FreshRegistry'
  BY <1>1, <1>2 DEF FreshRegistry, Evolution!TypeOK
<1>5. Evolution!SuccessShowsUpgrade'
  BY <1>1 DEF Evolution!SuccessShowsUpgrade, Evolution!Succeeded
<1>. QED BY <1>2, <1>3, <1>4, <1>5 DEF EvolutionInv

-------------------------------------------------------------------------------
(* SchemaEvolution: theorems *)

\* No step of the client, the Registry or the script disturbs the invariant.
LEMMA EvolutionNextInv ==
    Evolution!Counts /\ EvolutionInv /\ [Evolution!Next]_(Evolution!vars) => EvolutionInv'
BY QuietInv, ReceiveInv, ThrowInv, EvolutionServeInv, ServeLateInv, RerunInv
   DEF Evolution!Next, Evolution!ClientStep, Evolution!Ended

\* The invariant holds of every sequence of runs, answers and late executions.
THEOREM EvolutionInvariance == Evolution!Spec => []EvolutionInv
BY EvolutionAssumption, EvolutionInitInv, EvolutionNextInv, PTL DEF Evolution!Spec

-------------------------------------------------------------------------------
(* The composition *)

MCInv == Inv /\ Rowed /\ EvolutionInv

\* A step of one program leaves the other's variables alone, so that every behaviour of the
\* composition keeps the invariants of both.
THEOREM Composition == MCSpec => []MCInv
<1>1. MCInit => MCInv
  BY EvolutionAssumption, InitInv, InitRowed, EvolutionInitInv DEF MCInit, MCInv
<1>2. MCInv /\ [MCNext]_mcVars => MCInv'
  <2>. SUFFICES ASSUME MCInv, [MCNext]_mcVars PROVE MCInv'
    OBVIOUS
  <2>1. [Next]_vars
    BY DEF MCNext, RunRegistry, RunEvolution, mcVars
  <2>2. [Evolution!Next]_(Evolution!vars)
    BY DEF MCNext, RunRegistry, RunEvolution, mcVars, evolutionVars, Evolution!vars
  <2>. QED BY <2>1, <2>2, EvolutionAssumption, NextInv, NextRowed, EvolutionNextInv DEF MCInv
<1>. QED BY <1>1, <1>2, PTL DEF MCSpec

\* Every variable of both programs keeps its type.
THEOREM Typing == MCSpec => []TypesOK
<1>1. MCInv => TypesOK
  BY DEF MCInv, Inv, EvolutionInv, TypesOK
<1>. QED BY <1>1, Composition, PTL

\* If both registrations of a repetition succeeded on a fresh Registry, v2 came second on the
\* subject of v1, whatever answers were lost and whatever was executed late.
THEOREM UpgradeShown == MCSpec => []SuccessShowsUpgrade
<1>1. MCInv => SuccessShowsUpgrade
  BY DEF MCInv, EvolutionInv, SuccessShowsUpgrade
<1>. QED BY <1>1, Composition, PTL

\* What is shown of the live paths holds of them in the composition.
THEOREM LivePathsKept == MCSpec => [](RowsComplete /\ RowsTellTheRegistry /\ RegistrationsTogether)
<1>1. MCInv => RowsComplete /\ RowsTellTheRegistry /\ RegistrationsTogether
  BY RowedAtEnd, InvTogether DEF MCInv, Inv
<1>. QED BY <1>1, Composition, PTL

-------------------------------------------------------------------------------
(* RegistryBench: nobody is stuck.  The guards of the threads' steps; none of them waits for the *)
(* Registry, as a request that is not answered times out.                                        *)

MainCanStep ==
    \/ pc \in {"path", "spawn", "arrive"}
    \/ pc = "released" /\ arrived >= Parties
    \/ pc = "join" /\ \A w \in Worker : workerPc[w] = "exit"

WorkerCanStep(w) ==
    \/ workerPc[w] \in {"init", "write"}
    \/ workerPc[w] = "waiting" /\ arrived >= Parties /\ line[w] = "idle"
    \/ workerPc[w] = "request" /\ line[w] # "idle"
    \/ workerPc[w] = "lock" /\ csvMutex = Main

\* While the process lives it has a thread that is not waiting for another one.
NobodyStuck == Running => MainCanStep \/ \E w \in Worker : WorkerCanStep(w)

\* The workers the barrier waits for exist, csv_mutex is held by one that will release it, and a
\* request that is waited for is on its way.
Present ==
    /\ pc = "spawn" => \A w \in Worker : w < repetition => workerPc[w] # "none"
    /\ pc \in {"arrive", "released", "join"} => \A w \in Worker : workerPc[w] # "none"
Holder == csvMutex # Main => csvMutex \in Worker /\ workerPc[csvMutex] = "write"
OnTheWay == \A w \in Worker : workerPc[w] = "request" => line[w] # "idle"

Moves == Present /\ Holder /\ OnTheWay

\* Before the first request no worker exists.
LEMMA InitMoves == Init => Moves
BY DEF Init, Moves, Present, Holder, OnTheWay

\* The main thread starts every worker before it arrives, and leaves the rest to them.
LEMMA MainMoves == Inv /\ Moves /\ MainStep => Moves'
<1>. SUFFICES ASSUME Inv, Moves, MainStep PROVE Moves'
  OBVIOUS
<1>. USE RegistryAssumption DEF workerVars
<1>1. Worker = 1 .. NetworkRepetitions /\ repetition \in Worker /\ workerPc \in WorkerPcType /\ line \in LineType
  BY DEF Worker, Inv, TypeOK, WorkerPcType, LineType
<1>2. CASE pc = "path"
  <2>1. /\ pc' = "path" \/ (pc' = "spawn" /\ repetition' = 1) \/ pc' = "failed"
        /\ UNCHANGED <<workerPc, csvMutex>>
    <3>1. CASE MainSend \/ MainInitFails
      BY <1>2, <3>1 DEF MainSend, MainInitFails, mainVars
    <3>2. Advance => pc' = pc \/ pc' = "path" \/ (pc' = "spawn" /\ repetition' = 1)
      BY DEF Advance
    <3>3. CASE MainReceive \/ MainThrown \/ MainUnavailable
      BY <1>2, <3>2, <3>3 DEF MainReceive, MainThrown, MainUnavailable
    <3>. QED BY <1>2, <3>1, <3>3 DEF MainStep, MainSpawn, MainSpawnFails, MainArrive, MainReleased, MainJoined
  <2>2. \A w \in Worker : workerPc[w] = "none"
    BY <1>2 DEF Inv, Barrier
  <2>. QED BY <1>1, <2>1, <2>2 DEF Moves, Present, Holder, OnTheWay
<1>3. CASE pc # "path"
  <2>1. line' = line /\ csvMutex' = csvMutex
    BY <1>3 DEF MainStep, MainSend, MainInitFails, MainReceive, MainThrown, MainUnavailable, MainSpawn,
       MainSpawnFails, MainArrive, MainReleased, MainJoined, httpVars
  <2>2. CASE MainSpawn
    <3>1. /\ pc = "spawn" /\ workerPc' = [workerPc EXCEPT ![repetition] = "init"]
          /\ \/ repetition < NetworkRepetitions /\ repetition' = repetition + 1 /\ pc' = "spawn"
             \/ repetition = NetworkRepetitions /\ pc' = "arrive"
      BY <1>1, <2>2 DEF MainSpawn
    <3>2. workerPc[repetition] = "none"
      BY <1>1, <3>1 DEF Inv, Barrier
    <3>3. Present'
      BY <1>1, <3>1 DEF Moves, Present, WorkerPcType
    <3>. QED BY <1>1, <2>1, <3>1, <3>2, <3>3 DEF Moves, Holder, OnTheWay, WorkerPcType
  <2>3. CASE MainSpawnFails
    BY <2>1, <2>3 DEF MainSpawnFails, Moves, Present, Holder, OnTheWay
  <2>4. CASE MainArrive \/ MainReleased \/ MainJoined
    BY <2>1, <2>4 DEF MainArrive, MainReleased, MainJoined, Moves, Present, Holder, OnTheWay
  <2>. QED BY <1>3, <2>2, <2>3, <2>4 DEF MainStep, MainSend, MainInitFails, MainReceive, MainThrown,
             MainUnavailable
<1>. QED BY <1>2, <1>3

\* A worker that takes the lock is at its row, and one that gets an answer was waiting for it.
LEMMA WorkerMoves == ASSUME NEW w \in Worker PROVE Inv /\ Moves /\ WorkerStep(w) => Moves'
<1>. SUFFICES ASSUME Inv, Moves, WorkerStep(w) PROVE Moves'
  OBVIOUS
<1>. USE RegistryAssumption DEF workerVars, mainVars, httpVars
<1>1. Worker = 1 .. NetworkRepetitions /\ workerPc \in WorkerPcType /\ line \in LineType /\ w \in Thread
  BY ThreadFacts DEF Worker, Inv, TypeOK, WorkerPcType, LineType
<1>2. CASE WorkerInitFails(w)
  BY <1>2 DEF WorkerInitFails, Moves, Present, Holder, OnTheWay
<1>3. ASSUME ~WorkerInitFails(w)
      PROVE  Present'
  <2>1. PICK to \in {"waiting", "request", "lock", "write", "exit"} : workerPc' = [workerPc EXCEPT ![w] = to]
    BY <1>3 DEF WorkerStep, WorkerArrive, WorkerSend, WorkerReceive, WorkerThrown, WorkerLock, WorkerWrite
  <2>2. UNCHANGED <<pc, repetition>>
    BY <1>3 DEF WorkerStep, WorkerArrive, WorkerSend, WorkerReceive, WorkerThrown, WorkerLock, WorkerWrite
  <2>. QED BY <1>1, <2>1, <2>2 DEF Moves, Present, WorkerPcType
<1>4. ASSUME ~WorkerInitFails(w)
      PROVE  Holder'
  <2>1. CASE WorkerLock(w)
    BY <1>1, <2>1 DEF WorkerLock, Holder, WorkerPcType
  <2>2. CASE WorkerWrite(w)
    BY <2>2 DEF WorkerWrite, Holder
  <2>3. CASE WorkerArrive(w) \/ WorkerSend(w) \/ WorkerReceive(w) \/ WorkerThrown(w)
    BY <1>1, <2>3 DEF WorkerArrive, WorkerSend, WorkerReceive, WorkerThrown, Moves, Holder, WorkerPcType
  <2>. QED BY <1>4, <2>1, <2>2, <2>3 DEF WorkerStep
<1>5. ASSUME ~WorkerInitFails(w)
      PROVE  OnTheWay'
  <2>1. CASE WorkerSend(w)
    BY <1>1, <2>1 DEF WorkerSend, Send, Moves, OnTheWay, WorkerPcType, LineType
  <2>2. CASE WorkerReceive(w) \/ WorkerThrown(w)
    <3>1. line' = [line EXCEPT ![w] = "idle"] /\ workerPc' = [workerPc EXCEPT ![w] = "lock"]
      BY <2>2 DEF WorkerReceive, WorkerThrown, Receive, GiveUp
    <3>2. \A v \in Worker : v # w => line'[v] = line[v] /\ workerPc'[v] = workerPc[v]
      BY <1>1, <3>1, ThreadFacts DEF WorkerPcType, LineType
    <3>3. workerPc'[w] = "lock"
      BY <1>1, <3>1 DEF WorkerPcType
    <3>. QED BY <3>2, <3>3 DEF Moves, OnTheWay
  <2>3. CASE WorkerArrive(w) \/ WorkerLock(w) \/ WorkerWrite(w)
    BY <1>1, <2>3 DEF WorkerArrive, WorkerLock, WorkerWrite, Moves, OnTheWay, WorkerPcType
  <2>. QED BY <1>5, <2>1, <2>2, <2>3 DEF WorkerStep
<1>. QED BY <1>2, <1>3, <1>4, <1>5 DEF Moves

\* An answer is on its way as its request was.
LEMMA ServedMoves == Inv /\ Moves /\ (RegistryStep \/ UNCHANGED vars) => Moves'
<1>. SUFFICES ASSUME Inv, Moves, RegistryStep \/ UNCHANGED vars PROVE Moves'
  OBVIOUS
<1>1. UNCHANGED <<pc, repetition, workerPc, csvMutex>>
  BY DEF RegistryStep, Serve, ServeOrphan, mainVars, workerVars, vars
<1>2. \A t \in Thread : line[t] # "idle" => line'[t] # "idle"
  BY DEF RegistryStep, Serve, ServeOrphan, vars, httpVars, Inv, TypeOK
<1>. QED BY <1>1, <1>2, ThreadFacts DEF Moves, Present, Holder, OnTheWay

\* Whoever steps, a thread that is waited for keeps a step to take.
LEMMA NextMoves == Inv /\ Moves /\ [Next]_vars => Moves'
BY MainMoves, WorkerMoves, ServedMoves DEF Next, Ended

\* The barrier has room for those who have yet to arrive.
LEMMA MovesNobodyStuck == Inv /\ Moves => NobodyStuck
<1>. SUFFICES ASSUME Inv, Moves, Running, ~MainCanStep PROVE \E w \in Worker : WorkerCanStep(w)
  BY DEF NobodyStuck
<1>. USE RegistryAssumption
<1>1. /\ pc \in {"released", "join"} /\ \A w \in Worker : workerPc[w] # "none"
      /\ workerPc \in WorkerPcType
  BY DEF Inv, TypeOK, Running, MainCanStep, Moves, Present, WorkerPcType
<1>2. CASE ~(arrived >= Parties)
  <2>1. arrived = Cardinality(Arrived) + 1 /\ arrived \in Nat
    BY <1>1 DEF Inv, TypeOK, Barrier
  <2>2. IsFiniteSet(Worker) /\ Cardinality(Worker) = NetworkRepetitions
    BY FS_Interval DEF Worker
  <2>3. Arrived # Worker
    BY <1>2, <2>1, <2>2 DEF Parties
  <2>4. PICK w \in Worker : w \notin Arrived
    BY <2>3 DEF Arrived
  <2>5. workerPc[w] = "init"
    BY <1>1, <2>4 DEF Arrived
  <2>. QED BY <2>5 DEF WorkerCanStep
<1>3. CASE arrived >= Parties
  <2>1. Arrived = Worker /\ pc = "join"
    BY <1>1, <1>3 DEF Inv, Barrier, MainCanStep
  <2>2. PICK w \in Worker : workerPc[w] # "exit"
    BY <2>1 DEF MainCanStep
  <2>3. workerPc[w] \in {"waiting", "request", "lock", "write"}
    BY <1>1, <2>1, <2>2 DEF Arrived, WorkerPcType
  <2>4. CASE workerPc[w] = "waiting"
    <3>1. line[w] = "idle"
      BY <2>4 DEF Inv, Answers
    <3>. QED BY <1>3, <2>4, <3>1 DEF WorkerCanStep
  <2>5. CASE workerPc[w] \in {"request", "write"}
    BY <2>5 DEF WorkerCanStep, Moves, OnTheWay
  <2>6. CASE workerPc[w] = "lock"
    BY <2>6 DEF WorkerCanStep, Moves, Holder
  <2>. QED BY <2>3, <2>4, <2>5, <2>6
<1>4. arrived >= Parties \/ ~(arrived >= Parties)
  OBVIOUS
<1>. QED BY <1>2, <1>3, <1>4

\* At the barrier, at csv_mutex, in a request and in the joins somebody always moves, for any
\* number of workers and although the Registry may never answer.
THEOREM NoDeadlock == Spec => []NobodyStuck
<1>1. Inv /\ Moves /\ [Next]_vars => Inv' /\ Moves'
  BY NextInv, NextMoves
<1>. QED BY <1>1, InitInv, InitMoves, MovesNobodyStuck, PTL DEF Spec
-------------------------------------------------------------------------------
(* RegistryBench: every step is progress *)

LineRank(t) == CASE line[t] = "idle" -> 0 [] line[t] = "sent" -> 1 [] OTHER -> 2

\* Where the main thread is: on one of the paths, or past them.
Stage ==
    CASE pc = "path" -> path
      [] pc = "spawn" -> 8
      [] pc = "arrive" -> 9
      [] pc = "released" -> 10
      [] pc = "join" -> 11
      [] OTHER -> 12

WorkerRank(w) ==
    CASE workerPc[w] \in {"none", "init"} -> 0
      [] workerPc[w] = "waiting" -> 1
      [] workerPc[w] = "request" -> 1 + LineRank(w)
      [] workerPc[w] = "lock" -> 4
      [] workerPc[w] = "write" -> 5
      [] OTHER -> 6

\* The steps still to come: in a stage, a repetition of it and that one's request; of each worker;
\* and the registrations the Registry may still execute for a sender that gave up.
MainAhead ==
    {s \in (1 .. 11) \X (Worker \X (1 .. 3)) :
        \/ s[1] > Stage
        \/ s[1] = Stage /\ (s[2][1] > repetition \/ (s[2][1] = repetition /\ s[2][2] > LineRank(Main)))}
WorkersAhead == {s \in Worker \X (1 .. 6) : s[2] > WorkerRank(s[1])}
StepsAhead == Cardinality(MainAhead) + Cardinality(WorkersAhead) + Cardinality(orphans)

\* Whoever steps, the threads or the Registry, leaves fewer steps to come.
EveryStepCounts == [][StepsAhead' < StepsAhead]_vars

\* A part of a finite set, without one element of it or without two.
LEMMA FewerLeft ==
    ASSUME NEW S, IsFiniteSet(S), NEW T \in SUBSET S
    PROVE  /\ IsFiniteSet(T) /\ Cardinality(S) \in Nat /\ Cardinality(T) \in Nat
           /\ Cardinality(T) =< Cardinality(S)
           /\ \A x \in S \ T : Cardinality(T) < Cardinality(S)
           /\ \A x, y \in S \ T : x # y => Cardinality(T) + 1 < Cardinality(S)
<1>1. /\ IsFiniteSet(T) /\ Cardinality(S) \in Nat /\ Cardinality(T) \in Nat
      /\ Cardinality(T) =< Cardinality(S)
  BY FS_Subset, FS_CardinalityType
<1>2. ASSUME NEW x \in S \ T
      PROVE  /\ IsFiniteSet(S \ {x}) /\ T \in SUBSET (S \ {x})
             /\ Cardinality(S \ {x}) = Cardinality(S) - 1 /\ Cardinality(T) =< Cardinality(S \ {x})
  <2>1. IsFiniteSet(S \ {x}) /\ Cardinality(S \ {x}) = Cardinality(S) - 1
    BY <1>2, FS_RemoveElement
  <2>2. T \in SUBSET (S \ {x})
    BY <1>2
  <2>. QED BY <2>1, <2>2, FS_Subset
<1>3. ASSUME NEW x \in S \ T, NEW y \in S \ T, x # y
      PROVE  Cardinality(T) + 1 < Cardinality(S)
  <2>1. IsFiniteSet(S \ {x}) /\ Cardinality(S \ {x}) = Cardinality(S) - 1
    BY <1>2
  <2>2. Cardinality((S \ {x}) \ {y}) = Cardinality(S \ {x}) - 1 /\ IsFiniteSet((S \ {x}) \ {y})
    BY <1>3, <2>1, FS_RemoveElement
  <2>3. T \in SUBSET ((S \ {x}) \ {y})
    BY <1>3
  <2>4. Cardinality(T) =< Cardinality((S \ {x}) \ {y})
    BY <2>2, <2>3, FS_Subset
  <2>. QED BY <1>1, <2>1, <2>2, <2>4
<1>. QED BY <1>1, <1>2, <1>3

\* The steps to come are finitely many.
LEMMA AheadFinite == IsFiniteSet(MainAhead) /\ IsFiniteSet(WorkersAhead)
<1>1. IsFiniteSet(Worker) /\ IsFiniteSet(1 .. 3) /\ IsFiniteSet(1 .. 6) /\ IsFiniteSet(1 .. 11)
  <2>1. \A n \in Int : IsFiniteSet(1 .. n)
    BY FS_Interval
  <2>2. IsFiniteSet(Worker)
    BY <2>1, RegistryAssumption DEF Worker
  <2>3. 3 \in Int /\ 6 \in Int /\ 11 \in Int
    OBVIOUS
  <2>4. IsFiniteSet(1 .. 3) /\ IsFiniteSet(1 .. 6) /\ IsFiniteSet(1 .. 11)
    BY <2>1, <2>3, Zenon
  <2>. QED BY <2>2, <2>4
<1>2. IsFiniteSet(Worker \X (1 .. 6)) /\ IsFiniteSet(Worker \X (1 .. 3))
  BY <1>1, FS_Product
<1>3. IsFiniteSet((1 .. 11) \X (Worker \X (1 .. 3)))
  BY <1>1, <1>2, FS_Product
<1>4. /\ MainAhead \in SUBSET ((1 .. 11) \X (Worker \X (1 .. 3)))
      /\ WorkersAhead \in SUBSET (Worker \X (1 .. 6))
  BY DEF MainAhead, WorkersAhead
<1>. QED BY <1>2, <1>3, <1>4, FS_Subset

\* The ranks are the places of the steps.
Ranked ==
    /\ Stage \in 1 .. 12 /\ repetition \in Worker /\ repetition \in Int
    /\ \A t \in Thread : LineRank(t) \in 0 .. 2
    /\ \A w \in Worker : WorkerRank(w) \in 0 .. 6

\* The ranks are numbers.
LEMMA RankFacts == TypeOK => Ranked
<1>. SUFFICES ASSUME TypeOK PROVE Ranked
  OBVIOUS
<1>1. Stage \in 1 .. 12
  BY PathFacts DEF TypeOK, Stage
<1>2. \A t \in Thread : LineRank(t) \in 0 .. 2
  BY DEF LineRank
<1>3. \A w \in Worker : WorkerRank(w) \in 0 .. 6
  BY <1>2, ThreadFacts DEF WorkerRank
<1>. QED BY <1>1, <1>2, <1>3, RegistryAssumption DEF Ranked, TypeOK, Worker

\* So they are after a step.
LEMMA RankedNext == TypeOK' => Ranked'
BY RankFacts, PTL

\* The main thread is further: in a later stage, repetition or part of a request.
MainFurther ==
    \/ Stage' > Stage
    \/ Stage' = Stage /\ (repetition' > repetition \/ (repetition' = repetition /\ LineRank(Main)' > LineRank(Main)))

\* It has one step less to come, and two when it does not wait for the answer to its request.
LEMMA MainCounts ==
    ASSUME TypeOK, TypeOK', MainFurther, Stage =< 11
    PROVE  /\ Cardinality(MainAhead') < Cardinality(MainAhead)
           /\ LineRank(Main) = 1 /\ LineRank(Main)' # 2 => Cardinality(MainAhead') + 1 < Cardinality(MainAhead)
<1>. DEFINE now(k) == <<Stage, <<repetition, k>>>>
<1>1. /\ Stage \in 1 .. 11 /\ repetition \in Worker /\ repetition \in Int /\ LineRank(Main) \in 0 .. 2
  BY RankFacts, ThreadFacts DEF Ranked
<1>2. Stage' \in 1 .. 12 /\ repetition' \in Int /\ LineRank(Main)' \in 0 .. 2
  BY RankedNext, ThreadFacts DEF Ranked
<1>3. MainAhead' \in SUBSET MainAhead
  <2>. SUFFICES ASSUME NEW s \in MainAhead' PROVE s \in MainAhead
    OBVIOUS
  <2>1. s \in (1 .. 11) \X (Worker \X (1 .. 3)) /\ s[1] \in Int /\ s[2][1] \in Int /\ s[2][2] \in Int
    BY RegistryAssumption DEF MainAhead, Worker
  <2>2. \/ s[1] > Stage'
        \/ s[1] = Stage' /\ (s[2][1] > repetition' \/ (s[2][1] = repetition' /\ s[2][2] > LineRank(Main)'))
    BY DEF MainAhead
  <2>3. \/ s[1] > Stage
        \/ s[1] = Stage /\ (s[2][1] > repetition \/ (s[2][1] = repetition /\ s[2][2] > LineRank(Main)))
    BY <1>1, <1>2, <2>1, <2>2 DEF MainFurther
  <2>. QED BY <2>1, <2>3 DEF MainAhead
<1>4. ASSUME NEW k \in 1 .. 3, k > LineRank(Main)
      PROVE  /\ now(k) \in MainAhead
             /\ k =< LineRank(Main)' \/ ~(Stage' = Stage /\ repetition' = repetition) => now(k) \notin MainAhead'
  <2>1. now(k) \in (1 .. 11) \X (Worker \X (1 .. 3))
    BY <1>1
  <2>2. now(k)[1] = Stage /\ now(k)[2][1] = repetition /\ now(k)[2][2] = k
    OBVIOUS
  <2>3. now(k) \in MainAhead
    BY <1>4, <2>1, <2>2 DEF MainAhead
  <2>. HIDE DEF now
  <2>4. ASSUME now(k) \in MainAhead', k =< LineRank(Main)' \/ ~(Stage' = Stage /\ repetition' = repetition)
        PROVE  FALSE
    <3>1. \/ now(k)[1] > Stage'
          \/ now(k)[1] = Stage' /\ (now(k)[2][1] > repetition' \/ (now(k)[2][1] = repetition' /\ now(k)[2][2] > LineRank(Main)'))
      BY <2>4 DEF MainAhead
    <3>. QED BY <1>1, <1>2, <2>2, <2>4, <3>1 DEF MainFurther
  <2>. QED BY <2>3, <2>4
<1>5. Cardinality(MainAhead') < Cardinality(MainAhead)
  <2>. DEFINE k == LineRank(Main) + 1
  <2>1. k \in 1 .. 3 /\ k > LineRank(Main)
    BY <1>1
  <2>2. k =< LineRank(Main)' \/ ~(Stage' = Stage /\ repetition' = repetition)
    BY <1>1, <1>2 DEF MainFurther
  <2>. HIDE DEF k, now
  <2>3. now(k) \in MainAhead \ MainAhead'
    BY <1>4, <2>1, <2>2
  <2>. QED BY <1>3, <2>3, AheadFinite, FewerLeft
<1>6. ASSUME LineRank(Main) = 1, LineRank(Main)' # 2
      PROVE  Cardinality(MainAhead') + 1 < Cardinality(MainAhead)
  <2>1. ~(Stage' = Stage /\ repetition' = repetition)
    BY <1>1, <1>2, <1>6 DEF MainFurther
  <2>2. now(2) # now(3)
    OBVIOUS
  <2>. HIDE DEF now
  <2>3. now(2) \in MainAhead \ MainAhead' /\ now(3) \in MainAhead \ MainAhead'
    BY <1>4, <1>6, <2>1
  <2>. QED BY <1>3, <2>2, <2>3, AheadFinite, FewerLeft
<1>. QED BY <1>5, <1>6

\* The main thread stays where it is.
LEMMA MainAheadStays ==
    ASSUME UNCHANGED mainVars, line'[Main] = line[Main]
    PROVE  MainAhead' = MainAhead
BY DEF mainVars, MainAhead, Stage, LineRank

\* A worker that is further has a step less to come, and two when its request is given up.
LEMMA WorkerCounts ==
    ASSUME TypeOK, TypeOK', NEW w \in Worker, WorkerRank(w)' > WorkerRank(w),
           \A v \in Worker : v # w => WorkerRank(v)' = WorkerRank(v)
    PROVE  /\ Cardinality(WorkersAhead') < Cardinality(WorkersAhead)
           /\ WorkerRank(w)' > WorkerRank(w) + 1 => Cardinality(WorkersAhead') + 1 < Cardinality(WorkersAhead)
<1>. DEFINE next(k) == <<w, k>>
<1>1. \A v \in Worker : WorkerRank(v) \in 0 .. 6
  BY RankFacts DEF Ranked
<1>2. \A v \in Worker : WorkerRank(v)' \in 0 .. 6
  BY RankedNext DEF Ranked
<1>3. WorkersAhead' \in SUBSET WorkersAhead
  <2>. SUFFICES ASSUME NEW s \in WorkersAhead' PROVE s \in WorkersAhead
    OBVIOUS
  <2>1. s \in Worker \X (1 .. 6) /\ s[1] \in Worker /\ s[2] \in Int /\ s[2] > WorkerRank(s[1])'
    BY DEF WorkersAhead
  <2>2. s[2] > WorkerRank(s[1])
    BY <1>1, <1>2, <2>1
  <2>. QED BY <2>1, <2>2 DEF WorkersAhead
<1>4. ASSUME NEW k \in 1 .. 6, k > WorkerRank(w), k =< WorkerRank(w)'
      PROVE  next(k) \in WorkersAhead \ WorkersAhead'
  <2>1. next(k) \in Worker \X (1 .. 6) /\ next(k)[1] = w /\ next(k)[2] = k
    OBVIOUS
  <2>. HIDE DEF next
  <2>2. next(k) \in WorkersAhead
    BY <1>4, <2>1 DEF WorkersAhead
  <2>3. next(k) \notin WorkersAhead'
    <3>1. next(k) \in WorkersAhead' => k > WorkerRank(w)'
      BY <2>1 DEF WorkersAhead
    <3>. QED BY <1>2, <1>4, <3>1
  <2>. QED BY <2>2, <2>3
<1>5. Cardinality(WorkersAhead') < Cardinality(WorkersAhead)
  <2>. DEFINE k == WorkerRank(w) + 1
  <2>1. k \in 1 .. 6 /\ k > WorkerRank(w) /\ k =< WorkerRank(w)'
    BY <1>1, <1>2
  <2>. HIDE DEF k, next
  <2>2. next(k) \in WorkersAhead \ WorkersAhead'
    BY <1>4, <2>1
  <2>. QED BY <1>3, <2>2, AheadFinite, FewerLeft
<1>6. ASSUME WorkerRank(w)' > WorkerRank(w) + 1
      PROVE  Cardinality(WorkersAhead') + 1 < Cardinality(WorkersAhead)
  <2>. DEFINE j == WorkerRank(w) + 1
              k == WorkerRank(w) + 2
  <2>1. /\ j \in 1 .. 6 /\ j > WorkerRank(w) /\ j =< WorkerRank(w)'
        /\ k \in 1 .. 6 /\ k > WorkerRank(w) /\ k =< WorkerRank(w)' /\ j # k
    BY <1>1, <1>2, <1>6
  <2>. HIDE DEF j, k
  <2>2. next(j) # next(k)
    BY <2>1
  <2>. HIDE DEF next
  <2>3. next(j) \in WorkersAhead \ WorkersAhead' /\ next(k) \in WorkersAhead \ WorkersAhead'
    BY <1>4, <2>1
  <2>. QED BY <1>3, <2>2, <2>3, AheadFinite, FewerLeft
<1>. QED BY <1>5, <1>6

\* The orphans are finitely many: each is one of a sender that gave up.
LEMMA OrphansFinite ==
    Inv /\ IsFiniteSet(orphans) /\ [Next]_vars =>
        /\ IsFiniteSet(orphans') /\ Cardinality(orphans) \in Nat /\ Cardinality(orphans') \in Nat
        /\ Cardinality(orphans') =< Cardinality(orphans) + 1
<1>. SUFFICES ASSUME Inv, IsFiniteSet(orphans), [Next]_vars
              PROVE  /\ IsFiniteSet(orphans') /\ Cardinality(orphans) \in Nat /\ Cardinality(orphans') \in Nat
                     /\ Cardinality(orphans') =< Cardinality(orphans) + 1
  OBVIOUS
<1>1. Cardinality(orphans) \in Nat
  BY FS_CardinalityType
<1>2. orphans' = orphans \/ (\E s : orphans' = orphans \cup {s}) \/ (\E s : orphans' = orphans \ {s})
  BY DEF Next, MainStep, MainSend, MainInitFails, MainReceive, MainThrown, MainUnavailable, MainSpawn,
     MainSpawnFails, MainArrive, MainReleased, MainJoined, WorkerStep, WorkerArrive, WorkerInitFails,
     WorkerSend, WorkerReceive, WorkerThrown, WorkerLock, WorkerWrite, RegistryStep, Serve, ServeOrphan,
     Ended, Send, Receive, GiveUp, vars, httpVars
<1>3. CASE orphans' = orphans
  BY <1>1, <1>3
<1>4. ASSUME NEW s, orphans' = orphans \cup {s}
      PROVE  /\ IsFiniteSet(orphans') /\ Cardinality(orphans') \in Nat
             /\ Cardinality(orphans') =< Cardinality(orphans) + 1
  BY <1>1, <1>4, FS_AddElement
<1>5. ASSUME NEW s, orphans' = orphans \ {s}
      PROVE  /\ IsFiniteSet(orphans') /\ Cardinality(orphans') \in Nat
             /\ Cardinality(orphans') =< Cardinality(orphans) + 1
  <2>1. IsFiniteSet(orphans') /\ Cardinality(orphans') =< Cardinality(orphans)
    BY <1>5, FS_Subset
  <2>. QED BY <1>1, <2>1, FS_CardinalityType
<1>. QED BY <1>1, <1>2, <1>3, <1>4, <1>5

\* A request of the main thread: each step of it, or its end, is one further.
LEMMA MainStepCounts ==
    ASSUME Inv, Inv', MainStep
    PROVE  /\ MainFurther /\ Stage =< 11 /\ WorkersAhead' = WorkersAhead
           /\ orphans' = orphans \/ (LineRank(Main) = 1 /\ LineRank(Main)' # 2)
<1>. USE RegistryAssumption
<1>1. /\ path \in 1 .. 7 /\ repetition \in 1 .. NetworkRepetitions /\ line \in LineType
      /\ Main \in Thread /\ workerPc \in WorkerPcType
  BY PathFacts, ThreadFacts DEF Inv, TypeOK, LineType, Worker, WorkerPcType
<1>2. Advance /\ pc = "path" => Stage' > Stage \/ (Stage' = Stage /\ repetition' > repetition)
  BY <1>1, PathFacts DEF Advance, LastRepetition, Stage
<1>3. pc = "path" /\ pc' = "failed" => Stage' > Stage
  BY <1>1 DEF Stage
<1>4. \A w \in Worker : line'[w] = line[w] /\ WorkerRank(w)' = WorkerRank(w)
  <2>1. \A w \in Worker : line'[w] = line[w]
    BY <1>1, ThreadFacts DEF MainStep, MainSend, MainInitFails, MainReceive, MainThrown, MainUnavailable, MainSpawn,
       MainSpawnFails, MainArrive, MainReleased, MainJoined, Send, Receive, GiveUp, LineType, httpVars
  <2>2. \A w \in Worker : workerPc'[w] = workerPc[w] \/ (workerPc[w] = "none" /\ workerPc'[w] = "init")
    <3>1. CASE MainSpawn
      BY <1>1, <3>1 DEF MainSpawn, Inv, Barrier, WorkerPcType, Worker
    <3>2. CASE ~MainSpawn
      BY <3>2 DEF MainStep, MainSend, MainInitFails, MainReceive, MainThrown, MainUnavailable,
       MainSpawnFails, MainArrive, MainReleased, MainJoined, workerVars
    <3>. QED BY <3>1, <3>2
  <2>3. \A w \in Worker : LineRank(w)' = LineRank(w)
    BY <2>1 DEF LineRank
  <2>. QED BY <2>1, <2>2, <2>3 DEF WorkerRank
<1>5. WorkersAhead' = WorkersAhead
  BY <1>4 DEF WorkersAhead
<1>6. Stage =< 11
  BY <1>1 DEF Stage, MainStep, MainSend, MainInitFails, MainReceive, MainThrown, MainUnavailable, MainSpawn,
     MainSpawnFails, MainArrive, MainReleased, MainJoined
<1>7. MainFurther /\ (orphans' = orphans \/ (LineRank(Main) = 1 /\ LineRank(Main)' # 2))
  <2>1. CASE MainSend
    <3>1. line[Main] = "idle" /\ line'[Main] = "sent" /\ UNCHANGED <<pc, path, repetition, orphans>>
      BY <1>1, <2>1 DEF MainSend, Send, mainVars, LineType
    <3>. QED BY <3>1 DEF MainFurther, Stage, LineRank
  <2>2. CASE MainInitFails
    BY <1>3, <2>2 DEF MainInitFails, MainFurther, httpVars
  <2>3. CASE MainReceive
    BY <1>2, <1>3, <2>3 DEF MainReceive, Receive, MainFurther
  <2>4. CASE MainThrown
    <3>1. /\ line'[Main] = "idle"
          /\ line[Main] = "sent" \/ orphans' = orphans
      BY <1>1, <2>4 DEF MainThrown, GiveUp, LineType
    <3>2. LineRank(Main)' = 0 /\ (line[Main] = "sent" => LineRank(Main) = 1)
      BY <3>1 DEF LineRank
    <3>. QED BY <1>2, <1>3, <2>4, <3>1, <3>2 DEF MainThrown, MainFurther
  <2>5. CASE MainUnavailable
    BY <1>2, <2>5 DEF MainUnavailable, MainFurther, httpVars
  <2>6. CASE MainSpawn
    BY <1>1, <2>6 DEF MainSpawn, MainFurther, Stage, httpVars
  <2>7. CASE MainSpawnFails \/ MainArrive \/ MainReleased \/ MainJoined
    BY <1>1, <2>7 DEF MainSpawnFails, MainArrive, MainReleased, MainJoined, MainFurther, Stage, httpVars
  <2>. QED BY <2>1, <2>2, <2>3, <2>4, <2>5, <2>6, <2>7 DEF MainStep
<1>. QED BY <1>5, <1>6, <1>7

\* A worker's step takes it further, or the process with it.
LEMMA WorkerStepCounts ==
    ASSUME Inv, Inv', Moves, NEW w \in Worker, WorkerStep(w)
    PROVE  \/ MainFurther /\ Stage =< 11 /\ WorkersAhead' = WorkersAhead /\ orphans' = orphans
           \/ /\ MainAhead' = MainAhead
              /\ WorkerRank(w)' > WorkerRank(w) /\ \A v \in Worker : v # w => WorkerRank(v)' = WorkerRank(v)
              /\ orphans' = orphans \/ WorkerRank(w)' > WorkerRank(w) + 1
<1>. USE RegistryAssumption
<1>1. /\ workerPc \in WorkerPcType /\ line \in LineType /\ w \in Thread /\ Main \in Thread /\ w # Main
      /\ \A v \in Worker : v \in Thread
  BY ThreadFacts DEF Inv, TypeOK, WorkerPcType, LineType
<1>2. CASE WorkerInitFails(w)
  <2>1. Stage \in 1 .. 11 /\ Stage' = 12
    BY <1>2, PathFacts DEF WorkerInitFails, WorkerStep, Running, Inv, TypeOK, Stage
  <2>2. WorkersAhead' = WorkersAhead /\ orphans' = orphans
    BY <1>2 DEF WorkerInitFails, WorkersAhead, WorkerRank, LineRank, workerVars, httpVars
  <2>. QED BY <2>1, <2>2 DEF MainFurther
<1>3. CASE ~WorkerInitFails(w)
  <2>1. UNCHANGED mainVars
    BY <1>3 DEF WorkerStep, WorkerArrive, WorkerSend, WorkerReceive, WorkerThrown, WorkerLock, WorkerWrite
  <2>2. \A t \in Thread : t # w => line'[t] = line[t]
    BY <1>1, <1>3 DEF WorkerStep, WorkerArrive, WorkerSend, WorkerReceive, WorkerThrown, WorkerLock,
       WorkerWrite, Send, Receive, GiveUp, LineType, httpVars
  <2>3. MainAhead' = MainAhead
    BY <1>1, <2>1, <2>2, MainAheadStays
  <2>4. PICK to \in {"waiting", "request", "lock", "write", "exit"} : workerPc' = [workerPc EXCEPT ![w] = to]
    BY <1>3 DEF WorkerStep, WorkerArrive, WorkerSend, WorkerReceive, WorkerThrown, WorkerLock, WorkerWrite
  <2>5. ASSUME NEW v \in Worker, v # w
        PROVE  WorkerRank(v)' = WorkerRank(v)
    <3>1. workerPc'[v] = workerPc[v] /\ line'[v] = line[v]
      BY <1>1, <2>2, <2>4, <2>5 DEF WorkerPcType
    <3>. QED BY <3>1 DEF WorkerRank, LineRank
  <2>6. WorkerRank(w)' > WorkerRank(w) /\ (orphans' = orphans \/ WorkerRank(w)' > WorkerRank(w) + 1)
    <3>1. CASE WorkerArrive(w) \/ WorkerLock(w) \/ WorkerWrite(w)
      BY <1>1, <3>1 DEF WorkerArrive, WorkerLock, WorkerWrite, WorkerRank, WorkerPcType, httpVars
    <3>2. CASE WorkerSend(w)
      <4>1. line'[w] = "sent" /\ workerPc[w] = "waiting" /\ workerPc'[w] = "request" /\ orphans' = orphans
        BY <1>1, <3>2 DEF WorkerSend, Send, WorkerPcType, LineType
      <4>. QED BY <4>1 DEF WorkerRank, LineRank
    <3>3. CASE WorkerReceive(w)
      <4>1. line[w] = "answered" /\ workerPc[w] = "request" /\ workerPc'[w] = "lock" /\ orphans' = orphans
        BY <1>1, <3>3 DEF WorkerReceive, Receive, WorkerPcType, LineType
      <4>. QED BY <4>1 DEF WorkerRank, LineRank
    <3>4. CASE WorkerThrown(w)
      <4>1. /\ line[w] \in {"sent", "answered"} /\ workerPc[w] = "request" /\ workerPc'[w] = "lock"
            /\ line[w] = "sent" \/ orphans' = orphans
        BY <1>1, <3>4 DEF WorkerThrown, GiveUp, WorkerPcType, LineType
      <4>. QED BY <4>1 DEF WorkerRank, LineRank
    <3>. QED BY <1>3, <3>1, <3>2, <3>3, <3>4 DEF WorkerStep
  <2>. QED BY <2>3, <2>5, <2>6
<1>. QED BY <1>2, <1>3

\* An answer takes its request further, and a late execution leaves one orphan less.
LEMMA RegistryStepCounts ==
    ASSUME Inv, Inv', Moves, RegistryStep
    PROVE  \/ MainFurther /\ Stage =< 11 /\ WorkersAhead' = WorkersAhead /\ orphans' = orphans
           \/ /\ MainAhead' = MainAhead /\ orphans' = orphans
              /\ \E w \in Worker : /\ WorkerRank(w)' > WorkerRank(w)
                                   /\ \A v \in Worker : v # w => WorkerRank(v)' = WorkerRank(v)
           \/ /\ MainAhead' = MainAhead /\ WorkersAhead' = WorkersAhead
              /\ \E s \in orphans : orphans' = orphans \ {s}
<1>1. /\ workerPc \in WorkerPcType /\ line \in LineType /\ Main \in Thread /\ Main \notin Worker
      /\ Worker \subseteq Thread
  BY ThreadFacts DEF Inv, TypeOK, WorkerPcType, LineType
<1>2. ASSUME NEW t \in Thread, Serve(t), t = Main
      PROVE  MainFurther /\ Stage =< 11 /\ WorkersAhead' = WorkersAhead /\ orphans' = orphans
  <2>1. /\ line[Main] = "sent" /\ line'[Main] = "answered" /\ \A w \in Worker : line'[w] = line[w]
        /\ UNCHANGED <<pc, path, repetition, workerPc, orphans>> /\ Running
    BY <1>1, <1>2 DEF Serve, LineType, mainVars, workerVars
  <2>2. WorkersAhead' = WorkersAhead
    BY <2>1 DEF WorkersAhead, WorkerRank, LineRank
  <2>3. MainFurther /\ Stage =< 11
    BY <2>1, PathFacts DEF MainFurther, Stage, LineRank, Running, Inv, TypeOK
  <2>. QED BY <2>1, <2>2, <2>3
<1>3. ASSUME NEW w \in Worker, Serve(w)
      PROVE  /\ MainAhead' = MainAhead /\ orphans' = orphans
             /\ WorkerRank(w)' > WorkerRank(w) /\ \A v \in Worker : v # w => WorkerRank(v)' = WorkerRank(v)
  <2>1. /\ line[w] = "sent" /\ line'[w] = "answered" /\ \A t \in Thread : t # w => line'[t] = line[t]
        /\ UNCHANGED <<mainVars, workerPc, orphans>>
    BY <1>1, <1>3 DEF Serve, LineType, workerVars
  <2>2. workerPc[w] = "request"
    BY <2>1 DEF Inv, Answers
  <2>3. MainAhead' = MainAhead
    BY <1>1, <2>1, MainAheadStays
  <2>. QED BY <1>1, <2>1, <2>2, <2>3 DEF WorkerRank, LineRank
<1>4. ASSUME NEW s \in orphans, ServeOrphan(s)
      PROVE  MainAhead' = MainAhead /\ WorkersAhead' = WorkersAhead /\ orphans' = orphans \ {s}
  <2>1. UNCHANGED <<mainVars, line, workerPc>> /\ orphans' = orphans \ {s}
    BY <1>4 DEF ServeOrphan, workerVars
  <2>. QED BY <2>1, MainAheadStays DEF WorkersAhead, WorkerRank, LineRank
<1>. QED BY <1>2, <1>3, <1>4 DEF RegistryStep, Thread

\* Whoever steps, the sum of what is still to come gets smaller.
LEMMA RegistryCounts ==
    Inv /\ Moves /\ IsFiniteSet(orphans) /\ Inv' /\ [Next]_vars =>
        /\ StepsAhead \in Nat /\ StepsAhead' \in Nat
        /\ StepsAhead' < StepsAhead \/ UNCHANGED vars
<1>. SUFFICES ASSUME Inv, Moves, IsFiniteSet(orphans), Inv', [Next]_vars
              PROVE  /\ StepsAhead \in Nat /\ StepsAhead' \in Nat
                     /\ StepsAhead' < StepsAhead \/ UNCHANGED vars
  OBVIOUS
<1>1. /\ Cardinality(orphans) \in Nat /\ Cardinality(orphans') \in Nat
      /\ Cardinality(orphans') =< Cardinality(orphans) + 1
  BY OrphansFinite
<1>2. /\ Cardinality(MainAhead) \in Nat /\ Cardinality(MainAhead') \in Nat
      /\ Cardinality(WorkersAhead) \in Nat /\ Cardinality(WorkersAhead') \in Nat
  <2>1. (IsFiniteSet(MainAhead) /\ IsFiniteSet(WorkersAhead))'
    BY AheadFinite, PTL
  <2>. QED BY <2>1, AheadFinite, FS_CardinalityType
<1>3. TypeOK /\ TypeOK'
  BY DEF Inv
<1>4. ASSUME MainFurther, Stage =< 11, WorkersAhead' = WorkersAhead,
             orphans' = orphans \/ (LineRank(Main) = 1 /\ LineRank(Main)' # 2)
      PROVE  StepsAhead' < StepsAhead
  BY <1>1, <1>2, <1>3, <1>4, MainCounts DEF StepsAhead
<1>5. ASSUME NEW w \in Worker, MainAhead' = MainAhead, WorkerRank(w)' > WorkerRank(w),
             \A v \in Worker : v # w => WorkerRank(v)' = WorkerRank(v),
             orphans' = orphans \/ WorkerRank(w)' > WorkerRank(w) + 1
      PROVE  StepsAhead' < StepsAhead
  BY <1>1, <1>2, <1>3, <1>5, WorkerCounts DEF StepsAhead
<1>6. StepsAhead \in Nat /\ StepsAhead' \in Nat
  BY <1>1, <1>2 DEF StepsAhead
<1>. SUFFICES StepsAhead' < StepsAhead \/ UNCHANGED vars
  BY <1>6
<1>7. CASE MainStep
  BY <1>4, <1>7, MainStepCounts
<1>8. ASSUME NEW w \in Worker, WorkerStep(w)
      PROVE  StepsAhead' < StepsAhead
  BY <1>4, <1>5, <1>8, WorkerStepCounts
<1>9. CASE RegistryStep
  <2>1. ASSUME NEW s \in orphans, orphans' = orphans \ {s}, MainAhead' = MainAhead, WorkersAhead' = WorkersAhead
        PROVE  StepsAhead' < StepsAhead
    <3>1. Cardinality(orphans') = Cardinality(orphans) - 1
      BY <2>1, FS_RemoveElement
    <3>. QED BY <1>1, <1>2, <2>1, <3>1 DEF StepsAhead
  <2>. QED BY <1>4, <1>5, <1>9, <2>1, RegistryStepCounts
<1>. QED BY <1>7, <1>8, <1>9 DEF Next, Ended

\* Every step of a run leaves fewer steps to come: with NoDeadlock, a run whose threads keep being
\* scheduled ends, whatever the Registry does.
THEOREM BoundedRun == Spec => [](StepsAhead \in Nat) /\ EveryStepCounts
<1>. DEFINE SInv == Inv /\ Moves /\ IsFiniteSet(orphans)
<1>1. Init => SInv
  BY InitInv, InitMoves, FS_EmptySet DEF Init
<1>2. SInv /\ [Next]_vars => SInv'
  BY NextInv, NextMoves, OrphansFinite
<1>3. SInv /\ Inv' /\ [Next]_vars => StepsAhead \in Nat /\ [StepsAhead' < StepsAhead]_vars
  BY RegistryCounts
<1>. QED BY <1>1, <1>2, <1>3, PTL DEF Spec, EveryStepCounts

-------------------------------------------------------------------------------
(* SchemaEvolution: every step is progress *)

\* Where the client is in a phase.
ClientRank ==
    CASE client = "curl" -> 0 [] client = "phase" -> 1 [] client = "sent" -> 2 [] client = "answered" -> 3
      [] OTHER -> 4

ClientOver == client \in {"done", "failed"}
Place == (1 .. MaxRuns) \X (Evolution!Subject \X ((1 .. 3) \X (0 .. 4)))

\* The steps still to come, of later runs of the host script, later repetitions, later phases and
\* in this one; and the late registrations that may still be executed.
ClientAhead ==
    {s \in Place :
        \/ s[1] > runs
        \/ /\ s[1] = runs /\ ~ClientOver
           /\ \/ s[2][1] > subject
              \/ s[2][1] = subject /\ (s[2][2][1] > phase \/ (s[2][2][1] = phase /\ s[2][2][2] > ClientRank))}
EvolutionAhead == Cardinality(ClientAhead) + Cardinality(late)

\* The client's steps to come are finitely many.
LEMMA ClientAheadFinite == IsFiniteSet(ClientAhead)
<1>1. \A m, n \in Int : IsFiniteSet(m .. n)
  BY FS_Interval
<1>2. IsFiniteSet(Evolution!Subject) /\ IsFiniteSet(1 .. MaxRuns)
  BY <1>1, EvolutionAssumption DEF Evolution!Counts, Evolution!Subject
<1>3. 1 \in Int /\ 3 \in Int /\ 0 \in Int /\ 4 \in Int
  OBVIOUS
<1>4. IsFiniteSet(1 .. 3) /\ IsFiniteSet(0 .. 4)
  BY <1>1, <1>3, Zenon
<1>5. IsFiniteSet((1 .. 3) \X (0 .. 4))
  BY <1>4, FS_Product
<1>6. IsFiniteSet(Evolution!Subject \X ((1 .. 3) \X (0 .. 4)))
  BY <1>2, <1>5, FS_Product
<1>7. IsFiniteSet(Place)
  BY <1>2, <1>6, FS_Product DEF Place
<1>8. ClientAhead \in SUBSET Place
  BY DEF ClientAhead
<1>. QED BY <1>7, <1>8, FS_Subset

\* The client, or the script, is further.
ClientFurther ==
    \/ runs' = runs + 1 /\ ClientOver
    \/ /\ runs' = runs /\ ~ClientOver
       /\ \/ ClientOver'
          \/ subject' > subject
          \/ subject' = subject /\ (phase' > phase \/ (phase' = phase /\ ClientRank' > ClientRank))

\* A client that is further has a step less to come, and two when it gives up a request it sent.
LEMMA ClientCounts ==
    ASSUME Evolution!TypeOK, Evolution!TypeOK', ClientFurther
    PROVE  /\ Cardinality(ClientAhead') < Cardinality(ClientAhead)
           /\ client = "sent" /\ ClientOver' => Cardinality(ClientAhead') + 1 < Cardinality(ClientAhead)
<1>. USE EvolutionAssumption DEF Evolution!Counts
<1>1. /\ runs \in 1 .. MaxRuns /\ subject \in Evolution!Subject /\ phase \in 1 .. 3 /\ ClientRank \in 0 .. 4
      /\ ~ClientOver => ClientRank \in 0 .. 3
  BY PhaseFacts DEF Evolution!TypeOK, ClientRank, ClientOver
<1>2. runs' \in 1 .. MaxRuns /\ subject' \in Evolution!Subject /\ phase' \in 1 .. 3 /\ ClientRank' \in 0 .. 4
  BY PhaseFacts DEF Evolution!TypeOK, ClientRank
<1>3. Evolution!Subject = 1 .. SubjectRepetitions /\ \A x \in Evolution!Subject : x \in Int
  BY DEF Evolution!Subject
<1>4. ClientAhead' \in SUBSET ClientAhead
  <2>. SUFFICES ASSUME NEW s \in ClientAhead' PROVE s \in ClientAhead
    OBVIOUS
  <2>1. /\ s \in Place /\ s[1] \in Int /\ s[2][1] \in Int /\ s[2][2][1] \in Int /\ s[2][2][2] \in Int
    BY <1>3 DEF ClientAhead, Place
  <2>2. \/ s[1] > runs'
        \/ /\ s[1] = runs' /\ ~ClientOver'
           /\ \/ s[2][1] > subject'
              \/ s[2][1] = subject' /\ (s[2][2][1] > phase' \/ (s[2][2][1] = phase' /\ s[2][2][2] > ClientRank'))
    BY DEF ClientAhead
  <2>3. \/ s[1] > runs
        \/ /\ s[1] = runs /\ ~ClientOver
           /\ \/ s[2][1] > subject
              \/ s[2][1] = subject /\ (s[2][2][1] > phase \/ (s[2][2][1] = phase /\ s[2][2][2] > ClientRank))
    <3>1. subject \in Int /\ subject' \in Int /\ phase \in Int /\ phase' \in Int
      BY <1>1, <1>2, <1>3
    <3>2. CASE runs' = runs + 1
      BY <1>1, <2>1, <2>2, <3>2
    <3>3. CASE runs' = runs /\ ~ClientOver /\ s[1] = runs' /\ ~ClientOver'
      <4>1. subject' > subject \/ (subject' = subject /\ (phase' > phase \/ (phase' = phase /\ ClientRank' > ClientRank)))
        BY <1>1, <3>3 DEF ClientFurther
      <4>2. s[2][1] > subject' \/ (s[2][1] = subject' /\ (s[2][2][1] > phase' \/ (s[2][2][1] = phase' /\ s[2][2][2] > ClientRank')))
        BY <1>1, <1>2, <2>2, <3>3
      <4>3. s[2][1] > subject \/ (s[2][1] = subject /\ (s[2][2][1] > phase \/ (s[2][2][1] = phase /\ s[2][2][2] > ClientRank)))
        BY <1>1, <1>2, <2>1, <3>1, <4>1, <4>2
      <4>. QED BY <3>3, <4>3
    <3>4. CASE s[1] > runs' /\ runs' = runs
      BY <3>4
    <3>. QED BY <2>2, <3>2, <3>3, <3>4 DEF ClientFurther
  <2>. QED BY <2>1, <2>3 DEF ClientAhead
<1>5. ASSUME ~ClientOver, NEW k \in 1 .. 4, k > ClientRank,
             k =< ClientRank' \/ ClientOver' \/ subject' # subject \/ phase' # phase
      PROVE  <<runs, <<subject, <<phase, k>>>>>> \in ClientAhead \ ClientAhead'
  <2>. DEFINE now == <<runs, <<subject, <<phase, k>>>>>>
  <2>1. /\ now \in Place /\ now[1] = runs /\ now[2][1] = subject /\ now[2][2][1] = phase /\ now[2][2][2] = k
    BY <1>1 DEF Place
  <2>. HIDE DEF now
  <2>2. now \in ClientAhead
    BY <1>5, <2>1 DEF ClientAhead
  <2>3. now \notin ClientAhead'
    <3>. SUFFICES ASSUME now \in ClientAhead' PROVE FALSE
      OBVIOUS
    <3>1. \/ runs > runs'
          \/ /\ runs = runs' /\ ~ClientOver'
             /\ \/ subject > subject'
                \/ subject = subject' /\ (phase > phase' \/ (phase = phase' /\ k > ClientRank'))
      BY <2>1 DEF ClientAhead
    <3>. QED BY <1>1, <1>2, <1>3, <1>5, <3>1 DEF ClientFurther
  <2>4. now \in ClientAhead \ ClientAhead'
    BY <2>2, <2>3
  <2>. QED BY <2>4 DEF now
<1>6. Cardinality(ClientAhead') < Cardinality(ClientAhead)
  <2>1. CASE ClientOver
    <3>. DEFINE start == <<runs', <<subject', <<phase', 0>>>>>>
    <3>1. runs' > runs /\ runs' \in Int /\ ClientRank' >= 0
      BY <1>1, <1>2, <2>1 DEF ClientFurther
    <3>2. /\ start \in Place /\ start[1] = runs' /\ start[2][1] = subject'
          /\ start[2][2][1] = phase' /\ start[2][2][2] = 0
      BY <1>2 DEF Place
    <3>. HIDE DEF start
    <3>3. start \in ClientAhead
      BY <3>1, <3>2 DEF ClientAhead
    <3>4. start \notin ClientAhead'
      <4>. SUFFICES ASSUME start \in ClientAhead' PROVE FALSE
        OBVIOUS
      <4>1. \/ runs' > runs'
            \/ subject' > subject' \/ phase' > phase' \/ 0 > ClientRank'
        BY <3>2 DEF ClientAhead
      <4>. QED BY <1>2, <1>3, <3>1, <4>1
    <3>5. start \in ClientAhead \ ClientAhead'
      BY <3>3, <3>4
    <3>. QED BY <1>4, <3>5, ClientAheadFinite, FewerLeft
  <2>2. CASE ~ClientOver
    <3>. DEFINE k == ClientRank + 1
    <3>1. /\ k \in 1 .. 4 /\ k > ClientRank
          /\ k =< ClientRank' \/ ClientOver' \/ subject' # subject \/ phase' # phase
      BY <1>1, <1>2, <1>3, <2>2 DEF ClientFurther
    <3>. HIDE DEF k
    <3>. QED BY <1>4, <1>5, <2>2, <3>1, ClientAheadFinite, FewerLeft
  <2>. QED BY <2>1, <2>2
<1>7. ASSUME client = "sent", ClientOver'
      PROVE  Cardinality(ClientAhead') + 1 < Cardinality(ClientAhead)
  <2>1. ~ClientOver /\ ClientRank = 2
    BY <1>7 DEF ClientOver, ClientRank
  <2>. DEFINE now(k) == <<runs, <<subject, <<phase, k>>>>>>
  <2>2. now(3) \in ClientAhead \ ClientAhead' /\ now(4) \in ClientAhead \ ClientAhead'
    BY <1>5, <1>7, <2>1
  <2>3. now(3) # now(4)
    OBVIOUS
  <2>. HIDE DEF now
  <2>. QED BY <1>4, <2>2, <2>3, ClientAheadFinite, FewerLeft
<1>. QED BY <1>6, <1>7

\* A throw may leave a late registration behind, but it ends the client.
LEMMA EvolutionStepCounts ==
    EvolutionInv /\ EvolutionInv' /\ [Evolution!Next]_(Evolution!vars) =>
        /\ EvolutionAhead \in Nat /\ EvolutionAhead' \in Nat
        /\ EvolutionAhead' < EvolutionAhead \/ UNCHANGED Evolution!vars
<1>. SUFFICES ASSUME EvolutionInv, EvolutionInv', [Evolution!Next]_(Evolution!vars)
              PROVE  /\ EvolutionAhead \in Nat /\ EvolutionAhead' \in Nat
                     /\ EvolutionAhead' < EvolutionAhead \/ UNCHANGED Evolution!vars
  OBVIOUS
<1>. USE EvolutionAssumption DEF Evolution!Counts
<1>0. /\ Evolution!TypeOK /\ Evolution!TypeOK'
      /\ runs \in Nat /\ subject \in Nat /\ phase \in 1 .. 3 /\ Len(Evolution!Phases) = 3
  BY PhaseFacts DEF EvolutionInv, Evolution!TypeOK, Evolution!Subject
<1>1. IsFiniteSet(late) /\ IsFiniteSet(late') /\ Cardinality(late) \in Nat /\ Cardinality(late') \in Nat
  <2>1. IsFiniteSet(Evolution!Subject)
    BY FS_Interval DEF Evolution!Subject
  <2>2. IsFiniteSet({"v1"}) /\ IsFiniteSet({"v1"} \cup {"v2"}) /\ Evolution!Schemas = {"v1"} \cup {"v2"}
    BY FS_Singleton, FS_AddElement DEF Evolution!Schemas
  <2>3. IsFiniteSet(Evolution!Subject \X Evolution!Schemas)
    BY <2>1, <2>2, FS_Product
  <2>4. late \in SUBSET (Evolution!Subject \X Evolution!Schemas) /\ late' \in SUBSET (Evolution!Subject \X Evolution!Schemas)
    BY <1>0 DEF Evolution!TypeOK
  <2>. QED BY <2>3, <2>4, FS_Subset, FS_CardinalityType
<1>2. Cardinality(ClientAhead) \in Nat /\ Cardinality(ClientAhead') \in Nat
  <2>1. IsFiniteSet(ClientAhead)'
    BY ClientAheadFinite, PTL
  <2>. QED BY <2>1, ClientAheadFinite, FS_CardinalityType
<1>3. ASSUME ClientFurther,
             \/ late' \in SUBSET late
             \/ (\E request : late' = late \cup {request}) /\ client = "sent" /\ ClientOver'
      PROVE  EvolutionAhead' < EvolutionAhead
  <2>1. Cardinality(ClientAhead') < Cardinality(ClientAhead)
    BY <1>0, <1>3, ClientCounts
  <2>2. CASE late' \in SUBSET late
    <3>1. Cardinality(late') =< Cardinality(late)
      BY <1>1, <2>2, FS_Subset
    <3>. QED BY <1>1, <1>2, <2>1, <3>1 DEF EvolutionAhead
  <2>3. CASE (\E request : late' = late \cup {request}) /\ client = "sent" /\ ClientOver'
    <3>1. Cardinality(late') =< Cardinality(late) + 1
      BY <1>1, <2>3, FS_AddElement
    <3>2. Cardinality(ClientAhead') + 1 < Cardinality(ClientAhead)
      BY <1>0, <1>3, <2>3, ClientCounts
    <3>. QED BY <1>1, <1>2, <3>1, <3>2 DEF EvolutionAhead
  <2>. QED BY <1>3, <2>2, <2>3
<1>9. EvolutionAhead \in Nat /\ EvolutionAhead' \in Nat
  BY <1>1, <1>2 DEF EvolutionAhead
<1>. SUFFICES EvolutionAhead' < EvolutionAhead \/ UNCHANGED Evolution!vars
  BY <1>9
<1>. USE DEF ClientFurther, ClientOver, ClientRank
<1>4. CASE Evolution!InitCurl \/ Evolution!Send \/ Evolution!Serve
  BY <1>0, <1>3, <1>4 DEF Evolution!InitCurl, Evolution!Send, Evolution!Serve
<1>5. CASE Evolution!Receive
  BY <1>0, <1>3, <1>5 DEF Evolution!Receive
<1>6. CASE Evolution!Throw
  BY <1>0, <1>3, <1>6 DEF Evolution!Throw
<1>7. CASE Evolution!Rerun
  BY <1>0, <1>3, <1>7 DEF Evolution!Rerun
<1>8. CASE Evolution!ServeLate
  <2>1. PICK request \in late : late' = late \ {request}
    BY <1>8 DEF Evolution!ServeLate
  <2>2. Cardinality(late') = Cardinality(late) - 1
    BY <1>1, <2>1, FS_RemoveElement
  <2>3. ClientAhead' = ClientAhead
    BY <1>8 DEF Evolution!ServeLate, ClientAhead
  <2>. QED BY <1>1, <1>2, <2>2, <2>3 DEF EvolutionAhead
<1>. QED BY <1>4, <1>5, <1>6, <1>7, <1>8 DEF Evolution!Next, Evolution!ClientStep, Evolution!Ended

-------------------------------------------------------------------------------
(* The composition: nobody is stuck and every step is progress *)

\* While either program runs, one of its threads has a step, whatever the Registry does.
SomebodyMoves ==
    \/ Over
    \/ program = "registry" /\ (MainCanStep \/ \E w \in Worker : WorkerCanStep(w))
    \/ program = "evolution" /\ client \in {"curl", "phase", "sent", "answered"}

StepsLeft == StepsAhead + EvolutionAhead
EveryStepLowers == [][StepsLeft' < StepsLeft]_mcVars

EndInv == MCInv /\ Moves /\ IsFiniteSet(orphans) /\ program \in {"registry", "evolution"}

\* What is needed of the registry's threads is kept in the composition.
LEMMA EndInvariance == MCSpec => []EndInv
<1>1. MCInit => Moves /\ IsFiniteSet(orphans) /\ program \in {"registry", "evolution"}
  BY InitMoves, FS_EmptySet DEF MCInit, Init
<1>2. EndInv /\ MCInv' /\ [MCNext]_mcVars => EndInv'
  <2>. SUFFICES ASSUME EndInv, MCInv', [MCNext]_mcVars PROVE EndInv'
    OBVIOUS
  <2>1. [Next]_vars /\ program' = program
    BY DEF MCNext, RunRegistry, RunEvolution, mcVars
  <2>. QED BY <2>1, NextMoves, OrphansFinite DEF EndInv, MCInv
<1>. QED BY <1>1, <1>2, Composition, PTL DEF MCSpec, EndInv

\* The same of both programs: as long as one runs, one of its threads is not waiting for another
\* one, nor for a Registry that never answers.
THEOREM NobodyWaitsForEver == MCSpec => []SomebodyMoves
<1>1. EndInv => SomebodyMoves
  BY MovesNobodyStuck DEF EndInv, MCInv, EvolutionInv, Evolution!TypeOK, NobodyStuck, SomebodyMoves, Over
<1>. QED BY <1>1, EndInvariance, PTL

\* Every step of either program, of the Registry and of a new run of the host script leaves less to
\* come, late executions included: the programs cannot go on for ever.
THEOREM BoundedPrograms == MCSpec => [](StepsLeft \in Nat) /\ EveryStepLowers
<1>1. EndInv /\ EndInv' /\ [MCNext]_mcVars =>
        StepsAhead \in Nat /\ EvolutionAhead \in Nat /\ StepsAhead' \in Nat /\ EvolutionAhead' \in Nat
  <2>1. [MCNext]_mcVars => [Next]_vars /\ [Evolution!Next]_(Evolution!vars)
    BY DEF MCNext, RunRegistry, RunEvolution, mcVars, evolutionVars, Evolution!vars
  <2>. QED BY <2>1, RegistryCounts, EvolutionStepCounts DEF EndInv, MCInv
<1>2. StepsAhead \in Nat /\ EvolutionAhead \in Nat => StepsLeft \in Nat
  BY DEF StepsLeft
<1>3. EndInv /\ EndInv' /\ [MCNext]_mcVars => [StepsLeft' < StepsLeft]_mcVars
  <2>. SUFFICES ASSUME EndInv, EndInv', MCNext, mcVars' # mcVars PROVE StepsLeft' < StepsLeft
    OBVIOUS
  <2>1. StepsAhead \in Nat /\ EvolutionAhead \in Nat /\ StepsAhead' \in Nat /\ EvolutionAhead' \in Nat
    BY <1>1
  <2>2. \A a, b, c, d \in Nat : (a < b /\ c = d) \/ (a = b /\ c < d) => a + c < b + d
    OBVIOUS
  <2>3. StepsLeft = StepsAhead + EvolutionAhead /\ StepsLeft' = StepsAhead' + EvolutionAhead'
    BY DEF StepsLeft
  <2>4. CASE RunRegistry
    <3>1. StepsAhead' < StepsAhead
      BY <2>4, RegistryCounts DEF RunRegistry, mcVars, EndInv, MCInv
    <3>2. EvolutionAhead' = EvolutionAhead
      BY <2>4 DEF RunRegistry, evolutionVars, EvolutionAhead, ClientAhead, ClientOver, ClientRank
    <3>. QED BY <2>1, <2>2, <2>3, <3>1, <3>2
  <2>5. CASE RunEvolution
    <3>1. EvolutionAhead' < EvolutionAhead
      BY <2>5, EvolutionStepCounts DEF RunEvolution, mcVars, evolutionVars, Evolution!vars, EndInv, MCInv
    <3>2. StepsAhead' = StepsAhead
      BY <2>5 DEF RunEvolution, vars, mainVars, httpVars, workerVars, StepsAhead, MainAhead, WorkersAhead,
         Stage, LineRank, WorkerRank
    <3>. QED BY <2>1, <2>2, <2>3, <3>1, <3>2
  <2>. QED BY <2>4, <2>5 DEF MCNext
<1>. QED BY <1>1, <1>2, <1>3, EndInvariance, PTL DEF MCSpec, EveryStepLowers
===============================================================================
