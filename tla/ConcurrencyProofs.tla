-------------------------- MODULE ConcurrencyProofs --------------------------
(***************************************************************************)
(* Proofs about ConcurrencyBench, for any number of threads, iterations    *)
(* and repetitions: the barrier starts the clock with everybody present,   *)
(* the locks keep writers apart, no checksum is lost, nobody is stuck and   *)
(* every step brings the end nearer.                                       *)
(***************************************************************************)
EXTENDS ConcurrencyBench, FiniteSetTheorems, TLAPS

-------------------------------------------------------------------------------
(* The inductive invariant *)

Waiting == {w \in Worker : workerPc[w] = "waiting"}
Exited == {w \in Worker : workerPc[w] = "exit"}

\* The configuration was accepted, or nothing was started; threads and repetitions beyond it
\* never exist.
Configured ==
    /\ mainPc # "refused" => threads \in 1 .. MaxThreads /\ Iterations % threads = 0
    /\ \A w \in AllWorkers : w >= threads \/ mainPc = "refused" => workerPc[w] = "none"
    /\ mainPc = "spawn" => \A w \in AllWorkers : w >= spawned => workerPc[w] = "none"
    /\ mainPc = "spawn" => spawned < threads
    /\ mainPc # "done" => repetition =< Repetitions

\* The barrier counts who waits at it, and opens for a repetition whose workers have all arrived.
Barrier ==
    /\ phase = 0 =>
        /\ ~startTaken
        /\ \A w \in Worker : workerPc[w] \in {"none", "arrive", "waiting"}
        /\ mainPc # "join"
        /\ arrived = Cardinality(Waiting) + (IF mainPc = "waiting" THEN 1 ELSE 0)
    /\ phase = 1 =>
        /\ startTaken /\ arrived = 0
        /\ \A w \in Worker : workerPc[w] \notin {"none", "arrive"}
        /\ mainPc \in {"waiting", "join"}

\* Who writes the shared buffer holds its mutex, and who adds to the checksum holds the other
\* one and has loaded what the checksum still is.
Locks ==
    /\ mode = "shared_buffer_mutex" =>
        \A w \in Worker : workerPc[w] = "encode" => sharedMutex = w
    /\ \A w \in Worker : workerPc[w] = "store" => checksumMutex = w /\ loaded[w] = checksum

\* The checksum is that of the workers that are done, and a row's that of all of them.
Sums ==
    /\ mainPc # "refused" =>
        /\ \A w \in Worker : encoded[w] =< Share
        /\ \A w \in Worker : workerPc[w] = "encode" => encoded[w] < Share
        /\ \A w \in Worker : workerPc[w] = "store" => encoded[w] = Share
        /\ checksum = Cardinality(Exited) * (Share * Bytes)
    /\ ChecksumExact

Inv == TypeOK /\ Configured /\ Barrier /\ Locks /\ Sums

-------------------------------------------------------------------------------
(* Arithmetic and cardinalities *)

\* The shares of an accepted configuration are all of the iterations.
LEMMA SharesAreAll ==
    ASSUME threads \in 1 .. MaxThreads, Iterations % threads = 0
    PROVE  /\ Share \in 0 .. Iterations
           /\ threads * (Share * Bytes) = Iterations * Bytes
<1>. USE ConcurrencyAssumption
<1>1. threads \in Nat \ {0}
  OBVIOUS
<1>2. Iterations = (threads * (Iterations \div threads)) + (Iterations % threads)
  BY <1>1
<1>3. Share \in Nat /\ Iterations = threads * Share
  BY <1>1, <1>2 DEF Share
<1>. HIDE DEF Share
<1>4. Share =< threads * Share
  BY <1>1, <1>3
<1>5. threads * (Share * Bytes) = (threads * Share) * Bytes
  BY <1>1, <1>3
<1>. QED BY <1>3, <1>4, <1>5

\* The workers are finitely many, and a set of as many of them is all of them.
LEMMA WorkersCounted ==
    ASSUME threads \in 1 .. MaxThreads
    PROVE  /\ IsFiniteSet(Worker) /\ Cardinality(Worker) = threads
           /\ \A T \in SUBSET Worker :
                /\ IsFiniteSet(T) /\ Cardinality(T) \in 0 .. threads
                /\ Cardinality(T) = threads => T = Worker
<1>. USE ConcurrencyAssumption
<1>1. IsFiniteSet(0 .. threads - 1) /\ Cardinality(0 .. threads - 1) = threads
  BY FS_Interval
<1>2. IsFiniteSet(Worker) /\ Cardinality(Worker) = threads
  BY <1>1 DEF Worker
<1>3. ASSUME NEW T \in SUBSET Worker
      PROVE  /\ IsFiniteSet(T) /\ Cardinality(T) \in 0 .. threads
             /\ Cardinality(T) = threads => T = Worker
  <2>1. /\ IsFiniteSet(T) /\ Cardinality(T) =< Cardinality(Worker)
        /\ Cardinality(Worker) = Cardinality(T) => Worker = T
    BY <1>2, FS_Subset
  <2>2. Cardinality(T) \in Nat
    BY <2>1, FS_CardinalityType
  <2>. QED BY <1>2, <2>1, <2>2
<1>. QED BY <1>2, <1>3

-------------------------------------------------------------------------------
(* The initial states and the main thread *)

\* The invariant holds of a configuration before its first thread.
LEMMA InitInv == Init => Inv
<1>. SUFFICES ASSUME Init PROVE Inv
  OBVIOUS
<1>. USE ConcurrencyAssumption DEF Init
<1>1. Worker \subseteq AllWorkers
  BY DEF Worker, AllWorkers
<1>2. TypeOK
  <2>1. threads \in 0 .. MaxThreads /\ 0 \in 0 .. threads /\ 0 \in 0 .. Iterations
    OBVIOUS
  <2>2. repetition \in 1 .. Repetitions + 1 /\ rows \in Seq(Nat)
    OBVIOUS
  <2>3. mainPc \in {"spawn", "arrive", "waiting", "join", "done", "refused", "failed", "aborted"}
    OBVIOUS
  <2>4. /\ workerPc \in [AllWorkers -> {"none", "arrive", "waiting", "loop", "encode", "store", "exit"}]
        /\ encoded \in [AllWorkers -> 0 .. Iterations] /\ loaded \in [AllWorkers -> Nat]
    BY <2>1
  <2>5. arrived \in 0 .. threads /\ phase \in 0 .. 1 /\ checksum \in Nat /\ spawned \in 0 .. threads
    BY <2>1
  <2>6. startTaken \in BOOLEAN
    OBVIOUS
  <2>. QED BY <2>1, <2>2, <2>3, <2>4, <2>5, <2>6 DEF TypeOK
<1>3. Configured
  BY DEF Configured, Accepts, AllWorkers
<1>4. Waiting = {} /\ Exited = {}
  BY <1>1 DEF Waiting, Exited
<1>5. Cardinality({}) = 0
  BY FS_EmptySet
<1>6. Barrier
  BY <1>1, <1>4, <1>5 DEF Barrier
<1>7. Locks
  BY <1>1 DEF Locks
<1>8. Sums
  <2>1. ChecksumExact
    BY DEF ChecksumExact
  <2>2. ASSUME mainPc # "refused"
        PROVE  /\ \A w \in Worker : encoded[w] =< Share
               /\ checksum = Cardinality(Exited) * (Share * Bytes)
    <3>1. Share \in Nat
      BY <1>3, <2>2, SharesAreAll DEF Configured
    <3>. QED BY <1>1, <1>4, <1>5, <3>1
  <2>. QED BY <1>1, <2>1, <2>2 DEF Sums
<1>. QED BY <1>2, <1>3, <1>6, <1>7, <1>8 DEF Inv

\* What a running repetition has of its configuration.
LEMMA Running ==
    ASSUME Inv, mainPc # "refused"
    PROVE  /\ threads \in 1 .. MaxThreads /\ Iterations % threads = 0
           /\ Worker \subseteq AllWorkers
           /\ Share \in 0 .. Iterations
           /\ Cardinality(Waiting) \in 0 .. threads /\ Cardinality(Exited) \in 0 .. threads
           /\ IsFiniteSet(Waiting) /\ IsFiniteSet(Exited)
           /\ Cardinality(Waiting) = threads => Waiting = Worker
           /\ Cardinality(Exited) = threads => Exited = Worker
<1>. USE ConcurrencyAssumption
<1>1. threads \in 1 .. MaxThreads /\ Iterations % threads = 0
  BY DEF Inv, Configured
<1>2. Waiting \in SUBSET Worker /\ Exited \in SUBSET Worker
  BY DEF Waiting, Exited
<1>3. Worker \subseteq AllWorkers
  BY <1>1 DEF Worker, AllWorkers
<1>. QED BY <1>1, <1>2, <1>3, SharesAreAll, WorkersCounted

\* A started thread has yet to arrive.
LEMMA MainSpawnInv == Inv /\ MainSpawn => Inv'
<1>. SUFFICES ASSUME Inv, MainSpawn PROVE Inv'
  OBVIOUS
<1>. USE ConcurrencyAssumption
<1>0. mainPc = "spawn" /\ mainPc # "refused"
  BY DEF MainSpawn
<1>1. /\ threads \in 1 .. MaxThreads /\ Worker \subseteq AllWorkers
      /\ spawned \in Worker /\ workerPc[spawned] = "none"
      /\ workerPc' = [workerPc EXCEPT ![spawned] = "arrive"]
      /\ workerPc \in [AllWorkers -> {"none", "arrive", "waiting", "loop", "encode", "store", "exit"}]
  <2>1. threads \in 1 .. MaxThreads /\ Worker \subseteq AllWorkers
    BY <1>0, Running
  <2>2. spawned \in 0 .. threads /\ spawned < threads
    BY DEF Inv, TypeOK, MainSpawn
  <2>3. spawned \in Worker
    BY <2>1, <2>2 DEF Worker
  <2>4. workerPc[spawned] = "none"
    BY <1>0, <2>1, <2>2, <2>3 DEF Inv, Configured
  <2>. QED BY <2>1, <2>3, <2>4 DEF MainSpawn, Inv, TypeOK
<1>2. UNCHANGED <<configVars, repetition, barrierVars, mutexVars, checksum, encoded, loaded, rows>>
  BY DEF MainSpawn
<1>. USE DEF configVars, barrierVars, mutexVars
<1>3. Worker' = Worker /\ Share' = Share
  BY <1>2 DEF Worker, Share
<1>4. Waiting' = Waiting /\ Exited' = Exited
  BY <1>1, <1>3 DEF Waiting, Exited
<1>5. TypeOK'
  BY <1>1, <1>2 DEF Inv, TypeOK, MainSpawn, Worker
<1>6. Configured'
  BY <1>0, <1>1, <1>2 DEF Inv, TypeOK, Configured, MainSpawn, Worker, AllWorkers
<1>7. Barrier'
  BY <1>0, <1>1, <1>2, <1>3, <1>4 DEF Inv, Barrier, MainSpawn
<1>8. Locks'
  BY <1>1, <1>2, <1>3 DEF Inv, Locks
<1>9. Sums'
  BY <1>0, <1>1, <1>2, <1>3, <1>4 DEF Inv, Sums, ChecksumExact, MainSpawn
<1>. QED BY <1>5, <1>6, <1>7, <1>8, <1>9 DEF Inv

\* A start that fails ends the run; whoever waits at the barrier is still counted.
LEMMA MainSpawnFailsInv == Inv /\ MainSpawnFails => Inv'
<1>. SUFFICES ASSUME Inv, MainSpawnFails PROVE Inv'
  OBVIOUS
<1>1. /\ mainPc = "spawn" /\ mainPc' \in {"failed", "aborted"}
      /\ UNCHANGED <<configVars, repetition, spawned, barrierVars, mutexVars, checksum, workerVars, rows>>
  BY DEF MainSpawnFails
<1>. USE DEF configVars, barrierVars, mutexVars, workerVars
<1>2. Worker' = Worker /\ Share' = Share /\ Waiting' = Waiting /\ Exited' = Exited
  BY <1>1 DEF Worker, Share, Waiting, Exited
<1>3. TypeOK'
  BY <1>1 DEF Inv, TypeOK
<1>4. Configured'
  BY <1>1 DEF Inv, Configured
<1>5. Barrier'
  BY <1>1, <1>2 DEF Inv, Barrier
<1>6. Locks'
  BY <1>1, <1>2 DEF Inv, Locks
<1>7. Sums'
  BY <1>1, <1>2 DEF Inv, Sums, ChecksumExact
<1>. QED BY <1>3, <1>4, <1>5, <1>6, <1>7 DEF Inv

\* The main thread is the last party exactly when every worker waits.
LEMMA MainArriveInv == Inv /\ MainArrive => Inv'
<1>. SUFFICES ASSUME Inv, MainArrive PROVE Inv'
  OBVIOUS
<1>. USE ConcurrencyAssumption
<1>1. /\ mainPc = "arrive" /\ mainPc # "refused" /\ mainPc' = "waiting"
      /\ UNCHANGED <<configVars, repetition, spawned, mutexVars, checksum, workerVars, rows>>
  BY DEF MainArrive
<1>. USE DEF configVars, mutexVars, workerVars
<1>2. Worker' = Worker /\ Share' = Share /\ Waiting' = Waiting /\ Exited' = Exited
  BY <1>1 DEF Worker, Share, Waiting, Exited
<1>3. /\ phase = 0 /\ ~startTaken /\ arrived = Cardinality(Waiting)
      /\ \A w \in Worker : workerPc[w] \in {"none", "arrive", "waiting"}
  <2>1. phase = 0 \/ phase = 1
    BY DEF Inv, TypeOK
  <2>2. phase = 0
    BY <1>1, <2>1 DEF Inv, Barrier
  <2>3. /\ ~startTaken /\ \A w \in Worker : workerPc[w] \in {"none", "arrive", "waiting"}
        /\ arrived = Cardinality(Waiting) + (IF mainPc = "waiting" THEN 1 ELSE 0)
    BY <2>2 DEF Inv, Barrier
  <2>4. Cardinality(Waiting) \in Nat
    BY <1>1, Running
  <2>5. arrived = Cardinality(Waiting)
    BY <1>1, <2>3, <2>4
  <2>. QED BY <2>2, <2>3, <2>5
<1>4. /\ Cardinality(Waiting) \in 0 .. threads
      /\ Cardinality(Waiting) = threads => Waiting = Worker
      /\ threads \in 1 .. MaxThreads
  BY <1>1, Running
<1>5. \/ arrived = threads /\ arrived' = 0 /\ phase' = 1 /\ startTaken' = TRUE
      \/ arrived # threads /\ arrived' = arrived + 1 /\ phase' = 0 /\ startTaken' = FALSE
  BY <1>3, <1>4 DEF MainArrive, Arrive, Parties, Inv, TypeOK
<1>6. arrived' \in 0 .. threads /\ phase' \in 0 .. 1 /\ startTaken' \in BOOLEAN
  <2>1. arrived' \in 0 .. threads /\ phase' \in 0 .. 1
    BY <1>3, <1>4, <1>5
  <2>2. startTaken' \in BOOLEAN
    BY <1>5
  <2>. QED BY <2>1, <2>2
<1>7. TypeOK'
  BY <1>1, <1>6 DEF Inv, TypeOK
<1>8. Configured'
  BY <1>1 DEF Inv, Configured
<1>9. Barrier'
  <2>1. CASE arrived = threads
    <3>1. \A w \in Worker : workerPc[w] = "waiting"
      BY <1>3, <1>4, <2>1 DEF Waiting
    <3>. QED BY <1>1, <1>2, <1>5, <2>1, <3>1 DEF Barrier
  <2>2. CASE arrived # threads
    BY <1>1, <1>2, <1>3, <1>5, <2>2 DEF Barrier
  <2>. QED BY <2>1, <2>2
<1>10. Locks'
  BY <1>1, <1>2 DEF Inv, Locks
<1>11. Sums'
  BY <1>1, <1>2 DEF Inv, Sums, ChecksumExact
<1>. QED BY <1>7, <1>8, <1>9, <1>10, <1>11 DEF Inv

\* The main thread leaves an open barrier for its joins.
LEMMA MainReleasedInv == Inv /\ MainReleased => Inv'
<1>. SUFFICES ASSUME Inv, MainReleased PROVE Inv'
  OBVIOUS
<1>1. /\ mainPc = "waiting" /\ mainPc' = "join" /\ phase = 1
      /\ UNCHANGED <<configVars, repetition, spawned, barrierVars, mutexVars, checksum, workerVars, rows>>
  BY DEF MainReleased, Released
<1>. USE DEF configVars, barrierVars, mutexVars, workerVars
<1>2. Worker' = Worker /\ Share' = Share /\ Waiting' = Waiting /\ Exited' = Exited
  BY <1>1 DEF Worker, Share, Waiting, Exited
<1>3. TypeOK'
  BY <1>1 DEF Inv, TypeOK
<1>4. Configured'
  BY <1>1 DEF Inv, Configured
<1>5. Barrier'
  BY <1>1, <1>2 DEF Inv, Barrier
<1>6. Locks'
  BY <1>1, <1>2 DEF Inv, Locks
<1>7. Sums'
  BY <1>1, <1>2 DEF Inv, Sums, ChecksumExact
<1>. QED BY <1>3, <1>4, <1>5, <1>6, <1>7 DEF Inv

\* The row's checksum is that of all workers, as each has exited.
LEMMA MainReportInv == Inv /\ MainReport => Inv'
<1>. SUFFICES ASSUME Inv, MainReport PROVE Inv'
  OBVIOUS
<1>. USE ConcurrencyAssumption
<1>1. /\ mainPc = "join" /\ mainPc # "refused" /\ mainPc' \in {"spawn", "done"}
      /\ UNCHANGED <<configVars, mutexVars>>
      /\ spawned' = 0 /\ arrived' = 0 /\ phase' = 0 /\ startTaken' = FALSE /\ checksum' = 0
      /\ workerPc' = [w \in AllWorkers |-> "none"]
      /\ encoded' = [w \in AllWorkers |-> 0] /\ loaded' = [w \in AllWorkers |-> 0]
      /\ rows' = Append(rows, checksum)
      /\ \A w \in Worker : workerPc[w] = "exit"
  BY DEF MainReport
<1>. USE DEF configVars, mutexVars
<1>2. /\ threads \in 1 .. MaxThreads /\ Iterations % threads = 0
      /\ Worker \subseteq AllWorkers /\ Share \in 0 .. Iterations
  BY <1>1, Running
<1>3. Worker' = Worker /\ Share' = Share
  BY <1>1 DEF Worker, Share
<1>4. Waiting' = {} /\ Exited' = {} /\ Cardinality({}) = 0
  BY <1>1, <1>2, <1>3, FS_EmptySet DEF Waiting, Exited
<1>5. checksum = Iterations * Bytes
  <2>1. Exited = Worker
    BY <1>1 DEF Exited
  <2>2. Cardinality(Worker) = threads
    BY <1>2, WorkersCounted
  <2>3. checksum = threads * (Share * Bytes)
    BY <1>1, <2>1, <2>2 DEF Inv, Sums
  <2>. QED BY <1>2, <2>3, SharesAreAll
<1>6. checksum \in Nat /\ rows \in Seq(Nat) /\ repetition \in 1 .. Repetitions + 1
  BY DEF Inv, TypeOK
<1>7. repetition' \in 1 .. Repetitions + 1
  <2>1. repetition =< Repetitions
    BY <1>1 DEF Inv, Configured
  <2>2. repetition' = repetition + 1
    BY DEF MainReport
  <2>. QED BY <1>6, <2>1, <2>2
<1>8. TypeOK'
  <2>1. rows' \in Seq(Nat)
    BY <1>1, <1>6
  <2>2. 0 \in 0 .. Iterations /\ 0 \in 0 .. threads /\ 0 \in 0 .. 1 /\ 0 \in Nat
    BY <1>2
  <2>4. /\ mainPc' \in {"spawn", "arrive", "waiting", "join", "done", "refused", "failed", "aborted"}
        /\ threads' \in 0 .. MaxThreads
        /\ mode' \in {"thread_local", "shared_readonly", "shared_buffer_mutex"}
        /\ sharedMutex' \in AllWorkers \cup {NoWorker} /\ checksumMutex' \in AllWorkers \cup {NoWorker}
    BY <1>1 DEF Inv, TypeOK
  <2>5. startTaken' \in BOOLEAN
    BY <1>1
  <2>3. /\ workerPc' \in [AllWorkers -> {"none", "arrive", "waiting", "loop", "encode", "store", "exit"}]
        /\ encoded' \in [AllWorkers -> 0 .. Iterations] /\ loaded' \in [AllWorkers -> Nat]
    BY <1>1, <2>2
  <2>6. checksum' \in Nat /\ arrived' \in 0 .. threads' /\ spawned' \in 0 .. threads' /\ phase' \in 0 .. 1
    BY <1>1, <2>2
  <2>. QED BY <1>7, <2>1, <2>3, <2>4, <2>5, <2>6 DEF TypeOK
<1>9. Configured'
  <2>1. mainPc' # "done" => repetition' =< Repetitions
    BY <1>6 DEF MainReport
  <2>. QED BY <1>1, <1>2, <2>1 DEF Configured
<1>10. Barrier'
  BY <1>1, <1>2, <1>3, <1>4 DEF Barrier
<1>11. Locks'
  BY <1>1, <1>2, <1>3 DEF Locks
<1>12. Sums'
  <2>1. ChecksumExact'
    BY <1>1, <1>5, <1>6 DEF ChecksumExact, Inv, Sums
  <2>. QED BY <1>1, <1>2, <1>3, <1>4, <2>1 DEF Sums
<1>. QED BY <1>8, <1>9, <1>10, <1>11, <1>12 DEF Inv

-------------------------------------------------------------------------------
(* The workers *)

\* Only a started worker takes a step, of a repetition whose configuration was accepted.
LEMMA Started ==
    ASSUME Inv, NEW w \in AllWorkers, workerPc[w] # "none"
    PROVE  /\ w \in Worker /\ mainPc # "refused"
           /\ mainPc = "spawn" => w < spawned
<1>. USE ConcurrencyAssumption
<1>1. w \in 0 .. MaxThreads - 1 /\ threads \in 0 .. MaxThreads /\ spawned \in 0 .. threads
  BY DEF Inv, TypeOK, AllWorkers
<1>2. ~(w >= threads) /\ mainPc # "refused"
  BY DEF Inv, Configured
<1>3. mainPc = "spawn" => ~(w >= spawned)
  BY DEF Inv, Configured
<1>. QED BY <1>1, <1>2, <1>3 DEF Worker

\* A worker is the last party exactly when the main thread and the other workers wait.
LEMMA WorkerArriveInv == ASSUME NEW w \in AllWorkers PROVE Inv /\ WorkerArrive(w) => Inv'
<1>. SUFFICES ASSUME Inv, WorkerArrive(w) PROVE Inv'
  OBVIOUS
<1>. USE ConcurrencyAssumption
<1>1. /\ workerPc[w] = "arrive" /\ workerPc' = [workerPc EXCEPT ![w] = "waiting"]
      /\ UNCHANGED <<configVars, mainPc, repetition, spawned, mutexVars, checksum, encoded, loaded, rows>>
  BY DEF WorkerArrive
<1>. USE DEF configVars, mutexVars
<1>2. /\ w \in Worker /\ mainPc # "refused" /\ (mainPc = "spawn" => w < spawned)
      /\ workerPc \in [AllWorkers -> {"none", "arrive", "waiting", "loop", "encode", "store", "exit"}]
  BY <1>1, Started DEF Inv, TypeOK
<1>3. /\ threads \in 1 .. MaxThreads /\ Worker \subseteq AllWorkers
      /\ Cardinality(Waiting) \in 0 .. threads /\ IsFiniteSet(Waiting)
      /\ Cardinality(Waiting) = threads => Waiting = Worker
  BY <1>2, Running
<1>4. Worker' = Worker /\ Share' = Share
  BY <1>1 DEF Worker, Share
<1>5. Exited' = Exited /\ Waiting' = Waiting \cup {w} /\ w \notin Waiting
  BY <1>1, <1>2, <1>3, <1>4 DEF Waiting, Exited
<1>6. Cardinality(Waiting') = Cardinality(Waiting) + 1
  BY <1>3, <1>5, FS_AddElement
<1>7. Cardinality(Waiting') \in 0 .. threads /\ (Cardinality(Waiting') = threads => Waiting' = Worker)
  <2>1. Waiting' \in SUBSET Worker
    BY <1>4 DEF Waiting
  <2>. QED BY <1>3, <2>1, WorkersCounted
<1>8. /\ phase = 0 /\ ~startTaken /\ mainPc # "join"
      /\ arrived = Cardinality(Waiting) + (IF mainPc = "waiting" THEN 1 ELSE 0)
      /\ \A v \in Worker : workerPc[v] \in {"none", "arrive", "waiting"}
  BY <1>1, <1>2 DEF Inv, TypeOK, Barrier
<1>9. \/ arrived = threads /\ arrived' = 0 /\ phase' = 1 /\ startTaken' = TRUE
      \/ arrived # threads /\ arrived' = arrived + 1 /\ phase' = 0 /\ startTaken' = FALSE
  BY <1>3, <1>8 DEF WorkerArrive, Arrive, Parties, Inv, TypeOK
<1>10. TypeOK'
  <2>1. arrived' \in 0 .. threads
    BY <1>3, <1>9 DEF Inv, TypeOK
  <2>2. workerPc' \in [AllWorkers -> {"none", "arrive", "waiting", "loop", "encode", "store", "exit"}]
    BY <1>1, <1>2
  <2>3. phase' \in 0 .. 1
    BY <1>9
  <2>4. startTaken' \in BOOLEAN
    BY <1>9
  <2>. QED BY <1>1, <2>1, <2>2, <2>3, <2>4 DEF Inv, TypeOK
<1>11. Configured'
  BY <1>1, <1>2, <1>3 DEF Inv, TypeOK, Configured, Worker, AllWorkers
<1>12. Barrier'
  <2>1. CASE arrived = threads
    <3>1. mainPc = "waiting" /\ Cardinality(Waiting') = threads
      BY <1>3, <1>6, <1>7, <1>8, <2>1
    <3>2. \A v \in Worker' : workerPc'[v] = "waiting"
      BY <1>4, <1>7, <3>1 DEF Waiting
    <3>. QED BY <1>1, <1>9, <2>1, <3>1, <3>2 DEF Barrier
  <2>2. CASE arrived # threads
    <3>1. arrived' = Cardinality(Waiting') + (IF mainPc' = "waiting" THEN 1 ELSE 0)
      BY <1>1, <1>3, <1>6, <1>8, <1>9, <2>2
    <3>2. \A v \in Worker' : workerPc'[v] \in {"none", "arrive", "waiting"}
      BY <1>1, <1>2, <1>3, <1>4, <1>8
    <3>. QED BY <1>1, <1>8, <1>9, <2>2, <3>1, <3>2 DEF Barrier
  <2>. QED BY <2>1, <2>2
<1>13. Locks'
  BY <1>1, <1>2, <1>3, <1>4 DEF Inv, Locks
<1>14. Sums'
  BY <1>1, <1>2, <1>3, <1>4, <1>5 DEF Inv, Sums, ChecksumExact
<1>. QED BY <1>10, <1>11, <1>12, <1>13, <1>14 DEF Inv

\* What the steps of an open barrier have in common: a worker w goes from one place past the
\* barrier to another, and the barrier stays as it is.
LEMMA PastTheBarrier ==
    ASSUME Inv, NEW w \in AllWorkers, NEW to \in {"loop", "encode", "store", "exit"},
           workerPc[w] \in {"waiting", "loop", "encode", "store"},
           workerPc[w] = "waiting" => phase = 1,
           workerPc' = [workerPc EXCEPT ![w] = to],
           UNCHANGED <<configVars, mainPc, repetition, spawned, barrierVars>>
    PROVE  /\ w \in Worker /\ mainPc # "refused" /\ Worker \subseteq AllWorkers
           /\ Worker' = Worker /\ Share' = Share
           /\ workerPc \in [AllWorkers -> {"none", "arrive", "waiting", "loop", "encode", "store", "exit"}]
           /\ workerPc' \in [AllWorkers -> {"none", "arrive", "waiting", "loop", "encode", "store", "exit"}]
           /\ Exited' = IF to = "exit" THEN Exited \cup {w} ELSE Exited
           /\ w \notin Exited
           /\ Configured' /\ Barrier'
<1>. USE ConcurrencyAssumption DEF configVars, barrierVars
<1>1. /\ w \in Worker /\ mainPc # "refused" /\ (mainPc = "spawn" => w < spawned)
      /\ workerPc \in [AllWorkers -> {"none", "arrive", "waiting", "loop", "encode", "store", "exit"}]
  BY Started DEF Inv, TypeOK
<1>2. Worker \subseteq AllWorkers /\ threads \in 1 .. MaxThreads
  BY <1>1, Running
<1>3. workerPc' \in [AllWorkers -> {"none", "arrive", "waiting", "loop", "encode", "store", "exit"}]
  BY <1>1
<1>4. Worker' = Worker /\ Share' = Share
  BY DEF Worker, Share
<1>5. w \notin Exited /\ Exited' = IF to = "exit" THEN Exited \cup {w} ELSE Exited
  BY <1>1, <1>2, <1>4 DEF Exited
<1>6. phase = 1
  <2>1. phase = 0 \/ phase = 1
    BY DEF Inv, TypeOK
  <2>2. phase = 0 => workerPc[w] = "waiting"
    BY <1>1 DEF Inv, Barrier
  <2>. QED BY <2>1, <2>2
<1>7. Configured'
  BY <1>1, <1>2 DEF Inv, TypeOK, Configured, Worker, AllWorkers
<1>8. Barrier'
  BY <1>1, <1>2, <1>4, <1>6 DEF Inv, Barrier
<1>. QED BY <1>1, <1>2, <1>3, <1>4, <1>5, <1>7, <1>8

\* A worker leaves an open barrier for its loop.
LEMMA WorkerReleasedInv == ASSUME NEW w \in AllWorkers PROVE Inv /\ WorkerReleased(w) => Inv'
<1>. SUFFICES ASSUME Inv, WorkerReleased(w) PROVE Inv'
  OBVIOUS
<1>1. /\ workerPc[w] = "waiting" /\ phase = 1 /\ workerPc' = [workerPc EXCEPT ![w] = "loop"]
      /\ UNCHANGED <<configVars, mainPc, repetition, spawned, barrierVars, mutexVars, checksum, encoded, loaded, rows>>
  BY DEF WorkerReleased, Released
<1>2. /\ w \in Worker /\ mainPc # "refused" /\ Worker \subseteq AllWorkers
      /\ Worker' = Worker /\ Share' = Share /\ Exited' = Exited
      /\ workerPc \in [AllWorkers -> {"none", "arrive", "waiting", "loop", "encode", "store", "exit"}]
      /\ workerPc' \in [AllWorkers -> {"none", "arrive", "waiting", "loop", "encode", "store", "exit"}]
      /\ Configured' /\ Barrier'
  BY <1>1, PastTheBarrier
<1>. USE DEF configVars, barrierVars, mutexVars
<1>3. TypeOK'
  BY <1>1, <1>2 DEF Inv, TypeOK
<1>4. Locks'
  BY <1>1, <1>2 DEF Inv, Locks
<1>5. Sums'
  BY <1>1, <1>2 DEF Inv, Sums, ChecksumExact
<1>. QED BY <1>2, <1>3, <1>4, <1>5 DEF Inv

\* A worker begins an encode with the shared mutex free, so nobody else is inside one.
LEMMA WorkerEncodeInv == ASSUME NEW w \in AllWorkers PROVE Inv /\ WorkerEncode(w) => Inv'
<1>. SUFFICES ASSUME Inv, WorkerEncode(w) PROVE Inv'
  OBVIOUS
<1>1. /\ workerPc[w] = "loop" /\ encoded[w] < Share /\ workerPc' = [workerPc EXCEPT ![w] = "encode"]
      /\ mode = "shared_buffer_mutex" => sharedMutex = NoWorker
      /\ sharedMutex' = IF mode = "shared_buffer_mutex" THEN w ELSE sharedMutex
      /\ UNCHANGED <<configVars, mainPc, repetition, spawned, barrierVars, checksumMutex, checksum, encoded, loaded, rows>>
  BY DEF WorkerEncode
<1>2. /\ w \in Worker /\ mainPc # "refused" /\ Worker \subseteq AllWorkers
      /\ Worker' = Worker /\ Share' = Share /\ Exited' = Exited
      /\ workerPc \in [AllWorkers -> {"none", "arrive", "waiting", "loop", "encode", "store", "exit"}]
      /\ workerPc' \in [AllWorkers -> {"none", "arrive", "waiting", "loop", "encode", "store", "exit"}]
      /\ Configured' /\ Barrier'
  BY <1>1, PastTheBarrier
<1>. USE DEF configVars, barrierVars
<1>3. TypeOK'
  BY <1>1, <1>2 DEF Inv, TypeOK
<1>4. Locks'
  <2>1. ASSUME mode = "shared_buffer_mutex", NEW v \in Worker, workerPc'[v] = "encode"
        PROVE  sharedMutex' = v
    <3>1. v = w \/ workerPc[v] = "encode"
      BY <1>1, <1>2, <2>1
    <3>2. NoWorker \notin Worker
      BY DEF NoWorker, Worker
    <3>. QED BY <1>1, <2>1, <3>1, <3>2 DEF Inv, Locks
  <2>2. ASSUME NEW v \in Worker, workerPc'[v] = "store"
        PROVE  checksumMutex' = v /\ loaded'[v] = checksum'
    BY <1>1, <1>2, <2>2 DEF Inv, Locks
  <2>. QED BY <1>1, <1>2, <2>1, <2>2 DEF Locks
<1>5. Sums'
  BY <1>1, <1>2 DEF Inv, Sums, ChecksumExact
<1>. QED BY <1>2, <1>3, <1>4, <1>5 DEF Inv

\* The end of an encode counts it, within the share, and frees the mutex.
LEMMA WorkerEncodedInv == ASSUME NEW w \in AllWorkers PROVE Inv /\ WorkerEncoded(w) => Inv'
<1>. SUFFICES ASSUME Inv, WorkerEncoded(w) PROVE Inv'
  OBVIOUS
<1>. USE ConcurrencyAssumption
<1>1. /\ workerPc[w] = "encode" /\ workerPc' = [workerPc EXCEPT ![w] = "loop"]
      /\ encoded' = [encoded EXCEPT ![w] = encoded[w] + 1]
      /\ sharedMutex' = IF mode = "shared_buffer_mutex" THEN NoWorker ELSE sharedMutex
      /\ UNCHANGED <<configVars, mainPc, repetition, spawned, barrierVars, checksumMutex, checksum, loaded, rows>>
  BY DEF WorkerEncoded
<1>2. /\ w \in Worker /\ mainPc # "refused" /\ Worker \subseteq AllWorkers
      /\ Worker' = Worker /\ Share' = Share /\ Exited' = Exited
      /\ workerPc \in [AllWorkers -> {"none", "arrive", "waiting", "loop", "encode", "store", "exit"}]
      /\ workerPc' \in [AllWorkers -> {"none", "arrive", "waiting", "loop", "encode", "store", "exit"}]
      /\ Configured' /\ Barrier'
  BY <1>1, PastTheBarrier
<1>3. Share \in 0 .. Iterations /\ encoded \in [AllWorkers -> 0 .. Iterations] /\ encoded[w] < Share
  BY <1>1, <1>2, Running DEF Inv, TypeOK, Sums
<1>4. encoded' \in [AllWorkers -> 0 .. Iterations] /\ encoded'[w] =< Share
  BY <1>1, <1>3
<1>. USE DEF configVars, barrierVars
<1>5. TypeOK'
  BY <1>1, <1>2, <1>4 DEF Inv, TypeOK
<1>6. Locks'
  <2>1. ASSUME mode = "shared_buffer_mutex", NEW v \in Worker, workerPc'[v] = "encode"
        PROVE  FALSE
    <3>1. v # w /\ workerPc[v] = "encode"
      BY <1>1, <1>2, <2>1
    <3>. QED BY <1>1, <1>2, <2>1, <3>1 DEF Inv, Locks
  <2>2. ASSUME NEW v \in Worker, workerPc'[v] = "store"
        PROVE  checksumMutex' = v /\ loaded'[v] = checksum'
    BY <1>1, <1>2, <2>2 DEF Inv, Locks
  <2>. QED BY <1>1, <1>2, <2>1, <2>2 DEF Locks
<1>7. Sums'
  <2>1. \A v \in Worker : v # w => encoded'[v] = encoded[v] /\ workerPc'[v] = workerPc[v]
    BY <1>1, <1>2, <1>3
  <2>2. workerPc'[w] = "loop"
    BY <1>1, <1>2
  <2>. QED BY <1>1, <1>2, <1>4, <2>1, <2>2 DEF Inv, Sums, ChecksumExact
<1>. QED BY <1>2, <1>5, <1>6, <1>7 DEF Inv

\* A worker loads the checksum with its mutex free, so no other load is out of date.
LEMMA WorkerLoadInv == ASSUME NEW w \in AllWorkers PROVE Inv /\ WorkerLoad(w) => Inv'
<1>. SUFFICES ASSUME Inv, WorkerLoad(w) PROVE Inv'
  OBVIOUS
<1>1. /\ workerPc[w] = "loop" /\ encoded[w] = Share /\ checksumMutex = NoWorker /\ checksumMutex' = w
      /\ loaded' = [loaded EXCEPT ![w] = checksum] /\ workerPc' = [workerPc EXCEPT ![w] = "store"]
      /\ UNCHANGED <<configVars, mainPc, repetition, spawned, barrierVars, sharedMutex, checksum, encoded, rows>>
  BY DEF WorkerLoad
<1>2. /\ w \in Worker /\ mainPc # "refused" /\ Worker \subseteq AllWorkers
      /\ Worker' = Worker /\ Share' = Share /\ Exited' = Exited
      /\ workerPc \in [AllWorkers -> {"none", "arrive", "waiting", "loop", "encode", "store", "exit"}]
      /\ workerPc' \in [AllWorkers -> {"none", "arrive", "waiting", "loop", "encode", "store", "exit"}]
      /\ Configured' /\ Barrier'
  BY <1>1, PastTheBarrier
<1>3. checksum \in Nat /\ loaded \in [AllWorkers -> Nat]
  BY DEF Inv, TypeOK
<1>. USE DEF configVars, barrierVars
<1>4. TypeOK'
  BY <1>1, <1>2, <1>3 DEF Inv, TypeOK
<1>5. Locks'
  <2>1. ASSUME mode = "shared_buffer_mutex", NEW v \in Worker, workerPc'[v] = "encode"
        PROVE  sharedMutex' = v
    BY <1>1, <1>2, <2>1 DEF Inv, Locks
  <2>2. ASSUME NEW v \in Worker, workerPc'[v] = "store"
        PROVE  checksumMutex' = v /\ loaded'[v] = checksum'
    <3>1. v = w \/ workerPc[v] = "store"
      BY <1>1, <1>2, <2>2
    <3>2. NoWorker \notin Worker
      BY DEF NoWorker, Worker
    <3>3. v = w
      BY <1>1, <3>1, <3>2 DEF Inv, Locks
    <3>. QED BY <1>1, <1>3, <3>3
  <2>. QED BY <1>1, <1>2, <2>1, <2>2 DEF Locks
<1>6. Sums'
  BY <1>1, <1>2 DEF Inv, Sums, ChecksumExact
<1>. QED BY <1>2, <1>4, <1>5, <1>6 DEF Inv

\* The store adds one more worker's share to what the checksum still is.
LEMMA WorkerStoreInv == ASSUME NEW w \in AllWorkers PROVE Inv /\ WorkerStore(w) => Inv'
<1>. SUFFICES ASSUME Inv, WorkerStore(w) PROVE Inv'
  OBVIOUS
<1>. USE ConcurrencyAssumption
<1>1. /\ workerPc[w] = "store" /\ checksum' = loaded[w] + encoded[w] * Bytes
      /\ checksumMutex' = NoWorker /\ workerPc' = [workerPc EXCEPT ![w] = "exit"]
      /\ UNCHANGED <<configVars, mainPc, repetition, spawned, barrierVars, sharedMutex, encoded, loaded, rows>>
  BY DEF WorkerStore
<1>2. /\ w \in Worker /\ mainPc # "refused" /\ Worker \subseteq AllWorkers
      /\ Worker' = Worker /\ Share' = Share /\ Exited' = Exited \cup {w} /\ w \notin Exited
      /\ workerPc \in [AllWorkers -> {"none", "arrive", "waiting", "loop", "encode", "store", "exit"}]
      /\ workerPc' \in [AllWorkers -> {"none", "arrive", "waiting", "loop", "encode", "store", "exit"}]
      /\ Configured' /\ Barrier'
  BY <1>1, PastTheBarrier
<1>3. Share \in Nat /\ IsFiniteSet(Exited) /\ Cardinality(Exited) \in Nat
  BY <1>2, Running
<1>4. encoded[w] = Share /\ loaded[w] = checksum /\ checksumMutex = w
  BY <1>1, <1>2 DEF Inv, Sums, Locks
<1>5. Cardinality(Exited') = Cardinality(Exited) + 1
  BY <1>2, <1>3, FS_AddElement
<1>6. Share * Bytes \in Nat
  BY <1>3
<1>7. checksum' = Cardinality(Exited') * (Share * Bytes) /\ checksum' \in Nat
  <2>1. checksum = Cardinality(Exited) * (Share * Bytes)
    BY <1>2 DEF Inv, Sums
  <2>2. \A c, n \in Nat : (c + 1) * n = c * n + n
    OBVIOUS
  <2>3. (Cardinality(Exited) + 1) * (Share * Bytes) = Cardinality(Exited) * (Share * Bytes) + Share * Bytes
    BY <1>3, <1>6, <2>2
  <2>4. checksum \in Nat
    BY DEF Inv, TypeOK
  <2>. QED BY <1>1, <1>4, <1>5, <1>6, <2>1, <2>3, <2>4
<1>. USE DEF configVars, barrierVars
<1>8. TypeOK'
  BY <1>1, <1>2, <1>7 DEF Inv, TypeOK
<1>9. Locks'
  <2>1. ASSUME mode = "shared_buffer_mutex", NEW v \in Worker, workerPc'[v] = "encode"
        PROVE  sharedMutex' = v
    BY <1>1, <1>2, <2>1 DEF Inv, Locks
  <2>2. ASSUME NEW v \in Worker, workerPc'[v] = "store"
        PROVE  FALSE
    <3>1. v # w /\ workerPc[v] = "store"
      BY <1>1, <1>2, <2>2
    <3>. QED BY <1>4, <3>1 DEF Inv, Locks
  <2>. QED BY <1>1, <1>2, <2>1, <2>2 DEF Locks
<1>10. Sums'
  BY <1>1, <1>2, <1>7 DEF Inv, Sums, ChecksumExact
<1>. QED BY <1>2, <1>8, <1>9, <1>10 DEF Inv

-------------------------------------------------------------------------------
(* The theorems *)

\* A repetition, from the first started thread to its row, keeps the invariant, whoever steps.
THEOREM Invariance == Spec => []Inv
<1>1. Init => Inv
  BY InitInv
<1>2. Inv /\ [Next]_vars => Inv'
  <2>. SUFFICES ASSUME Inv, [Next]_vars PROVE Inv'
    OBVIOUS
  <2>1. CASE MainStep
    BY <2>1, MainSpawnInv, MainSpawnFailsInv, MainArriveInv, MainReleasedInv, MainReportInv DEF MainStep
  <2>2. ASSUME NEW w \in AllWorkers, WorkerStep(w)
        PROVE  Inv'
    BY <2>2, WorkerArriveInv, WorkerReleasedInv, WorkerEncodeInv, WorkerEncodedInv, WorkerLoadInv,
       WorkerStoreInv DEF WorkerStep
  <2>3. CASE UNCHANGED vars
    <3>. USE <2>3 DEF vars, configVars, barrierVars, mutexVars, workerVars
    <3>1. Worker' = Worker /\ Share' = Share /\ Waiting' = Waiting /\ Exited' = Exited
      BY DEF Worker, Share, Waiting, Exited
    <3>2. TypeOK' /\ Configured'
      BY DEF Inv, TypeOK, Configured
    <3>3. Barrier' /\ Locks' /\ Sums'
      BY <3>1 DEF Inv, Barrier, Locks, Sums, ChecksumExact
    <3>. QED BY <3>2, <3>3 DEF Inv
  <2>. QED BY <2>1, <2>2, <2>3 DEF Next, Finished
<1>. QED BY <1>1, <1>2, PTL DEF Spec

\* The variables keep their types: the barrier never counts more than its parties and opens once.
THEOREM Typing == Spec => []TypeOK
<1>1. Inv => TypeOK
  BY DEF Inv
<1>. QED BY <1>1, Invariance, PTL

\* With shared_mutex, the shared buffer has one writer at a time, however many threads there are.
THEOREM SerialWriters == Spec => []OneWriter
<1>1. Inv => OneWriter
  BY DEF Inv, Locks, OneWriter
<1>. QED BY <1>1, Invariance, PTL

\* The clock starts after the last arrival and before the first encode.
THEOREM ClockStart == Spec => []TimedFromTheStart
<1>1. Inv => TimedFromTheStart
  BY DEF Inv, TypeOK, Barrier, TimedFromTheStart
<1>. QED BY <1>1, Invariance, PTL

\* Every row's checksum covers all iterations, for every accepted number of threads.
THEOREM NothingLost == Spec => []ChecksumExact
<1>1. Inv => ChecksumExact
  BY DEF Inv, Sums
<1>. QED BY <1>1, Invariance, PTL
-------------------------------------------------------------------------------
(* Nobody is stuck: the guards of the threads' steps, and why one of them holds *)

MainCanStep ==
    \/ mainPc \in {"spawn", "arrive"}
    \/ mainPc = "waiting" /\ Released
    \/ mainPc = "join" /\ \A w \in Worker : workerPc[w] = "exit"

WorkerCanStep(w) ==
    /\ mainPc # "aborted"
    /\ \/ workerPc[w] \in {"arrive", "encode", "store"}
       \/ workerPc[w] = "waiting" /\ Released
       \/ /\ workerPc[w] = "loop" /\ encoded[w] < Share
          /\ mode = "shared_buffer_mutex" => sharedMutex = NoWorker
       \/ workerPc[w] = "loop" /\ encoded[w] = Share /\ checksumMutex = NoWorker

\* A run that has not ended has a thread that is not waiting for another one.
NobodyStuck == Ended \/ MainCanStep \/ \E w \in Worker : WorkerCanStep(w)

\* The parties the barrier waits for exist, and no worker outlives run.
Present ==
    /\ mainPc \in {"spawn", "arrive", "waiting", "join"} =>
        \A w \in Worker : w < spawned => workerPc[w] # "none"
    /\ mainPc \in {"arrive", "waiting", "join"} => spawned = threads
    /\ mainPc \in {"done", "failed"} => \A w \in AllWorkers : workerPc[w] = "none"

\* A mutex that is held is held by a worker that will release it.
Holders ==
    /\ sharedMutex # NoWorker =>
        mode = "shared_buffer_mutex" /\ sharedMutex \in Worker /\ workerPc[sharedMutex] = "encode"
    /\ checksumMutex # NoWorker => checksumMutex \in Worker /\ workerPc[checksumMutex] = "store"

MovesInv == Inv /\ Present /\ Holders

\* Before the first thread nobody is missing and no mutex is held.
LEMMA InitMoves == Init => Present /\ Holders
  BY DEF Init, Present, Holders, Worker, AllWorkers

\* The main thread starts who is missing, and reports when no worker can hold a mutex.
LEMMA MainMoves == MovesInv /\ Inv' /\ MainStep => Present' /\ Holders'
<1>. SUFFICES ASSUME MovesInv, Inv', MainStep PROVE Present' /\ Holders'
  OBVIOUS
<1>. USE ConcurrencyAssumption DEF configVars, barrierVars, mutexVars, workerVars
<1>0. mainPc # "refused"
  BY DEF MainStep, MainSpawn, MainSpawnFails, MainArrive, MainReleased, MainReport
<1>1. /\ threads \in 1 .. MaxThreads /\ Worker \subseteq AllWorkers /\ spawned \in 0 .. threads
      /\ workerPc \in [AllWorkers -> {"none", "arrive", "waiting", "loop", "encode", "store", "exit"}]
  BY <1>0, Running DEF MovesInv, Inv, TypeOK
<1>2. UNCHANGED <<threads, mode, sharedMutex, checksumMutex>> /\ Worker' = Worker
  BY DEF MainStep, MainSpawn, MainSpawnFails, MainArrive, MainReleased, MainReport, Worker
<1>3. CASE MainSpawn
  <2>1. /\ spawned \in Worker /\ workerPc[spawned] = "none" /\ mainPc = "spawn"
        /\ workerPc' = [workerPc EXCEPT ![spawned] = "arrive"] /\ spawned' = spawned + 1
        /\ mainPc' = IF spawned + 1 = threads THEN "arrive" ELSE "spawn"
    BY <1>1, <1>3 DEF MainSpawn, Worker, MovesInv, Inv, Configured, AllWorkers
  <2>2. Present'
    BY <1>1, <1>2, <2>1 DEF MovesInv, Present, Worker
  <2>3. Holders'
    BY <1>1, <1>2, <2>1 DEF MovesInv, Holders
  <2>. QED BY <2>2, <2>3
<1>4. CASE MainSpawnFails
  <2>1. mainPc' = "failed" => \A w \in AllWorkers : workerPc[w] = "none"
    BY <1>4 DEF MainSpawnFails, MovesInv, Inv, Configured, AllWorkers
  <2>. QED BY <1>2, <1>4, <2>1 DEF MainSpawnFails, MovesInv, Present, Holders
<1>5. CASE MainArrive
  BY <1>2, <1>5 DEF MainArrive, MovesInv, Present, Holders
<1>6. CASE MainReleased
  BY <1>2, <1>6 DEF MainReleased, MovesInv, Present, Holders
<1>7. CASE MainReport
  <2>1. sharedMutex = NoWorker /\ checksumMutex = NoWorker
    BY <1>7 DEF MainReport, MovesInv, Holders
  <2>2. Holders'
    BY <1>2, <2>1 DEF Holders
  <2>3. Present'
    BY <1>2, <1>7 DEF MainReport, Present, Worker
  <2>. QED BY <2>2, <2>3
<1>. QED BY <1>3, <1>4, <1>5, <1>6, <1>7 DEF MainStep

\* A worker that takes a mutex is where it releases it next.
LEMMA WorkerMoves ==
    ASSUME NEW w \in AllWorkers
    PROVE  MovesInv /\ WorkerStep(w) => Present' /\ Holders'
<1>. SUFFICES ASSUME MovesInv, WorkerStep(w) PROVE Present' /\ Holders'
  OBVIOUS
<1>. USE DEF configVars, barrierVars, mutexVars, workerVars
<1>1. /\ workerPc[w] # "none"
      /\ workerPc \in [AllWorkers -> {"none", "arrive", "waiting", "loop", "encode", "store", "exit"}]
  BY DEF WorkerStep, WorkerArrive, WorkerReleased, WorkerEncode, WorkerEncoded, WorkerLoad, WorkerStore,
         MovesInv, Inv, TypeOK
<1>2. /\ w \in Worker /\ Worker \subseteq AllWorkers
      /\ UNCHANGED <<threads, mode, mainPc, spawned>> /\ Worker' = Worker
  <2>1. w \in Worker /\ mainPc # "refused"
    BY <1>1, Started DEF MovesInv
  <2>2. UNCHANGED <<threads, mode, mainPc, spawned>>
    BY DEF WorkerStep, WorkerArrive, WorkerReleased, WorkerEncode, WorkerEncoded, WorkerLoad, WorkerStore
  <2>. QED BY <2>1, <2>2, Running DEF MovesInv, Worker
<1>3. PICK to \in {"waiting", "loop", "encode", "store", "exit"} : workerPc' = [workerPc EXCEPT ![w] = to]
  BY DEF WorkerStep, WorkerArrive, WorkerReleased, WorkerEncode, WorkerEncoded, WorkerLoad, WorkerStore
<1>4. Present'
  BY <1>1, <1>2, <1>3 DEF MovesInv, Present
<1>5. Holders'
  <2>1. CASE WorkerArrive(w) \/ WorkerReleased(w)
    BY <1>1, <1>2, <2>1 DEF WorkerArrive, WorkerReleased, MovesInv, Holders
  <2>2. CASE WorkerEncode(w)
    BY <1>1, <1>2, <2>2 DEF WorkerEncode, MovesInv, Holders
  <2>3. CASE WorkerEncoded(w)
    BY <1>1, <1>2, <2>3 DEF WorkerEncoded, MovesInv, Holders
  <2>4. CASE WorkerLoad(w)
    BY <1>1, <1>2, <2>4 DEF WorkerLoad, MovesInv, Holders
  <2>5. CASE WorkerStore(w)
    BY <1>1, <1>2, <2>5 DEF WorkerStore, MovesInv, Holders
  <2>. QED BY <2>1, <2>2, <2>3, <2>4, <2>5 DEF WorkerStep
<1>. QED BY <1>4, <1>5

\* A party the barrier still waits for is a worker that has to arrive.
LEMMA LatecomerMoves ==
    ASSUME MovesInv, mainPc = "waiting", phase = 0
    PROVE  \E w \in Worker : workerPc[w] = "arrive"
<1>. USE ConcurrencyAssumption
<1>1. /\ arrived \in 0 .. threads /\ spawned = threads /\ threads \in 1 .. MaxThreads
      /\ arrived = Cardinality(Waiting) + 1 /\ Cardinality(Waiting) \in 0 .. threads
      /\ \A w \in Worker : w < spawned => workerPc[w] # "none"
      /\ \A w \in Worker : workerPc[w] \in {"none", "arrive", "waiting"}
  <2>1. Inv /\ mainPc # "refused"
    BY DEF MovesInv
  <2>2. threads \in 1 .. MaxThreads /\ Cardinality(Waiting) \in 0 .. threads
    BY <2>1, Running
  <2>3. arrived = Cardinality(Waiting) + (IF mainPc = "waiting" THEN 1 ELSE 0)
    BY <2>1 DEF Inv, Barrier
  <2>. QED BY <2>2, <2>3 DEF MovesInv, Inv, TypeOK, Present, Barrier
<1>2. Waiting # Worker
  BY <1>1, WorkersCounted
<1>3. PICK w \in Worker : w \notin Waiting
  BY <1>2 DEF Waiting
<1>4. w < spawned
  BY <1>1 DEF Worker
<1>. QED BY <1>1, <1>3, <1>4 DEF Waiting

\* A worker of an open barrier moves, or the one with the mutex it waits for does.
LEMMA WorkingMoves ==
    ASSUME MovesInv, mainPc = "join", NEW w \in Worker, workerPc[w] # "exit"
    PROVE  \E v \in Worker : WorkerCanStep(v)
<1>1. /\ phase = 1 /\ mainPc # "refused" /\ w \in AllWorkers
      /\ workerPc \in [AllWorkers -> {"none", "arrive", "waiting", "loop", "encode", "store", "exit"}]
  <2>1. phase = 0 \/ phase = 1
    BY DEF MovesInv, Inv, TypeOK
  <2>. QED BY <2>1, Running DEF MovesInv, Inv, TypeOK, Barrier
<1>2. workerPc[w] \in {"waiting", "loop", "encode", "store"}
  BY <1>1 DEF MovesInv, Inv, Barrier
<1>3. CASE workerPc[w] # "loop"
  BY <1>1, <1>2, <1>3 DEF WorkerCanStep, Released
<1>4. CASE workerPc[w] = "loop"
  <2>1. encoded[w] < Share \/ encoded[w] = Share
    <3>1. encoded[w] \in 0 .. Iterations /\ Share \in 0 .. Iterations /\ encoded[w] =< Share
      BY <1>1, Running DEF MovesInv, Inv, TypeOK, Sums
    <3>. QED BY <3>1, ConcurrencyAssumption
  <2>2. CASE encoded[w] < Share /\ sharedMutex # NoWorker
    BY <1>1, <2>2 DEF WorkerCanStep, MovesInv, Holders
  <2>3. CASE encoded[w] = Share /\ checksumMutex # NoWorker
    BY <1>1, <2>3 DEF WorkerCanStep, MovesInv, Holders
  <2>. QED BY <1>1, <1>4, <2>1, <2>2, <2>3 DEF WorkerCanStep
<1>. QED BY <1>3, <1>4

\* A state of a run has its parties and its holders.
LEMMA MovesInvariance == Spec => []MovesInv
<1>1. Init => MovesInv
  BY InitInv, InitMoves DEF MovesInv
<1>2. MovesInv /\ Inv' /\ [Next]_vars => MovesInv'
  <2>. SUFFICES ASSUME MovesInv, Inv', [Next]_vars PROVE MovesInv'
    OBVIOUS
  <2>1. CASE UNCHANGED vars
    BY <2>1 DEF MovesInv, Present, Holders, Worker, vars, configVars, barrierVars, mutexVars, workerVars
  <2>. QED BY <2>1, MainMoves, WorkerMoves DEF Next, Finished, MovesInv
<1>. QED BY <1>1, <1>2, Invariance, PTL DEF Spec

\* At the barrier, at either mutex and in the joins somebody always moves, for any number of
\* threads, whatever the mode, and also when a thread could not be started.
THEOREM NoDeadlock == Spec => []NobodyStuck
<1>1. MovesInv => NobodyStuck
  <2>. SUFFICES ASSUME MovesInv, ~Ended, ~MainCanStep PROVE \E w \in Worker : WorkerCanStep(w)
    BY DEF NobodyStuck
  <2>1. (mainPc = "waiting" /\ phase = 0) \/ mainPc = "join"
    BY DEF Ended, MainCanStep, MovesInv, Inv, TypeOK, Released
  <2>2. CASE mainPc = "waiting" /\ phase = 0
    BY <2>2, LatecomerMoves DEF WorkerCanStep
  <2>3. CASE mainPc = "join"
    BY <2>3, WorkingMoves DEF MainCanStep
  <2>. QED BY <2>1, <2>2, <2>3
<1>. QED BY <1>1, MovesInvariance, PTL
-------------------------------------------------------------------------------
(* Every step is progress *)

\* What the main thread has done in its repetition, and what a worker has.
MainSteps ==
    CASE mainPc = "spawn" -> spawned
      [] mainPc = "arrive" -> threads
      [] mainPc = "waiting" -> threads + 1
      [] OTHER -> threads + 2

WorkerSteps(w) ==
    CASE workerPc[w] \in {"none", "arrive"} -> 0
      [] workerPc[w] = "waiting" -> 1
      [] workerPc[w] = "loop" -> 2 + 2 * encoded[w]
      [] workerPc[w] = "encode" -> 3 + 2 * encoded[w]
      [] workerPc[w] = "store" -> 3 + 2 * Share
      [] OTHER -> 4 + 2 * Share

StepsOf(t) == IF t = NoWorker THEN MainSteps ELSE WorkerSteps(t)

\* The main thread is the one that is no worker.
Thread == AllWorkers \cup {NoWorker}
MaxSteps == MaxThreads + 2 * Iterations + 4

\* The steps that are still to come: <<r, <<t, k>>>> is the k-th of thread t in repetition r.
Ahead ==
    IF Ended THEN {}
    ELSE {s \in (1 .. Repetitions) \X (Thread \X (1 .. MaxSteps)) :
            s[1] > repetition \/ (s[1] = repetition /\ s[2][2] > StepsOf(s[2][1]))}

\* Whoever steps leaves fewer steps to come: no loop of a lock, a barrier or a repetition is
\* gone round without progress.
EveryStepCounts == [][Cardinality(Ahead') < Cardinality(Ahead)]_vars

\* The steps to come are finitely many.
LEMMA AheadFinite == IsFiniteSet(Ahead)
<1>. USE ConcurrencyAssumption
<1>1. IsFiniteSet(AllWorkers) /\ IsFiniteSet(1 .. Repetitions) /\ IsFiniteSet(1 .. MaxSteps)
  BY FS_Interval DEF AllWorkers, MaxSteps
<1>2. IsFiniteSet(Thread)
  BY <1>1, FS_AddElement DEF Thread
<1>3. IsFiniteSet(Thread \X (1 .. MaxSteps))
  BY <1>1, <1>2, FS_Product
<1>4. IsFiniteSet((1 .. Repetitions) \X (Thread \X (1 .. MaxSteps)))
  BY <1>1, <1>3, FS_Product
<1>5. Ahead \in SUBSET ((1 .. Repetitions) \X (Thread \X (1 .. MaxSteps)))
  BY DEF Ahead
<1>. QED BY <1>4, <1>5, FS_Subset

\* What a step of a thread t has to show: the run or its repetition is over, or t is further
\* and nobody behind.
Further(t) ==
    \/ Ended'
    \/ repetition' = repetition + 1
    \/ /\ repetition' = repetition
       /\ StepsOf(t)' > StepsOf(t)
       /\ \A s \in Thread : StepsOf(s)' >= StepsOf(s)

\* Such a step leaves fewer steps to come.
LEMMA FurtherCounts ==
    ASSUME ~Ended, repetition \in 1 .. Repetitions, NEW t \in Thread, Further(t),
           StepsOf(t) \in 0 .. MaxSteps - 1, StepsOf(t)' \in Int,
           \A s \in Thread : StepsOf(s) \in Nat /\ StepsOf(s)' \in Nat
    PROVE  Cardinality(Ahead') < Cardinality(Ahead)
<1>. USE ConcurrencyAssumption
<1>. DEFINE k == StepsOf(t) + 1
            now == <<repetition, <<t, k>>>>
<1>1. MaxSteps \in Nat /\ k \in 1 .. MaxSteps
  BY DEF MaxSteps
<1>2. now \in Ahead /\ now \notin Ahead'
  <2>1. now \in (1 .. Repetitions) \X (Thread \X (1 .. MaxSteps))
    BY <1>1
  <2>2. now[1] = repetition /\ now[2][1] = t /\ now[2][2] = k
    OBVIOUS
  <2>3. now \in Ahead
    BY <2>1, <2>2 DEF Ahead
  <2>4. Ended' \/ repetition' = repetition + 1 \/ (repetition' = repetition /\ StepsOf(t)' >= k)
    BY DEF Further
  <2>. HIDE DEF k, now
  <2>5. k \in Int
    BY <1>1
  <2>6. now \notin Ahead'
    BY <2>2, <2>4, <2>5 DEF Ahead
  <2>. QED BY <2>3, <2>6
<1>3. ASSUME NEW s \in Ahead'
      PROVE  s \in Ahead
  <2>1. /\ ~Ended' /\ s \in (1 .. Repetitions) \X (Thread \X (1 .. MaxSteps))
        /\ s[1] > repetition' \/ (s[1] = repetition' /\ s[2][2] > StepsOf(s[2][1])')
    BY DEF Ahead
  <2>2. s[1] \in Int /\ s[2][1] \in Thread /\ s[2][2] \in Int
    BY <2>1
  <2>3. s[1] > repetition \/ (s[1] = repetition /\ s[2][2] > StepsOf(s[2][1]))
    BY <2>1, <2>2 DEF Further
  <2>. QED BY <2>1, <2>3 DEF Ahead
<1>4. Ahead' # Ahead /\ Ahead' \in SUBSET Ahead
  BY <1>2, <1>3
<1>5. /\ Cardinality(Ahead') =< Cardinality(Ahead) /\ Cardinality(Ahead') # Cardinality(Ahead)
      /\ Cardinality(Ahead) \in Nat /\ Cardinality(Ahead') \in Nat
  BY <1>4, AheadFinite, FS_Subset, FS_CardinalityType
<1>. QED BY <1>5

\* The steps of a thread fit its budget, and one that is not over has a step left in it.
LEMMA StepsTyped ==
    ASSUME Inv, mainPc # "refused", NEW t \in Thread
    PROVE  /\ StepsOf(t) \in 0 .. MaxSteps
           /\ (t # NoWorker /\ workerPc[t] = "exit") \/ StepsOf(t) < MaxSteps
<1>. USE ConcurrencyAssumption
<1>1. threads \in 1 .. MaxThreads /\ Share \in 0 .. Iterations /\ MaxThreads \in Nat /\ Iterations \in Nat
  BY Running
<1>2. MaxSteps = MaxThreads + 2 * Iterations + 4 /\ spawned \in 0 .. threads
  BY DEF MaxSteps, Inv, TypeOK
<1>3. CASE t = NoWorker
  <2>1. MainSteps \in 0 .. threads + 2
    BY <1>1, <1>2 DEF MainSteps
  <2>. QED BY <1>1, <1>2, <1>3, <2>1 DEF StepsOf
<1>4. CASE t # NoWorker
  <2>1. t \in AllWorkers /\ encoded[t] \in 0 .. Iterations
    BY <1>4 DEF Thread, Inv, TypeOK
  <2>2. workerPc[t] = "encode" => encoded[t] < Iterations
    <3>1. workerPc[t] = "encode" => t \in Worker
      BY <2>1, Started
    <3>. QED BY <1>1, <2>1, <3>1 DEF Inv, Sums
  <2>3. /\ WorkerSteps(t) \in 0 .. 4 + 2 * Iterations
        /\ workerPc[t] = "exit" \/ WorkerSteps(t) \in 0 .. 3 + 2 * Iterations
    <3>1. workerPc[t] \in {"none", "arrive", "waiting", "loop", "encode", "store", "exit"}
      BY <2>1 DEF Inv, TypeOK
    <3>2. CASE workerPc[t] \in {"none", "arrive", "waiting"}
      BY <1>1, <3>2 DEF WorkerSteps
    <3>3. CASE workerPc[t] \in {"loop", "encode"}
      BY <1>1, <2>1, <2>2, <3>3 DEF WorkerSteps
    <3>4. CASE workerPc[t] \in {"store", "exit"}
      BY <1>1, <3>4 DEF WorkerSteps
    <3>. QED BY <3>1, <3>2, <3>3, <3>4
  <2>4. StepsOf(t) = WorkerSteps(t)
    BY <1>4 DEF StepsOf
  <2>5. 4 + 2 * Iterations =< MaxSteps /\ MaxSteps \in Nat
    BY <1>1, <1>2
  <2>6. StepsOf(t) \in 0 .. MaxSteps /\ (workerPc[t] = "exit" \/ StepsOf(t) < MaxSteps)
    BY <1>1, <2>3, <2>4, <2>5
  <2>. QED BY <1>4, <2>6
<1>. QED BY <1>3, <1>4

\* In a state of a run, and in the next one.
Typed == \A t \in Thread : StepsOf(t) \in 0 .. MaxSteps

\* The same before and after a step.
LEMMA StepsTypedTwice == Inv /\ mainPc # "refused" /\ Inv' /\ mainPc' # "refused" => Typed /\ Typed'
<1>1. Inv /\ mainPc # "refused" => Typed
  BY StepsTyped DEF Typed
<1>2. (Inv /\ mainPc # "refused")' => Typed'
  BY <1>1, PTL
<1>. QED BY <1>1, <1>2

\* The main thread gets further with each of its steps ...
LEMMA MainCounts ==
    ASSUME Inv, Inv', MainStep
    PROVE  ~Ended /\ repetition \in 1 .. Repetitions /\ Further(NoWorker)
<1>. USE ConcurrencyAssumption DEF configVars, workerVars
<1>1. /\ mainPc \in {"spawn", "arrive", "waiting", "join"} /\ UNCHANGED threads
  BY DEF MainStep, MainSpawn, MainSpawnFails, MainArrive, MainReleased, MainReport
<1>2. repetition \in 1 .. Repetitions /\ threads \in 1 .. MaxThreads /\ spawned \in 0 .. threads
  BY <1>1, Running DEF Inv, TypeOK, Configured
<1>3. MainReport => Further(NoWorker)
  BY DEF MainReport, Further
<1>4. MainSpawnFails => Further(NoWorker)
  BY DEF MainSpawnFails, Further, Ended
<1>5. ASSUME MainSpawn \/ MainArrive \/ MainReleased
      PROVE  Further(NoWorker)
  <2>1. UNCHANGED <<encoded, repetition>> /\ Share' = Share
    BY <1>1, <1>5 DEF MainSpawn, MainArrive, MainReleased, Share
  <2>2. MainSteps' > MainSteps
    BY <1>2, <1>5, <1>1 DEF MainSpawn, MainArrive, MainReleased, MainSteps
  <2>3. ASSUME NEW s \in Thread
        PROVE  StepsOf(s)' >= StepsOf(s)
    <3>1. StepsOf(s)' \in Int /\ StepsOf(s) \in Int
      <4>1. mainPc # "refused" /\ mainPc' # "refused"
        BY <1>5 DEF MainSpawn, MainArrive, MainReleased
      <4>. QED BY <4>1, StepsTypedTwice DEF Typed, MaxSteps
    <3>2. CASE s = NoWorker
      BY <2>2, <3>1, <3>2 DEF StepsOf
    <3>3. CASE s # NoWorker
      <4>1. workerPc'[s] = workerPc[s] \/ (workerPc[s] = "none" /\ workerPc'[s] = "arrive")
        <5>1. s \in AllWorkers
          BY <3>3 DEF Thread
        <5>2. CASE MainSpawn
          BY <1>2, <5>1, <5>2 DEF MainSpawn, Inv, TypeOK, Configured, AllWorkers
        <5>3. CASE MainArrive \/ MainReleased
          BY <5>3 DEF MainArrive, MainReleased
        <5>. QED BY <1>5, <5>2, <5>3
      <4>2. WorkerSteps(s)' = WorkerSteps(s)
        BY <2>1, <4>1 DEF WorkerSteps
      <4>. QED BY <3>1, <3>3, <4>2 DEF StepsOf
    <3>. QED BY <3>2, <3>3
  <2>4. StepsOf(NoWorker)' > StepsOf(NoWorker)
    BY <2>2 DEF StepsOf
  <2>. QED BY <2>1, <2>3, <2>4 DEF Further
<1>. QED BY <1>1, <1>2, <1>3, <1>4, <1>5 DEF MainStep, Ended

\* ... and so does a worker.
LEMMA WorkerCounts ==
    ASSUME MovesInv, Inv', NEW w \in AllWorkers, WorkerStep(w)
    PROVE  ~Ended /\ repetition \in 1 .. Repetitions /\ Further(w) /\ workerPc[w] # "exit"
<1>. USE ConcurrencyAssumption DEF configVars, barrierVars
<1>1. /\ workerPc[w] \notin {"none", "exit"} /\ mainPc # "aborted" /\ UNCHANGED <<threads, mainPc, repetition, spawned>>
      /\ workerPc \in [AllWorkers -> {"none", "arrive", "waiting", "loop", "encode", "store", "exit"}]
      /\ encoded \in [AllWorkers -> 0 .. Iterations]
  BY DEF WorkerStep, WorkerArrive, WorkerReleased, WorkerEncode, WorkerEncoded, WorkerLoad, WorkerStore,
         MovesInv, Inv, TypeOK
<1>2. w \in Worker /\ mainPc # "refused" /\ Share' = Share /\ Inv
  BY <1>1, Started DEF MovesInv, Share
<1>3. Share \in 0 .. Iterations /\ encoded[w] \in 0 .. Iterations /\ encoded[w] =< Share
  BY <1>1, <1>2, Running DEF Inv, Sums
<1>4. mainPc \notin {"done", "failed"}
  BY <1>1 DEF MovesInv, Present
<1>5. ~Ended /\ repetition \in 1 .. Repetitions
  BY <1>1, <1>2, <1>4 DEF Ended, Inv, TypeOK, Configured
<1>6. WorkerSteps(w)' > WorkerSteps(w)
  <2>1. CASE WorkerArrive(w) \/ WorkerReleased(w)
    BY <1>1, <1>2, <1>3, <2>1 DEF WorkerArrive, WorkerReleased, WorkerSteps
  <2>2. CASE WorkerEncode(w)
    BY <1>1, <1>2, <1>3, <2>2 DEF WorkerEncode, WorkerSteps
  <2>3. CASE WorkerEncoded(w)
    BY <1>1, <1>2, <1>3, <2>3 DEF WorkerEncoded, WorkerSteps
  <2>4. CASE WorkerLoad(w)
    BY <1>1, <1>2, <1>3, <2>4 DEF WorkerLoad, WorkerSteps
  <2>5. CASE WorkerStore(w)
    BY <1>1, <1>2, <1>3, <2>5 DEF WorkerStore, WorkerSteps
  <2>. QED BY <2>1, <2>2, <2>3, <2>4, <2>5 DEF WorkerStep
<1>7. ASSUME NEW s \in Thread
      PROVE  StepsOf(s)' >= StepsOf(s)
  <2>1. StepsOf(s)' \in Int /\ StepsOf(s) \in Int
    <3>1. Typed /\ Typed'
      BY <1>1, <1>2, StepsTypedTwice
    <3>. QED BY <3>1 DEF Typed, MaxSteps
  <2>2. CASE s = w
    BY <1>6, <2>1, <2>2 DEF StepsOf, NoWorker, AllWorkers
  <2>3. CASE s = NoWorker
    <3>1. MainSteps' = MainSteps
      BY <1>1 DEF MainSteps
    <3>. QED BY <2>1, <2>3, <3>1 DEF StepsOf
  <2>4. CASE s # w /\ s # NoWorker
    <3>1. workerPc'[s] = workerPc[s] /\ encoded'[s] = encoded[s]
      <4>1. s \in AllWorkers
        BY <2>4 DEF Thread
      <4>2. /\ \E to : workerPc' = [workerPc EXCEPT ![w] = to]
            /\ encoded' = encoded \/ encoded' = [encoded EXCEPT ![w] = encoded[w] + 1]
        BY DEF WorkerStep, WorkerArrive, WorkerReleased, WorkerEncode, WorkerEncoded, WorkerLoad, WorkerStore
      <4>. QED BY <1>1, <2>4, <4>1, <4>2
    <3>2. WorkerSteps(s)' = WorkerSteps(s)
      BY <1>2, <3>1 DEF WorkerSteps
    <3>. QED BY <2>1, <2>4, <3>2 DEF StepsOf
  <2>. QED BY <2>2, <2>3, <2>4
<1>8. StepsOf(w)' > StepsOf(w)
  BY <1>6 DEF StepsOf, NoWorker, AllWorkers
<1>. QED BY <1>1, <1>5, <1>7, <1>8 DEF Further

\* Every step of a run, whoever takes it, leaves fewer steps to come: with NoDeadlock, a run of
\* which every thread keeps being scheduled ends.
THEOREM BoundedRun == Spec => [](Cardinality(Ahead) \in Nat) /\ EveryStepCounts
<1>1. MovesInv /\ Inv' /\ [Next]_vars => [Cardinality(Ahead') < Cardinality(Ahead)]_vars
  <2>. SUFFICES ASSUME MovesInv, Inv', Next, vars' # vars PROVE Cardinality(Ahead') < Cardinality(Ahead)
    OBVIOUS
  <2>0. Inv
    BY DEF MovesInv
  <2>1. ASSUME NEW t \in Thread, ~Ended, repetition \in 1 .. Repetitions, Further(t),
               t = NoWorker \/ workerPc[t] # "exit", mainPc' # "refused"
        PROVE  Cardinality(Ahead') < Cardinality(Ahead)
    <3>1. mainPc # "refused"
      BY <2>1 DEF Ended
    <3>2. Typed /\ Typed'
      BY <2>0, <2>1, <3>1, StepsTypedTwice
    <3>3. StepsOf(t) \in 0 .. MaxSteps - 1
      BY <2>0, <2>1, <3>1, StepsTyped, ConcurrencyAssumption DEF MaxSteps
    <3>4. StepsOf(t)' \in Int /\ \A s \in Thread : StepsOf(s) \in Nat /\ StepsOf(s)' \in Nat
      BY <2>1, <3>2 DEF Typed, MaxSteps
    <3>. QED BY <2>1, <3>3, <3>4, FurtherCounts
  <2>2. CASE MainStep
    <3>1. mainPc' # "refused"
      BY <2>2 DEF MainStep, MainSpawn, MainSpawnFails, MainArrive, MainReleased, MainReport
    <3>2. NoWorker \in Thread
      BY DEF Thread
    <3>. QED BY <2>0, <2>1, <2>2, <3>1, <3>2, MainCounts
  <2>3. ASSUME NEW w \in AllWorkers, WorkerStep(w)
        PROVE  Cardinality(Ahead') < Cardinality(Ahead)
    <3>1. ~Ended /\ repetition \in 1 .. Repetitions /\ Further(w) /\ workerPc[w] # "exit"
      BY <2>3, WorkerCounts
    <3>2. mainPc' = mainPc
      BY <2>3 DEF WorkerStep, WorkerArrive, WorkerReleased, WorkerEncode, WorkerEncoded, WorkerLoad, WorkerStore
    <3>3. w \in Thread
      BY DEF Thread
    <3>. QED BY <2>1, <3>1, <3>2, <3>3 DEF Ended
  <2>4. ~Finished
    BY DEF Finished
  <2>. QED BY <2>2, <2>3, <2>4 DEF Next
<1>2. Cardinality(Ahead) \in Nat
  BY AheadFinite, FS_CardinalityType
<1>. QED BY <1>1, <1>2, MovesInvariance, Invariance, PTL DEF Spec, EveryStepCounts
===============================================================================
