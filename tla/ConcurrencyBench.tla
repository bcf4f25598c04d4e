--------------------------- MODULE ConcurrencyBench ---------------------------
(***************************************************************************)
(* src/src/concurrency_benchmark.cc (run): in each repetition the main      *)
(* thread starts config.threads workers, meets them on a barrier whose      *)
(* completion function takes start_time, joins them and writes a row.  A    *)
(* worker encodes its share of the iterations, in mode shared_buffer_mutex  *)
(* into one buffer under a mutex, and adds its checksum to a shared one     *)
(* under another mutex.                                                     *)
(*                                                                          *)
(* Adding to the shared checksum is a load and a store.  Writing a buffer   *)
(* is a step with a beginning and an end.  Clock readings are modelled by   *)
(* what they must come before and after.                                    *)
(***************************************************************************)
EXTENDS Integers, Sequences

CONSTANTS
    Iterations,   \* config.iterations
    Repetitions,  \* config.repetitions
    MaxThreads,   \* bound: the largest --threads tried
    Bytes         \* message.ByteSizeLong()

ASSUME ConcurrencyAssumption ==
    /\ Iterations \in Nat
    /\ Repetitions \in Nat \ {0}
    /\ MaxThreads \in Nat \ {0}
    /\ Bytes \in Nat \ {0}

VARIABLES
    threads, mode,   \* config.threads and config.mode
    mainPc,          \* "spawn", "arrive", "waiting", "join", or how it ended
    repetition,
    spawned,         \* workers the main thread has started in this repetition
    arrived,         \* parties the barrier has counted in its phase
    phase,           \* phases the barrier has completed
    startTaken,      \* start_time was read in this repetition
    sharedMutex,     \* shared_mutex: the worker holding it, or NoWorker
    checksumMutex,   \* checksum_mutex, likewise
    checksum,        \* the repetition's checksum
    workerPc,        \* per worker
    encoded,         \* per worker: its loop's index
    loaded,          \* per worker: what its checksum += loaded
    rows             \* the checksum column of the CSV

configVars == <<threads, mode>>
barrierVars == <<arrived, phase, startTaken>>
mutexVars == <<sharedMutex, checksumMutex>>
workerVars == <<workerPc, encoded, loaded>>
vars == <<configVars, mainPc, repetition, spawned, barrierVars, mutexVars, checksum, workerVars, rows>>

AllWorkers == 0 .. MaxThreads - 1
Worker == 0 .. threads - 1
NoWorker == -1

\* run refuses other thread counts.
Accepts(n) == n # 0 /\ Iterations % n = 0

Share == Iterations \div threads

Init ==
    /\ threads \in 0 .. MaxThreads
    /\ mode \in {"thread_local", "shared_readonly", "shared_buffer_mutex"}
    /\ mainPc = IF Accepts(threads) THEN "spawn" ELSE "refused"
    /\ repetition = 1 /\ spawned = 0
    /\ arrived = 0 /\ phase = 0 /\ startTaken = FALSE
    /\ sharedMutex = NoWorker /\ checksumMutex = NoWorker
    /\ checksum = 0 /\ rows = <<>>
    /\ workerPc = [w \in AllWorkers |-> "none"]
    /\ encoded = [w \in AllWorkers |-> 0]
    /\ loaded = [w \in AllWorkers |-> 0]

-------------------------------------------------------------------------------
(* start_barrier *)

\* Mutants: the main thread is not counted, and one party too many is.
PartiesWorkers == threads
PartiesExtra == threads + 2

\* Every worker and the main thread.
Parties == threads + 1

\* arrive_and_wait, the arriving half: the last party runs the completion function and opens the barrier.
Arrive ==
    IF arrived + 1 = Parties
    THEN arrived' = 0 /\ phase' = phase + 1 /\ startTaken' = TRUE
    ELSE arrived' = arrived + 1 /\ UNCHANGED <<phase, startTaken>>

\* The waiting half: the barrier of this repetition is open.
Released == phase = 1

-------------------------------------------------------------------------------
(* The main thread *)

MainSpawn ==
    /\ mainPc = "spawn" /\ spawned < threads
    /\ workerPc' = [workerPc EXCEPT ![spawned] = "arrive"]
    /\ spawned' = spawned + 1
    /\ mainPc' = IF spawned + 1 = threads THEN "arrive" ELSE "spawn"
    /\ UNCHANGED <<configVars, repetition, barrierVars, mutexVars, checksum, encoded, loaded, rows>>

\* std::thread cannot start one: the first throws to main, with a later one the destructor of
\* the started ones, which wait at the barrier, calls std::terminate.
MainSpawnFails ==
    /\ mainPc = "spawn"
    /\ mainPc' = IF spawned = 0 THEN "failed" ELSE "aborted"
    /\ UNCHANGED <<configVars, repetition, spawned, barrierVars, mutexVars, checksum, workerVars, rows>>

MainArrive ==
    /\ mainPc = "arrive"
    /\ Arrive
    /\ mainPc' = "waiting"
    /\ UNCHANGED <<configVars, repetition, spawned, mutexVars, checksum, workerVars, rows>>

MainReleased ==
    /\ mainPc = "waiting" /\ Released
    /\ mainPc' = "join"
    /\ UNCHANGED <<configVars, repetition, spawned, barrierVars, mutexVars, checksum, workerVars, rows>>

\* All workers joined: the row is written, and the next repetition has its own barrier,
\* checksum and workers.
MainReport ==
    /\ mainPc = "join" /\ \A w \in Worker : workerPc[w] = "exit"
    /\ rows' = Append(rows, checksum)
    /\ repetition' = repetition + 1
    /\ mainPc' = IF repetition < Repetitions THEN "spawn" ELSE "done"
    /\ spawned' = 0
    /\ arrived' = 0 /\ phase' = 0 /\ startTaken' = FALSE
    /\ checksum' = 0
    /\ workerPc' = [w \in AllWorkers |-> "none"]
    /\ encoded' = [w \in AllWorkers |-> 0]
    /\ loaded' = [w \in AllWorkers |-> 0]
    /\ UNCHANGED <<configVars, mutexVars>>

-------------------------------------------------------------------------------
(* The workers *)

WorkerArrive(w) ==
    /\ workerPc[w] = "arrive"
    /\ Arrive
    /\ workerPc' = [workerPc EXCEPT ![w] = "waiting"]
    /\ UNCHANGED <<configVars, mainPc, repetition, spawned, mutexVars, checksum, encoded, loaded, rows>>

WorkerReleased(w) ==
    /\ workerPc[w] = "waiting" /\ Released
    /\ workerPc' = [workerPc EXCEPT ![w] = "loop"]
    /\ UNCHANGED <<configVars, mainPc, repetition, spawned, barrierVars, mutexVars, checksum, encoded, loaded, rows>>

\* Mutant: the shared buffer is written without its mutex.
WorkerEncodeUnlocked(w) ==
    /\ workerPc[w] = "loop" /\ encoded[w] < Share
    /\ workerPc' = [workerPc EXCEPT ![w] = "encode"]
    /\ sharedMutex' = IF mode = "shared_buffer_mutex" THEN w ELSE sharedMutex
    /\ UNCHANGED <<configVars, mainPc, repetition, spawned, barrierVars, checksumMutex, checksum, encoded, loaded, rows>>

\* An encode begins, under shared_mutex when the buffer is shared ...
WorkerEncode(w) ==
    /\ workerPc[w] = "loop" /\ encoded[w] < Share
    /\ mode = "shared_buffer_mutex" => sharedMutex = NoWorker
    /\ workerPc' = [workerPc EXCEPT ![w] = "encode"]
    /\ sharedMutex' = IF mode = "shared_buffer_mutex" THEN w ELSE sharedMutex
    /\ UNCHANGED <<configVars, mainPc, repetition, spawned, barrierVars, checksumMutex, checksum, encoded, loaded, rows>>

\* ... and ends: the lock_guard unlocks.
WorkerEncoded(w) ==
    /\ workerPc[w] = "encode"
    /\ workerPc' = [workerPc EXCEPT ![w] = "loop"]
    /\ encoded' = [encoded EXCEPT ![w] = @ + 1]
    /\ sharedMutex' = IF mode = "shared_buffer_mutex" THEN NoWorker ELSE sharedMutex
    /\ UNCHANGED <<configVars, mainPc, repetition, spawned, barrierVars, checksumMutex, checksum, loaded, rows>>

\* Mutant: the checksum is added to without its mutex.
WorkerLoadUnlocked(w) ==
    /\ workerPc[w] = "loop" /\ encoded[w] = Share
    /\ checksumMutex' = w
    /\ loaded' = [loaded EXCEPT ![w] = checksum]
    /\ workerPc' = [workerPc EXCEPT ![w] = "store"]
    /\ UNCHANGED <<configVars, mainPc, repetition, spawned, barrierVars, sharedMutex, checksum, encoded, rows>>

\* checksum += local_checksum under checksum_mutex: the load ...
WorkerLoad(w) ==
    /\ workerPc[w] = "loop" /\ encoded[w] = Share
    /\ checksumMutex = NoWorker
    /\ checksumMutex' = w
    /\ loaded' = [loaded EXCEPT ![w] = checksum]
    /\ workerPc' = [workerPc EXCEPT ![w] = "store"]
    /\ UNCHANGED <<configVars, mainPc, repetition, spawned, barrierVars, sharedMutex, checksum, encoded, rows>>

\* ... and the store, the unlock and the end of the thread.
WorkerStore(w) ==
    /\ workerPc[w] = "store"
    /\ checksum' = loaded[w] + encoded[w] * Bytes
    /\ checksumMutex' = NoWorker
    /\ workerPc' = [workerPc EXCEPT ![w] = "exit"]
    /\ UNCHANGED <<configVars, mainPc, repetition, spawned, barrierVars, sharedMutex, encoded, loaded, rows>>

-------------------------------------------------------------------------------
MainStep == MainSpawn \/ MainSpawnFails \/ MainArrive \/ MainReleased \/ MainReport
WorkerStep(w) ==
    /\ mainPc # "aborted"
    /\ \/ WorkerArrive(w) \/ WorkerReleased(w) \/ WorkerEncode(w) \/ WorkerEncoded(w)
       \/ WorkerLoad(w) \/ WorkerStore(w)

\* run has returned, has refused its configuration, or has thrown; or the process is gone.
Ended == mainPc \in {"done", "refused", "failed", "aborted"}

Finished == Ended /\ UNCHANGED vars

Next == MainStep \/ (\E w \in AllWorkers : WorkerStep(w)) \/ Finished

Spec == Init /\ [][Next]_vars

\* Every thread is scheduled.  A worker locks finitely often, so none can keep another from a mutex.
FairSpec == Spec /\ WF_vars(MainStep) /\ \A w \in AllWorkers : WF_vars(WorkerStep(w))

-------------------------------------------------------------------------------
(* Properties *)

TypeOK ==
    /\ threads \in 0 .. MaxThreads
    /\ mode \in {"thread_local", "shared_readonly", "shared_buffer_mutex"}
    /\ mainPc \in {"spawn", "arrive", "waiting", "join", "done", "refused", "failed", "aborted"}
    /\ repetition \in 1 .. Repetitions + 1 /\ spawned \in 0 .. threads
    /\ arrived \in 0 .. threads /\ phase \in 0 .. 1 /\ startTaken \in BOOLEAN
    /\ sharedMutex \in AllWorkers \cup {NoWorker} /\ checksumMutex \in AllWorkers \cup {NoWorker}
    /\ checksum \in Nat /\ rows \in Seq(Nat)
    /\ workerPc \in [AllWorkers -> {"none", "arrive", "waiting", "loop", "encode", "store", "exit"}]
    /\ encoded \in [AllWorkers -> 0 .. Iterations]
    /\ loaded \in [AllWorkers -> Nat]

\* The shared buffer has one writer at a time.
OneWriter ==
    mode = "shared_buffer_mutex" =>
        \A v, w \in Worker : workerPc[v] = "encode" /\ workerPc[w] = "encode" => v = w

\* The elapsed time covers every encode: start_time is taken before the first one, and not
\* before every worker exists and has arrived.
TimedFromTheStart ==
    /\ (\E w \in Worker : workerPc[w] \notin {"none", "arrive", "waiting"}) => startTaken
    /\ startTaken => \A w \in Worker : workerPc[w] \notin {"none", "arrive"}

\* The row's checksum covers every iteration: none lost to the division, none to the merge, none
\* to a thread that could not be started.
ChecksumExact == \A r \in DOMAIN rows : rows[r] = Iterations * Bytes

\* run returns, refuses or fails: nobody waits at the barrier, for a mutex or in a join for ever.
Termination == <>Ended
===============================================================================
