----------------------------- MODULE AsyncPipeline -----------------------------
(***************************************************************************)
(* One measured row of src/src/async_pipeline_benchmark.cc (run_case): the  *)
(* hot thread hands event pointers to a worker through SpscPointerRing and  *)
(* the worker encodes them.  run_async starts both threads, lines them up   *)
(* on a latch, raises start, joins them and reads the row; run_sync is the  *)
(* control that encodes on the hot thread itself.                           *)
(*                                                                          *)
(* Every atomic access of the code is a step of its own.  The events of the *)
(* pool are written before the threads exist and never after, so a pointer  *)
(* is its index in the pool.  Elapsed times are left out; a sample vector   *)
(* is its size.  An encode always succeeds here: the output size was        *)
(* computed from the event the whole pool is a copy of.                     *)
(***************************************************************************)
EXTENDS Integers, Sequences

CONSTANTS
    PoolSize,       \* kPoolSize
    QueueCapacity,  \* kQueueCapacity
    WordSize,       \* number of values of std::size_t
    NullPtr,        \* nullptr
    MinIterations,  \* the contract's 1'000'000, scaled down
    MaxIterations,  \* the limit parse_args sets: kQueueCapacity in the code
    MaxRequested,   \* bound: the largest --iterations tried
    PayloadBytes,   \* payload_size(event)
    LineBytes       \* what Traits<Event>::format returns

ASSUME PipelineAssumption ==
    /\ PoolSize \in Nat \ {0}
    /\ QueueCapacity \in Nat \ {0}
    /\ WordSize \in Nat
    /\ QueueCapacity < WordSize
    /\ WordSize % QueueCapacity = 0
    /\ NullPtr \notin 0 .. PoolSize - 1
    /\ MinIterations \in Nat
    /\ MaxIterations \in Nat
    /\ MaxRequested \in Nat
    /\ PayloadBytes \in Nat
    /\ LineBytes \in Nat

VARIABLES
    entries, head, tail, tailSeen, headSeen, pushPc, pushValue, popPc, popValue,
                        \* ring, see SpscRing
    iterations, mode,   \* config.iterations and the row's Mode
    ready,              \* the latch's remaining count
    start,              \* the flag that lets both threads go
    producerDone,       \* producer_done
    mainPc, producerPc, workerPc,
    i,                  \* the measuring loop's index (hot thread)
    dropped, hotSamples,                            \* of result, hot thread
    workerCompleted, workerSamples, workerChecksum  \* worker thread

ringVars == <<entries, head, tail, tailSeen, headSeen, pushPc, pushValue, popPc, popValue>>
configVars == <<iterations, mode>>
flagVars == <<ready, start, producerDone>>
hotVars == <<i, dropped, hotSamples>>
workerVars == <<workerCompleted, workerSamples, workerChecksum>>
pcVars == <<mainPc, producerPc, workerPc>>
vars == <<ringVars, configVars, flagVars, hotVars, workerVars, pcVars>>

Pool == 0 .. PoolSize - 1

Ring == INSTANCE SpscRing WITH Capacity <- QueueCapacity, Values <- Pool

-------------------------------------------------------------------------------
(* Command line, modes and the work done per event *)

\* Mutant: parse_args without the queue-capacity check.
AcceptsAnySize(n) == n >= MinIterations

\* parse_args refuses everything else.
Accepts(n) == n >= MinIterations /\ n =< MaxIterations

Mode == {"sync_both", "async_handoff", "async_protobuf", "async_pipe", "async_both"}
DoesProto(m) == m \in {"sync_both", "async_protobuf", "async_both"}
DoesPipe(m) == m \in {"sync_both", "async_pipe", "async_both"}

\* process_event's checksum: six framing bytes and the payload, then the log line.
ProcessEvent(m) ==
    (IF DoesProto(m) THEN PayloadBytes + 6 ELSE 0) + (IF DoesPipe(m) THEN LineBytes ELSE 0)

Init ==
    /\ Ring!Init
    /\ iterations \in {n \in 0 .. MaxRequested : Accepts(n)}
    /\ mode \in Mode
    /\ ready = 2 /\ start = FALSE /\ producerDone = FALSE
    /\ mainPc = IF mode = "sync_both" THEN "sync" ELSE "await_ready"
    /\ producerPc = "boot" /\ workerPc = "boot"
    /\ i = 0 /\ dropped = 0 /\ hotSamples = 0
    /\ workerCompleted = 0 /\ workerSamples = 0 /\ workerChecksum = 0

-------------------------------------------------------------------------------
(* run_sync: the main thread encodes; its samples and count serve for both sides *)

SyncEncode ==
    /\ mainPc = "sync" /\ i < iterations
    /\ i' = i + 1
    /\ hotSamples' = hotSamples + 1
    /\ workerChecksum' = workerChecksum + ProcessEvent("sync_both")
    /\ UNCHANGED <<ringVars, configVars, flagVars, dropped, workerCompleted, workerSamples, pcVars>>

SyncReport ==
    /\ mainPc = "sync" /\ i = iterations
    /\ workerSamples' = hotSamples
    /\ workerCompleted' = iterations
    /\ mainPc' = "reported"
    /\ UNCHANGED <<ringVars, configVars, flagVars, hotVars, workerChecksum, producerPc, workerPc>>

-------------------------------------------------------------------------------
(* run_async, main thread *)

\* Mutant: the latch waits for one thread only.
MainStartEarly ==
    /\ mainPc = "await_ready" /\ ready =< 1
    /\ start' = TRUE
    /\ mainPc' = "join_producer"
    /\ UNCHANGED <<ringVars, configVars, ready, producerDone, hotVars, workerVars, producerPc, workerPc>>

MainStart ==
    /\ mainPc = "await_ready" /\ ready = 0
    /\ start' = TRUE
    /\ mainPc' = "join_producer"
    /\ UNCHANGED <<ringVars, configVars, ready, producerDone, hotVars, workerVars, producerPc, workerPc>>

MainJoinProducer ==
    /\ mainPc = "join_producer" /\ producerPc = "exit"
    /\ mainPc' = "join_worker"
    /\ UNCHANGED <<ringVars, configVars, flagVars, hotVars, workerVars, producerPc, workerPc>>

\* After the second join the row is read and written out.
MainReport ==
    /\ mainPc = "join_worker" /\ workerPc = "exit"
    /\ mainPc' = "reported"
    /\ UNCHANGED <<ringVars, configVars, flagVars, hotVars, workerVars, producerPc, workerPc>>

-------------------------------------------------------------------------------
(* run_async, producer thread: the hot path *)

ProducerReady ==
    /\ mainPc = "await_ready" /\ producerPc = "boot"
    /\ ready' = ready - 1
    /\ producerPc' = "spin"
    /\ UNCHANGED <<ringVars, configVars, start, producerDone, hotVars, workerVars, mainPc, workerPc>>

ProducerStart ==
    /\ producerPc = "spin" /\ start
    /\ producerPc' = "push"
    /\ UNCHANGED <<ringVars, configVars, flagVars, hotVars, workerVars, mainPc, workerPc>>

\* Mutant: the pool index runs one ahead.
ProducerReserveAhead ==
    /\ producerPc = "push" /\ i < iterations
    /\ Ring!PushReserve((i + 1) % PoolSize)
    /\ UNCHANGED <<configVars, flagVars, hotVars, workerVars, pcVars>>

\* try_push(&pool[i & (kPoolSize - 1)]) in its three steps ...
ProducerReserve ==
    /\ producerPc = "push" /\ i < iterations
    /\ Ring!PushReserve(i % PoolSize)
    /\ UNCHANGED <<configVars, flagVars, hotVars, workerVars, pcVars>>

ProducerWrite ==
    /\ producerPc = "push"
    /\ Ring!PushWrite
    /\ UNCHANGED <<configVars, flagVars, hotVars, workerVars, pcVars>>

ProducerPublish ==
    /\ producerPc = "push"
    /\ Ring!PushPublish
    /\ i' = i + 1
    /\ hotSamples' = hotSamples + 1
    /\ UNCHANGED <<configVars, flagVars, dropped, workerVars, pcVars>>

\* Mutant: the refused event is not counted.
ProducerDropUncounted ==
    /\ producerPc = "push" /\ i < iterations
    /\ Ring!PushReject
    /\ i' = i + 1
    /\ UNCHANGED <<configVars, flagVars, dropped, hotSamples, workerVars, pcVars>>

\* ... or refused: the event is counted as dropped and not retried.
ProducerDrop ==
    /\ producerPc = "push" /\ i < iterations
    /\ Ring!PushReject
    /\ i' = i + 1
    /\ dropped' = dropped + 1
    /\ UNCHANGED <<configVars, flagVars, hotSamples, workerVars, pcVars>>

\* Mutant: the flag is never raised.
ProducerFinishSilent ==
    /\ producerPc = "push" /\ pushPc = "idle" /\ i = iterations
    /\ producerPc' = "exit"
    /\ UNCHANGED <<ringVars, configVars, flagVars, hotVars, workerVars, mainPc, workerPc>>

ProducerFinish ==
    /\ producerPc = "push" /\ pushPc = "idle" /\ i = iterations
    /\ producerDone' = TRUE
    /\ producerPc' = "exit"
    /\ UNCHANGED <<ringVars, configVars, ready, start, hotVars, workerVars, mainPc, workerPc>>

-------------------------------------------------------------------------------
(* run_async, worker thread *)

\* Mutant: the worker counts the latch down for both threads.
WorkerReadyTwice ==
    /\ mainPc = "await_ready" /\ workerPc = "boot"
    /\ ready' = ready - 2
    /\ workerPc' = "spin"
    /\ UNCHANGED <<ringVars, configVars, start, producerDone, hotVars, workerVars, mainPc, producerPc>>

WorkerReady ==
    /\ mainPc = "await_ready" /\ workerPc = "boot"
    /\ ready' = ready - 1
    /\ workerPc' = "spin"
    /\ UNCHANGED <<ringVars, configVars, start, producerDone, hotVars, workerVars, mainPc, producerPc>>

WorkerStart ==
    /\ workerPc = "spin" /\ start
    /\ workerPc' = "pop"
    /\ UNCHANGED <<ringVars, configVars, flagVars, hotVars, workerVars, mainPc, producerPc>>

WorkerPopEmpty ==
    /\ workerPc = "pop"
    /\ Ring!PopEmpty
    /\ workerPc' = "check"
    /\ UNCHANGED <<configVars, flagVars, hotVars, workerVars, mainPc, producerPc>>

WorkerPopReserve ==
    /\ workerPc = "pop"
    /\ Ring!PopReserve
    /\ UNCHANGED <<configVars, flagVars, hotVars, workerVars, pcVars>>

WorkerPopRead ==
    /\ workerPc = "pop"
    /\ Ring!PopRead
    /\ UNCHANGED <<configVars, flagVars, hotVars, workerVars, pcVars>>

WorkerPopRelease ==
    /\ workerPc = "pop"
    /\ Ring!PopRelease
    /\ workerPc' = "process"
    /\ UNCHANGED <<configVars, flagVars, hotVars, workerVars, mainPc, producerPc>>

\* After a null pop: the flag reads TRUE and the worker leaves without another pop ...
WorkerSeesDone ==
    /\ workerPc = "check" /\ producerDone
    /\ workerPc' = "exit"
    /\ UNCHANGED <<ringVars, configVars, flagVars, hotVars, workerVars, mainPc, producerPc>>

\* ... or reads FALSE, which it may (stale) even after it was raised, and pops again.
WorkerSeesNotDone ==
    /\ workerPc = "check"
    /\ workerPc' = "pop"
    /\ UNCHANGED <<ringVars, configVars, flagVars, hotVars, workerVars, mainPc, producerPc>>

\* Mutant: an event counts only when it is encoded.
WorkerProcessUncounted ==
    /\ workerPc = "process"
    /\ workerChecksum' = workerChecksum + ProcessEvent(mode)
    /\ workerSamples' = workerSamples + 1
    /\ workerCompleted' = workerCompleted + IF mode = "async_handoff" THEN 0 ELSE 1
    /\ workerPc' = "pop"
    /\ UNCHANGED <<ringVars, configVars, flagVars, hotVars, mainPc, producerPc>>

WorkerProcess ==
    /\ workerPc = "process"
    /\ workerChecksum' = workerChecksum + ProcessEvent(mode)
    /\ workerSamples' = workerSamples + 1
    /\ workerCompleted' = workerCompleted + 1
    /\ workerPc' = "pop"
    /\ UNCHANGED <<ringVars, configVars, flagVars, hotVars, mainPc, producerPc>>

-------------------------------------------------------------------------------
SyncRun == SyncEncode \/ SyncReport
MainStep == MainStart \/ MainJoinProducer \/ MainReport
ProducerStep ==
    \/ ProducerReady \/ ProducerStart \/ ProducerReserve \/ ProducerWrite
    \/ ProducerPublish \/ ProducerDrop \/ ProducerFinish
WorkerStep ==
    \/ WorkerReady \/ WorkerStart \/ WorkerPopEmpty \/ WorkerPopReserve \/ WorkerPopRead
    \/ WorkerPopRelease \/ WorkerSeesDone \/ WorkerSeesNotDone \/ WorkerProcess

\* The row is written: nothing more happens in it.
Reported == mainPc = "reported" /\ UNCHANGED vars

Next == SyncRun \/ MainStep \/ ProducerStep \/ WorkerStep \/ Reported

Spec == Init /\ [][Next]_vars

\* The operating system runs every thread, and a store becomes visible to the
\* other thread's loads in finite time, which rules out staleness for ever.
Fairness ==
    /\ WF_vars(SyncRun) /\ WF_vars(MainStep) /\ WF_vars(ProducerStep) /\ WF_vars(WorkerStep)
    /\ SF_vars(WorkerPopReserve) /\ SF_vars(WorkerSeesDone)

FairSpec == Spec /\ Fairness

-------------------------------------------------------------------------------
(* Properties *)

TypeOK ==
    /\ Ring!TypeOK
    /\ iterations \in 0 .. MaxRequested /\ mode \in Mode
    /\ ready \in 0 .. 2 /\ start \in BOOLEAN /\ producerDone \in BOOLEAN
    /\ mainPc \in {"sync", "await_ready", "join_producer", "join_worker", "reported"}
    /\ producerPc \in {"boot", "spin", "push", "exit"}
    /\ workerPc \in {"boot", "spin", "pop", "check", "process", "exit"}
    /\ i \in Nat /\ dropped \in Nat /\ hotSamples \in Nat
    /\ workerCompleted \in Nat /\ workerSamples \in Nat /\ workerChecksum \in Nat

\* "The queue is preallocated larger than one measured repetition so the producer
\* never waits": with the iterations parse_args lets through, try_push never refuses,
\* however stale the tail it reads.
NoDrop == dropped = 0

\* The event the worker holds is the next one in production order: nothing is
\* skipped, repeated, reordered or overwritten between the hot thread and the encoder.
InOrder ==
    /\ popPc = "release" => popValue = tail % PoolSize
    /\ workerPc = "process" => popValue = (tail - 1) % PoolSize
    /\ mode # "sync_both" => tail = workerCompleted + IF workerPc = "process" THEN 1 ELSE 0

\* Neither thread measures before both are ready: once one is past its start spin,
\* the other has counted down the latch.
StartsTogether ==
    (producerPc \in {"push", "exit"} \/ workerPc \notin {"boot", "spin"}) =>
        producerPc # "boot" /\ workerPc # "boot"

\* The row written: every attempted event was completed, dropped or left unread in
\* the ring; each side has one sample per event it handled; the checksum covers
\* exactly the completed events.
RowAccounting ==
    mainPc = "reported" =>
        /\ workerCompleted + dropped + (head - tail) = iterations
        /\ hotSamples = iterations - dropped
        /\ workerSamples = workerCompleted
        /\ workerChecksum = workerCompleted * ProcessEvent(mode)

\* Every row ends: no thread spins, pops or waits in a join for ever.
Termination == <>(mainPc = "reported")

\* The report's promise that "the worker drains the queue": when the row is
\* written nothing is left in the ring.
WorkerDrainsQueue == mainPc = "reported" => head = tail

-------------------------------------------------------------------------------
(* The inductive invariant behind the properties, given the ring's own Inv *)

AtBoot(pc) == IF pc = "boot" THEN 1 ELSE 0

\* The start protocol: the latch counts the threads still at boot, and nothing starts before it is 0.
Handshake ==
    /\ ready = AtBoot(producerPc) + AtBoot(workerPc)
    /\ start => ready = 0
    /\ producerPc \in {"push", "exit"} \/ workerPc \notin {"boot", "spin"} => start
    /\ mainPc \in {"join_worker", "reported"} /\ mode # "sync_both" => producerPc = "exit"
    /\ mainPc = "reported" /\ mode # "sync_both" => workerPc = "exit"

\* The control row uses neither the ring nor the threads.
SyncRow ==
    IF mode = "sync_both"
    THEN /\ mainPc \in {"sync", "reported"} /\ producerPc = "boot" /\ workerPc = "boot"
         /\ head = 0 /\ tail = 0 /\ dropped = 0 /\ i =< iterations
         /\ hotSamples = i /\ workerChecksum = i * ProcessEvent(mode)
         /\ mainPc = "reported" =>
                i = iterations /\ workerCompleted = iterations /\ workerSamples = iterations
    ELSE mainPc # "sync"

\* What each thread has counted, against the ring's counters.
AsyncCounts ==
    mode # "sync_both" =>
        /\ i =< iterations /\ i = head + dropped /\ hotSamples = head
        /\ producerPc = "exit" => i = iterations
        /\ tail = workerCompleted + IF workerPc = "process" THEN 1 ELSE 0
        /\ workerSamples = workerCompleted
        /\ workerChecksum = workerCompleted * ProcessEvent(mode)

\* Where the two ring calls in progress stand in the threads that make them.
CallsNest ==
    /\ pushPc # "idle" => producerPc = "push" /\ i < iterations
    /\ popPc # "idle" => workerPc = "pop"

\* As long as nothing was dropped, the k-th pointer published is event k of the pool.
Contents ==
    dropped = 0 =>
        /\ pushPc # "idle" => pushValue = head % PoolSize
        /\ \A k \in tail .. head - 1 : entries[Ring!Slot(k)] = k % PoolSize
        /\ popPc = "release" => popValue = tail % PoolSize
        /\ workerPc = "process" => popValue = (tail - 1) % PoolSize

PipelineInv == TypeOK /\ Handshake /\ SyncRow /\ AsyncCounts /\ CallsNest /\ Contents
===============================================================================
