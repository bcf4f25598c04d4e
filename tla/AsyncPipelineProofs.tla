------------------------- MODULE AsyncPipelineProofs -------------------------
(***************************************************************************)
(* Proofs about AsyncPipeline.  The pipeline uses its ring only through     *)
(* the ring's own operations, so what SpscRingProofs shows of the ring      *)
(* holds inside it, its refinement of HandoffQueue included; the rest is    *)
(* the invariant PipelineInv.  Last, what is safety in Termination: no      *)
(* thread waits for ever and all steps but polls lower a number.            *)
(***************************************************************************)
EXTENDS AsyncPipeline, TLAPS

RingProofs == INSTANCE SpscRingProofs WITH Capacity <- QueueCapacity, Values <- Pool

-------------------------------------------------------------------------------
(* From the pipeline to its ring *)

\* The ring's assumption on its constants follows from the pipeline's.
LEMMA RingConstants == RingProofs!RingAssumption
  BY PipelineAssumption DEF RingProofs!RingAssumption, Pool

\* The pool index is a pointer into the pool, and event counts wrap like the index.
LEMMA PoolIndex == ASSUME NEW n \in Nat PROVE n % PoolSize \in Pool
  BY PipelineAssumption DEF Pool

\* A step of the pipeline is a step of its ring or leaves the ring alone.
LEMMA StepUsesRing == i \in Nat /\ [Next]_vars => [Ring!Next]_(Ring!vars)
<1>. SUFFICES ASSUME i \in Nat, [Next]_vars PROVE [Ring!Next]_(Ring!vars)
  OBVIOUS
<1>1. CASE UNCHANGED ringVars
  BY <1>1 DEF ringVars, Ring!vars, Ring!producerVars, Ring!consumerVars
<1>2. CASE ProducerReserve
  <2>1. i % PoolSize \in Pool
    BY PoolIndex
  <2>. QED BY <1>2, <2>1 DEF ProducerReserve, Ring!Next, Ring!Push
<1>3. CASE ProducerWrite \/ ProducerPublish \/ ProducerDrop
  BY <1>3 DEF ProducerWrite, ProducerPublish, ProducerDrop, Ring!Next, Ring!Push
<1>4. CASE WorkerPopEmpty \/ WorkerPopReserve \/ WorkerPopRead \/ WorkerPopRelease
  BY <1>4 DEF WorkerPopEmpty, WorkerPopReserve, WorkerPopRead, WorkerPopRelease, Ring!Next, Ring!Pop
<1>5. CASE UNCHANGED vars
  BY <1>1, <1>5 DEF vars
<1>6. CASE SyncRun \/ MainStep \/ Reported
  BY <1>1, <1>6 DEF SyncRun, SyncEncode, SyncReport, MainStep, MainStart, MainJoinProducer, MainReport,
                    Reported, vars
<1>7. CASE ProducerReady \/ ProducerStart \/ ProducerFinish
  BY <1>1, <1>7 DEF ProducerReady, ProducerStart, ProducerFinish
<1>8. CASE WorkerReady \/ WorkerStart \/ WorkerSeesDone \/ WorkerSeesNotDone \/ WorkerProcess
  BY <1>1, <1>8 DEF WorkerReady, WorkerStart, WorkerSeesDone, WorkerSeesNotDone, WorkerProcess
<1>. QED BY <1>2, <1>3, <1>4, <1>5, <1>6, <1>7, <1>8 DEF Next, ProducerStep, WorkerStep

\* The loop index is a number.
LEMMA IndexType == Spec => [](i \in Nat)
<1>1. Init => i \in Nat
  BY DEF Init
<1>2. i \in Nat /\ [Next]_vars => (i \in Nat)'
  BY DEF Next, SyncRun, SyncEncode, SyncReport, MainStep, MainStart, MainJoinProducer, MainReport, Reported,
     ProducerStep, ProducerReady, ProducerStart, ProducerReserve, ProducerWrite, ProducerPublish,
     ProducerDrop, ProducerFinish, WorkerStep, WorkerReady, WorkerStart, WorkerPopEmpty, WorkerPopReserve,
     WorkerPopRead, WorkerPopRelease, WorkerSeesDone, WorkerSeesNotDone, WorkerProcess, vars, hotVars
<1>. QED BY <1>1, <1>2, PTL DEF Spec

\* Every behaviour of the pipeline is one of its ring.
LEMMA RingUse == Spec => Ring!Spec
<1>1. Init => Ring!Init
  BY DEF Init
<1>2. Spec => [][Ring!Next]_(Ring!vars)
  BY StepUsesRing, IndexType, PTL DEF Spec
<1>. QED BY <1>1, <1>2, PTL DEF Spec, Ring!Spec

\* Both names of the ring's specification mean the same.
LEMMA SameRing == Ring!Spec => RingProofs!Spec
<1>1. Ring!Init => RingProofs!Init
  BY DEF Ring!Init, RingProofs!Init, Ring!Slots, RingProofs!Slots
<1>2. [Ring!Next]_(Ring!vars) => [RingProofs!Next]_(RingProofs!vars)
  BY DEF Ring!Next, RingProofs!Next, Ring!Push, RingProofs!Push, Ring!Pop, RingProofs!Pop,
     Ring!PushReserve, RingProofs!PushReserve, Ring!PushReject, RingProofs!PushReject,
     Ring!PushWrite, RingProofs!PushWrite, Ring!PushPublish, RingProofs!PushPublish,
     Ring!PopEmpty, RingProofs!PopEmpty, Ring!PopReserve, RingProofs!PopReserve,
     Ring!PopRead, RingProofs!PopRead, Ring!PopRelease, RingProofs!PopRelease,
     Ring!PushIsFull, RingProofs!PushIsFull, Ring!PopIsEmpty, RingProofs!PopIsEmpty,
     Ring!Distance, RingProofs!Distance, Ring!AsWord, RingProofs!AsWord, Ring!Slot, RingProofs!Slot,
     Ring!vars, RingProofs!vars, Ring!producerVars, RingProofs!producerVars,
     Ring!consumerVars, RingProofs!consumerVars
<1>. QED BY <1>1, <1>2, PTL DEF Ring!Spec, RingProofs!Spec

\* The ring's inductive invariant holds inside the pipeline.
LEMMA RingInv == Spec => []Ring!Inv
<1>1. RingProofs!Spec => []RingProofs!Inv
  BY RingConstants, RingProofs!Invariance
<1>2. RingProofs!Inv => Ring!Inv
  BY DEF Ring!Inv, RingProofs!Inv, Ring!TypeOK, RingProofs!TypeOK, Ring!ViewsAgree, RingProofs!ViewsAgree,
     Ring!PublishedWritten, RingProofs!PublishedWritten, Ring!Slots, RingProofs!Slots,
     Ring!Slot, RingProofs!Slot, Ring!AsWord, RingProofs!AsWord
<1>. QED BY <1>1, <1>2, RingUse, SameRing, PTL

-------------------------------------------------------------------------------
(* The pipeline's invariant *)

\* The bytes an event contributes to the checksum.
LEMMA ProcessEventType == ASSUME NEW m PROVE ProcessEvent(m) \in Nat
  BY PipelineAssumption DEF ProcessEvent

\* Inside the ring, distinct counts less than a ring apart live in distinct slots.
LEMMA PipelineSlots ==
    ASSUME NEW a \in Nat, NEW b \in Nat, a < b, b - a < QueueCapacity
    PROVE  Ring!Slot(a) # Ring!Slot(b) /\ Ring!Slot(a) \in Ring!Slots /\ Ring!Slot(b) \in Ring!Slots
<1>1. /\ RingProofs!Slot(a) # RingProofs!Slot(b)
      /\ RingProofs!Slot(a) \in RingProofs!Slots /\ RingProofs!Slot(b) \in RingProofs!Slots
  BY RingConstants, RingProofs!SlotDistinct, RingProofs!SlotIsResidue
<1>. QED BY <1>1 DEF Ring!Slot, RingProofs!Slot, Ring!AsWord, RingProofs!AsWord, Ring!Slots, RingProofs!Slots

\* The pipeline starts in its invariant.
LEMMA InvInit == Init => PipelineInv
<1>. SUFFICES ASSUME Init PROVE PipelineInv
  OBVIOUS
<1>. USE DEF Init, Ring!Init
<1>1. TypeOK
  <2>1. Ring!TypeOK
    BY DEF Ring!TypeOK
  <2>2. start \in BOOLEAN /\ producerDone \in BOOLEAN
    OBVIOUS
  <2>3. iterations \in 0 .. MaxRequested /\ mode \in Mode
    OBVIOUS
  <2>4. mainPc \in {"sync", "await_ready", "join_producer", "join_worker", "reported"}
    OBVIOUS
  <2>5. ready \in 0 .. 2 /\ i \in Nat /\ dropped \in Nat /\ hotSamples \in Nat
    OBVIOUS
  <2>6. workerCompleted \in Nat /\ workerSamples \in Nat /\ workerChecksum \in Nat
    OBVIOUS
  <2>. QED BY <2>1, <2>2, <2>3, <2>4, <2>5, <2>6 DEF TypeOK
<1>2. Handshake
  BY DEF Handshake, AtBoot
<1>3. SyncRow
  BY ProcessEventType, PipelineAssumption DEF SyncRow
<1>4. AsyncCounts
  BY ProcessEventType, PipelineAssumption DEF AsyncCounts
<1>5. CallsNest
  BY DEF CallsNest
<1>6. Contents
  BY DEF Contents
<1>. QED BY <1>1, <1>2, <1>3, <1>4, <1>5, <1>6 DEF PipelineInv

\* Every step keeps the invariant, given the ring's invariant before and after it.
LEMMA InvStep == PipelineInv /\ Ring!Inv /\ Ring!Inv' /\ [Next]_vars => PipelineInv'
<1>. SUFFICES ASSUME PipelineInv, Ring!Inv, Ring!Inv', [Next]_vars PROVE PipelineInv'
  OBVIOUS
<1>. USE PipelineAssumption DEF PipelineInv, ringVars, configVars, flagVars, hotVars, workerVars, pcVars
<1>1. CASE SyncEncode
  <2>1. TypeOK'
    BY <1>1, ProcessEventType DEF SyncEncode, Ring!Inv, TypeOK
  <2>2. Handshake'
    BY <1>1 DEF SyncEncode, Handshake, AtBoot, SyncRow, TypeOK, AsyncCounts, CallsNest
  <2>3. SyncRow'
    BY <1>1 DEF SyncEncode, SyncRow, TypeOK, Mode, ProcessEvent, DoesProto, DoesPipe
  <2>4. AsyncCounts'
    BY <1>1 DEF SyncEncode, AsyncCounts, SyncRow, TypeOK, CallsNest, ProcessEvent, Mode, DoesProto, DoesPipe
  <2>5. CallsNest'
    BY <1>1 DEF SyncEncode, CallsNest, SyncRow, TypeOK
  <2>6. Contents'
    BY <1>1 DEF SyncEncode, Contents, AsyncCounts, CallsNest, TypeOK, SyncRow, Ring!Inv, Ring!ViewsAgree, Ring!TypeOK, Ring!Slot, Ring!AsWord
  <2>. QED BY <2>1, <2>2, <2>3, <2>4, <2>5, <2>6
<1>2. CASE SyncReport
  <2>1. TypeOK'
    BY <1>2 DEF SyncReport, Ring!Inv, TypeOK
  <2>2. Handshake'
    BY <1>2 DEF SyncReport, Handshake, AtBoot, SyncRow, TypeOK, AsyncCounts, CallsNest
  <2>3. SyncRow'
    BY <1>2 DEF SyncReport, SyncRow, TypeOK, Mode, ProcessEvent, DoesProto, DoesPipe
  <2>4. AsyncCounts'
    BY <1>2 DEF SyncReport, AsyncCounts, SyncRow, TypeOK, CallsNest
  <2>5. CallsNest'
    BY <1>2 DEF SyncReport, CallsNest, TypeOK
  <2>6. Contents'
    BY <1>2 DEF SyncReport, Contents, AsyncCounts, CallsNest, TypeOK, SyncRow, Ring!Inv, Ring!ViewsAgree, Ring!TypeOK, Ring!Slot, Ring!AsWord
  <2>. QED BY <2>1, <2>2, <2>3, <2>4, <2>5, <2>6
<1>3. CASE MainStart
  <2>1. TypeOK'
    BY <1>3 DEF MainStart, Ring!Inv, TypeOK
  <2>2. Handshake'
    BY <1>3 DEF MainStart, Handshake, AtBoot, SyncRow, TypeOK, AsyncCounts, CallsNest
  <2>3. SyncRow'
    BY <1>3 DEF MainStart, SyncRow, TypeOK, Mode, ProcessEvent, DoesProto, DoesPipe
  <2>4. AsyncCounts'
    BY <1>3 DEF MainStart, AsyncCounts, SyncRow, TypeOK, CallsNest
  <2>5. CallsNest'
    BY <1>3 DEF MainStart, CallsNest, TypeOK
  <2>6. Contents'
    BY <1>3 DEF MainStart, Contents, AsyncCounts, CallsNest, TypeOK, SyncRow, Ring!Inv, Ring!ViewsAgree, Ring!TypeOK, Ring!Slot, Ring!AsWord
  <2>. QED BY <2>1, <2>2, <2>3, <2>4, <2>5, <2>6
<1>4. CASE MainJoinProducer
  <2>1. TypeOK'
    BY <1>4 DEF MainJoinProducer, Ring!Inv, TypeOK
  <2>2. Handshake'
    BY <1>4 DEF MainJoinProducer, Handshake, AtBoot, SyncRow, TypeOK, AsyncCounts, CallsNest
  <2>3. SyncRow'
    BY <1>4 DEF MainJoinProducer, SyncRow, TypeOK, Mode, ProcessEvent, DoesProto, DoesPipe
  <2>4. AsyncCounts'
    BY <1>4 DEF MainJoinProducer, AsyncCounts, SyncRow, TypeOK, CallsNest
  <2>5. CallsNest'
    BY <1>4 DEF MainJoinProducer, CallsNest, TypeOK
  <2>6. Contents'
    BY <1>4 DEF MainJoinProducer, Contents, AsyncCounts, CallsNest, TypeOK, SyncRow, Ring!Inv, Ring!ViewsAgree, Ring!TypeOK, Ring!Slot, Ring!AsWord
  <2>. QED BY <2>1, <2>2, <2>3, <2>4, <2>5, <2>6
<1>5. CASE MainReport
  <2>1. TypeOK'
    BY <1>5 DEF MainReport, Ring!Inv, TypeOK
  <2>2. Handshake'
    BY <1>5 DEF MainReport, Handshake, AtBoot, SyncRow, TypeOK, AsyncCounts, CallsNest
  <2>3. SyncRow'
    BY <1>5 DEF MainReport, SyncRow, TypeOK, Mode, ProcessEvent, DoesProto, DoesPipe
  <2>4. AsyncCounts'
    BY <1>5 DEF MainReport, AsyncCounts, SyncRow, TypeOK, CallsNest
  <2>5. CallsNest'
    BY <1>5 DEF MainReport, CallsNest, TypeOK
  <2>6. Contents'
    BY <1>5 DEF MainReport, Contents, AsyncCounts, CallsNest, TypeOK, SyncRow, Ring!Inv, Ring!ViewsAgree, Ring!TypeOK, Ring!Slot, Ring!AsWord
  <2>. QED BY <2>1, <2>2, <2>3, <2>4, <2>5, <2>6
<1>6. CASE ProducerReady
  <2>1. TypeOK'
    BY <1>6 DEF ProducerReady, Ring!Inv, TypeOK, Handshake, AtBoot
  <2>2. Handshake'
    BY <1>6 DEF ProducerReady, Handshake, AtBoot, SyncRow, TypeOK, AsyncCounts, CallsNest
  <2>3. SyncRow'
    BY <1>6 DEF ProducerReady, SyncRow, TypeOK, Mode, ProcessEvent, DoesProto, DoesPipe
  <2>4. AsyncCounts'
    BY <1>6 DEF ProducerReady, AsyncCounts, SyncRow, TypeOK, CallsNest
  <2>5. CallsNest'
    BY <1>6 DEF ProducerReady, CallsNest, TypeOK
  <2>6. Contents'
    BY <1>6 DEF ProducerReady, Contents, AsyncCounts, CallsNest, TypeOK, SyncRow, Ring!Inv, Ring!ViewsAgree, Ring!TypeOK, Ring!Slot, Ring!AsWord
  <2>. QED BY <2>1, <2>2, <2>3, <2>4, <2>5, <2>6
<1>7. CASE ProducerStart
  <2>1. TypeOK'
    BY <1>7 DEF ProducerStart, Ring!Inv, TypeOK
  <2>2. Handshake'
    BY <1>7 DEF ProducerStart, Handshake, AtBoot, SyncRow, TypeOK, AsyncCounts, CallsNest
  <2>3. SyncRow'
    BY <1>7 DEF ProducerStart, SyncRow, TypeOK, Mode, ProcessEvent, DoesProto, DoesPipe
  <2>4. AsyncCounts'
    BY <1>7 DEF ProducerStart, AsyncCounts, SyncRow, TypeOK, CallsNest
  <2>5. CallsNest'
    BY <1>7 DEF ProducerStart, CallsNest, TypeOK
  <2>6. Contents'
    BY <1>7 DEF ProducerStart, Contents, AsyncCounts, CallsNest, TypeOK, SyncRow, Ring!Inv, Ring!ViewsAgree, Ring!TypeOK, Ring!Slot, Ring!AsWord
  <2>. QED BY <2>1, <2>2, <2>3, <2>4, <2>5, <2>6
<1>8. CASE ProducerReserve
  <2>1. TypeOK'
    BY <1>8 DEF ProducerReserve, Ring!PushReserve, Ring!producerVars, Ring!consumerVars, Ring!Inv, TypeOK
  <2>2. Handshake'
    BY <1>8 DEF ProducerReserve, Ring!PushReserve, Ring!producerVars, Ring!consumerVars, Handshake, AtBoot, SyncRow, TypeOK, AsyncCounts, CallsNest
  <2>3. SyncRow'
    BY <1>8 DEF ProducerReserve, Ring!PushReserve, Ring!producerVars, Ring!consumerVars, SyncRow, TypeOK, Mode, ProcessEvent, DoesProto, DoesPipe
  <2>4. AsyncCounts'
    BY <1>8 DEF ProducerReserve, Ring!PushReserve, Ring!producerVars, Ring!consumerVars, AsyncCounts, SyncRow, TypeOK, CallsNest
  <2>5. CallsNest'
    BY <1>8 DEF ProducerReserve, Ring!PushReserve, Ring!producerVars, Ring!consumerVars, CallsNest, TypeOK
  <2>6. Contents'
    BY <1>8 DEF ProducerReserve, Ring!PushReserve, Ring!producerVars, Ring!consumerVars, Contents, AsyncCounts, CallsNest, TypeOK, SyncRow, Ring!Inv, Ring!ViewsAgree, Ring!TypeOK, Ring!Slot, Ring!AsWord
  <2>. QED BY <2>1, <2>2, <2>3, <2>4, <2>5, <2>6
<1>9. CASE ProducerWrite
  <2>1. TypeOK'
    BY <1>9 DEF ProducerWrite, Ring!PushWrite, Ring!producerVars, Ring!consumerVars, Ring!Inv, TypeOK
  <2>2. Handshake'
    BY <1>9 DEF ProducerWrite, Ring!PushWrite, Ring!producerVars, Ring!consumerVars, Handshake, AtBoot, SyncRow, TypeOK, AsyncCounts, CallsNest
  <2>3. SyncRow'
    BY <1>9 DEF ProducerWrite, Ring!PushWrite, Ring!producerVars, Ring!consumerVars, SyncRow, TypeOK, Mode, ProcessEvent, DoesProto, DoesPipe
  <2>4. AsyncCounts'
    BY <1>9 DEF ProducerWrite, Ring!PushWrite, Ring!producerVars, Ring!consumerVars, AsyncCounts, SyncRow, TypeOK, CallsNest
  <2>5. CallsNest'
    BY <1>9 DEF ProducerWrite, Ring!PushWrite, Ring!producerVars, Ring!consumerVars, CallsNest, TypeOK
  <2>6. Contents'
    <3>. SUFFICES ASSUME dropped = 0 PROVE Contents'
      BY <1>9 DEF ProducerWrite, Contents
    <3>1. ASSUME NEW k \in tail .. head - 1 PROVE entries'[Ring!Slot(k)] = entries[Ring!Slot(k)]
      <4>1. k \in Nat /\ head \in Nat /\ k < head /\ head - k < QueueCapacity
        BY <1>9 DEF ProducerWrite, Ring!PushWrite, Ring!Inv, Ring!TypeOK, Ring!ViewsAgree
      <4>. QED BY <1>9, <4>1, PipelineSlots DEF ProducerWrite, Ring!PushWrite, Ring!Inv, Ring!TypeOK
    <3>. QED BY <1>9, <3>1 DEF ProducerWrite, Ring!PushWrite, Ring!consumerVars, Contents, Ring!Slot, Ring!AsWord
  <2>. QED BY <2>1, <2>2, <2>3, <2>4, <2>5, <2>6
<1>10. CASE ProducerPublish
  <2>1. TypeOK'
    BY <1>10 DEF ProducerPublish, Ring!PushPublish, Ring!producerVars, Ring!consumerVars, Ring!Inv, TypeOK
  <2>2. Handshake'
    BY <1>10 DEF ProducerPublish, Ring!PushPublish, Ring!producerVars, Ring!consumerVars, Handshake, AtBoot, SyncRow, TypeOK, AsyncCounts, CallsNest
  <2>3. SyncRow'
    BY <1>10 DEF ProducerPublish, Ring!PushPublish, Ring!producerVars, Ring!consumerVars, SyncRow, TypeOK, Mode, ProcessEvent, DoesProto, DoesPipe
  <2>4. AsyncCounts'
    BY <1>10 DEF ProducerPublish, Ring!PushPublish, Ring!producerVars, Ring!consumerVars, AsyncCounts, SyncRow, TypeOK, CallsNest
  <2>5. CallsNest'
    BY <1>10 DEF ProducerPublish, Ring!PushPublish, Ring!producerVars, Ring!consumerVars, CallsNest, TypeOK
  <2>6. Contents'
    <3>. SUFFICES ASSUME dropped = 0 PROVE Contents'
      BY <1>10 DEF ProducerPublish, Contents
    <3>1. entries[Ring!Slot(head)] = head % PoolSize
      BY <1>10 DEF ProducerPublish, Ring!PushPublish, Ring!Inv, Ring!PublishedWritten, Contents
    <3>2. \A k \in tail .. head : entries[Ring!Slot(k)] = k % PoolSize
      BY <3>1 DEF Contents, Ring!Inv, Ring!TypeOK
    <3>3. head' - 1 = head /\ pushPc' = "idle" /\ UNCHANGED <<entries, dropped, Ring!consumerVars, workerPc>>
      BY <1>10 DEF ProducerPublish, Ring!PushPublish, Ring!Inv, Ring!TypeOK
    <3>. QED BY <3>2, <3>3 DEF Ring!consumerVars, Contents, Ring!Slot, Ring!AsWord
  <2>. QED BY <2>1, <2>2, <2>3, <2>4, <2>5, <2>6
<1>11. CASE ProducerDrop
  <2>1. TypeOK'
    BY <1>11 DEF ProducerDrop, Ring!PushReject, Ring!producerVars, Ring!consumerVars, Ring!Inv, TypeOK
  <2>2. Handshake'
    BY <1>11 DEF ProducerDrop, Ring!PushReject, Ring!producerVars, Ring!consumerVars, Handshake, AtBoot, SyncRow, TypeOK, AsyncCounts, CallsNest
  <2>3. SyncRow'
    BY <1>11 DEF ProducerDrop, Ring!PushReject, Ring!producerVars, Ring!consumerVars, SyncRow, TypeOK, Mode, ProcessEvent, DoesProto, DoesPipe
  <2>4. AsyncCounts'
    BY <1>11 DEF ProducerDrop, Ring!PushReject, Ring!producerVars, Ring!consumerVars, AsyncCounts, SyncRow, TypeOK, CallsNest
  <2>5. CallsNest'
    BY <1>11 DEF ProducerDrop, Ring!PushReject, Ring!producerVars, Ring!consumerVars, CallsNest, TypeOK
  <2>6. Contents'
    BY <1>11 DEF ProducerDrop, Ring!PushReject, Ring!producerVars, Ring!consumerVars, Contents, AsyncCounts, CallsNest, TypeOK, SyncRow, Ring!Inv, Ring!ViewsAgree, Ring!TypeOK, Ring!Slot, Ring!AsWord
  <2>. QED BY <2>1, <2>2, <2>3, <2>4, <2>5, <2>6
<1>12. CASE ProducerFinish
  <2>1. TypeOK'
    BY <1>12 DEF ProducerFinish, Ring!Inv, TypeOK
  <2>2. Handshake'
    BY <1>12 DEF ProducerFinish, Handshake, AtBoot, SyncRow, TypeOK, AsyncCounts, CallsNest
  <2>3. SyncRow'
    BY <1>12 DEF ProducerFinish, SyncRow, TypeOK, Mode, ProcessEvent, DoesProto, DoesPipe
  <2>4. AsyncCounts'
    BY <1>12 DEF ProducerFinish, AsyncCounts, SyncRow, TypeOK, CallsNest
  <2>5. CallsNest'
    BY <1>12 DEF ProducerFinish, CallsNest, TypeOK
  <2>6. Contents'
    BY <1>12 DEF ProducerFinish, Contents, AsyncCounts, CallsNest, TypeOK, SyncRow, Ring!Inv, Ring!ViewsAgree, Ring!TypeOK, Ring!Slot, Ring!AsWord
  <2>. QED BY <2>1, <2>2, <2>3, <2>4, <2>5, <2>6
<1>13. CASE WorkerReady
  <2>1. TypeOK'
    BY <1>13 DEF WorkerReady, Ring!Inv, TypeOK, Handshake, AtBoot
  <2>2. Handshake'
    BY <1>13 DEF WorkerReady, Handshake, AtBoot, SyncRow, TypeOK, AsyncCounts, CallsNest
  <2>3. SyncRow'
    BY <1>13 DEF WorkerReady, SyncRow, TypeOK, Mode, ProcessEvent, DoesProto, DoesPipe
  <2>4. AsyncCounts'
    BY <1>13 DEF WorkerReady, AsyncCounts, SyncRow, TypeOK, CallsNest
  <2>5. CallsNest'
    BY <1>13 DEF WorkerReady, CallsNest, TypeOK
  <2>6. Contents'
    BY <1>13 DEF WorkerReady, Contents, AsyncCounts, CallsNest, TypeOK, SyncRow, Ring!Inv, Ring!ViewsAgree, Ring!TypeOK, Ring!Slot, Ring!AsWord
  <2>. QED BY <2>1, <2>2, <2>3, <2>4, <2>5, <2>6
<1>14. CASE WorkerStart
  <2>1. TypeOK'
    BY <1>14 DEF WorkerStart, Ring!Inv, TypeOK
  <2>2. Handshake'
    BY <1>14 DEF WorkerStart, Handshake, AtBoot, SyncRow, TypeOK, AsyncCounts, CallsNest
  <2>3. SyncRow'
    BY <1>14 DEF WorkerStart, SyncRow, TypeOK, Mode, ProcessEvent, DoesProto, DoesPipe
  <2>4. AsyncCounts'
    BY <1>14 DEF WorkerStart, AsyncCounts, SyncRow, TypeOK, CallsNest
  <2>5. CallsNest'
    BY <1>14 DEF WorkerStart, CallsNest, TypeOK
  <2>6. Contents'
    BY <1>14 DEF WorkerStart, Contents, AsyncCounts, CallsNest, TypeOK, SyncRow, Ring!Inv, Ring!ViewsAgree, Ring!TypeOK, Ring!Slot, Ring!AsWord
  <2>. QED BY <2>1, <2>2, <2>3, <2>4, <2>5, <2>6
<1>15. CASE WorkerPopEmpty
  <2>1. TypeOK'
    BY <1>15 DEF WorkerPopEmpty, Ring!PopEmpty, Ring!producerVars, Ring!consumerVars, Ring!Inv, TypeOK
  <2>2. Handshake'
    BY <1>15 DEF WorkerPopEmpty, Ring!PopEmpty, Ring!producerVars, Ring!consumerVars, Handshake, AtBoot, SyncRow, TypeOK, AsyncCounts, CallsNest
  <2>3. SyncRow'
    BY <1>15 DEF WorkerPopEmpty, Ring!PopEmpty, Ring!producerVars, Ring!consumerVars, SyncRow, TypeOK, Mode, ProcessEvent, DoesProto, DoesPipe
  <2>4. AsyncCounts'
    BY <1>15 DEF WorkerPopEmpty, Ring!PopEmpty, Ring!producerVars, Ring!consumerVars, AsyncCounts, SyncRow, TypeOK, CallsNest
  <2>5. CallsNest'
    BY <1>15 DEF WorkerPopEmpty, Ring!PopEmpty, Ring!producerVars, Ring!consumerVars, CallsNest, TypeOK
  <2>6. Contents'
    BY <1>15 DEF WorkerPopEmpty, Ring!PopEmpty, Ring!producerVars, Ring!consumerVars, Contents, AsyncCounts, CallsNest, TypeOK, SyncRow, Ring!Inv, Ring!ViewsAgree, Ring!TypeOK, Ring!Slot, Ring!AsWord
  <2>. QED BY <2>1, <2>2, <2>3, <2>4, <2>5, <2>6
<1>16. CASE WorkerPopReserve
  <2>1. TypeOK'
    BY <1>16 DEF WorkerPopReserve, Ring!PopReserve, Ring!producerVars, Ring!consumerVars, Ring!Inv, TypeOK
  <2>2. Handshake'
    BY <1>16 DEF WorkerPopReserve, Ring!PopReserve, Ring!producerVars, Ring!consumerVars, Handshake, AtBoot, SyncRow, TypeOK, AsyncCounts, CallsNest
  <2>3. SyncRow'
    BY <1>16 DEF WorkerPopReserve, Ring!PopReserve, Ring!producerVars, Ring!consumerVars, SyncRow, TypeOK, Mode, ProcessEvent, DoesProto, DoesPipe
  <2>4. AsyncCounts'
    BY <1>16 DEF WorkerPopReserve, Ring!PopReserve, Ring!producerVars, Ring!consumerVars, AsyncCounts, SyncRow, TypeOK, CallsNest
  <2>5. CallsNest'
    BY <1>16 DEF WorkerPopReserve, Ring!PopReserve, Ring!producerVars, Ring!consumerVars, CallsNest, TypeOK
  <2>6. Contents'
    BY <1>16 DEF WorkerPopReserve, Ring!PopReserve, Ring!producerVars, Ring!consumerVars, Contents, AsyncCounts, CallsNest, TypeOK, SyncRow, Ring!Inv, Ring!ViewsAgree, Ring!TypeOK, Ring!Slot, Ring!AsWord
  <2>. QED BY <2>1, <2>2, <2>3, <2>4, <2>5, <2>6
<1>17. CASE WorkerPopRead
  <2>1. TypeOK'
    BY <1>17 DEF WorkerPopRead, Ring!PopRead, Ring!producerVars, Ring!consumerVars, Ring!Inv, TypeOK
  <2>2. Handshake'
    BY <1>17 DEF WorkerPopRead, Ring!PopRead, Ring!producerVars, Ring!consumerVars, Handshake, AtBoot, SyncRow, TypeOK, AsyncCounts, CallsNest
  <2>3. SyncRow'
    BY <1>17 DEF WorkerPopRead, Ring!PopRead, Ring!producerVars, Ring!consumerVars, SyncRow, TypeOK, Mode, ProcessEvent, DoesProto, DoesPipe
  <2>4. AsyncCounts'
    BY <1>17 DEF WorkerPopRead, Ring!PopRead, Ring!producerVars, Ring!consumerVars, AsyncCounts, SyncRow, TypeOK, CallsNest
  <2>5. CallsNest'
    BY <1>17 DEF WorkerPopRead, Ring!PopRead, Ring!producerVars, Ring!consumerVars, CallsNest, TypeOK
  <2>6. Contents'
    BY <1>17 DEF WorkerPopRead, Ring!PopRead, Ring!producerVars, Ring!consumerVars, Contents, AsyncCounts, CallsNest, TypeOK, SyncRow, Ring!Inv, Ring!ViewsAgree, Ring!TypeOK, Ring!Slot, Ring!AsWord
  <2>. QED BY <2>1, <2>2, <2>3, <2>4, <2>5, <2>6
<1>18. CASE WorkerPopRelease
  <2>1. TypeOK'
    BY <1>18 DEF WorkerPopRelease, Ring!PopRelease, Ring!producerVars, Ring!consumerVars, Ring!Inv, TypeOK
  <2>2. Handshake'
    BY <1>18 DEF WorkerPopRelease, Ring!PopRelease, Ring!producerVars, Ring!consumerVars, Handshake, AtBoot, SyncRow, TypeOK, AsyncCounts, CallsNest
  <2>3. SyncRow'
    BY <1>18 DEF WorkerPopRelease, Ring!PopRelease, Ring!producerVars, Ring!consumerVars, SyncRow, TypeOK, Mode, ProcessEvent, DoesProto, DoesPipe
  <2>4. AsyncCounts'
    BY <1>18 DEF WorkerPopRelease, Ring!PopRelease, Ring!producerVars, Ring!consumerVars, AsyncCounts, SyncRow, TypeOK, CallsNest
  <2>5. CallsNest'
    BY <1>18 DEF WorkerPopRelease, Ring!PopRelease, Ring!producerVars, Ring!consumerVars, CallsNest, TypeOK
  <2>6. Contents'
    <3>1. tail' = tail + 1 /\ tail' - 1 = tail /\ tail \in Nat /\ popPc' = "idle" /\ UNCHANGED <<entries, dropped, popValue, Ring!producerVars>>
      BY <1>18 DEF WorkerPopRelease, Ring!PopRelease, Ring!Inv, Ring!TypeOK
    <3>2. dropped = 0 => popValue = tail % PoolSize
      BY <1>18 DEF WorkerPopRelease, Ring!PopRelease, Contents
    <3>3. dropped = 0 => \A k \in tail' .. head - 1 : entries[Ring!Slot(k)] = k % PoolSize
      BY <3>1 DEF Contents, Ring!Inv, Ring!TypeOK
    <3>. QED BY <3>1, <3>2, <3>3 DEF Ring!producerVars, Contents, Ring!Slot, Ring!AsWord
  <2>. QED BY <2>1, <2>2, <2>3, <2>4, <2>5, <2>6
<1>19. CASE WorkerSeesDone
  <2>1. TypeOK'
    BY <1>19 DEF WorkerSeesDone, Ring!Inv, TypeOK
  <2>2. Handshake'
    BY <1>19 DEF WorkerSeesDone, Handshake, AtBoot, SyncRow, TypeOK, AsyncCounts, CallsNest
  <2>3. SyncRow'
    BY <1>19 DEF WorkerSeesDone, SyncRow, TypeOK, Mode, ProcessEvent, DoesProto, DoesPipe
  <2>4. AsyncCounts'
    BY <1>19 DEF WorkerSeesDone, AsyncCounts, SyncRow, TypeOK, CallsNest
  <2>5. CallsNest'
    BY <1>19 DEF WorkerSeesDone, CallsNest, TypeOK
  <2>6. Contents'
    BY <1>19 DEF WorkerSeesDone, Contents, AsyncCounts, CallsNest, TypeOK, SyncRow, Ring!Inv, Ring!ViewsAgree, Ring!TypeOK, Ring!Slot, Ring!AsWord
  <2>. QED BY <2>1, <2>2, <2>3, <2>4, <2>5, <2>6
<1>20. CASE WorkerSeesNotDone
  <2>1. TypeOK'
    BY <1>20 DEF WorkerSeesNotDone, Ring!Inv, TypeOK
  <2>2. Handshake'
    BY <1>20 DEF WorkerSeesNotDone, Handshake, AtBoot, SyncRow, TypeOK, AsyncCounts, CallsNest
  <2>3. SyncRow'
    BY <1>20 DEF WorkerSeesNotDone, SyncRow, TypeOK, Mode, ProcessEvent, DoesProto, DoesPipe
  <2>4. AsyncCounts'
    BY <1>20 DEF WorkerSeesNotDone, AsyncCounts, SyncRow, TypeOK, CallsNest
  <2>5. CallsNest'
    BY <1>20 DEF WorkerSeesNotDone, CallsNest, TypeOK
  <2>6. Contents'
    BY <1>20 DEF WorkerSeesNotDone, Contents, AsyncCounts, CallsNest, TypeOK, SyncRow, Ring!Inv, Ring!ViewsAgree, Ring!TypeOK, Ring!Slot, Ring!AsWord
  <2>. QED BY <2>1, <2>2, <2>3, <2>4, <2>5, <2>6
<1>21. CASE WorkerProcess
  <2>1. TypeOK'
    BY <1>21, ProcessEventType DEF WorkerProcess, Ring!Inv, TypeOK
  <2>2. Handshake'
    BY <1>21 DEF WorkerProcess, Handshake, AtBoot, SyncRow, TypeOK, AsyncCounts, CallsNest
  <2>3. SyncRow'
    BY <1>21 DEF WorkerProcess, SyncRow, TypeOK, Mode, ProcessEvent, DoesProto, DoesPipe
  <2>4. AsyncCounts'
    BY <1>21 DEF WorkerProcess, AsyncCounts, SyncRow, TypeOK, CallsNest, ProcessEvent, Mode, DoesProto, DoesPipe
  <2>5. CallsNest'
    BY <1>21 DEF WorkerProcess, CallsNest, TypeOK
  <2>6. Contents'
    BY <1>21 DEF WorkerProcess, Contents, AsyncCounts, CallsNest, TypeOK, SyncRow, Ring!Inv, Ring!ViewsAgree, Ring!TypeOK, Ring!Slot, Ring!AsWord
  <2>. QED BY <2>1, <2>2, <2>3, <2>4, <2>5, <2>6
<1>22. CASE UNCHANGED vars \/ Reported
  <2>. UNCHANGED <<ringVars, configVars, flagVars, hotVars, workerVars, pcVars>>
    BY <1>22 DEF vars, Reported
  <2>1. TypeOK'
    BY DEF TypeOK, Ring!Inv
  <2>2. Handshake'
    BY DEF Handshake, AtBoot
  <2>3. SyncRow'
    BY DEF SyncRow, ProcessEvent, DoesProto, DoesPipe
  <2>4. AsyncCounts'
    BY DEF AsyncCounts, ProcessEvent, DoesProto, DoesPipe
  <2>5. CallsNest'
    BY DEF CallsNest
  <2>6. Contents'
    BY DEF Contents, Ring!Slot, Ring!AsWord
  <2>. QED BY <2>1, <2>2, <2>3, <2>4, <2>5, <2>6
<1>. QED BY <1>1, <1>2, <1>3, <1>4, <1>5, <1>6, <1>7, <1>8, <1>9, <1>10, <1>11, <1>12, <1>13, <1>14, <1>15, <1>16, <1>17, <1>18, <1>19, <1>20, <1>21, <1>22 DEF Next, SyncRun, MainStep, ProducerStep, WorkerStep

\* The pipeline's inductive invariant holds, whatever the sizes and the interleaving.
THEOREM PipelineInvariance == Spec => []PipelineInv
  BY InvInit, InvStep, RingInv, PTL DEF Spec

-------------------------------------------------------------------------------
(* The properties *)

\* The variables keep their types.
THEOREM PipelineTyping == Spec => []TypeOK
<1>1. PipelineInv => TypeOK
  BY DEF PipelineInv
<1>. QED BY <1>1, PipelineInvariance, PTL

\* Neither thread measures before both are ready.
THEOREM CommonStart == Spec => []StartsTogether
<1>1. PipelineInv => StartsTogether
  BY DEF PipelineInv, TypeOK, Handshake, AtBoot, StartsTogether
<1>. QED BY <1>1, PipelineInvariance, PTL

\* The row written accounts for every attempted event, whether or not the ring overflowed.
THEOREM Accounting == Spec => []RowAccounting
<1>1. PipelineInv => RowAccounting
  <2>. SUFFICES ASSUME PipelineInv, mainPc = "reported"
       PROVE  /\ workerCompleted + dropped + (head - tail) = iterations
              /\ hotSamples = iterations - dropped
              /\ workerSamples = workerCompleted
              /\ workerChecksum = workerCompleted * ProcessEvent(mode)
    BY DEF RowAccounting
  <2>1. CASE mode = "sync_both"
    BY <2>1 DEF PipelineInv, SyncRow, TypeOK
  <2>2. CASE mode # "sync_both"
    BY <2>2 DEF PipelineInv, Handshake, AsyncCounts, TypeOK, Ring!TypeOK
  <2>. QED BY <2>1, <2>2
<1>. QED BY <1>1, PipelineInvariance, PTL

\* A row with at most QueueCapacity iterations never finds the ring full, however stale
\* the tail try_push reads: head - tail counts at most the events tried before this one.
THEOREM NothingDropped == ASSUME MaxIterations =< QueueCapacity PROVE Spec => []NoDrop
<1>. DEFINE Bounded == dropped = 0 /\ iterations =< MaxIterations
<1>1. Init => Bounded
  BY DEF Init, Accepts
<1>2. Bounded /\ PipelineInv /\ Ring!Inv /\ [Next]_vars => Bounded'
  <2>. SUFFICES ASSUME Bounded, PipelineInv, Ring!Inv, [Next]_vars PROVE Bounded'
    OBVIOUS
  <2>1. ~ProducerDrop
    <3>. SUFFICES ASSUME ProducerDrop PROVE FALSE
      OBVIOUS
    <3>1. PICK t \in tailSeen .. tail : Ring!PushIsFull(t)
      BY DEF ProducerDrop, Ring!PushReject
    <3>2. mode # "sync_both" /\ head = i /\ i < iterations
      BY DEF ProducerDrop, PipelineInv, SyncRow, AsyncCounts, TypeOK, Ring!TypeOK
    <3>3. t \in Nat /\ head \in Nat /\ t =< head /\ head - t < QueueCapacity
      BY <3>1, <3>2, PipelineAssumption DEF Ring!Inv, Ring!TypeOK, Ring!ViewsAgree, PipelineInv, TypeOK
    <3>4. RingProofs!Distance(head, t) = head - t
      BY <3>3, RingConstants, RingProofs!DistanceExact, PipelineAssumption
    <3>5. Ring!Distance(head, t) = head - t
      BY <3>4 DEF Ring!Distance, RingProofs!Distance, Ring!AsWord, RingProofs!AsWord
    <3>. QED BY <3>1, <3>3, <3>5 DEF Ring!PushIsFull
  <2>2. UNCHANGED <<dropped, iterations>>
    BY <2>1 DEF Next, SyncRun, SyncEncode, SyncReport, MainStep, MainStart, MainJoinProducer, MainReport, Reported,
       ProducerStep, ProducerReady, ProducerStart, ProducerReserve, ProducerWrite, ProducerPublish,
       ProducerFinish, WorkerStep, WorkerReady, WorkerStart, WorkerPopEmpty, WorkerPopReserve,
       WorkerPopRead, WorkerPopRelease, WorkerSeesDone, WorkerSeesNotDone, WorkerProcess, vars, hotVars, configVars
  <2>. QED BY <2>2
<1>3. Bounded => NoDrop
  BY DEF NoDrop
<1>. QED BY <1>1, <1>2, <1>3, PipelineInvariance, RingInv, PTL DEF Spec

\* The worker processes the events in production order, none skipped, repeated or overwritten.
THEOREM ProductionOrder == ASSUME MaxIterations =< QueueCapacity PROVE Spec => []InOrder
<1>1. PipelineInv /\ NoDrop => InOrder
  BY DEF PipelineInv, Contents, AsyncCounts, NoDrop, InOrder
<1>2. Spec => []NoDrop
  BY NothingDropped
<1>. QED BY <1>1, <1>2, PipelineInvariance, PTL

-------------------------------------------------------------------------------
(* The row's queue *)

\* What the two threads see of the ring inside a row: a bounded FIFO of the pool's event pointers.
RowQueue == INSTANCE HandoffQueue
    WITH Capacity <- QueueCapacity, Values <- Pool, queue <- Ring!Unread, handed <- popValue

\* A row hands its events over through a bounded FIFO: the ring's refinement carries over to every
\* row, as a row does to the ring nothing but try_push and pop.
THEOREM RowHandoff == Spec => RowQueue!Spec
<1>1. RingProofs!Spec => RingProofs!ImplementsQueue
  BY RingConstants, RingProofs!Refinement
<1>2. RingProofs!Unread = Ring!Unread
  BY DEF RingProofs!Unread, Ring!Unread, RingProofs!NextUnread, Ring!NextUnread, RingProofs!Slot, Ring!Slot,
     RingProofs!AsWord, Ring!AsWord
<1>3. RingProofs!Queue!Init => RowQueue!Init
  BY <1>2 DEF RingProofs!Queue!Init, RowQueue!Init
<1>4. [RingProofs!Queue!Next]_(RingProofs!Queue!vars) => [RowQueue!Next]_(RowQueue!vars)
  <2>1. (RingProofs!Unread = Ring!Unread)'
    BY <1>2, PTL
  <2>. QED BY <1>2, <2>1 DEF RingProofs!Queue!Next, RowQueue!Next, RingProofs!Queue!Enqueue, RowQueue!Enqueue,
     RingProofs!Queue!Dequeue, RowQueue!Dequeue, RingProofs!Queue!FindNothing, RowQueue!FindNothing,
     RingProofs!Queue!vars, RowQueue!vars
<1>. QED BY <1>1, <1>3, <1>4, RingUse, SameRing, PTL
         DEF RingProofs!ImplementsQueue, RingProofs!Queue!Spec, RowQueue!Spec

-------------------------------------------------------------------------------
(* Nobody waits for ever *)

\* The steps that get a thread further; a pop that finds nothing, and a worker that pops again, do not.
MainCanStep ==
    \/ mainPc = "sync"
    \/ mainPc = "await_ready" /\ ready = 0
    \/ mainPc = "join_producer" /\ producerPc = "exit"
    \/ mainPc = "join_worker" /\ workerPc = "exit"

ProducerCanStep ==
    \/ producerPc = "boot" /\ mainPc = "await_ready"
    \/ producerPc = "spin" /\ start
    \/ producerPc = "push"

WorkerCanStep ==
    \/ workerPc = "boot" /\ mainPc = "await_ready"
    \/ workerPc = "spin" /\ start
    \/ workerPc = "process"
    \/ workerPc = "pop" /\ (popPc # "idle" \/ tail # head)
    \/ workerPc = "check" /\ producerDone

\* The one wait of the worker that only it can end: it pops an empty ring nobody will push to
\* again, finds nothing and then reads producer_done.
LastPop == workerPc = "pop" /\ popPc = "idle" /\ tail = head /\ producerPc = "exit" /\ producerDone

NobodyStuck == mainPc # "reported" => MainCanStep \/ ProducerCanStep \/ WorkerCanStep \/ LastPop

\* Main leaves the latch by raising start, and the producer leaves its loop by raising its flag.
Flags ==
    /\ mode # "sync_both" /\ mainPc # "await_ready" => start
    /\ producerPc = "exit" => producerDone

\* They are down before the threads exist.
LEMMA FlagsInit == Init => Flags
<1>. QED BY DEF Init, Flags

\* A flag stays raised, and nobody leaves before it raised its own.
LEMMA FlagsStep == PipelineInv /\ Flags /\ [Next]_vars => Flags'
<1>. SUFFICES ASSUME PipelineInv, Flags, [Next]_vars PROVE Flags'
  OBVIOUS
<1>1. mode' = mode /\ (start => start')
  BY DEF Next, SyncRun, SyncEncode, SyncReport, MainStep, MainStart, MainJoinProducer, MainReport, Reported,
     ProducerStep, ProducerReady, ProducerStart, ProducerReserve, ProducerWrite, ProducerPublish,
     ProducerDrop, ProducerFinish, WorkerStep, WorkerReady, WorkerStart, WorkerPopEmpty, WorkerPopReserve,
     WorkerPopRead, WorkerPopRelease, WorkerSeesDone, WorkerSeesNotDone, WorkerProcess, vars, configVars, flagVars
<1>2. mode # "sync_both" /\ mainPc' # "await_ready" => mainPc # "await_ready" \/ start'
  BY DEF Next, SyncRun, SyncEncode, SyncReport, MainStep, MainStart, MainJoinProducer, MainReport, Reported,
     ProducerStep, ProducerReady, ProducerStart, ProducerReserve, ProducerWrite, ProducerPublish,
     ProducerDrop, ProducerFinish, WorkerStep, WorkerReady, WorkerStart, WorkerPopEmpty, WorkerPopReserve,
     WorkerPopRead, WorkerPopRelease, WorkerSeesDone, WorkerSeesNotDone, WorkerProcess, vars, pcVars
<1>3. (producerDone => producerDone') /\ (producerPc' = "exit" => producerPc = "exit" \/ producerDone')
  BY DEF Next, SyncRun, SyncEncode, SyncReport, MainStep, MainStart, MainJoinProducer, MainReport, Reported,
     ProducerStep, ProducerReady, ProducerStart, ProducerReserve, ProducerWrite, ProducerPublish,
     ProducerDrop, ProducerFinish, WorkerStep, WorkerReady, WorkerStart, WorkerPopEmpty, WorkerPopReserve,
     WorkerPopRead, WorkerPopRelease, WorkerSeesDone, WorkerSeesNotDone, WorkerProcess, vars, flagVars, pcVars
<1>. QED BY <1>1, <1>2, <1>3 DEF Flags

\* Until the row is written some thread can go on, and if it is only the worker that empties the
\* ring, its next pop is its last: neither the latch, nor the flags, nor a join leaves all waiting.
THEOREM NoDeadlock == Spec => []NobodyStuck
<1>1. PipelineInv /\ Flags => NobodyStuck
  <2>. SUFFICES ASSUME PipelineInv, Flags, mainPc # "reported"
                PROVE  MainCanStep \/ ProducerCanStep \/ WorkerCanStep \/ LastPop
    BY DEF NobodyStuck
  <2>1. CASE mode = "sync_both"
    BY <2>1 DEF PipelineInv, SyncRow, MainCanStep
  <2>2. CASE mode # "sync_both" /\ mainPc = "await_ready"
    BY <2>2 DEF PipelineInv, TypeOK, Handshake, AtBoot, MainCanStep, ProducerCanStep, WorkerCanStep
  <2>3. CASE mode # "sync_both" /\ mainPc # "await_ready"
    <3>1. /\ mainPc \in {"join_producer", "join_worker"} /\ start
          /\ producerPc \in {"spin", "push", "exit"} /\ workerPc \in {"spin", "pop", "check", "process", "exit"}
      BY <2>3 DEF PipelineInv, TypeOK, Handshake, AtBoot, SyncRow, Flags
    <3>2. CASE producerPc # "exit"
      BY <3>1, <3>2 DEF ProducerCanStep
    <3>3. CASE producerPc = "exit"
      BY <3>1, <3>3 DEF Flags, MainCanStep, WorkerCanStep, LastPop
    <3>. QED BY <3>2, <3>3
  <2>. QED BY <2>1, <2>2, <2>3
<1>. QED BY <1>1, FlagsInit, FlagsStep, PipelineInvariance, PTL DEF Spec

-------------------------------------------------------------------------------
(* Bounded work *)

MainLeft ==
    CASE mainPc = "await_ready" -> 3 [] mainPc = "join_producer" -> 2 [] mainPc = "join_worker" -> 1 [] OTHER -> 0

ThreadLeft(pc) == CASE pc = "boot" -> 3 [] pc = "spin" -> 2 [] pc = "exit" -> 0 [] OTHER -> 1

PushStage == CASE pushPc = "write" -> 1 [] pushPc = "publish" -> 2 [] OTHER -> 0

\* The worker handles an event in four steps: the three of pop and the encoding.
PopStage == CASE workerPc = "process" -> 3 [] popPc = "release" -> 2 [] popPc = "read" -> 1 [] OTHER -> 0

ProducerLeft == ThreadLeft(producerPc) + 3 * (iterations - i) - PushStage
WorkerLeft == ThreadLeft(workerPc) + 4 * (iterations - dropped - workerCompleted) - PopStage

\* The steps the row has still to take, polls apart.
StepsLeft ==
    IF mode = "sync_both"
    THEN IF mainPc = "sync" THEN iterations - i + 1 ELSE 0
    ELSE MainLeft + ProducerLeft + WorkerLeft

Polls == WorkerPopEmpty \/ WorkerSeesNotDone

\* A poll costs nothing; every other step leaves fewer to take.
OnlyPollsRepeat == [][IF Polls THEN StepsLeft' = StepsLeft ELSE StepsLeft' < StepsLeft]_vars

\* What is left is a number: the worker's events are those pushed or still to be pushed.
LEMMA LeftIsNat == PipelineInv /\ Ring!Inv => StepsLeft \in Nat
<1>. SUFFICES ASSUME PipelineInv, Ring!Inv PROVE StepsLeft \in Nat
  OBVIOUS
<1>1. CASE mode = "sync_both"
  BY <1>1 DEF PipelineInv, TypeOK, SyncRow, StepsLeft
<1>2. CASE mode # "sync_both"
  <2>1. /\ iterations \in Nat /\ i \in Nat /\ dropped \in Nat /\ workerCompleted \in Nat /\ head \in Nat /\ tail \in Nat
        /\ i =< iterations /\ i = head + dropped /\ tail = workerCompleted + IF workerPc = "process" THEN 1 ELSE 0
        /\ tail =< head /\ (popPc # "idle" => tail < head) /\ (pushPc # "idle" => i < iterations)
        /\ tail = workerCompleted \/ tail = workerCompleted + 1
    BY <1>2 DEF PipelineInv, TypeOK, AsyncCounts, CallsNest, Ring!Inv, Ring!TypeOK, Ring!ViewsAgree
  <2>2. MainLeft \in Nat /\ ThreadLeft(producerPc) \in Nat /\ ThreadLeft(workerPc) \in Nat
    BY DEF MainLeft, ThreadLeft
  <2>3. 3 * (iterations - i) - PushStage \in Nat
    BY <2>1 DEF PushStage
  <2>4. 4 * (iterations - dropped - workerCompleted) - PopStage \in Nat
    <3>1. CASE workerPc = "process"
      BY <2>1, <3>1 DEF PopStage
    <3>2. CASE workerPc # "process" /\ popPc # "idle"
      BY <2>1, <3>2 DEF PopStage
    <3>3. CASE workerPc # "process" /\ popPc = "idle"
      BY <2>1, <3>3 DEF PopStage
    <3>. QED BY <3>1, <3>2, <3>3
  <2>5. ProducerLeft \in Nat /\ WorkerLeft \in Nat
    <3>. DEFINE a == 3 * (iterations - i) - PushStage
                b == 4 * (iterations - dropped - workerCompleted) - PopStage
    <3>1. a \in Nat /\ b \in Nat
      BY <2>3, <2>4
    <3>2. /\ ProducerLeft = ThreadLeft(producerPc) + 3 * (iterations - i) - PushStage
          /\ WorkerLeft = ThreadLeft(workerPc) + 4 * (iterations - dropped - workerCompleted) - PopStage
      BY DEF ProducerLeft, WorkerLeft
    <3>3. PushStage \in Int /\ PopStage \in Int
      BY DEF PushStage, PopStage
    <3>. QED BY <2>1, <2>2, <3>1, <3>2, <3>3
  <2>. QED BY <1>2, <2>2, <2>5 DEF StepsLeft
<1>. QED BY <1>1, <1>2

\* A step changes one term of what is left, by one, or drops an event: the producer's three steps for
\* it and the worker's four are not to come.
LEMMA StepCounts ==
    PipelineInv /\ PipelineInv' /\ [Next]_vars =>
        IF Polls THEN StepsLeft' = StepsLeft ELSE StepsLeft' < StepsLeft \/ UNCHANGED vars
<1>. SUFFICES ASSUME PipelineInv, PipelineInv', [Next]_vars
              PROVE  IF Polls THEN StepsLeft' = StepsLeft ELSE StepsLeft' < StepsLeft \/ UNCHANGED vars
  OBVIOUS
<1>1. /\ iterations \in Int /\ i \in Int /\ dropped \in Int /\ workerCompleted \in Int /\ i =< iterations
      /\ mainPc \in {"sync", "await_ready", "join_producer", "join_worker", "reported"}
      /\ producerPc \in {"boot", "spin", "push", "exit"}
      /\ workerPc \in {"boot", "spin", "pop", "check", "process", "exit"}
      /\ pushPc \in {"idle", "write", "publish"} /\ popPc \in {"idle", "read", "release"}
      /\ popPc # "idle" => workerPc = "pop"
      /\ pushPc # "idle" => producerPc = "push"
  BY DEF PipelineInv, TypeOK, Ring!TypeOK, CallsNest, SyncRow, AsyncCounts
<1>2. mode = "sync_both" => mainPc \in {"sync", "reported"} /\ producerPc = "boot" /\ workerPc = "boot"
  BY DEF PipelineInv, SyncRow
<1>. USE DEF StepsLeft, MainLeft, ProducerLeft, WorkerLeft, ThreadLeft, PushStage, PopStage
<1>3. CASE SyncRun
  BY <1>1, <1>3 DEF SyncRun, SyncEncode, SyncReport, Polls, configVars, pcVars, WorkerPopEmpty, WorkerSeesNotDone,
     PipelineInv, SyncRow
<1>4. CASE MainStep
  BY <1>1, <1>2, <1>4 DEF MainStep, MainStart, MainJoinProducer, MainReport, ringVars, configVars, flagVars, hotVars,
     workerVars, Polls, WorkerPopEmpty, WorkerSeesNotDone
<1>5. ASSUME ProducerStep
      PROVE  StepsLeft' < StepsLeft /\ ~Polls
  <2>1. mode # "sync_both" /\ UNCHANGED <<iterations, mode, mainPc, workerPc, workerCompleted, popPc>>
    BY <1>2, <1>5 DEF ProducerStep, ProducerReady, ProducerStart, ProducerReserve, ProducerWrite, ProducerPublish,
       ProducerDrop, ProducerFinish, Ring!PushReserve, Ring!PushReject, Ring!PushWrite, Ring!PushPublish,
       ringVars, configVars, workerVars, pcVars, Ring!consumerVars
  <2>2. ~Polls
    BY <1>5, <2>1, <1>1 DEF Polls, WorkerPopEmpty, WorkerSeesNotDone
  <2>4. CASE ProducerReady \/ ProducerStart \/ ProducerFinish
    <3>1. /\ UNCHANGED <<i, dropped, pushPc>>
          /\ \/ producerPc = "boot" /\ producerPc' = "spin"
             \/ producerPc = "spin" /\ producerPc' = "push"
             \/ producerPc = "push" /\ producerPc' = "exit"
      BY <2>4 DEF ProducerReady, ProducerStart, ProducerFinish, ringVars, hotVars
    <3>. QED BY <1>1, <2>1, <2>2, <3>1
  <2>5. CASE ProducerReserve \/ ProducerWrite
    BY <1>1, <2>1, <2>2, <2>5 DEF ProducerReserve, ProducerWrite, Ring!PushReserve, Ring!PushWrite, hotVars, pcVars
  <2>6. CASE ProducerPublish
    BY <1>1, <2>1, <2>2, <2>6 DEF ProducerPublish, Ring!PushPublish, pcVars
  <2>7. CASE ProducerDrop
    BY <1>1, <2>1, <2>2, <2>7 DEF ProducerDrop, Ring!PushReject, pcVars
  <2>. QED BY <1>5, <2>4, <2>5, <2>6, <2>7 DEF ProducerStep
<1>6. CASE WorkerStep
  <2>1. mode # "sync_both" /\ UNCHANGED <<iterations, mode, mainPc, producerPc, i, dropped, pushPc>>
    BY <1>2, <1>6 DEF WorkerStep, WorkerReady, WorkerStart, WorkerPopEmpty, WorkerPopReserve, WorkerPopRead,
       WorkerPopRelease, WorkerSeesDone, WorkerSeesNotDone, WorkerProcess, Ring!PopEmpty, Ring!PopReserve,
       Ring!PopRead, Ring!PopRelease, ringVars, configVars, hotVars, pcVars, Ring!producerVars
  <2>2. CASE Polls
    BY <1>1, <2>1, <2>2 DEF Polls, WorkerPopEmpty, WorkerSeesNotDone, Ring!PopEmpty, workerVars, ringVars
  <2>3. CASE WorkerReady \/ WorkerStart \/ WorkerSeesDone
    BY <1>1, <2>1, <2>2, <2>3 DEF WorkerReady, WorkerStart, WorkerSeesDone, workerVars, ringVars
  <2>4. CASE WorkerPopReserve \/ WorkerPopRead
    BY <1>1, <2>1, <2>2, <2>4 DEF WorkerPopReserve, WorkerPopRead, Ring!PopReserve, Ring!PopRead, workerVars, pcVars
  <2>5. CASE WorkerPopRelease \/ WorkerProcess
    BY <1>1, <2>1, <2>2, <2>5 DEF WorkerPopRelease, WorkerProcess, Ring!PopRelease, workerVars, ringVars
  <2>. QED BY <1>6, <2>2, <2>3, <2>4, <2>5 DEF WorkerStep, Polls
<1>7. CASE Reported \/ UNCHANGED vars
  BY <1>1, <1>7 DEF Reported, Polls, WorkerPopEmpty, WorkerSeesNotDone, vars, pcVars, ringVars
<1>. QED BY <1>3, <1>4, <1>5, <1>6, <1>7 DEF Next

\* A row does a bounded amount of work, and only the worker's polls of a ring that looks empty come on
\* top of it: with NoDeadlock, what Termination needs of the scheduler is that these polls do not go on
\* for ever.
THEOREM BoundedWork == Spec => [](StepsLeft \in Nat) /\ OnlyPollsRepeat
<1>1. PipelineInv /\ PipelineInv' /\ [Next]_vars =>
        [IF Polls THEN StepsLeft' = StepsLeft ELSE StepsLeft' < StepsLeft]_vars
  BY StepCounts
<1>. QED BY <1>1, LeftIsNat, PipelineInvariance, RingInv, PTL DEF Spec, OnlyPollsRepeat
===============================================================================
