------------------------- MODULE KafkaProducerProofs -------------------------
(***************************************************************************)
(* Proofs about KafkaProducer, for any number of iterations, any number of *)
(* repetitions, any poll interval and any queue: through refusals, retries *)
(* and every way out of run, a message is enqueued once, a payload freed   *)
(* once, and a verdict counted once, in its own repetition's row.  Last,   *)
(* what is safety in Termination: all steps but fruitless turns of the     *)
(* retry loop lower a number.                                              *)
(***************************************************************************)
EXTENDS KafkaProducer, FiniteSetTheorems, TLAPS

-------------------------------------------------------------------------------
(* The inductive invariant *)

\* run is inside a repetition: between its reset and its row.
Inside == pc \in {"serialize", "produce", "refused", "next", "flush"}

Own(r) == {v \in verdicts : v.message.repetition = r}
Bad(S) == {v \in S : ~v.ok}

\* The loop counters are where pc says.
Loop ==
    /\ pc \notin {"done", "thrown"} => repetition =< Repetitions
    /\ pc \in {"serialize", "produce", "refused", "next"} => i < Iterations
    /\ pc = "flush" => i = Iterations
    /\ EnqueuedOnce

\* Only the running repetition has messages in flight, none of them has a verdict, and no
\* message has two or a number nobody has given out.
Numbered ==
    /\ IsFiniteSet(inflight) /\ IsFiniteSet(verdicts)
    /\ ~Inside => inflight = {} /\ unserved = {}
    /\ \A m \in inflight : m.repetition = repetition /\ m.number =< accepted
    /\ \A v \in verdicts :
        /\ v.message \notin inflight /\ v.message.repetition =< repetition
        /\ v.message.repetition = repetition => pc \notin {"start", "done"} /\ v.message.number =< accepted
    /\ \A v, w \in verdicts : v.message = w.message => v = w

\* The running repetition: what it sent is in flight or has its verdict, and the callback
\* has counted the bad ones of those it was handed.
Counted ==
    Inside =>
        /\ Cardinality(inflight) + Cardinality(Own(repetition)) = accepted
        /\ unserved \subseteq Own(repetition)
        /\ deliveryErrors = Cardinality(Bad(Own(repetition) \ unserved))

Rows == Len(rows) = repetition - 1 /\ RowErrorsExact

Owned ==
    /\ holding => mode = "owned" /\ pc = "produce"
    /\ pc = "produce" /\ mode = "owned" => holding
    /\ PayloadOwnership

Logged ==
    /\ \A v \in verdicts : v.ok /\ acks # "0" => v.message \in stored
    /\ \A m \in stored : \E v \in verdicts : v.message = m

Inv == TypeOK /\ Loop /\ Numbered /\ Counted /\ Rows /\ Owned /\ Logged

-------------------------------------------------------------------------------
(* Finite sets of verdicts *)

\* Every set of verdicts is finite, and so is what counts its bad ones.
LEMMA Finite ==
    ASSUME Inv
    PROVE  /\ IsFiniteSet(inflight) /\ Cardinality(inflight) \in Nat
           /\ unserved \in SUBSET verdicts
           /\ \A S \in SUBSET verdicts :
                /\ IsFiniteSet(S) /\ Cardinality(S) \in Nat
                /\ IsFiniteSet(Bad(S)) /\ Cardinality(Bad(S)) \in Nat
           /\ Outstanding \in Nat
<1>1. IsFiniteSet(inflight) /\ IsFiniteSet(verdicts) /\ unserved \in SUBSET verdicts
  BY DEF Inv, Numbered, TypeOK
<1>2. Cardinality(inflight) \in Nat
  BY <1>1, FS_CardinalityType
<1>3. ASSUME NEW S \in SUBSET verdicts
      PROVE  IsFiniteSet(S) /\ Cardinality(S) \in Nat
  <2>1. IsFiniteSet(S)
    BY <1>1, FS_Subset
  <2>. QED BY <2>1, FS_CardinalityType
<1>4. ASSUME NEW S \in SUBSET verdicts
      PROVE  Bad(S) \in SUBSET verdicts
  BY DEF Bad
<1>5. Outstanding \in Nat
  BY <1>1, <1>2, <1>3 DEF Outstanding
<1>. QED BY <1>1, <1>2, <1>3, <1>4, <1>5

\* The bad verdicts of a set are those handed over and those not handed over yet.
LEMMA BadSplit ==
    ASSUME NEW S, IsFiniteSet(S), NEW T \in SUBSET S
    PROVE  Cardinality(Bad(S)) = Cardinality(Bad(S \ T)) + Cardinality(Bad(T))
<1>1. IsFiniteSet(Bad(S)) /\ IsFiniteSet(Bad(S \ T)) /\ IsFiniteSet(Bad(T))
  <2>1. Bad(S) \in SUBSET S /\ Bad(S \ T) \in SUBSET S /\ Bad(T) \in SUBSET S
    BY DEF Bad
  <2>. QED BY <2>1, FS_Subset
<1>2. Bad(S) = Bad(S \ T) \cup Bad(T) /\ Bad(S \ T) \cap Bad(T) = {}
  BY DEF Bad
<1>3. Cardinality(Bad(S \ T) \cup Bad(T)) =
        Cardinality(Bad(S \ T)) + Cardinality(Bad(T)) - Cardinality(Bad(S \ T) \cap Bad(T))
  BY <1>1, FS_Union
<1>4. Cardinality(Bad(S \ T)) \in Nat /\ Cardinality(Bad(T)) \in Nat
  BY <1>1, FS_CardinalityType
<1>5. Cardinality({}) = 0
  BY FS_EmptySet
<1>6. Cardinality(Bad(S \ T) \cap Bad(T)) = 0
  BY <1>2, <1>5
<1>7. Cardinality(Bad(S)) = Cardinality(Bad(S \ T)) + Cardinality(Bad(T)) - 0
  BY <1>2, <1>3, <1>6
<1>. QED BY <1>4, <1>7

\* A repetition's row counts a set of verdicts that no later step touches.
LEMMA RowsStay ==
    ASSUME Inv, rows' = rows, repetition' = repetition,
           \A r \in 1 .. Len(rows) : Own(r)' = Own(r)
    PROVE  Rows'
<1>1. \A r \in 1 .. Len(rows) :
        {v \in verdicts' : v.message.repetition = r} = {v \in verdicts : v.message.repetition = r}
  BY DEF Own
<1>2. DOMAIN rows = 1 .. Len(rows)
  BY DEF Inv, TypeOK
<1>. QED BY <1>1, <1>2 DEF Inv, Rows, RowErrorsExact

-------------------------------------------------------------------------------
(* What several steps have in common *)

\* Nothing is held, sent or counted before the first repetition.
LEMMA InitInv == Init => Inv
<1>. SUFFICES ASSUME Init PROVE Inv
  OBVIOUS
<1>. USE ProducerAssumption DEF Init
<1>1. IsFiniteSet({}) /\ Cardinality({}) = 0
  BY FS_EmptySet
<1>2. Outstanding = 0
  BY <1>1 DEF Outstanding
<1>3. TypeOK
  <2>1. /\ repetition \in 1 .. Repetitions + 1 /\ i \in 0 .. Iterations /\ accepted \in 0 .. Iterations
        /\ rows \in Seq(Nat) /\ deliveryErrors \in Nat /\ live \in Nat
    OBVIOUS
  <2>2. holding \in BOOLEAN
    OBVIOUS
  <2>. QED BY <2>1, <2>2 DEF TypeOK
<1>4. Loop
  BY DEF Loop, EnqueuedOnce
<1>5. Numbered /\ Counted
  BY <1>1 DEF Numbered, Counted, Inside
<1>6. Rows
  BY DEF Rows, RowErrorsExact
<1>7. Owned
  BY <1>2 DEF Owned, PayloadOwnership
<1>8. Logged
  BY DEF Logged
<1>. QED BY <1>3, <1>4, <1>5, <1>6, <1>7, <1>8 DEF Inv

\* A step inside a repetition that leaves librdkafka and the counter alone.
LEMMA QuietInv ==
    ASSUME Inv, Inside, Inside', Loop', Owned',
           i' \in 0 .. Iterations, lastError' \in {"none", "queue_full", "other"},
           holding' \in BOOLEAN, live' \in Nat,
           UNCHANGED <<configVars, repetition, deliveryErrors, rows, kafkaVars>>
    PROVE  Inv'
<1>. USE DEF configVars, kafkaVars
<1>1. TypeOK'
  BY DEF Inv, TypeOK, Inside
<1>2. \A r : Own(r)' = Own(r)
  BY DEF Own
<1>3. Numbered'
  BY DEF Inv, Numbered, Inside
<1>4. Counted'
  BY <1>2 DEF Inv, Counted, Bad
<1>5. Rows'
  BY <1>2, RowsStay
<1>6. Logged'
  BY DEF Inv, Logged
<1>. QED BY <1>1, <1>3, <1>4, <1>5, <1>6 DEF Inv

\* Handing over the verdicts counts the bad ones and frees their payloads, once each.
LEMMA ServeInv ==
    ASSUME Inv, Inside, Inside', pc # "produce", pc' # "produce", Loop', ServeReports,
           i' \in 0 .. Iterations,
           UNCHANGED <<configVars, repetition, holding, lastError, rows>>
    PROVE  Inv'
<1>. USE DEF configVars
<1>1. UNCHANGED <<accepted, inflight, verdicts, stored>> /\ unserved' = {}
  BY DEF ServeReports
<1>2. /\ Cardinality(unserved) \in Nat /\ Cardinality(inflight) \in Nat
      /\ IsFiniteSet(Own(repetition)) /\ unserved \in SUBSET Own(repetition)
      /\ Cardinality(Bad(Own(repetition) \ unserved)) \in Nat /\ Cardinality(Bad(unserved)) \in Nat
  <2>1. Own(repetition) \in SUBSET verdicts /\ Own(repetition) \ unserved \in SUBSET verdicts
    BY DEF Own
  <2>. QED BY <2>1, Finite DEF Inv, Counted
<1>3. deliveryErrors' = Cardinality(Bad(Own(repetition))) /\ deliveryErrors' \in Nat
  <2>1. deliveryErrors' = deliveryErrors + Cardinality(Bad(unserved))
    BY DEF ServeReports, Bad
  <2>2. deliveryErrors = Cardinality(Bad(Own(repetition) \ unserved))
    BY DEF Inv, Counted
  <2>3. Cardinality(Bad(Own(repetition))) = Cardinality(Bad(Own(repetition) \ unserved)) + Cardinality(Bad(unserved))
    BY <1>2, BadSplit
  <2>. QED BY <1>2, <2>1, <2>2, <2>3
<1>4. \A r : Own(r)' = Own(r)
  BY <1>1 DEF Own
<1>5. Owned' /\ live' \in Nat
  <2>1. ~holding /\ ~holding' /\ pc' \notin {"done", "thrown"}
    BY DEF Inv, Owned, Inside
  <2>2. live = (IF mode = "owned" THEN Cardinality(inflight) + Cardinality(unserved) ELSE 0)
    BY <1>2, <2>1 DEF Inv, Owned, PayloadOwnership, Outstanding
  <2>3. Outstanding' = Cardinality(inflight)
    BY <1>1, <1>2, FS_EmptySet DEF Outstanding
  <2>4. live' = (IF mode = "owned" THEN Cardinality(inflight) ELSE 0)
    BY <1>2, <2>2 DEF ServeReports
  <2>. QED BY <1>2, <2>1, <2>3, <2>4 DEF Owned, PayloadOwnership
<1>6. TypeOK'
  BY <1>1, <1>3, <1>5 DEF Inv, TypeOK, Inside
<1>7. Numbered'
  BY <1>1 DEF Inv, Numbered, Inside
<1>8. Counted'
  <2>1. Own(repetition)' = Own(repetition)
    BY <1>1 DEF Own
  <2>2. Bad(Own(repetition) \ unserved)' = Bad(Own(repetition))
    BY <1>1, <2>1 DEF Bad
  <2>3. Cardinality(inflight') + Cardinality(Own(repetition)') = accepted'
    BY <1>1, <2>1 DEF Inv, Counted
  <2>4. unserved' \subseteq Own(repetition)'
    BY <1>1
  <2>. QED BY <1>3, <2>2, <2>3, <2>4 DEF Counted
<1>9. Rows'
  BY <1>4, RowsStay
<1>10. Logged'
  BY <1>1 DEF Inv, Logged
<1>. QED BY <1>5, <1>6, <1>7, <1>8, <1>9, <1>10 DEF Inv

\* Whatever makes run throw, librdkafka gives up the payloads it still owns.
LEMMA ThrowInv ==
    ASSUME Inv, Inside, pc # "produce", pc' = "thrown", DestroyProducer,
           UNCHANGED <<configVars, repetition, i, holding, lastError, deliveryErrors, rows>>
    PROVE  Inv'
<1>. USE DEF configVars
<1>1. inflight' = {} /\ unserved' = {} /\ UNCHANGED <<accepted, verdicts, stored>>
  BY DEF DestroyProducer
<1>2. IsFiniteSet({}) /\ Cardinality({}) = 0 /\ Outstanding \in Nat
  BY Finite, FS_EmptySet
<1>3. Owned' /\ live' = 0
  <2>1. ~holding /\ ~holding'
    BY DEF Inv, Owned
  <2>2. live = IF mode = "owned" THEN Outstanding ELSE 0
    BY <1>2, <2>1 DEF Inv, Owned, PayloadOwnership
  <2>3. live' = 0
    BY <1>2, <2>2 DEF DestroyProducer
  <2>4. Outstanding' = 0
    BY <1>1, <1>2 DEF Outstanding
  <2>. QED BY <2>1, <2>3, <2>4 DEF Owned, PayloadOwnership
<1>4. TypeOK'
  BY <1>1, <1>3 DEF Inv, TypeOK
<1>5. Loop'
  BY DEF Loop, EnqueuedOnce
<1>6. Numbered' /\ Counted'
  BY <1>1, <1>2 DEF Inv, Numbered, Counted, Inside
<1>7. \A r : Own(r)' = Own(r)
  BY <1>1 DEF Own
<1>8. Rows'
  BY <1>7, RowsStay
<1>9. Logged'
  BY <1>1 DEF Inv, Logged
<1>. QED BY <1>3, <1>4, <1>5, <1>6, <1>8, <1>9 DEF Inv

-------------------------------------------------------------------------------
(* The steps of run *)

\* A repetition begins with no message in flight and none of its own settled.
LEMMA StartInv == Inv /\ StartRepetition => Inv'
<1>. SUFFICES ASSUME Inv, StartRepetition PROVE Inv'
  OBVIOUS
<1>. USE ProducerAssumption DEF configVars
<1>1. /\ pc = "start" /\ pc' = "serialize" /\ deliveryErrors' = 0 /\ i' = 0 /\ accepted' = 0
      /\ UNCHANGED <<configVars, repetition, holding, lastError, rows, live, inflight, verdicts, unserved, stored>>
  BY DEF StartRepetition
<1>2. inflight = {} /\ unserved = {} /\ \A v \in verdicts : v.message.repetition # repetition
  BY <1>1 DEF Inv, Numbered, Inside
<1>3. Own(repetition) = {} /\ IsFiniteSet({}) /\ Cardinality({}) = 0
  BY <1>2, FS_EmptySet DEF Own
<1>4. \A r : Own(r)' = Own(r)
  BY <1>1 DEF Own
<1>5. TypeOK'
  BY <1>1 DEF Inv, TypeOK
<1>6. Loop'
  BY <1>1 DEF Inv, Loop, EnqueuedOnce
<1>7. Numbered'
  BY <1>1, <1>2 DEF Inv, Numbered, Inside
<1>8. Counted'
  <2>1. Own(repetition)' = {} /\ Bad(Own(repetition) \ unserved)' = {}
    BY <1>1, <1>2, <1>3 DEF Own, Bad
  <2>. QED BY <1>1, <1>2, <1>3, <2>1 DEF Counted
<1>9. Rows'
  BY <1>1, <1>4, RowsStay
<1>10. Owned'
  BY <1>1 DEF Inv, Owned, PayloadOwnership, Outstanding
<1>11. Logged'
  BY <1>1 DEF Inv, Logged
<1>. QED BY <1>5, <1>6, <1>7, <1>8, <1>9, <1>10, <1>11 DEF Inv

\* A payload is malloc'ed when its predecessor has an owner or is freed.
LEMMA SerializeInv == Inv /\ Serialize => Inv'
<1>. SUFFICES ASSUME Inv, Serialize PROVE Inv'
  OBVIOUS
<1>1. /\ pc = "serialize" /\ pc' = "produce" /\ holding' = (mode = "owned")
      /\ live' = IF mode = "owned" THEN live + 1 ELSE live
      /\ UNCHANGED <<configVars, repetition, i, lastError, deliveryErrors, rows, kafkaVars>>
  BY DEF Serialize
<1>2. Inside /\ Inside'
  BY <1>1 DEF Inside
<1>3. Loop'
  BY <1>1 DEF Inv, Loop, EnqueuedOnce, kafkaVars
<1>4. ~holding /\ Outstanding \in Nat /\ Outstanding' = Outstanding
  BY <1>1, Finite DEF Inv, Owned, Outstanding, kafkaVars
<1>5. live = IF mode = "owned" THEN Outstanding ELSE 0
  BY <1>4 DEF Inv, Owned, PayloadOwnership
<1>6. Owned' /\ live' \in Nat
  <2>1. mode' = mode /\ pc' = "produce" /\ (mode = "owned" => holding') /\ (mode # "owned" => ~holding')
    BY <1>1 DEF configVars
  <2>2. live' = IF mode = "owned" THEN 1 + Outstanding ELSE 0
    BY <1>1, <1>4, <1>5
  <2>3. live' = (IF holding' THEN 1 ELSE 0) + (IF mode' = "owned" THEN Outstanding' ELSE 0)
    BY <1>4, <2>1, <2>2
  <2>4. live' \in Nat
    BY <1>4, <2>2
  <2>. QED BY <2>1, <2>3, <2>4 DEF Owned, PayloadOwnership
<1>7. i' \in 0 .. Iterations /\ lastError' \in {"none", "queue_full", "other"}
  BY <1>1 DEF Inv, TypeOK
<1>8. holding' \in BOOLEAN
  BY <1>1
<1>. QED BY <1>1, <1>2, <1>3, <1>6, <1>7, <1>8, QuietInv

\* The accepted message is one that was never sent, and its payload changes hands.
LEMMA AcceptsInv == Inv /\ ProduceAccepts => Inv'
<1>. SUFFICES ASSUME Inv, ProduceAccepts PROVE Inv'
  OBVIOUS
<1>. USE ProducerAssumption DEF configVars
<1>. DEFINE m == [repetition |-> repetition, number |-> accepted + 1]
<1>1. /\ pc = "produce" /\ pc' = "next" /\ accepted' = accepted + 1 /\ inflight' = inflight \cup {m}
      /\ holding' = FALSE /\ lastError' = "none"
      /\ UNCHANGED <<configVars, repetition, i, live, deliveryErrors, rows, verdicts, unserved, stored>>
  BY DEF ProduceAccepts
<1>2. /\ i \in 0 .. Iterations /\ i < Iterations /\ accepted = i
      /\ repetition \in 1 .. Repetitions + 1 /\ repetition =< Repetitions
  BY <1>1 DEF Inv, TypeOK, Loop, EnqueuedOnce
<1>3. m \in Message /\ m.repetition = repetition /\ m.number = accepted + 1
  BY <1>2 DEF Message
<1>4. m \notin inflight /\ \A v \in verdicts : v.message # m
  BY <1>1, <1>2, <1>3 DEF Inv, Numbered
<1>. HIDE DEF m
<1>5. /\ IsFiniteSet(inflight') /\ Cardinality(inflight') = Cardinality(inflight) + 1
      /\ Cardinality(inflight) \in Nat /\ Cardinality(unserved) \in Nat
  BY <1>1, <1>4, Finite, FS_AddElement
<1>6. TypeOK'
  <2>1. inflight' \subseteq Message /\ accepted' \in 0 .. Iterations
    BY <1>1, <1>2, <1>3 DEF Inv, TypeOK
  <2>2. holding' \in BOOLEAN
    BY <1>1
  <2>. QED BY <1>1, <2>1, <2>2 DEF Inv, TypeOK
<1>7. Loop'
  BY <1>1, <1>2 DEF Loop, EnqueuedOnce
<1>8. Numbered'
  <2>1. \A n \in inflight' : n.repetition = repetition' /\ n.number =< accepted'
    <3>1. \A n \in inflight : n.number \in Nat
      BY DEF Inv, TypeOK, Message
    <3>. QED BY <1>1, <1>2, <1>3, <3>1 DEF Inv, Numbered
  <2>2. ASSUME NEW v \in verdicts'
        PROVE  /\ v.message \notin inflight' /\ v.message.repetition =< repetition'
               /\ v.message.repetition = repetition' => v.message.number =< accepted'
    <3>1. v \in verdicts /\ v.message \in Message
      BY <1>1, <2>2 DEF Inv, TypeOK, Verdict
    <3>2. v.message.number \in Nat
      BY <3>1 DEF Message
    <3>. QED BY <1>1, <1>2, <1>4, <3>1, <3>2 DEF Inv, Numbered
  <2>3. IsFiniteSet(verdicts') /\ \A v, w \in verdicts' : v.message = w.message => v = w
    BY <1>1 DEF Inv, Numbered
  <2>4. Inside' /\ pc' \notin {"start", "done"}
    BY <1>1 DEF Inside
  <2>. QED BY <1>5, <2>1, <2>2, <2>3, <2>4 DEF Numbered
<1>9. Counted'
  <2>1. Own(repetition)' = Own(repetition) /\ Bad(Own(repetition) \ unserved)' = Bad(Own(repetition) \ unserved)
    BY <1>1 DEF Own, Bad
  <2>2. /\ Cardinality(inflight) + Cardinality(Own(repetition)) = accepted
        /\ unserved \subseteq Own(repetition)
        /\ deliveryErrors = Cardinality(Bad(Own(repetition) \ unserved))
    BY <1>1 DEF Inv, Counted, Inside
  <2>3. Cardinality(Own(repetition)) \in Nat
    BY Finite DEF Own
  <2>4. Cardinality(inflight') + Cardinality(Own(repetition)') = accepted'
    BY <1>1, <1>5, <2>1, <2>2, <2>3
  <2>. QED BY <1>1, <2>1, <2>2, <2>4 DEF Counted
<1>10. \A r : Own(r)' = Own(r)
  BY <1>1 DEF Own
<1>11. Rows'
  BY <1>1, <1>10, RowsStay
<1>12. Owned'
  <2>1. (mode = "owned" => holding) /\ (mode # "owned" => ~holding)
    BY <1>1 DEF Inv, Owned
  <2>2. Outstanding' = Outstanding + 1 /\ Outstanding \in Nat
    BY <1>1, <1>5 DEF Outstanding
  <2>3. live = (IF holding THEN 1 ELSE 0) + (IF mode = "owned" THEN Outstanding ELSE 0)
    BY DEF Inv, Owned, PayloadOwnership
  <2>4. live' = IF mode' = "owned" THEN Outstanding' ELSE 0
    <3>1. CASE mode = "owned"
      BY <1>1, <2>1, <2>2, <2>3, <3>1
    <3>2. CASE mode # "owned"
      BY <1>1, <2>1, <2>3, <3>2
    <3>. QED BY <3>1, <3>2
  <2>5. Outstanding' \in Nat
    BY <2>2
  <2>6. ~holding' /\ pc' = "next"
    BY <1>1
  <2>7. live' = (IF holding' THEN 1 ELSE 0) + (IF mode' = "owned" THEN Outstanding' ELSE 0)
    <3>1. (IF holding' THEN 1 ELSE 0) = 0
      BY <2>6
    <3>2. CASE mode' = "owned"
      <4>1. live' = Outstanding + 1 /\ Outstanding' = Outstanding + 1
        BY <2>2, <2>4, <3>2
      <4>. QED BY <2>2, <3>1, <3>2, <4>1
    <3>3. CASE mode' # "owned"
      BY <2>4, <3>1, <3>3
    <3>. QED BY <3>2, <3>3
  <2>. QED BY <2>6, <2>7 DEF Owned, PayloadOwnership
<1>13. Logged'
  BY <1>1 DEF Inv, Logged
<1>. QED BY <1>6, <1>7, <1>8, <1>9, <1>11, <1>12, <1>13 DEF Inv

\* The payload of a refused message is freed by the application, which still owns it.
LEMMA RefusesInv ==
    ASSUME NEW error \in {"queue_full", "other"} PROVE Inv /\ ProduceRefuses(error) => Inv'
<1>. SUFFICES ASSUME Inv, ProduceRefuses(error) PROVE Inv'
  OBVIOUS
<1>1. /\ pc = "produce" /\ pc' = "refused" /\ holding' = FALSE /\ lastError' = error
      /\ live' = IF holding THEN live - 1 ELSE live
      /\ UNCHANGED <<configVars, repetition, i, deliveryErrors, rows, kafkaVars>>
  BY DEF ProduceRefuses
<1>2. Inside /\ Inside'
  BY <1>1 DEF Inside
<1>3. Loop'
  BY <1>1 DEF Inv, Loop, EnqueuedOnce, kafkaVars
<1>4. Outstanding \in Nat /\ Outstanding' = Outstanding
  BY <1>1, Finite DEF Outstanding, kafkaVars
<1>5. live' = IF mode = "owned" THEN Outstanding ELSE 0
  <2>1. live = (IF holding THEN 1 ELSE 0) + (IF mode = "owned" THEN Outstanding ELSE 0)
    BY DEF Inv, Owned, PayloadOwnership
  <2>2. CASE holding
    BY <1>1, <1>4, <2>1, <2>2
  <2>3. CASE ~holding
    BY <1>1, <1>4, <2>1, <2>3
  <2>. QED BY <2>2, <2>3
<1>6. Owned' /\ live' \in Nat
  BY <1>1, <1>4, <1>5 DEF Owned, PayloadOwnership, configVars
<1>7. i' \in 0 .. Iterations /\ lastError' \in {"none", "queue_full", "other"}
  BY <1>1 DEF Inv, TypeOK
<1>8. holding' \in BOOLEAN
  BY <1>1
<1>. QED BY <1>1, <1>2, <1>3, <1>6, <1>7, <1>8, QuietInv

\* A retry goes back to encoding with the refused message still to be sent.
LEMMA RetryInv == Inv /\ Retry => Inv'
<1>. SUFFICES ASSUME Inv, Retry PROVE Inv'
  OBVIOUS
<1>1. /\ pc = "refused" /\ pc' = "serialize" /\ ServeReports
      /\ UNCHANGED <<configVars, repetition, i, holding, lastError, rows>>
  BY DEF Retry
<1>2. Inside /\ Inside' /\ accepted' = accepted
  BY <1>1 DEF Inside, ServeReports
<1>3. Loop'
  BY <1>1, <1>2 DEF Inv, Loop, EnqueuedOnce
<1>4. i' \in 0 .. Iterations
  BY <1>1 DEF Inv, TypeOK
<1>. QED BY <1>1, <1>2, <1>3, <1>4, ServeInv

\* The loop goes on, with or without a poll, until every iteration is enqueued.
LEMMA NextInv == Inv /\ NextIteration => Inv'
<1>. SUFFICES ASSUME Inv, NextIteration PROVE Inv'
  OBVIOUS
<1>. USE ProducerAssumption
<1>1. /\ pc = "next" /\ i' = i + 1 /\ pc' = IF i + 1 < Iterations THEN "serialize" ELSE "flush"
      /\ UNCHANGED <<configVars, repetition, holding, lastError, rows>>
      /\ ServeReports \/ UNCHANGED <<deliveryErrors, live, kafkaVars>>
  BY DEF NextIteration
<1>2. Inside /\ Inside' /\ accepted' = accepted
  BY <1>1 DEF Inside, ServeReports, kafkaVars
<1>3. i \in 0 .. Iterations /\ i < Iterations /\ accepted = i + 1
  BY <1>1 DEF Inv, TypeOK, Loop, EnqueuedOnce
<1>4. i' \in 0 .. Iterations
  BY <1>1, <1>3
<1>5. Loop'
  BY <1>1, <1>2, <1>3 DEF Inv, Loop, EnqueuedOnce
<1>6. CASE ServeReports
  BY <1>1, <1>2, <1>4, <1>5, <1>6, ServeInv
<1>7. CASE UNCHANGED <<deliveryErrors, live, kafkaVars>>
  <2>1. ~holding /\ ~holding' /\ pc' \notin {"done", "thrown"} /\ Outstanding' = Outstanding
    BY <1>1, <1>7 DEF Inv, Owned, Outstanding, kafkaVars
  <2>2. Owned'
    BY <1>1, <1>7, <2>1 DEF Inv, Owned, PayloadOwnership, configVars
  <2>3. lastError' \in {"none", "queue_full", "other"} /\ live' \in Nat
    BY <1>1, <1>7 DEF Inv, TypeOK
  <2>4. holding' \in BOOLEAN
    BY <1>1 DEF Inv, TypeOK
  <2>. QED BY <1>1, <1>2, <1>4, <1>5, <1>7, <2>2, <2>3, <2>4, QuietInv
<1>. QED BY <1>1, <1>6, <1>7

\* The flush hands over what came in, and the loop is over.
LEMMA FlushServesInv == Inv /\ FlushServes => Inv'
<1>. SUFFICES ASSUME Inv, FlushServes PROVE Inv'
  OBVIOUS
<1>1. /\ pc = "flush" /\ pc' = "flush" /\ ServeReports
      /\ UNCHANGED <<configVars, repetition, i, holding, lastError, rows>>
  BY DEF FlushServes
<1>2. Inside /\ Inside' /\ accepted' = accepted
  BY <1>1 DEF Inside, ServeReports
<1>3. Loop'
  BY <1>1, <1>2 DEF Inv, Loop, EnqueuedOnce
<1>4. i' \in 0 .. Iterations
  BY <1>1 DEF Inv, TypeOK
<1>. QED BY <1>1, <1>2, <1>3, <1>4, ServeInv

\* A row is written when nothing is outstanding: every message of the repetition has its verdict.
LEMMA FlushDoneInv == Inv /\ FlushDone => Inv'
<1>. SUFFICES ASSUME Inv, FlushDone PROVE Inv'
  OBVIOUS
<1>. USE ProducerAssumption DEF configVars, kafkaVars
<1>1. /\ pc = "flush" /\ Outstanding = 0 /\ rows' = Append(rows, deliveryErrors)
      /\ repetition' = repetition + 1
      /\ pc' = IF repetition < Repetitions THEN "start" ELSE "done"
      /\ UNCHANGED <<configVars, i, holding, lastError, deliveryErrors, live, kafkaVars>>
  BY DEF FlushDone
<1>2. /\ repetition \in 1 .. Repetitions + 1 /\ repetition =< Repetitions /\ accepted = Iterations
      /\ rows \in Seq(Nat) /\ deliveryErrors \in Nat
  BY <1>1 DEF Inv, TypeOK, Loop, EnqueuedOnce
<1>3. inflight = {} /\ unserved = {}
  <2>1. /\ IsFiniteSet(inflight) /\ IsFiniteSet(unserved)
        /\ Cardinality(inflight) \in Nat /\ Cardinality(unserved) \in Nat
    BY Finite
  <2>2. Cardinality(inflight) = 0 /\ Cardinality(unserved) = 0
    BY <1>1, <2>1 DEF Outstanding
  <2>. QED BY <2>1, <2>2, FS_EmptySet
<1>4. Cardinality(Own(repetition)) = Iterations /\ deliveryErrors = Cardinality(Bad(Own(repetition)))
  <2>1. /\ Cardinality(inflight) + Cardinality(Own(repetition)) = accepted
        /\ deliveryErrors = Cardinality(Bad(Own(repetition) \ unserved))
    BY <1>1 DEF Inv, Counted, Inside
  <2>2. Cardinality(inflight) = 0 /\ Own(repetition) \ unserved = Own(repetition)
    BY <1>3, FS_EmptySet
  <2>3. Cardinality(Own(repetition)) \in Nat
    BY Finite DEF Own
  <2>4. Cardinality(Own(repetition)) = Iterations
    BY <1>2, <2>1, <2>2, <2>3
  <2>5. deliveryErrors = Cardinality(Bad(Own(repetition)))
    BY <2>1, <2>2
  <2>. QED BY <2>4, <2>5
<1>5. pc' \in {"start", "done"} /\ ~Inside'
  BY <1>1 DEF Inside
<1>6. TypeOK'
  BY <1>1, <1>2 DEF Inv, TypeOK
<1>7. Loop'
  BY <1>1, <1>2 DEF Loop, EnqueuedOnce
<1>8. Numbered'
  <2>1. \A v \in verdicts : v.message.repetition \in Nat
    BY DEF Inv, TypeOK, Verdict, Message
  <2>2. \A v \in verdicts : v.message.repetition =< repetition' /\ v.message.repetition # repetition'
    BY <1>1, <1>2, <2>1 DEF Inv, Numbered
  <2>. QED BY <1>1, <1>3, <1>5, <2>2 DEF Inv, Numbered
<1>9. Counted'
  BY <1>5 DEF Counted
<1>10. Rows'
  <2>1. Len(rows) = repetition - 1 /\ Len(rows') = repetition
    BY <1>1, <1>2 DEF Inv, Rows
  <2>2. ASSUME NEW r \in DOMAIN rows'
        PROVE  Cardinality(Own(r)) = Iterations /\ rows'[r] = Cardinality(Bad(Own(r)))
    <3>1. r \in 1 .. repetition
      BY <1>1, <1>2, <2>1, <2>2
    <3>2. CASE r = repetition
      BY <1>1, <1>2, <1>4, <2>1, <3>2
    <3>3. CASE r # repetition
      <4>1. r \in DOMAIN rows /\ rows'[r] = rows[r]
        BY <1>1, <1>2, <2>1, <3>1, <3>3
      <4>. QED BY <4>1 DEF Inv, Rows, RowErrorsExact, Own, Bad
    <3>. QED BY <3>2, <3>3
  <2>3. RowErrorsExact'
    BY <1>1, <2>2 DEF RowErrorsExact, Own, Bad
  <2>. QED BY <1>1, <1>2, <2>1, <2>3 DEF Rows
<1>11. Owned'
  <2>1. ~holding /\ ~holding' /\ mode' = mode /\ live' = live /\ pc' # "produce"
    BY <1>1, <1>5 DEF Inv, Owned
  <2>2. live = 0
    BY <1>1, <2>1 DEF Inv, Owned, PayloadOwnership
  <2>3. Outstanding' = 0
    BY <1>1 DEF Outstanding
  <2>. QED BY <2>1, <2>2, <2>3 DEF Owned, PayloadOwnership
<1>12. Logged'
  BY <1>1 DEF Inv, Logged
<1>. QED BY <1>6, <1>7, <1>8, <1>9, <1>10, <1>11, <1>12 DEF Inv

\* The three ways out of run by an exception.
LEMMA ThrowsInv == Inv /\ (SerializeThrows \/ RetryThrows \/ FlushThrows) => Inv'
<1>. SUFFICES ASSUME Inv, SerializeThrows \/ RetryThrows \/ FlushThrows PROVE Inv'
  OBVIOUS
<1>1. /\ pc \in {"serialize", "refused", "flush"} /\ pc' = "thrown" /\ DestroyProducer
      /\ UNCHANGED <<configVars, repetition, i, holding, lastError, deliveryErrors, rows>>
  BY DEF SerializeThrows, RetryThrows, FlushThrows
<1>. QED BY <1>1, ThrowInv DEF Inside

-------------------------------------------------------------------------------
(* The background thread *)

\* A message in flight gets its one verdict, of the running repetition.
LEMMA SettleInv == ASSUME NEW m PROVE Inv /\ Settle(m) => Inv'
<1>. SUFFICES ASSUME Inv, Settle(m) PROVE Inv'
  OBVIOUS
<1>. USE DEF configVars, appVars
<1>1. PICK ok, kept \in BOOLEAN :
        /\ ok /\ acks # "0" => kept
        /\ verdicts' = verdicts \cup {[message |-> m, ok |-> ok]}
        /\ unserved' = unserved \cup {[message |-> m, ok |-> ok]}
        /\ stored' = IF kept THEN stored \cup {m} ELSE stored
  BY DEF Settle
<1>. DEFINE new == [message |-> m, ok |-> ok]
<1>2. m \in inflight /\ inflight' = inflight \ {m} /\ UNCHANGED <<configVars, appVars, live, accepted>>
  BY DEF Settle
<1>3. m \in Message /\ Inside /\ Inside' /\ m.repetition = repetition /\ m.number =< accepted
  BY <1>2 DEF Inv, TypeOK, Numbered, Inside
<1>4. new \in Verdict /\ new.message = m /\ new \notin verdicts
  BY <1>2, <1>3 DEF Verdict, Inv, Numbered
<1>5. verdicts' = verdicts \cup {new} /\ unserved' = unserved \cup {new}
  BY <1>1
<1>. HIDE DEF new
<1>6. /\ IsFiniteSet(inflight') /\ Cardinality(inflight') = Cardinality(inflight) - 1
      /\ IsFiniteSet(verdicts') /\ Cardinality(unserved') = Cardinality(unserved) + 1
      /\ Cardinality(inflight) \in Nat /\ Cardinality(unserved) \in Nat
  <2>1. new \notin unserved /\ IsFiniteSet(unserved) /\ IsFiniteSet(inflight) /\ IsFiniteSet(verdicts)
    BY <1>4, Finite DEF Inv, Numbered
  <2>. QED BY <1>2, <1>5, <2>1, Finite, FS_AddElement, FS_RemoveElement
<1>7. TypeOK'
  <2>1. inflight' \subseteq Message /\ verdicts' \subseteq Verdict /\ unserved' \subseteq verdicts'
    BY <1>2, <1>4, <1>5 DEF Inv, TypeOK
  <2>2. stored' \subseteq Message
    BY <1>1, <1>3 DEF Inv, TypeOK
  <2>. QED BY <1>2, <2>1, <2>2 DEF Inv, TypeOK
<1>8. Loop'
  BY <1>2 DEF Inv, Loop, EnqueuedOnce
<1>9. Numbered'
  <2>1. \A n \in inflight' : n.repetition = repetition' /\ n.number =< accepted'
    BY <1>2 DEF Inv, Numbered
  <2>2. ASSUME NEW v \in verdicts'
        PROVE  /\ v.message \notin inflight' /\ v.message.repetition =< repetition'
               /\ v.message.repetition = repetition' => pc' \notin {"start", "done"} /\ v.message.number =< accepted'
    <3>1. CASE v = new
      <4>1. m.repetition \in Nat
        BY <1>3 DEF Message
      <4>. QED BY <1>2, <1>3, <1>4, <3>1, <4>1 DEF Inside
    <3>2. CASE v \in verdicts
      BY <1>2, <3>2 DEF Inv, Numbered
    <3>. QED BY <1>5, <3>1, <3>2
  <2>3. ASSUME NEW v \in verdicts', NEW w \in verdicts', v.message = w.message
        PROVE  v = w
    BY <1>2, <1>4, <1>5, <2>3 DEF Inv, Numbered
  <2>. QED BY <1>3, <1>6, <2>1, <2>2, <2>3 DEF Numbered
<1>10. /\ Own(repetition)' = Own(repetition) \cup {new} /\ new \notin Own(repetition)
       /\ unserved \subseteq Own(repetition)
       /\ Own(repetition) \in SUBSET verdicts
  <2>1. unserved \subseteq Own(repetition)
    BY <1>3 DEF Inv, Counted
  <2>. QED BY <1>2, <1>3, <1>4, <1>5, <2>1 DEF Own
<1>11. Counted'
  <2>1. (Own(repetition) \ unserved)' = Own(repetition) \ unserved
    BY <1>5, <1>10
  <2>2. Bad(Own(repetition) \ unserved)' = Bad(Own(repetition) \ unserved)
    BY <2>1 DEF Bad
  <2>3. /\ IsFiniteSet(Own(repetition)) /\ Cardinality(Own(repetition)) \in Nat
        /\ Cardinality(Own(repetition)') = Cardinality(Own(repetition)) + 1
    <3>1. IsFiniteSet(Own(repetition)) /\ Cardinality(Own(repetition)) \in Nat
      BY <1>10, Finite
    <3>2. Cardinality(Own(repetition) \cup {new}) = Cardinality(Own(repetition)) + 1
      <4>1. new \notin Own(repetition)
        BY <1>10
      <4>. HIDE <1>10
      <4>. QED BY <3>1, <4>1, FS_AddElement
    <3>3. Cardinality(Own(repetition)') = Cardinality(Own(repetition) \cup {new})
      <4>1. Own(repetition)' = Own(repetition) \cup {new}
        BY <1>10
      <4>. HIDE <1>10
      <4>. QED BY <4>1
    <3>. QED BY <3>1, <3>2, <3>3
  <2>4. /\ Cardinality(inflight) + Cardinality(Own(repetition)) = accepted
        /\ deliveryErrors = Cardinality(Bad(Own(repetition) \ unserved))
    BY <1>3 DEF Inv, Counted
  <2>5. Cardinality(inflight') + Cardinality(Own(repetition)') = accepted'
    BY <1>2, <1>6, <2>3, <2>4
  <2>6. unserved' \subseteq Own(repetition)'
    BY <1>5, <1>10
  <2>. QED BY <1>2, <2>2, <2>4, <2>5, <2>6 DEF Counted
<1>12. Rows'
  <2>1. ASSUME NEW r \in 1 .. Len(rows)
        PROVE  Own(r)' = Own(r)
    <3>1. r # repetition
      BY DEF Inv, TypeOK, Rows
    <3>. QED BY <1>3, <1>4, <1>5, <3>1 DEF Own
  <2>. QED BY <1>2, <2>1, RowsStay
<1>13. Owned'
  <2>1. Outstanding' = Outstanding
    BY <1>6 DEF Outstanding
  <2>2. UNCHANGED <<mode, pc, holding, live>>
    BY <1>2
  <2>. QED BY <2>1, <2>2 DEF Inv, Owned, PayloadOwnership
<1>14. Logged'
  <2>1. stored \subseteq stored' /\ stored' \subseteq stored \cup {m} /\ acks' = acks
    BY <1>1, <1>2
  <2>2. new.ok /\ acks # "0" => m \in stored'
    BY <1>1 DEF new
  <2>3. \A v \in verdicts' : v.ok /\ acks' # "0" => v.message \in stored'
    BY <1>4, <1>5, <2>1, <2>2 DEF Inv, Logged
  <2>4. \A n \in stored' : \E v \in verdicts' : v.message = n
    BY <1>4, <1>5, <2>1 DEF Inv, Logged
  <2>. QED BY <2>3, <2>4 DEF Logged
<1>. QED BY <1>7, <1>8, <1>9, <1>11, <1>12, <1>13, <1>14 DEF Inv

-------------------------------------------------------------------------------
(* The theorems *)

\* A configuration's repetitions keep the invariant, whatever librdkafka does in the background.
THEOREM Invariance == Spec => []Inv
<1>1. Inv /\ [Next]_vars => Inv'
  <2>. SUFFICES ASSUME Inv, [Next]_vars PROVE Inv'
    OBVIOUS
  <2>1. CASE RunStep
    BY <2>1, StartInv, SerializeInv, AcceptsInv, RefusesInv, RetryInv, NextInv, FlushServesInv,
       FlushDoneInv, ThrowsInv DEF RunStep
  <2>2. CASE Settles
    BY <2>2, SettleInv DEF Settles
  <2>3. CASE UNCHANGED vars
    <3>. USE <2>3 DEF vars, configVars, appVars, kafkaVars
    <3>1. TypeOK' /\ Loop' /\ Numbered'
      BY DEF Inv, TypeOK, Loop, EnqueuedOnce, Numbered, Inside
    <3>2. \A r : Own(r)' = Own(r)
      BY DEF Own
    <3>3. Counted' /\ Rows'
      BY <3>2, RowsStay DEF Inv, Counted, Inside, Bad
    <3>4. Owned' /\ Logged'
      BY DEF Inv, Owned, PayloadOwnership, Outstanding, Logged
    <3>. QED BY <3>1, <3>3, <3>4 DEF Inv
  <2>. QED BY <2>1, <2>2, <2>3 DEF Next, Finished
<1>. QED BY <1>1, InitInv, PTL DEF Spec

\* Every variable keeps its type: no payload count goes below zero, no number above Iterations.
THEOREM Typing == Spec => []TypeOK
<1>1. Inv => TypeOK
  BY DEF Inv
<1>. QED BY <1>1, Invariance, PTL

\* Each payload has one owner and is freed once, through refusals, retries and exceptions.
THEOREM FreedOnce == Spec => []PayloadOwnership
<1>1. Inv => PayloadOwnership
  BY DEF Inv, Owned
<1>. QED BY <1>1, Invariance, PTL

\* However often the queue is full, an iteration enqueues one message.
THEOREM OneMessageEach == Spec => []EnqueuedOnce
<1>1. Inv => EnqueuedOnce
  BY DEF Inv, Loop
<1>. QED BY <1>1, Invariance, PTL

\* A row counts its own repetition's bad verdicts, all of them and no other.
THEOREM ErrorsExact == Spec => []RowErrorsExact
<1>1. Inv => RowErrorsExact
  BY DEF Inv, Rows
<1>. QED BY <1>1, Invariance, PTL

\* With acks 1 or all, a row without errors means that the broker has all of its messages.
THEOREM CleanMeansStored == Spec => []CleanRowIsStored
<1>1. ASSUME Inv, acks # "0", NEW r \in DOMAIN rows, rows[r] = 0
      PROVE  Cardinality({m \in stored : m.repetition = r}) = Iterations
  <2>. DEFINE kept == {m \in stored : m.repetition = r}
              messageOf == [v \in Own(r) |-> v.message]
  <2>1. IsFiniteSet(Own(r)) /\ IsFiniteSet(Bad(Own(r)))
    BY <1>1, Finite DEF Own
  <2>2. Cardinality(Own(r)) = Iterations /\ Cardinality(Bad(Own(r))) = 0
    BY <1>1 DEF Inv, Rows, RowErrorsExact, Own, Bad
  <2>3. Bad(Own(r)) = {}
    BY <2>1, <2>2, FS_EmptySet
  <2>4. \A v \in Own(r) : v.message \in kept
    BY <1>1, <2>3 DEF Inv, Logged, Own, Bad
  <2>5. \A m \in kept : \E v \in Own(r) : v.message = m
    BY <1>1 DEF Inv, Logged, Own
  <2>6. \A v, w \in Own(r) : v.message = w.message => v = w
    BY <1>1 DEF Inv, Numbered, Own
  <2>. HIDE DEF kept
  <2>7. messageOf \in Surjection(Own(r), kept)
    BY <2>4, <2>5 DEF Surjection
  <2>8. messageOf \in Injection(Own(r), kept)
    BY <2>4, <2>6 DEF Injection, IsInjective
  <2>9. Cardinality(kept) = Cardinality(Own(r))
    BY <2>1, <2>7, <2>8, FS_Surjection
  <2>. QED BY <2>2, <2>9 DEF kept
<1>2. Inv => CleanRowIsStored
  BY <1>1 DEF CleanRowIsStored
<1>. QED BY <1>2, Invariance, PTL

-------------------------------------------------------------------------------
(* Bounded work *)

\* The steps run has still to take in this repetition, a message's counting four until it is accepted:
\* its acceptance, its verdict, the handing over of that and the end of its iteration.
RepetitionLeft ==
    CASE pc = "start" -> 4 * Iterations + 2
      [] pc \in {"serialize", "produce"} -> 4 * (Iterations - i) + 1
      [] pc = "refused" -> 4 * (Iterations - i) + (IF lastError = "queue_full" THEN 1 ELSE 0)
      [] pc = "next" -> 4 * (Iterations - i) - 2
      [] OTHER -> 1

RunLeft ==
    IF pc \in {"done", "thrown"} THEN 0 ELSE (Repetitions - repetition) * (4 * Iterations + 3) + RepetitionLeft

LeftSum(r, f, u) == r + 2 * f + u
WorkLeft == LeftSum(RunLeft, Cardinality(inflight), Cardinality(unserved))

\* The steps of the retry loop that bring nothing: the message is encoded, refused, and encoded
\* again after a poll that finds no verdict.
Retrying == Serialize \/ ProduceRefuses("queue_full") \/ (Retry /\ unserved = {})

\* Every other step leaves less to do, and these leave as much.
OnlyRetriesRepeat == [][IF Retrying THEN WorkLeft' = WorkLeft ELSE WorkLeft' < WorkLeft]_vars

\* The numbers these are.
LeftFacts ==
    /\ RepetitionLeft \in Nat \ {0} /\ RunLeft \in Nat
    /\ pc \notin {"done", "thrown"} => RunLeft >= RepetitionLeft
    /\ Cardinality(inflight) \in Nat /\ Cardinality(unserved) \in Nat
    /\ IsFiniteSet(inflight) /\ IsFiniteSet(unserved)

\* What is left is a number, and more than nothing as long as run is not left.
LEMMA LeftTyped == Inv => LeftFacts
<1>. SUFFICES ASSUME Inv PROVE LeftFacts
  OBVIOUS
<1>. USE ProducerAssumption
<1>1. /\ i \in 0 .. Iterations /\ repetition \in 1 .. Repetitions + 1
      /\ pc \in {"start", "serialize", "produce", "refused", "next", "flush", "done", "thrown"}
      /\ pc \in {"serialize", "produce", "refused", "next"} => i < Iterations
      /\ pc \notin {"done", "thrown"} => repetition =< Repetitions
  BY DEF Inv, TypeOK, Loop
<1>2. RepetitionLeft \in Nat \ {0}
  BY <1>1 DEF RepetitionLeft
<1>3. 4 * Iterations + 3 \in Nat
  OBVIOUS
<1>4. ASSUME pc \notin {"done", "thrown"} PROVE (Repetitions - repetition) * (4 * Iterations + 3) \in Nat
  <2>1. Repetitions - repetition \in Nat
    BY <1>1, <1>4
  <2>. QED BY <1>3, <2>1
<1>5. RunLeft \in Nat /\ (pc \notin {"done", "thrown"} => RunLeft >= RepetitionLeft)
  <2>. DEFINE p == (Repetitions - repetition) * (4 * Iterations + 3)
  <2>1. RunLeft = IF pc \in {"done", "thrown"} THEN 0 ELSE p + RepetitionLeft
    BY DEF RunLeft
  <2>2. pc \notin {"done", "thrown"} => p \in Nat
    BY <1>4
  <2>. HIDE DEF p
  <2>. QED BY <1>2, <2>1, <2>2
<1>6. IsFiniteSet(unserved) /\ Cardinality(unserved) \in Nat
  BY Finite
<1>. QED BY <1>2, <1>5, <1>6, Finite DEF LeftFacts

\* So they are after a step.
LEMMA LeftTypedNext == Inv' => LeftFacts'
  BY LeftTyped, PTL

\* How the sums of what is left compare.
LEMMA LeftSums ==
    ASSUME NEW r \in Nat, NEW s \in Nat, NEW f \in Nat, NEW g \in Nat, NEW u \in Nat, NEW v \in Nat
    PROVE  /\ s = r /\ g = f /\ v = u => LeftSum(s, g, v) = LeftSum(r, f, u)
           /\ s < r /\ g = f /\ v = u => LeftSum(s, g, v) < LeftSum(r, f, u)
           /\ s < r /\ g = f /\ v =< u => LeftSum(s, g, v) < LeftSum(r, f, u)
           /\ s < r /\ g = 0 /\ v = 0 => LeftSum(s, g, v) < LeftSum(r, f, u)
           /\ s = r /\ g = f /\ v < u => LeftSum(s, g, v) < LeftSum(r, f, u)
           /\ s + 3 = r /\ g =< f + 1 /\ v = u => LeftSum(s, g, v) < LeftSum(r, f, u)
           /\ s = r /\ g + 1 = f /\ v =< u + 1 => LeftSum(s, g, v) < LeftSum(r, f, u)
<1>. QED BY DEF LeftSum

\* Two sums with the same first term compare as their second terms do.
LEMMA SumsCompare ==
    ASSUME NEW p \in Int, NEW a \in Int, NEW b \in Int
    PROVE  /\ b = a => p + b = p + a
           /\ b < a => p + b < p + a
           /\ b + 3 = a => (p + b) + 3 = p + a
<1>. QED OBVIOUS

\* Within a repetition run is further by as much as the repetition is.
LEMMA RunFurther ==
    ASSUME Inv, Inv', pc \notin {"done", "thrown"}, pc' \notin {"done", "thrown"}, repetition' = repetition
    PROVE  /\ RepetitionLeft' = RepetitionLeft => RunLeft' = RunLeft
           /\ RepetitionLeft' < RepetitionLeft => RunLeft' < RunLeft
           /\ RepetitionLeft' + 3 = RepetitionLeft => RunLeft' + 3 = RunLeft
<1>. DEFINE p == (Repetitions - repetition) * (4 * Iterations + 3)
<1>1. p \in Int
  <2>1. Repetitions - repetition \in Int /\ 4 * Iterations + 3 \in Int
    BY ProducerAssumption DEF Inv, TypeOK
  <2>. QED BY <2>1
<1>2. RunLeft = p + RepetitionLeft /\ RunLeft' = p + RepetitionLeft'
  BY DEF RunLeft
<1>3. RepetitionLeft \in Int /\ RepetitionLeft' \in Int
  BY LeftTyped, LeftTypedNext DEF LeftFacts
<1>. HIDE DEF p
<1>. QED BY <1>1, <1>2, <1>3, SumsCompare, Zenon

\* At its end a repetition is one less, with more left in it than one message.
LEMMA NextRepetition ==
    ASSUME Inv, Inv', FlushDone
    PROVE  RunLeft' < RunLeft
<1>1. CASE repetition < Repetitions
  <2>. DEFINE per == 4 * Iterations + 3
              a == Repetitions - repetition
  <2>1. a \in Nat \ {0} /\ per \in Nat /\ Repetitions - repetition' = a - 1
    BY <1>1, ProducerAssumption DEF FlushDone, Inv, TypeOK
  <2>2. RunLeft = a * per + 1 /\ RunLeft' = (a - 1) * per + (4 * Iterations + 2)
    BY <1>1, <2>1 DEF FlushDone, RunLeft, RepetitionLeft
  <2>3. 4 * Iterations + 2 = per - 1
    BY ProducerAssumption
  <2>4. (a - 1) * per = a * per - per /\ a * per \in Int
    <3>. HIDE DEF a, per
    <3>. QED BY <2>1
  <2>. HIDE DEF a, per
  <2>. QED BY <2>1, <2>2, <2>3, <2>4
<1>2. CASE ~(repetition < Repetitions)
  <2>1. RunLeft >= RepetitionLeft /\ RepetitionLeft \in Nat \ {0} /\ RunLeft \in Nat
    BY <1>2, LeftTyped DEF LeftFacts, FlushDone
  <2>. QED BY <1>2, <2>1 DEF FlushDone, RunLeft
<1>. QED BY <1>1, <1>2

\* Handing the verdicts over leaves none behind.
LEMMA ServeCounts ==
    ASSUME Inv, ServeReports
    PROVE  /\ Cardinality(inflight') = Cardinality(inflight) /\ Cardinality(unserved') =< Cardinality(unserved)
           /\ unserved # {} => Cardinality(unserved') < Cardinality(unserved)
           /\ unserved = {} => Cardinality(unserved') = Cardinality(unserved)
<1>1. unserved' = {} /\ inflight' = inflight
  BY DEF ServeReports
<1>2. Cardinality({}) = 0 /\ Cardinality(unserved) \in Nat /\ (Cardinality(unserved) = 0 <=> unserved = {})
  BY LeftTyped, FS_EmptySet DEF LeftFacts
<1>. QED BY <1>1, <1>2

\* One more element is at most one more to count.
LEMMA OneMore ==
    ASSUME NEW S, IsFiniteSet(S), NEW x
    PROVE  Cardinality(S \cup {x}) =< Cardinality(S) + 1
<1>1. Cardinality(S) \in Nat
  BY FS_CardinalityType
<1>2. Cardinality(S \cup {x}) = IF x \in S THEN Cardinality(S) ELSE Cardinality(S) + 1
  BY FS_AddElement
<1>. QED BY <1>1, <1>2

\* Whoever steps: what brings nothing changes nothing, and all else leaves less.
LEMMA WorkCounts ==
    Inv /\ Inv' /\ [Next]_vars =>
        IF Retrying THEN WorkLeft' = WorkLeft ELSE WorkLeft' < WorkLeft \/ UNCHANGED vars
<1>. SUFFICES ASSUME Inv, Inv', [Next]_vars
              PROVE  IF Retrying THEN WorkLeft' = WorkLeft ELSE WorkLeft' < WorkLeft \/ UNCHANGED vars
  OBVIOUS
<1>. DEFINE f == Cardinality(inflight)
            u == Cardinality(unserved)
<1>1. /\ RunLeft \in Nat /\ RunLeft' \in Nat /\ f \in Nat /\ f' \in Nat /\ u \in Nat /\ u' \in Nat
      /\ RepetitionLeft \in Nat \ {0} /\ RepetitionLeft' \in Nat \ {0}
  BY LeftTyped, LeftTypedNext DEF LeftFacts
<1>2. WorkLeft = LeftSum(RunLeft, f, u) /\ WorkLeft' = LeftSum(RunLeft', f', u')
  BY DEF WorkLeft
<1>3. /\ RunLeft' = RunLeft /\ f' = f /\ u' = u => WorkLeft' = WorkLeft
      /\ RunLeft' < RunLeft /\ f' = f /\ u' = u => WorkLeft' < WorkLeft
      /\ RunLeft' < RunLeft /\ f' = f /\ u' =< u => WorkLeft' < WorkLeft
      /\ RunLeft' < RunLeft /\ f' = 0 /\ u' = 0 => WorkLeft' < WorkLeft
      /\ RunLeft' = RunLeft /\ f' = f /\ u' < u => WorkLeft' < WorkLeft
      /\ RunLeft' + 3 = RunLeft /\ f' =< f + 1 /\ u' = u => WorkLeft' < WorkLeft
      /\ RunLeft' = RunLeft /\ f' + 1 = f /\ u' =< u + 1 => WorkLeft' < WorkLeft
  <2>. HIDE DEF f, u
  <2>. QED BY <1>1, <1>2, LeftSums, Zenon
<1>4. IsFiniteSet(inflight) /\ IsFiniteSet(unserved) /\ i \in 0 .. Iterations /\ Iterations \in Nat
  BY LeftTyped, ProducerAssumption DEF LeftFacts, Inv, TypeOK
<1>. HIDE DEF f, u
<1>5. CASE StartRepetition
  <2>1. RepetitionLeft' < RepetitionLeft
    BY <1>4, <1>5 DEF StartRepetition, RepetitionLeft
  <2>2. RunLeft' < RunLeft
    BY <1>5, <2>1, RunFurther DEF StartRepetition
  <2>3. f' = f /\ u' = u /\ ~Retrying
    BY <1>5 DEF StartRepetition, f, u, Retrying, Serialize, ProduceRefuses, Retry
  <2>. QED BY <1>3, <2>2, <2>3
<1>6. CASE Serialize
  <2>1. RepetitionLeft' = RepetitionLeft
    BY <1>4, <1>6 DEF Serialize, RepetitionLeft
  <2>2. RunLeft' = RunLeft
    BY <1>6, <2>1, RunFurther DEF Serialize
  <2>3. f' = f /\ u' = u /\ Retrying
    BY <1>6 DEF Serialize, kafkaVars, f, u, Retrying
  <2>. QED BY <1>3, <2>2, <2>3
<1>7. CASE SerializeThrows \/ RetryThrows \/ FlushThrows
  <2>1. /\ pc' = "thrown" /\ pc \in {"serialize", "refused", "flush"} /\ inflight' = {} /\ unserved' = {}
        /\ pc = "refused" => lastError # "queue_full"
    BY <1>7 DEF SerializeThrows, RetryThrows, FlushThrows, DestroyProducer
  <2>2. f' = 0 /\ u' = 0
    BY <2>1, FS_EmptySet DEF f, u
  <2>3. RunLeft' < RunLeft
    <3>1. RunLeft \in Nat /\ RepetitionLeft \in Nat \ {0} /\ RunLeft >= RepetitionLeft
      BY <2>1, LeftTyped DEF LeftFacts
    <3>2. RunLeft' = 0
      BY <2>1 DEF RunLeft
    <3>. QED BY <3>1, <3>2
  <2>4. ~Retrying
    BY <2>1 DEF Retrying, Serialize, ProduceRefuses, Retry
  <2>. QED BY <1>3, <2>2, <2>3, <2>4
<1>8. CASE ProduceAccepts
  <2>1. RepetitionLeft' + 3 = RepetitionLeft
    <3>1. RepetitionLeft = 4 * (Iterations - i) + 1 /\ RepetitionLeft' = 4 * (Iterations - i) - 2
      BY <1>8 DEF ProduceAccepts, RepetitionLeft
    <3>. QED BY <1>4, <3>1
  <2>2. RunLeft' + 3 = RunLeft
    BY <1>8, <2>1, RunFurther DEF ProduceAccepts
  <2>3. f' =< f + 1
    BY <1>4, <1>8, OneMore DEF ProduceAccepts, f
  <2>4. u' = u /\ ~Retrying
    BY <1>8 DEF ProduceAccepts, u, Retrying, Serialize, ProduceRefuses, Retry
  <2>. QED BY <1>3, <2>2, <2>3, <2>4
<1>9. ASSUME NEW error \in {"queue_full", "other"}, ProduceRefuses(error)
      PROVE  IF Retrying THEN WorkLeft' = WorkLeft ELSE WorkLeft' < WorkLeft
  <2>1. f' = f /\ u' = u
    BY <1>9 DEF ProduceRefuses, kafkaVars, f, u
  <2>2. CASE error = "queue_full"
    <3>1. RepetitionLeft' = RepetitionLeft /\ Retrying
      BY <1>4, <1>9, <2>2 DEF ProduceRefuses, RepetitionLeft, Retrying
    <3>2. RunLeft' = RunLeft
      BY <1>9, <3>1, RunFurther DEF ProduceRefuses
    <3>. QED BY <1>3, <2>1, <3>1, <3>2
  <2>3. CASE error = "other"
    <3>1. RepetitionLeft' < RepetitionLeft /\ ~Retrying
      BY <1>4, <1>9, <2>3 DEF ProduceRefuses, RepetitionLeft, Retrying, Serialize, Retry
    <3>2. RunLeft' < RunLeft
      BY <1>9, <3>1, RunFurther DEF ProduceRefuses
    <3>. QED BY <1>3, <2>1, <3>1, <3>2
  <2>. QED BY <2>2, <2>3
<1>10. CASE Retry
  <2>1. RepetitionLeft' = RepetitionLeft
    BY <1>4, <1>10 DEF Retry, RepetitionLeft
  <2>2. RunLeft' = RunLeft
    BY <1>10, <2>1, RunFurther DEF Retry
  <2>3. /\ f' = f /\ (unserved # {} => u' < u) /\ (unserved = {} => u' = u)
    BY <1>10, ServeCounts DEF Retry, f, u
  <2>4. Retrying <=> unserved = {}
    BY <1>10 DEF Retrying, Retry, Serialize, ProduceRefuses
  <2>. QED BY <1>3, <2>2, <2>3, <2>4
<1>11. CASE NextIteration
  <2>1. RepetitionLeft' < RepetitionLeft
    <3>1. i < Iterations /\ i' = i + 1 /\ pc = "next" /\ pc' = IF i + 1 < Iterations THEN "serialize" ELSE "flush"
      BY <1>11 DEF NextIteration, Inv, Loop
    <3>2. RepetitionLeft = 4 * (Iterations - i) - 2
      BY <3>1 DEF RepetitionLeft
    <3>3. RepetitionLeft' = 4 * (Iterations - (i + 1)) + 1
      BY <1>4, <3>1 DEF RepetitionLeft
    <3>. QED BY <1>4, <3>1, <3>2, <3>3
  <2>2. RunLeft' < RunLeft
    BY <1>11, <2>1, RunFurther DEF NextIteration
  <2>3. f' = f /\ (u' < u \/ u' = u)
    <3>1. CASE ServeReports
      BY <3>1, ServeCounts DEF f, u
    <3>2. CASE UNCHANGED kafkaVars
      BY <3>2 DEF kafkaVars, f, u
    <3>. QED BY <1>11, <3>1, <3>2 DEF NextIteration
  <2>4. ~Retrying
    BY <1>11 DEF NextIteration, Retrying, Serialize, ProduceRefuses, Retry
  <2>5. u' < u => u' =< u
    BY <1>1
  <2>. QED BY <1>3, <2>2, <2>3, <2>4, <2>5
<1>12. CASE FlushServes
  <2>1. RepetitionLeft' = RepetitionLeft /\ ~Retrying
    BY <1>12 DEF FlushServes, RepetitionLeft, Retrying, Serialize, ProduceRefuses, Retry
  <2>2. RunLeft' = RunLeft
    BY <1>12, <2>1, RunFurther DEF FlushServes
  <2>3. f' = f /\ u' < u
    BY <1>12, ServeCounts DEF FlushServes, f, u
  <2>. QED BY <1>3, <2>1, <2>2, <2>3
<1>13. CASE FlushDone
  <2>1. RunLeft' < RunLeft /\ ~Retrying
    BY <1>13, NextRepetition DEF FlushDone, Retrying, Serialize, ProduceRefuses, Retry
  <2>2. f' = f /\ u' = u
    BY <1>13 DEF FlushDone, kafkaVars, f, u
  <2>. QED BY <1>3, <2>1, <2>2
<1>14. ASSUME NEW m \in inflight, Settle(m)
       PROVE  WorkLeft' < WorkLeft /\ ~Retrying
  <2>1. f' + 1 = f
    <3>1. Cardinality(inflight \ {m}) = Cardinality(inflight) - 1 /\ Cardinality(inflight) \in Nat
      BY <1>1, <1>4, FS_RemoveElement DEF f
    <3>. QED BY <1>14, <3>1 DEF Settle, f
  <2>2. u' =< u + 1
    BY <1>4, <1>14, OneMore DEF Settle, u
  <2>3. RunLeft' = RunLeft
    BY <1>14 DEF Settle, appVars, RunLeft, RepetitionLeft
  <2>4. ~Retrying
    BY <1>14 DEF Settle, appVars, Retrying, Serialize, ProduceRefuses, Retry
  <2>. QED BY <1>3, <2>1, <2>2, <2>3, <2>4
<1>15. CASE UNCHANGED vars
  BY <1>15 DEF vars, appVars, Retrying, Serialize, ProduceRefuses, Retry
<1>. QED BY <1>5, <1>6, <1>7, <1>8, <1>9, <1>10, <1>11, <1>12, <1>13, <1>14, <1>15
         DEF Next, RunStep, Settles, Finished

\* A configuration's run is a bounded amount of work, and all that can come on top of it are turns of
\* the retry loop that no verdict came in for: what Termination needs of librdkafka is that it settles
\* the messages a full queue is full of.
THEOREM BoundedWork == Spec => [](WorkLeft \in Nat) /\ OnlyRetriesRepeat
<1>1. Inv /\ Inv' /\ [Next]_vars => [IF Retrying THEN WorkLeft' = WorkLeft ELSE WorkLeft' < WorkLeft]_vars
  BY WorkCounts
<1>2. Inv => WorkLeft \in Nat
  BY LeftTyped DEF LeftFacts, WorkLeft, LeftSum
<1>. QED BY <1>1, <1>2, Invariance, PTL DEF Spec, OnlyRetriesRepeat

\* A retry has something to wait for: a message whose verdict will make room, or a verdict to be handed over.
RetryHasCause == pc = "refused" /\ lastError = "queue_full" => inflight # {} \/ unserved # {}

\* The retry loop never turns on an empty queue: what filled it is in flight or waits to be served.
THEOREM RetriesAwaited == Spec => []RetryHasCause
<1>1. Init => RetryHasCause
  BY DEF Init, RetryHasCause
<1>2. Inv /\ RetryHasCause /\ [Next]_vars => RetryHasCause'
  <2>. SUFFICES ASSUME Inv, RetryHasCause, [Next]_vars PROVE RetryHasCause'
    OBVIOUS
  <2>1. CASE ProduceRefuses("queue_full")
    <3>1. Cardinality({}) = 0
      BY FS_EmptySet
    <3>2. QueueLimit \in Nat \ {0} /\ Outstanding >= QueueLimit /\ Outstanding = Cardinality(inflight) + Cardinality(unserved)
      BY <2>1, ProducerAssumption DEF ProduceRefuses, QueueIsFull, Outstanding
    <3>3. inflight # {} \/ unserved # {}
      BY <3>1, <3>2
    <3>. QED BY <2>1, <3>3 DEF ProduceRefuses, kafkaVars, RetryHasCause
  <2>2. CASE ProduceRefuses("other")
    BY <2>2 DEF ProduceRefuses, RetryHasCause
  <2>3. CASE Settles
    BY <2>3 DEF Settles, Settle, RetryHasCause
  <2>4. CASE UNCHANGED vars
    BY <2>4 DEF vars, appVars, kafkaVars, RetryHasCause
  <2>5. ASSUME pc' # "refused" PROVE RetryHasCause'
    BY <2>5 DEF RetryHasCause
  <2>6. CASE ~Settles /\ ~UNCHANGED vars /\ ~\E error \in {"queue_full", "other"} : ProduceRefuses(error)
    <3>1. pc' # "refused"
      BY <2>6 DEF Next, RunStep, Finished, StartRepetition, Serialize, SerializeThrows, ProduceAccepts, Retry, RetryThrows,
         NextIteration, FlushServes, FlushDone, FlushThrows
    <3>. QED BY <2>5, <3>1
  <2>. QED BY <2>1, <2>2, <2>3, <2>4, <2>6
<1>. QED BY <1>1, <1>2, Invariance, PTL DEF Spec
===============================================================================
