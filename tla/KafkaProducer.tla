---------------------------- MODULE KafkaProducer ----------------------------
(***************************************************************************)
(* src/src/kafka_producer_benchmark.cc: the repetitions of one producer     *)
(* configuration (run), each a loop of encode-and-produce with a retry on a *)
(* full queue, then a flush and one CSV row.                                *)
(*                                                                          *)
(* librdkafka is outside the repository; it is modelled from how the code   *)
(* uses it.  rd_kafka_produce accepts a message or refuses it (queue full,  *)
(* or another error); a background thread gives every accepted message one  *)
(* verdict; rd_kafka_poll and rd_kafka_flush hand the verdicts to           *)
(* delivery_callback on the application's thread; a message takes room in   *)
(* the queue until its verdict was handed over.  With acks=0 a good verdict *)
(* only says that the message was sent.                                     *)
(***************************************************************************)
EXTENDS Integers, Sequences, FiniteSets

CONSTANTS
    Iterations,   \* config.iterations
    Repetitions,  \* config.repetitions
    PollEvery,    \* 0x4000: the hot loop polls when i is a multiple of it
    QueueLimit    \* librdkafka's queue.buffering.max.messages

ASSUME ProducerAssumption ==
    /\ Iterations \in Nat \ {0}
    /\ Repetitions \in Nat \ {0}
    /\ PollEvery \in Nat \ {0}
    /\ QueueLimit \in Nat \ {0}

VARIABLES
    mode, acks,      \* config.mode and config.acks
    pc,              \* where run stands
    repetition, i,   \* its two loop counters
    holding,         \* the application owns a payload it malloc'ed
    live,            \* payloads malloc'ed and not yet freed, by either owner
    lastError,       \* rd_kafka_last_error()
    deliveryErrors,  \* delivery_errors
    rows,            \* the delivery_errors column of the CSV
    accepted,        \* messages rd_kafka_produce accepted in this repetition
    inflight,        \* accepted messages without a verdict
    verdicts,        \* every verdict ever given
    unserved,        \* the verdicts not handed to delivery_callback yet
    stored           \* the messages in the broker's log

configVars == <<mode, acks>>
appVars == <<pc, repetition, i, holding, lastError, deliveryErrors, rows>>
kafkaVars == <<accepted, inflight, verdicts, unserved, stored>>
vars == <<configVars, appVars, live, kafkaVars>>

Message == [repetition : 1 .. Repetitions, number : 1 .. Iterations]
Verdict == [message : Message, ok : BOOLEAN]

Init ==
    /\ mode \in {"copy", "owned"} /\ acks \in {"0", "1", "all"}
    /\ pc = "start" /\ repetition = 1 /\ i = 0
    /\ holding = FALSE /\ live = 0 /\ lastError = "none"
    /\ deliveryErrors = 0 /\ rows = <<>>
    /\ accepted = 0 /\ inflight = {} /\ verdicts = {} /\ unserved = {} /\ stored = {}

-------------------------------------------------------------------------------
(* librdkafka *)

Outstanding == Cardinality(inflight) + Cardinality(unserved)
QueueIsFull == Outstanding >= QueueLimit

\* The background thread settles a message.  Only a good verdict under acks 1 or all
\* vouches for the broker's log; a lost acknowledgement leaves a stored message with a bad one.
Settle(m) ==
    /\ m \in inflight
    /\ \E ok, kept \in BOOLEAN :
        /\ ok /\ acks # "0" => kept
        /\ verdicts' = verdicts \cup {[message |-> m, ok |-> ok]}
        /\ unserved' = unserved \cup {[message |-> m, ok |-> ok]}
        /\ stored' = IF kept THEN stored \cup {m} ELSE stored
    /\ inflight' = inflight \ {m}
    /\ UNCHANGED <<configVars, appVars, live, accepted>>

\* Handing over the verdicts: delivery_callback counts the bad ones, and librdkafka
\* frees the payloads it was given with RD_KAFKA_MSG_F_FREE.
ServeReports ==
    /\ deliveryErrors' = deliveryErrors + Cardinality({v \in unserved : ~v.ok})
    /\ live' = IF mode = "owned" THEN live - Cardinality(unserved) ELSE live
    /\ unserved' = {}
    /\ UNCHANGED <<accepted, inflight, verdicts, stored>>

\* rd_kafka_destroy, when the unique_ptr goes: librdkafka gives up what it still holds.
DestroyProducer ==
    /\ live' = IF mode = "owned" THEN live - Outstanding ELSE live
    /\ inflight' = {} /\ unserved' = {}
    /\ UNCHANGED <<accepted, verdicts, stored>>

-------------------------------------------------------------------------------
(* run: one repetition after the other *)

\* Mutants: the counter of delivery errors is not reset, and neither is the loop's index.
StartRepetitionUnreset ==
    /\ pc = "start"
    /\ i' = 0 /\ accepted' = 0
    /\ pc' = "serialize"
    /\ UNCHANGED <<configVars, repetition, holding, lastError, deliveryErrors, rows, live,
                   inflight, verdicts, unserved, stored>>

StartRepetitionMidway ==
    /\ pc = "start"
    /\ deliveryErrors' = 0 /\ accepted' = 0
    /\ pc' = "serialize"
    /\ UNCHANGED <<configVars, repetition, i, holding, lastError, rows, live,
                   inflight, verdicts, unserved, stored>>

StartRepetition ==
    /\ pc = "start"
    /\ deliveryErrors' = 0
    /\ i' = 0 /\ accepted' = 0
    /\ pc' = "serialize"
    /\ UNCHANGED <<configVars, repetition, holding, lastError, rows, live,
                   inflight, verdicts, unserved, stored>>

\* The message is encoded: into the buffer every message reuses, or into a payload of its own.
Serialize ==
    /\ pc = "serialize"
    /\ holding' = (mode = "owned")
    /\ live' = IF mode = "owned" THEN live + 1 ELSE live
    /\ pc' = "produce"
    /\ UNCHANGED <<configVars, repetition, i, lastError, deliveryErrors, rows, kafkaVars>>

\* malloc returns null: std::bad_alloc leaves run.
SerializeThrows ==
    /\ pc = "serialize" /\ mode = "owned"
    /\ pc' = "thrown"
    /\ DestroyProducer
    /\ UNCHANGED <<configVars, repetition, i, holding, lastError, deliveryErrors, rows>>

\* Mutant: the payload is freed although librdkafka owns it now.
ProduceAcceptsFrees ==
    /\ pc = "produce" /\ ~QueueIsFull
    /\ accepted' = accepted + 1
    /\ inflight' = inflight \cup {[repetition |-> repetition, number |-> accepted + 1]}
    /\ holding' = FALSE /\ lastError' = "none"
    /\ live' = IF holding THEN live - 1 ELSE live
    /\ pc' = "next"
    /\ UNCHANGED <<configVars, repetition, i, deliveryErrors, rows, verdicts, unserved, stored>>

\* rd_kafka_produce takes the message, and an owned payload with it.
ProduceAccepts ==
    /\ pc = "produce" /\ ~QueueIsFull
    /\ accepted' = accepted + 1
    /\ inflight' = inflight \cup {[repetition |-> repetition, number |-> accepted + 1]}
    /\ holding' = FALSE /\ lastError' = "none"
    /\ pc' = "next"
    /\ UNCHANGED <<configVars, repetition, i, live, deliveryErrors, rows, verdicts, unserved, stored>>

\* rd_kafka_produce refuses it: produce_owned frees its payload.
ProduceRefuses(error) ==
    /\ pc = "produce"
    /\ error = "queue_full" => QueueIsFull
    /\ holding' = FALSE
    /\ live' = IF holding THEN live - 1 ELSE live
    /\ lastError' = error
    /\ pc' = "refused"
    /\ UNCHANGED <<configVars, repetition, i, deliveryErrors, rows, kafkaVars>>

\* Mutants: the retry without the poll, and a full queue taken for success.
RetryUnpolled ==
    /\ pc = "refused" /\ lastError = "queue_full"
    /\ pc' = "serialize"
    /\ UNCHANGED <<configVars, repetition, i, holding, lastError, deliveryErrors, rows, live, kafkaVars>>
RetrySkips ==
    /\ pc = "refused" /\ lastError = "queue_full"
    /\ pc' = "next"
    /\ ServeReports
    /\ UNCHANGED <<configVars, repetition, i, holding, lastError, rows>>

\* The queue was full: poll for a millisecond, then encode and produce again.
Retry ==
    /\ pc = "refused" /\ lastError = "queue_full"
    /\ pc' = "serialize"
    /\ ServeReports
    /\ UNCHANGED <<configVars, repetition, i, holding, lastError, rows>>

\* Any other error leaves run.
RetryThrows ==
    /\ pc = "refused" /\ lastError # "queue_full"
    /\ pc' = "thrown"
    /\ DestroyProducer
    /\ UNCHANGED <<configVars, repetition, i, holding, lastError, deliveryErrors, rows>>

\* The rest of the loop body, with the poll it makes now and then.
NextIteration ==
    /\ pc = "next"
    /\ i' = i + 1
    /\ pc' = IF i + 1 < Iterations THEN "serialize" ELSE "flush"
    /\ IF i % PollEvery = 0 THEN ServeReports
                            ELSE UNCHANGED <<deliveryErrors, live, kafkaVars>>
    /\ UNCHANGED <<configVars, repetition, holding, lastError, rows>>

\* rd_kafka_flush hands over what comes in ...
FlushServes ==
    /\ pc = "flush" /\ unserved # {}
    /\ ServeReports
    /\ UNCHANGED <<configVars, pc, repetition, i, holding, lastError, rows>>

\* Mutant: the row does not wait for the messages in flight.
FlushDoneEarly ==
    /\ pc = "flush" /\ unserved = {}
    /\ rows' = Append(rows, deliveryErrors)
    /\ repetition' = repetition + 1
    /\ pc' = IF repetition < Repetitions THEN "start" ELSE "done"
    /\ UNCHANGED <<configVars, i, holding, lastError, deliveryErrors, live, kafkaVars>>

\* ... until nothing is outstanding: the row is written ...
FlushDone ==
    /\ pc = "flush" /\ Outstanding = 0
    /\ rows' = Append(rows, deliveryErrors)
    /\ repetition' = repetition + 1
    /\ pc' = IF repetition < Repetitions THEN "start" ELSE "done"
    /\ UNCHANGED <<configVars, i, holding, lastError, deliveryErrors, live, kafkaVars>>

\* ... or its two minutes are over, which leaves run.
FlushThrows ==
    /\ pc = "flush" /\ Outstanding > 0
    /\ pc' = "thrown"
    /\ DestroyProducer
    /\ UNCHANGED <<configVars, repetition, i, holding, lastError, deliveryErrors, rows>>

-------------------------------------------------------------------------------
RunStep ==
    \/ StartRepetition \/ Serialize \/ SerializeThrows
    \/ ProduceAccepts \/ (\E error \in {"queue_full", "other"} : ProduceRefuses(error))
    \/ Retry \/ RetryThrows \/ NextIteration
    \/ FlushServes \/ FlushDone \/ FlushThrows

Settles == \E m \in inflight : Settle(m)

\* main returns 0 or 1.
Finished == pc \in {"done", "thrown"} /\ UNCHANGED vars

Next == RunStep \/ Settles \/ Finished

Spec == Init /\ [][Next]_vars

\* The application runs, and message.timeout.ms bounds how long a message goes without a verdict.
FairSpec == Spec /\ WF_vars(RunStep) /\ WF_vars(Settles)

-------------------------------------------------------------------------------
(* Properties *)

TypeOK ==
    /\ mode \in {"copy", "owned"} /\ acks \in {"0", "1", "all"}
    /\ pc \in {"start", "serialize", "produce", "refused", "next", "flush", "done", "thrown"}
    /\ repetition \in 1 .. Repetitions + 1 /\ i \in 0 .. Iterations
    /\ holding \in BOOLEAN /\ live \in Nat
    /\ lastError \in {"none", "queue_full", "other"}
    /\ deliveryErrors \in Nat /\ rows \in Seq(Nat) /\ accepted \in 0 .. Iterations
    /\ inflight \subseteq Message /\ stored \subseteq Message
    /\ verdicts \subseteq Verdict /\ unserved \subseteq verdicts

\* Every payload malloc'ed for librdkafka has exactly one owner at any time and is freed
\* exactly once, through refusals, retries, delivery and every way out of run.
PayloadOwnership ==
    /\ live = (IF holding THEN 1 ELSE 0) + (IF mode = "owned" THEN Outstanding ELSE 0)
    /\ pc \in {"done", "thrown"} => live = 0

\* However often the queue was full, each iteration puts exactly one message in it.
EnqueuedOnce ==
    pc \in {"serialize", "produce", "refused", "next", "flush"} =>
        accepted = IF pc = "next" THEN i + 1 ELSE i

\* A row's delivery_errors counts the bad verdicts of its own repetition, all of them and no
\* other repetition's: every message of the repetition has its verdict when the row is written.
RowErrorsExact ==
    \A r \in DOMAIN rows :
        LET own == {v \in verdicts : v.message.repetition = r} IN
        /\ Cardinality(own) = Iterations
        /\ rows[r] = Cardinality({v \in own : ~v.ok})

\* With acks 1 or all, a row without delivery errors means that the broker has every message of it.
CleanRowIsStored ==
    acks # "0" => \A r \in DOMAIN rows :
        rows[r] = 0 => Cardinality({m \in stored : m.repetition = r}) = Iterations

\* The benchmark ends, by finishing or by throwing: the retry loop does not spin for ever.
Termination == <>(pc \in {"done", "thrown"})
===============================================================================
