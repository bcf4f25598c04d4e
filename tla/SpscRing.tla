------------------------------- MODULE SpscRing -------------------------------
(***************************************************************************)
(* SpscPointerRing of src/src/async_pipeline_benchmark.cc: a ring of        *)
(* Capacity raw pointers between one producer thread (try_push) and one     *)
(* consumer thread (pop), with two atomic counters and no lock.             *)
(*                                                                          *)
(* head and tail count the stores made to head_ and tail_; the size_t the   *)
(* code holds is that count modulo WordSize (2^64 in the build).            *)
(*                                                                          *)
(* Memory order.  Each counter has one writer, which reads its own counter  *)
(* exactly.  An acquire load of the OTHER thread's counter may return any   *)
(* value it has held since the one this thread last saw (coherence), not    *)
(* only the latest: tailSeen and headSeen are those last seen values.  The  *)
(* slots are plain memory, so a slot access is free of a data race only if  *)
(* the acquired value orders it after the other side's access.              *)
(***************************************************************************)
EXTENDS Integers, Sequences

CONSTANTS
    Capacity,   \* template parameter Capacity, a power of two
    WordSize,   \* number of values of std::size_t
    Values,     \* the pointers that may be pushed
    NullPtr     \* nullptr

\* Capacity is a power of two, so it divides 2^64 and (n & (Capacity - 1)) is n % Capacity.
ASSUME RingAssumption ==
    /\ Capacity \in Nat \ {0}
    /\ WordSize \in Nat
    /\ Capacity < WordSize
    /\ WordSize % Capacity = 0
    /\ NullPtr \notin Values

VARIABLES
    entries,    \* entries_
    head,       \* stores made to head_: pointers pushed
    tail,       \* stores made to tail_: pointers popped
    tailSeen,   \* the tail the producer last acquired
    headSeen,   \* the head the consumer last acquired
    pushPc,     \* where try_push stands: "idle", "write" or "publish"
    pushValue,  \* try_push's argument
    popPc,      \* where pop stands: "idle", "read" or "release"
    popValue    \* pop's local value, and what it last returned

producerVars == <<head, tailSeen, pushPc, pushValue>>
consumerVars == <<tail, headSeen, popPc, popValue>>
vars == <<entries, producerVars, consumerVars>>

Slots == 0 .. Capacity - 1

\* The size_t that holds count n, the wrapping difference of two of them, and the masked index.
AsWord(n) == n % WordSize
Distance(m, n) == (AsWord(m) - AsWord(n)) % WordSize
Slot(n) == AsWord(n) % Capacity

Init ==
    /\ entries = [s \in Slots |-> NullPtr]
    /\ head = 0 /\ tail = 0
    /\ tailSeen = 0 /\ headSeen = 0
    /\ pushPc = "idle" /\ popPc = "idle"
    /\ pushValue = NullPtr /\ popValue = NullPtr

-------------------------------------------------------------------------------
(* try_push *)

\* Mutants of the full test: one pointer too many, and a difference that does not wrap.
PushIsFullLate(t) == Distance(head, t) = Capacity + 1
PushIsFullUnwrapped(t) == AsWord(head) - AsWord(t) = Capacity

\* The loads and the test: `head - tail == Capacity' says full.
PushIsFull(t) == Distance(head, t) = Capacity

\* Loads that leave room: the call goes on to write its slot.
PushReserve(v) ==
    /\ pushPc = "idle"
    /\ \E t \in tailSeen .. tail :
        /\ ~PushIsFull(t)
        /\ tailSeen' = t
    /\ pushPc' = "write"
    /\ pushValue' = v
    /\ UNCHANGED <<entries, head, consumerVars>>

\* Loads that find the ring full: the call returns false.
PushReject ==
    /\ pushPc = "idle"
    /\ \E t \in tailSeen .. tail :
        /\ PushIsFull(t)
        /\ tailSeen' = t
    /\ UNCHANGED <<entries, head, pushPc, pushValue, consumerVars>>

\* The plain store into the slot.
PushWrite ==
    /\ pushPc = "write"
    /\ entries' = [entries EXCEPT ![Slot(head)] = pushValue]
    /\ pushPc' = "publish"
    /\ UNCHANGED <<head, tailSeen, pushValue, consumerVars>>

\* The release store of head_; the call returns true.
PushPublish ==
    /\ pushPc = "publish"
    /\ head' = head + 1
    /\ pushPc' = "idle"
    /\ UNCHANGED <<entries, tailSeen, pushValue, consumerVars>>

-------------------------------------------------------------------------------
(* pop *)

\* The loads and the test: `tail == head' says empty.
PopIsEmpty(h) == AsWord(tail) = AsWord(h)

\* Loads that find nothing: the call returns nullptr.
PopEmpty ==
    /\ popPc = "idle"
    /\ \E h \in headSeen .. head :
        /\ PopIsEmpty(h)
        /\ headSeen' = h
    /\ popValue' = NullPtr
    /\ UNCHANGED <<entries, tail, popPc, producerVars>>

\* Loads that find a pointer: the call goes on to read its slot.
PopReserve ==
    /\ popPc = "idle"
    /\ \E h \in headSeen .. head :
        /\ ~PopIsEmpty(h)
        /\ headSeen' = h
    /\ popPc' = "read"
    /\ UNCHANGED <<entries, tail, popValue, producerVars>>

\* Mutant of the load: the newest pointer instead of the oldest.
PopReadNewest ==
    /\ popPc = "read"
    /\ popValue' = entries[Slot(headSeen - 1)]
    /\ popPc' = "release"
    /\ UNCHANGED <<entries, tail, headSeen, producerVars>>

\* The plain load of the slot.
PopRead ==
    /\ popPc = "read"
    /\ popValue' = entries[Slot(tail)]
    /\ popPc' = "release"
    /\ UNCHANGED <<entries, tail, headSeen, producerVars>>

\* The release store of tail_; the call returns the pointer.
PopRelease ==
    /\ popPc = "release"
    /\ tail' = tail + 1
    /\ popPc' = "idle"
    /\ UNCHANGED <<entries, headSeen, popValue, producerVars>>

-------------------------------------------------------------------------------
Push == (\E v \in Values : PushReserve(v)) \/ PushReject \/ PushWrite \/ PushPublish
Pop == PopEmpty \/ PopReserve \/ PopRead \/ PopRelease

Next == Push \/ Pop

Spec == Init /\ [][Next]_vars

-------------------------------------------------------------------------------
(* Properties *)

TypeOK ==
    /\ entries \in [Slots -> Values \cup {NullPtr}]
    /\ head \in Nat /\ tail \in Nat
    /\ tailSeen \in Nat /\ headSeen \in Nat
    /\ pushPc \in {"idle", "write", "publish"}
    /\ popPc \in {"idle", "read", "release"}
    /\ pushValue \in Values \cup {NullPtr}
    /\ popValue \in Values \cup {NullPtr}

\* Each side's stale view bounds the other side: try_push never runs over a
\* pointer that may still be unread, pop never runs past what was published,
\* and the ring never holds more than Capacity pointers.
ViewsAgree ==
    /\ tailSeen =< tail /\ tail =< headSeen /\ headSeen =< head
    /\ head - tailSeen =< Capacity
    /\ pushPc # "idle" => head - tailSeen < Capacity
    /\ popPc # "idle" => tail < headSeen

\* The plain accesses to a slot never race: while try_push writes its slot, no
\* published and unreleased pointer lives there, the one pop is reading included.
NoSlotRace ==
    pushPc # "idle" => \A k \in tail .. head - 1 : Slot(k) # Slot(head)

\* A pointer is in its slot before head_ publishes it, and a published pointer is never null.
PublishedWritten ==
    /\ pushPc # "idle" => pushValue \in Values
    /\ pushPc = "publish" => entries[Slot(head)] = pushValue
    /\ \A k \in tail .. head - 1 : entries[Slot(k)] \in Values

\* The inductive invariant: typed state, views that bound the other side, published pointers written.
Inv == TypeOK /\ ViewsAgree /\ PublishedWritten

\* The pointers published and not yet taken, oldest first: pop takes one when it reads its slot.
NextUnread == IF popPc = "release" THEN tail + 1 ELSE tail
Unread == [k \in 1 .. head - NextUnread |-> entries[Slot(NextUnread + k - 1)]]

\* The ring is a bounded FIFO: try_push and pop implement HandoffQueue.
Queue == INSTANCE HandoffQueue WITH queue <- Unread, handed <- popValue

ImplementsQueue == Queue!Spec
===============================================================================
