---------------------------- MODULE SpscRingProofs ----------------------------
(* Proofs about SpscRing: its invariants hold and it implements HandoffQueue. *)
EXTENDS SpscRing, SequenceTheorems, TLAPS

-------------------------------------------------------------------------------
(* Arithmetic of wrapping counters *)

\* Two counts less than N apart and distinct have distinct residues modulo N.
LEMMA ResidueDistinct ==
    ASSUME NEW N \in Nat \ {0}, NEW a \in Nat, NEW b \in Nat, a < b, b - a < N
    PROVE  (a % N) # (b % N)
<1>. DEFINE qa == a \div N
            qb == b \div N
<1>1. /\ qa \in Nat /\ qb \in Nat
      /\ a = (N * qa) + (a % N)
      /\ b = (N * qb) + (b % N)
  OBVIOUS
<1>2. SUFFICES ASSUME (a % N) = (b % N) PROVE FALSE
  OBVIOUS
<1>. HIDE DEF qa, qb
<1>3. b - a = N * (qb - qa)
  BY <1>1, <1>2
<1>4. CASE qb - qa =< 0
  <2>1. N * (qb - qa) =< 0
    BY <1>1, <1>4
  <2>. QED BY <2>1, <1>3
<1>5. CASE qb - qa >= 1
  <2>1. N * (qb - qa) >= N
    BY <1>1, <1>5
  <2>. QED BY <2>1, <1>3
<1>. QED BY <1>1, <1>4, <1>5

\* The size_t difference of two counts less than WordSize apart is their true difference.
LEMMA DistanceExact ==
    ASSUME NEW m \in Nat, NEW n \in Nat, n =< m, m - n < WordSize
    PROVE  Distance(m, n) = m - n
<1>. DEFINE qm == m \div WordSize
            qn == n \div WordSize
            rm == m % WordSize
            rn == n % WordSize
<1>0. WordSize \in Nat \ {0}
  BY RingAssumption
<1>1. /\ qm \in Nat /\ qn \in Nat
      /\ rm \in 0 .. WordSize - 1 /\ rn \in 0 .. WordSize - 1
      /\ m = (WordSize * qm) + rm
      /\ n = (WordSize * qn) + rn
  BY <1>0
<1>2. Distance(m, n) = (rm - rn) % WordSize
  BY DEF Distance, AsWord
<1>. HIDE DEF qm, qn, rm, rn
<1>3. PICK d \in Int : d = qm - qn
  BY <1>1
<1>4. m - n = (WordSize * d) + (rm - rn)
  BY <1>0, <1>1, <1>3
<1>5. d = 0 \/ d = 1
  <2>1. CASE d >= 2
    <3>1. WordSize * d >= WordSize + WordSize
      BY <1>0, <2>1
    <3>. QED BY <3>1, <1>0, <1>1, <1>4
  <2>2. CASE d =< -1
    <3>1. WordSize * d =< 0 - WordSize
      BY <1>0, <2>2
    <3>. QED BY <3>1, <1>0, <1>1, <1>4
  <2>. QED BY <2>1, <2>2
<1>6. CASE d = 0
  <2>1. m - n = rm - rn /\ rm - rn \in 0 .. WordSize - 1
    BY <1>0, <1>1, <1>4, <1>6
  <2>2. (rm - rn) % WordSize = rm - rn
    BY <1>0, <2>1
  <2>. QED BY <1>2, <2>1, <2>2
<1>7. CASE d = 1
  <2>1. m - n = WordSize + (rm - rn) /\ rm - rn \in Int
    BY <1>0, <1>1, <1>4, <1>7
  <2>2. ((rm - rn) % WordSize) = WordSize + (rm - rn)
    BY <1>0, <2>1
  <2>. QED BY <1>2, <2>1, <2>2
<1>. QED BY <1>5, <1>6, <1>7

\* The masked index of a count is the count modulo Capacity: wrapping loses nothing,
\* because Capacity divides WordSize.
LEMMA SlotIsResidue ==
    ASSUME NEW n \in Nat
    PROVE  Slot(n) = n % Capacity /\ Slot(n) \in Slots
<1>. DEFINE q == n \div WordSize
            r == n % WordSize
            c == WordSize \div Capacity
<1>0. WordSize \in Nat \ {0} /\ Capacity \in Nat \ {0}
  BY RingAssumption
<1>1. q \in Nat /\ r \in Nat /\ n = (WordSize * q) + r
  BY <1>0
<1>2. c \in Nat /\ WordSize = Capacity * c
  BY <1>0, RingAssumption
<1>3. Slot(n) = r % Capacity
  BY DEF Slot, AsWord
<1>. HIDE DEF q, r, c
<1>. DEFINE s == r \div Capacity
<1>4. s \in Nat /\ r = (Capacity * s) + (r % Capacity) /\ (r % Capacity) \in 0 .. Capacity - 1
  BY <1>0, <1>1
<1>. HIDE DEF s
<1>5. n = (Capacity * ((c * q) + s)) + (r % Capacity)
  BY <1>0, <1>1, <1>2, <1>4
<1>. DEFINE k == (c * q) + s
<1>6. k \in Nat
  BY <1>1, <1>2, <1>4
<1>. HIDE DEF k
<1>7. n = (Capacity * k) + (r % Capacity)
  BY <1>5 DEF k
<1>8. n % Capacity = r % Capacity
  <2>. DEFINE t == n \div Capacity
  <2>1. t \in Nat /\ n = (Capacity * t) + (n % Capacity) /\ (n % Capacity) \in 0 .. Capacity - 1
    BY <1>0
  <2>. HIDE DEF t
  <2>2. (Capacity * (t - k)) = (r % Capacity) - (n % Capacity)
    BY <1>0, <1>4, <1>6, <1>7, <2>1
  <2>3. CASE t - k >= 1
    <3>1. Capacity * (t - k) >= Capacity
      BY <1>0, <1>6, <2>1, <2>3
    <3>. QED BY <3>1, <1>0, <1>4, <2>1, <2>2
  <2>4. CASE t - k =< -1
    <3>1. Capacity * (t - k) =< 0 - Capacity
      BY <1>0, <1>6, <2>1, <2>4
    <3>. QED BY <3>1, <1>0, <1>4, <2>1, <2>2
  <2>5. CASE t - k = 0
    <3>1. Capacity * (t - k) = 0
      BY <1>0, <2>5
    <3>. QED BY <3>1, <1>0, <1>4, <2>1, <2>2
  <2>. QED BY <1>6, <2>1, <2>3, <2>4, <2>5
<1>. QED BY <1>3, <1>4, <1>8 DEF Slots

\* Distinct counts less than Capacity apart live in distinct slots.
LEMMA SlotDistinct ==
    ASSUME NEW a \in Nat, NEW b \in Nat, a < b, b - a < Capacity
    PROVE  Slot(a) # Slot(b)
  BY SlotIsResidue, ResidueDistinct, RingAssumption

\* pop's test of two wrapped counters tells equal counts from different ones.
LEMMA AsWordDistinct ==
    ASSUME NEW a \in Nat, NEW b \in Nat, a =< b, b - a < WordSize
    PROVE  (AsWord(a) = AsWord(b)) <=> a = b
<1>1. CASE a = b
  BY <1>1
<1>2. CASE a < b
  <2>1. WordSize \in Nat \ {0}
    BY RingAssumption
  <2>. QED BY <1>2, <2>1, ResidueDistinct DEF AsWord
<1>. QED BY <1>1, <1>2

-------------------------------------------------------------------------------
(* The invariants *)

\* The inductive invariant holds: the stale views bound each other, so nothing unread is
\* overwritten and nothing unwritten is published, for every capacity and word size.
THEOREM Invariance == Spec => []Inv
<1>. USE RingAssumption
<1>1. Init => Inv
  <2>. SUFFICES ASSUME Init PROVE Inv
    OBVIOUS
  <2>1. TypeOK
    BY DEF Init, TypeOK
  <2>2. ViewsAgree
    BY DEF Init, ViewsAgree
  <2>3. PublishedWritten
    BY DEF Init, PublishedWritten
  <2>. QED BY <2>1, <2>2, <2>3 DEF Inv
<1>2. Inv /\ [Next]_vars => Inv'
  <2>. SUFFICES ASSUME Inv, [Next]_vars PROVE Inv'
    OBVIOUS
  <2>. USE DEF Inv
  <2>1. ASSUME NEW v \in Values, PushReserve(v) PROVE Inv'
    <3>1. PICK t \in tailSeen .. tail : ~PushIsFull(t) /\ tailSeen' = t
      BY <2>1 DEF PushReserve
    <3>2. t \in Nat /\ t =< head /\ head - t =< Capacity /\ head - t < WordSize
      BY <3>1 DEF TypeOK, ViewsAgree
    <3>3. head - t < Capacity
      BY <3>1, <3>2, DistanceExact DEF PushIsFull, TypeOK
    <3>4. TypeOK'
      BY <2>1, <3>1, <3>2 DEF PushReserve, TypeOK, consumerVars
    <3>5. ViewsAgree'
      BY <2>1, <3>1, <3>2, <3>3 DEF PushReserve, TypeOK, ViewsAgree, consumerVars
    <3>6. PublishedWritten'
      BY <2>1 DEF PushReserve, PublishedWritten, consumerVars, Slot, AsWord
    <3>. QED BY <3>4, <3>5, <3>6
  <2>2. CASE PushReject
    <3>1. PICK t \in tailSeen .. tail : tailSeen' = t
      BY <2>2 DEF PushReject
    <3>2. TypeOK'
      BY <2>2, <3>1 DEF PushReject, TypeOK, consumerVars
    <3>3. ViewsAgree'
      BY <2>2, <3>1 DEF PushReject, TypeOK, ViewsAgree, consumerVars
    <3>4. PublishedWritten'
      BY <2>2 DEF PushReject, PublishedWritten, consumerVars, Slot, AsWord
    <3>. QED BY <3>2, <3>3, <3>4
  <2>3. CASE PushWrite
    <3>1. Slot(head) \in Slots
      BY SlotIsResidue DEF TypeOK
    <3>2. TypeOK'
      BY <2>3, <3>1 DEF PushWrite, TypeOK, PublishedWritten, consumerVars
    <3>3. ViewsAgree'
      BY <2>3 DEF PushWrite, ViewsAgree, consumerVars
    <3>4. ASSUME NEW k \in tail .. head - 1 PROVE Slot(k) \in Slots /\ Slot(k) # Slot(head)
      BY <2>3, SlotIsResidue, SlotDistinct DEF PushWrite, TypeOK, ViewsAgree
    <3>5. PublishedWritten'
      BY <2>3, <3>1, <3>4 DEF PushWrite, TypeOK, PublishedWritten, consumerVars, Slot, AsWord
    <3>. QED BY <3>2, <3>3, <3>5
  <2>4. CASE PushPublish
    <3>1. TypeOK'
      BY <2>4 DEF PushPublish, TypeOK, consumerVars
    <3>2. ViewsAgree'
      BY <2>4 DEF PushPublish, TypeOK, ViewsAgree, consumerVars
    <3>3. PublishedWritten'
      BY <2>4 DEF PushPublish, TypeOK, PublishedWritten, consumerVars, Slot, AsWord
    <3>. QED BY <3>1, <3>2, <3>3
  <2>5. CASE PopEmpty
    <3>1. PICK h \in headSeen .. head : headSeen' = h
      BY <2>5 DEF PopEmpty
    <3>2. TypeOK'
      BY <2>5, <3>1 DEF PopEmpty, TypeOK, producerVars
    <3>3. ViewsAgree'
      BY <2>5, <3>1 DEF PopEmpty, TypeOK, ViewsAgree, producerVars
    <3>4. PublishedWritten'
      BY <2>5 DEF PopEmpty, PublishedWritten, producerVars, Slot, AsWord
    <3>. QED BY <3>2, <3>3, <3>4
  <2>6. CASE PopReserve
    <3>1. PICK h \in headSeen .. head : ~PopIsEmpty(h) /\ headSeen' = h
      BY <2>6 DEF PopReserve
    <3>2. tail # h
      BY <3>1 DEF PopIsEmpty
    <3>3. TypeOK'
      BY <2>6, <3>1 DEF PopReserve, TypeOK, producerVars
    <3>4. ViewsAgree'
      BY <2>6, <3>1, <3>2 DEF PopReserve, TypeOK, ViewsAgree, producerVars
    <3>5. PublishedWritten'
      BY <2>6 DEF PopReserve, PublishedWritten, producerVars, Slot, AsWord
    <3>. QED BY <3>3, <3>4, <3>5
  <2>7. CASE PopRead
    <3>1. Slot(tail) \in Slots
      BY SlotIsResidue DEF TypeOK
    <3>2. TypeOK'
      BY <2>7, <3>1 DEF PopRead, TypeOK, producerVars
    <3>3. ViewsAgree'
      BY <2>7 DEF PopRead, ViewsAgree, producerVars
    <3>4. PublishedWritten'
      BY <2>7 DEF PopRead, PublishedWritten, producerVars, Slot, AsWord
    <3>. QED BY <3>2, <3>3, <3>4
  <2>8. CASE PopRelease
    <3>1. TypeOK'
      BY <2>8 DEF PopRelease, TypeOK, producerVars
    <3>2. ViewsAgree'
      BY <2>8 DEF PopRelease, TypeOK, ViewsAgree, producerVars
    <3>3. PublishedWritten'
      BY <2>8 DEF PopRelease, TypeOK, PublishedWritten, producerVars, Slot, AsWord
    <3>. QED BY <3>1, <3>2, <3>3
  <2>9. CASE UNCHANGED vars
    BY <2>9 DEF vars, producerVars, consumerVars, TypeOK, ViewsAgree, PublishedWritten, Slot, AsWord
  <2>. QED BY <2>1, <2>2, <2>3, <2>4, <2>5, <2>6, <2>7, <2>8, <2>9 DEF Next, Push, Pop
<1>. QED BY <1>1, <1>2, PTL DEF Spec

\* The plain slot accesses of try_push and pop never race.
THEOREM RaceFreedom == Spec => []NoSlotRace
<1>1. Inv => NoSlotRace
  BY SlotDistinct, RingAssumption DEF Inv, TypeOK, ViewsAgree, NoSlotRace
<1>. QED BY <1>1, Invariance, PTL

-------------------------------------------------------------------------------
(* Refinement of HandoffQueue *)

\* The n slots from count b on, as a sequence.
Window(e, b, n) == [k \in 1 .. n |-> e[Slot(b + k - 1)]]

\* A window of written slots is a sequence of pointers.
LEMMA WindowIsSeq ==
    ASSUME NEW e, NEW b \in Nat, NEW n \in Nat, \A k \in b .. b + n - 1 : e[Slot(k)] \in Values
    PROVE  /\ Window(e, b, n) \in Seq(Values)
           /\ Len(Window(e, b, n)) = n
           /\ \A k \in 1 .. n : Window(e, b, n)[k] = e[Slot(b + k - 1)]
<1>1. \A k \in 1 .. n : e[Slot(b + k - 1)] \in Values
  <2>. SUFFICES ASSUME NEW k \in 1 .. n PROVE e[Slot(b + k - 1)] \in Values
    OBVIOUS
  <2>1. b + k - 1 \in b .. b + n - 1
    OBVIOUS
  <2>. QED BY <2>1
<1>2. Window(e, b, n) \in [1 .. n -> Values]
  BY <1>1 DEF Window
<1>. QED BY <1>2 DEF Window

\* Publishing one more slot appends its pointer.
LEMMA WindowAppend ==
    ASSUME NEW e, NEW b \in Nat, NEW n \in Nat, \A k \in b .. b + n : e[Slot(k)] \in Values
    PROVE  Window(e, b, n + 1) = Append(Window(e, b, n), e[Slot(b + n)])
<1>. DEFINE s == Window(e, b, n)
            t == Window(e, b, n + 1)
            v == e[Slot(b + n)]
<1>1. s \in Seq(Values) /\ Len(s) = n /\ \A k \in 1 .. n : s[k] = e[Slot(b + k - 1)]
  BY WindowIsSeq
<1>2. t \in Seq(Values) /\ Len(t) = n + 1 /\ \A k \in 1 .. n + 1 : t[k] = e[Slot(b + k - 1)]
  BY WindowIsSeq
<1>3. v \in Values
  OBVIOUS
<1>. HIDE DEF s, t
<1>4. Append(s, v) \in Seq(Values) /\ Len(Append(s, v)) = n + 1
  BY <1>1, <1>3
<1>5. ASSUME NEW k \in 1 .. n + 1 PROVE Append(s, v)[k] = t[k]
  <2>1. CASE k = n + 1
    <3>1. b + k - 1 = b + n
      BY <2>1
    <3>2. t[k] = v
      BY <1>2, <3>1
    <3>3. Append(s, v)[k] = v
      BY <1>1, <1>3, <2>1
    <3>. QED BY <3>2, <3>3
  <2>2. CASE k \in 1 .. n
    <3>1. Append(s, v)[k] = s[k]
      BY <1>1, <1>3, <2>2
    <3>. QED BY <1>1, <1>2, <2>2, <3>1
  <2>3. k = n + 1 \/ k \in 1 .. n
    OBVIOUS
  <2>. QED BY <2>1, <2>2, <2>3
<1>6. t = Append(s, v)
  BY <1>2, <1>4, <1>5, SeqEqual
<1>. QED BY <1>6 DEF s, t

\* Taking the oldest slot leaves the window that starts one later.
LEMMA WindowTail ==
    ASSUME NEW e, NEW b \in Nat, NEW n \in Nat \ {0},
           \A k \in b .. b + n - 1 : e[Slot(k)] \in Values
    PROVE  /\ Window(e, b, n) # <<>>
           /\ Head(Window(e, b, n)) = e[Slot(b)]
           /\ Tail(Window(e, b, n)) = Window(e, b + 1, n - 1)
<1>. DEFINE s == Window(e, b, n)
            t == Window(e, b + 1, n - 1)
<1>1. s \in Seq(Values) /\ Len(s) = n /\ \A k \in 1 .. n : s[k] = e[Slot(b + k - 1)]
  BY WindowIsSeq
<1>2. t \in Seq(Values) /\ Len(t) = n - 1 /\ \A k \in 1 .. n - 1 : t[k] = e[Slot((b + 1) + k - 1)]
  <2>1. n - 1 \in Nat /\ b + 1 \in Nat /\ (b + 1) .. (b + 1) + (n - 1) - 1 \subseteq b .. b + n - 1
    OBVIOUS
  <2>. QED BY <2>1, WindowIsSeq
<1>. HIDE DEF s, t
<1>3. s # <<>>
  BY <1>1
<1>4. Head(s) = e[Slot(b)]
  <2>1. b + 1 - 1 = b /\ 1 \in 1 .. n
    OBVIOUS
  <2>2. Head(s) = s[1]
    BY <1>1, <1>3
  <2>. QED BY <1>1, <2>1, <2>2
<1>5. Tail(s) \in Seq(Values) /\ Len(Tail(s)) = n - 1 /\ \A k \in 1 .. n - 1 : Tail(s)[k] = s[k + 1]
  BY <1>1, <1>3, HeadTailProperties
<1>6. ASSUME NEW k \in 1 .. n - 1 PROVE Tail(s)[k] = t[k]
  <2>1. b + (k + 1) - 1 = (b + 1) + k - 1 /\ k + 1 \in 1 .. n
    OBVIOUS
  <2>. QED BY <1>1, <1>2, <1>5, <2>1
<1>7. Tail(s) = t
  BY <1>2, <1>5, <1>6, SeqEqual
<1>. QED BY <1>3, <1>4, <1>7 DEF s, t

\* Windows over the same contents are the same.
LEMMA WindowSame ==
    ASSUME NEW e, NEW f, NEW b \in Nat, NEW n \in Nat,
           \A k \in b .. b + n - 1 : e[Slot(k)] = f[Slot(k)]
    PROVE  Window(e, b, n) = Window(f, b, n)
<1>1. ASSUME NEW k \in 1 .. n PROVE e[Slot(b + k - 1)] = f[Slot(b + k - 1)]
  <2>1. b + k - 1 \in b .. b + n - 1
    OBVIOUS
  <2>. QED BY <2>1
<1>. QED BY <1>1 DEF Window

\* try_push and pop, racing as they may and with counters that wrap, are a bounded FIFO:
\* publishing enqueues, reading a slot dequeues, every other step changes nothing a user sees.
THEOREM Refinement == Spec => ImplementsQueue
<1>. USE RingAssumption
<1>. DEFINE n == head - NextUnread
<1>0. Unread = Window(entries, NextUnread, n)
  BY DEF Unread, Window
<1>. HIDE DEF n
<1>1. Init => Queue!Init
  <2>. SUFFICES ASSUME Init PROVE Queue!Init
    OBVIOUS
  <2>1. Unread = <<>>
    BY DEF Init, Unread, NextUnread
  <2>. QED BY <2>1 DEF Init, Queue!Init
<1>2. Inv /\ [Next]_vars => [Queue!Next]_(Queue!vars)
  <2>. SUFFICES ASSUME Inv, [Next]_vars PROVE [Queue!Next]_(Queue!vars)
    OBVIOUS
  <2>. USE DEF Inv
  <2>0. /\ NextUnread \in Nat /\ n \in Nat
        /\ NextUnread \in tail .. head
        /\ \A k \in NextUnread .. NextUnread + n - 1 : entries[Slot(k)] \in Values
    BY DEF n, TypeOK, ViewsAgree, PublishedWritten, NextUnread
  <2>a. Unread' = Window(entries', NextUnread', n')
    BY DEF n, Unread, Window, Slot, AsWord
  <2>1. ASSUME NEW v \in Values, PushReserve(v) PROVE UNCHANGED <<Unread, popValue>>
    BY <2>1 DEF PushReserve, Unread, NextUnread, Slot, AsWord, consumerVars
  <2>2. CASE PushReject
    <3>1. UNCHANGED <<Unread, popValue>>
      BY <2>2 DEF PushReject, Unread, NextUnread, Slot, AsWord, consumerVars
    <3>. QED BY <3>1 DEF Queue!vars
  <2>3. CASE PushWrite
    <3>1. /\ NextUnread' = NextUnread /\ n' = n /\ popValue' = popValue
          /\ entries' = [entries EXCEPT ![Slot(head)] = pushValue]
      BY <2>3 DEF n, PushWrite, NextUnread, consumerVars
    <3>2. ASSUME NEW k \in NextUnread .. NextUnread + n - 1 PROVE entries'[Slot(k)] = entries[Slot(k)]
      <4>1. k \in Nat /\ k < head /\ head - k < Capacity
        BY <2>0, <2>3 DEF n, PushWrite, TypeOK, ViewsAgree
      <4>2. Slot(k) # Slot(head) /\ Slot(k) \in Slots
        BY <4>1, SlotDistinct, SlotIsResidue DEF TypeOK
      <4>. QED BY <3>1, <4>2 DEF TypeOK
    <3>3. Window(entries', NextUnread, n) = Window(entries, NextUnread, n)
      BY <2>0, <3>2, WindowSame
    <3>4. Unread' = Unread
      BY <1>0, <2>a, <3>1, <3>3
    <3>. QED BY <3>1, <3>4 DEF Queue!vars
  <2>4. CASE PushPublish
    <3>1. /\ NextUnread' = NextUnread /\ head' = head + 1 /\ n' = n + 1
          /\ entries' = entries /\ popValue' = popValue
      BY <2>0, <2>4 DEF n, PushPublish, NextUnread, TypeOK, consumerVars
    <3>2. entries[Slot(head)] \in Values /\ NextUnread + n = head /\ n < Capacity
      BY <2>0, <2>4 DEF n, PushPublish, TypeOK, ViewsAgree, PublishedWritten
    <3>3. \A k \in NextUnread .. NextUnread + n : entries[Slot(k)] \in Values
      BY <2>0, <3>2 DEF TypeOK
    <3>4. Window(entries, NextUnread, n + 1) = Append(Window(entries, NextUnread, n), entries[Slot(NextUnread + n)])
      BY <2>0, <3>3, WindowAppend
    <3>5. Unread' = Append(Unread, entries[Slot(head)]) /\ Len(Unread) = n
      <4>1. Unread' = Window(entries, NextUnread, n + 1)
        BY <2>a, <3>1
      <4>2. Len(Unread) = n
        BY <1>0, <2>0, WindowIsSeq
      <4>. QED BY <1>0, <3>2, <3>4, <4>1, <4>2
    <3>6. Queue!Enqueue(entries[Slot(head)])
      BY <3>1, <3>2, <3>5 DEF Queue!Enqueue
    <3>. QED BY <3>2, <3>6 DEF Queue!Next
  <2>5. CASE PopEmpty
    <3>1. UNCHANGED Unread /\ popValue' = NullPtr
      BY <2>5 DEF PopEmpty, Unread, NextUnread, Slot, AsWord, producerVars
    <3>. QED BY <3>1 DEF Queue!Next, Queue!FindNothing
  <2>6. CASE PopReserve
    <3>1. UNCHANGED <<Unread, popValue>>
      BY <2>6 DEF PopReserve, Unread, NextUnread, Slot, AsWord, producerVars
    <3>. QED BY <3>1 DEF Queue!vars
  <2>7. CASE PopRead
    <3>1. /\ NextUnread = tail /\ NextUnread' = tail + 1 /\ n' = n - 1 /\ n > 0
          /\ entries' = entries /\ popValue' = entries[Slot(tail)]
      BY <2>0, <2>7 DEF n, PopRead, NextUnread, TypeOK, ViewsAgree, producerVars
    <3>2. Unread # <<>> /\ Head(Unread) = entries[Slot(tail)] /\ Tail(Unread) = Unread'
      BY <1>0, <2>0, <2>a, <3>1, WindowTail
    <3>. QED BY <3>1, <3>2 DEF Queue!Next, Queue!Dequeue
  <2>8. CASE PopRelease
    <3>1. UNCHANGED <<Unread, popValue>>
      BY <2>8 DEF PopRelease, Unread, NextUnread, Slot, AsWord, producerVars
    <3>. QED BY <3>1 DEF Queue!vars
  <2>9. CASE UNCHANGED vars
    <3>1. UNCHANGED <<Unread, popValue>>
      BY <2>9 DEF vars, producerVars, consumerVars, Unread, NextUnread, Slot, AsWord
    <3>. QED BY <3>1 DEF Queue!vars
  <2>. QED BY <2>1, <2>2, <2>3, <2>4, <2>5, <2>6, <2>7, <2>8, <2>9 DEF Next, Push, Pop, Queue!vars
<1>. QED BY <1>1, <1>2, Invariance, PTL DEF Spec, ImplementsQueue, Queue!Spec
===============================================================================
