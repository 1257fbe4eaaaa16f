--------------------------- MODULE EpQueueProofs ---------------------------
(***************************************************************************)
(* Theorems about the endpoint event ring, for every ring size, every set  *)
(* of endpoint codes and every bound on the outstanding packets: also for  *)
(* a ring that its producer has lapped, many times over if need be.        *)
(*                                                                         *)
(* The inductive invariant adds to the types that back is front plus the   *)
(* number of pending codes, wrapped: that is what makes the ring readable  *)
(* without an element count, and all the main loop can know of it.         *)
(***************************************************************************)
EXTENDS EpQueue, Integers, SequenceTheorems, TLAPS

-----------------------------------------------------------------------------
(***************************************************************************)
(* Indices that wrap around.                                               *)
(***************************************************************************)
LEMMA Euclid ==
    ASSUME NEW x \in Nat
    PROVE  /\ x \div QueueSize \in Nat /\ Wrap(x) \in 0 .. QueueSize - 1
           /\ x = QueueSize * (x \div QueueSize) + Wrap(x)
BY QueueSizeAssumption DEF Wrap

\* A multiple of the size that is less than the size is nothing.
LEMMA SmallMultiple ==
    ASSUME NEW k \in Int, 0 <= QueueSize * k, QueueSize * k < QueueSize
    PROVE  k = 0
<1>1. QueueSize \in Nat /\ QueueSize >= 2
  BY QueueSizeAssumption
<1>2. k >= 1 => QueueSize * k >= QueueSize
  BY <1>1
<1>3. k <= -1 => QueueSize * k < 0
  BY <1>1
<1> QED
  BY <1>1, <1>2, <1>3

\* Two indices less than a round apart have slots of their own.
LEMMA WrapApart ==
    ASSUME NEW a \in Nat, NEW b \in Nat, a < b, b < a + QueueSize
    PROVE  Wrap(a) # Wrap(b)
<1> SUFFICES ASSUME Wrap(a) = Wrap(b) PROVE FALSE
  OBVIOUS
<1> DEFINE p == a \div QueueSize
           q == b \div QueueSize
<1>1. /\ QueueSize \in Nat /\ p \in Nat /\ q \in Nat /\ Wrap(a) \in Nat
      /\ a = QueueSize * p + Wrap(a) /\ b = QueueSize * q + Wrap(a)
  BY Euclid, QueueSizeAssumption
<1> HIDE DEF p, q
<1>2. QueueSize * (q - p) = b - a
  BY <1>1
<1>3. q - p = 0
  BY <1>1, <1>2, SmallMultiple
<1> QED
  BY <1>1, <1>2, <1>3

\* The slot of an index is known from any way of writing it.
LEMMA WrapOf ==
    ASSUME NEW x \in Nat, NEW q \in Nat, NEW r \in 0 .. QueueSize - 1, x = QueueSize * q + r
    PROVE  Wrap(x) = r
<1> DEFINE p == x \div QueueSize
           s == Wrap(x)
<1>1. p \in Nat /\ s \in 0 .. QueueSize - 1 /\ x = QueueSize * p + s /\ QueueSize \in Nat
  BY Euclid, QueueSizeAssumption
<1> HIDE DEF p, s
<1>2. QueueSize * (p - q) = r - s /\ QueueSize * (q - p) = s - r
  BY <1>1
<1>3. p - q = 0 \/ q - p = 0
  <2>1. CASE r >= s
    BY <1>1, <1>2, <2>1, SmallMultiple
  <2>2. CASE s >= r
    BY <1>1, <1>2, <2>2, SmallMultiple
  <2> QED
    BY <1>1, <2>1, <2>2
<1>4. p = q /\ QueueSize * 0 = 0
  BY <1>1, <1>3
<1>5. r = s
  BY <1>1, <1>2, <1>4
<1> QED
  BY <1>5 DEF s

\* A whole round changes nothing.
LEMMA WrapRound ==
    ASSUME NEW a \in Nat, NEW k \in Nat
    PROVE  Wrap(a + QueueSize * k) = Wrap(a)
<1> DEFINE p == a \div QueueSize
<1>1. /\ QueueSize \in Nat /\ p \in Nat /\ Wrap(a) \in 0 .. QueueSize - 1
      /\ a = QueueSize * p + Wrap(a)
  BY Euclid, QueueSizeAssumption
<1> HIDE DEF p
<1>2. a + QueueSize * k = QueueSize * (p + k) + Wrap(a) /\ a + QueueSize * k \in Nat
  BY <1>1
<1> QED
  BY <1>1, <1>2, WrapOf

LEMMA WrapSlot ==
    ASSUME NEW i \in Slots
    PROVE  Wrap(i) = i
<1>1. i \in Nat /\ i \in 0 .. QueueSize - 1 /\ i = QueueSize * 0 + i
  BY QueueSizeAssumption DEF Slots
<1> QED
  BY <1>1, WrapOf

\* front and back advance by one slot and start over after the last.
LEMMA NextSlotValue ==
    ASSUME NEW i \in Slots
    PROVE  /\ NextSlot(i) = IF i + 1 = QueueSize THEN 0 ELSE i + 1
           /\ NextSlot(i) \in Slots
           /\ \A n \in Nat : Wrap(NextSlot(i) + n) = Wrap(i + 1 + n)
<1>1. i \in 0 .. QueueSize - 1 /\ QueueSize \in Nat /\ QueueSize >= 2
  BY QueueSizeAssumption DEF Slots
<1>2. CASE i + 1 = QueueSize
  <2>1. i + 1 = QueueSize * 1 + 0 /\ i + 1 \in Nat /\ 0 \in 0 .. QueueSize - 1
    BY <1>1, <1>2
  <2>2. NextSlot(i) = 0
    BY <2>1, WrapOf DEF NextSlot
  <2>3. ASSUME NEW n \in Nat PROVE Wrap(n) = Wrap(i + 1 + n)
    <3>1. i + 1 + n = n + QueueSize * 1
      BY <1>1, <1>2
    <3> QED
      BY <3>1, WrapRound
  <2> QED
    BY <1>1, <1>2, <2>2, <2>3 DEF Slots
<1>3. CASE i + 1 # QueueSize
  <2>1. i + 1 \in Slots
    BY <1>1, <1>3 DEF Slots
  <2>2. NextSlot(i) = i + 1
    BY <2>1, WrapSlot DEF NextSlot
  <2> QED
    BY <1>3, <2>1, <2>2
<1> QED
  BY <1>2, <1>3

\* Types: every step of either thread keeps the two indices inside the ring,
\* whatever number of packets is outstanding.
THEOREM EpQueueTypeCorrect == Spec => []TypeOK
<1>1. Init => TypeOK
  <2>1. <<>> \in Seq(Endpoints) /\ Len(<<>>) = 0
    OBVIOUS
  <2> QED
    BY <2>1, QueueSizeAssumption, MaxOutstandingAssumption, ZeroCodeAssumption
    DEF Init, TypeOK, Slots
<1>2. TypeOK /\ [Next]_vars => TypeOK'
  <2> SUFFICES ASSUME TypeOK, [Next]_vars PROVE TypeOK'
    OBVIOUS
  <2> USE DEF TypeOK
  <2>1. CASE Poll
    BY <2>1 DEF Poll
  <2>2. CASE Fetch
    <3>1. front' \in Slots
      BY <2>2, NextSlotValue DEF Fetch
    <3>2. fetched' \in Endpoints
      BY <2>2 DEF Fetch
    <3>3. pending' \in Seq(Endpoints) /\ Len(pending') <= MaxOutstanding
      BY <2>2, HeadTailProperties, MaxOutstandingAssumption, LenProperties DEF Fetch
    <3> QED
      BY <2>2, <3>1, <3>2, <3>3 DEF Fetch
  <2>3. ASSUME NEW ep \in Endpoints, NotifyEp(ep) PROVE TypeOK'
    <3>1. back' \in Slots
      BY <2>3, NextSlotValue DEF NotifyEp
    <3>2. pending' \in Seq(Endpoints) /\ Len(pending') = Len(pending) + 1
      BY <2>3, AppendProperties DEF NotifyEp
    <3>3. Len(pending') <= MaxOutstanding
      BY <2>3, <3>2, LenProperties, MaxOutstandingAssumption DEF NotifyEp
    <3> QED
      BY <2>3, <3>1, <3>2, <3>3 DEF NotifyEp
  <2>4. CASE UNCHANGED vars
    BY <2>4 DEF vars
  <2> QED
    BY <2>1, <2>2, <2>3, <2>4 DEF Next
<1> QED
  BY <1>1, <1>2, PTL DEF Spec

-----------------------------------------------------------------------------
(***************************************************************************)
(* What the ring holds.                                                    *)
(***************************************************************************)
\* back is where the pending codes end.
BackIsEnd == back = Wrap(front + Len(pending))

IInv == TypeOK /\ BackIsEnd /\ RingHoldsLatest /\ FetchHasEvent

LEMMA RingFacts ==
    ASSUME TypeOK
    PROVE  /\ Len(pending) \in Nat /\ front \in Nat /\ front \in Slots
           /\ QueueSize \in Nat /\ QueueSize >= 2
           /\ pending \in Seq(Endpoints) /\ (pending = <<>> <=> Len(pending) = 0)
BY LenProperties, EmptySeq, QueueSizeAssumption DEF TypeOK, Slots

\* The ring answers "event" unless the number of its codes is a multiple of its
\* size.
LEMMA IsEventExact ==
    ASSUME TypeOK, BackIsEnd
    PROVE  IsEvent <=> Wrap(Len(pending)) # 0
<1> DEFINE n == Len(pending)
           p == n \div QueueSize
           r == Wrap(n)
<1>1. /\ n \in Nat /\ front \in Nat /\ front \in 0 .. QueueSize - 1
      /\ QueueSize \in Nat /\ QueueSize >= 2
  BY RingFacts DEF Slots
<1>2. p \in Nat /\ r \in 0 .. QueueSize - 1 /\ n = QueueSize * p + r
  BY <1>1, Euclid
<1>3. back = Wrap(front + n) /\ Wrap(front) = front
  BY RingFacts, WrapSlot DEF BackIsEnd
<1> HIDE DEF n, p, r
<1>4. Wrap(front + n) = Wrap(front + r)
  <2>1. front + n = (front + r) + QueueSize * p /\ front + r \in Nat
    BY <1>1, <1>2
  <2> QED
    BY <1>2, <2>1, WrapRound
<1>5. CASE r = 0
  <2>1. front + r = front
    BY <1>1, <1>5
  <2> QED
    BY <1>3, <1>4, <1>5, <2>1 DEF IsEvent, r, n
<1>6. CASE r # 0
  <2>1. front + r \in Nat /\ front < front + r /\ front + r < front + QueueSize
    BY <1>1, <1>2, <1>6
  <2>2. Wrap(front) # Wrap(front + r)
    BY <1>1, <2>1, WrapApart
  <2> QED
    BY <1>3, <1>4, <1>6, <2>2 DEF IsEvent, r, n
<1> QED
  BY <1>5, <1>6

LEMMA IInvInit == Init => IInv
<1> SUFFICES ASSUME Init PROVE IInv
  OBVIOUS
<1>1. TypeOK
  <2>1. <<>> \in Seq(Endpoints) /\ Len(<<>>) = 0
    OBVIOUS
  <2> QED
    BY <2>1, QueueSizeAssumption, MaxOutstandingAssumption, ZeroCodeAssumption
    DEF Init, TypeOK, Slots
<1>2. BackIsEnd
  <2>1. 0 \in Slots /\ front + Len(pending) = 0 /\ back = 0
    BY QueueSizeAssumption DEF Init, Slots
  <2> QED
    BY <2>1, WrapSlot DEF BackIsEnd
<1>3. RingHoldsLatest /\ FetchHasEvent
  BY DEF Init, RingHoldsLatest, FetchHasEvent
<1> QED
  BY <1>1, <1>2, <1>3 DEF IInv

LEMMA IInvStep ==
    ASSUME IInv, [Next]_vars, TypeOK'
    PROVE  IInv'
<1>0. /\ Len(pending) \in Nat /\ front \in Nat /\ front \in Slots
      /\ QueueSize \in Nat /\ QueueSize >= 2 /\ pending \in Seq(Endpoints)
  BY RingFacts DEF IInv
<1>1. CASE Poll
  <2>1. BackIsEnd' /\ RingHoldsLatest'
    BY <1>1 DEF Poll, IInv, BackIsEnd, RingHoldsLatest, SlotOf
  <2>2. FetchHasEvent'
    <3>1. IsEvent => pending # <<>>
      <4>1. 0 \in Slots
        BY <1>0 DEF Slots
      <4> QED
        BY <4>1, IsEventExact, WrapSlot DEF IInv
    <3> QED
      BY <1>1, <3>1 DEF Poll, FetchHasEvent
  <2> QED
    BY <2>1, <2>2 DEF IInv
<1>2. CASE Fetch
  <2>1. pending # <<>> /\ pending' = Tail(pending)
    BY <1>2 DEF Fetch, IInv, FetchHasEvent
  <2>2. /\ Len(pending) # 0
        /\ Len(pending') = Len(pending) - 1
        /\ \A i \in 1 .. Len(pending') : pending'[i] = pending[i + 1]
    BY <2>1, <1>0, HeadTailProperties, EmptySeq
  <2>3. /\ front' = NextSlot(front) /\ UNCHANGED <<back, queue>>
        /\ \A n \in Nat : Wrap(front' + n) = Wrap(front + 1 + n)
    BY <1>0, <1>2, NextSlotValue DEF Fetch
  <2>4. BackIsEnd'
    <3>1. Len(pending') \in Nat /\ front + 1 + Len(pending') = front + Len(pending)
      BY <1>0, <2>2
    <3>2. Wrap(front' + Len(pending')) = Wrap(front + Len(pending))
      BY <2>3, <3>1
    <3> QED
      BY <2>3, <3>2 DEF BackIsEnd, IInv
  <2>5. RingHoldsLatest'
    <3> SUFFICES ASSUME NEW i \in 1 .. Len(pending'), i + QueueSize > Len(pending')
                 PROVE  queue'[Wrap(front' + i - 1)] = pending'[i]
      BY DEF RingHoldsLatest, SlotOf
    <3>1. /\ i - 1 \in Nat /\ i + 1 \in 1 .. Len(pending)
          /\ i + 1 + QueueSize > Len(pending)
          /\ front + 1 + (i - 1) = front + (i + 1) - 1
      BY <1>0, <2>2
    <3>2. front' \in Nat
      BY <1>0, <2>3, NextSlotValue DEF Slots
    <3>3. front' + i - 1 = front' + (i - 1)
      BY <3>1, <3>2
    <3>4. Wrap(front' + i - 1) = Wrap(front + (i + 1) - 1)
      BY <2>3, <3>1, <3>3
    <3>5. queue[Wrap(front + (i + 1) - 1)] = pending[i + 1]
      BY <3>1 DEF IInv, RingHoldsLatest, SlotOf
    <3> QED
      BY <2>2, <2>3, <3>4, <3>5
  <2>6. FetchHasEvent'
    BY <1>2 DEF Fetch, FetchHasEvent
  <2> QED
    BY <2>4, <2>5, <2>6 DEF IInv
<1>3. ASSUME NEW ep \in Endpoints, NotifyEp(ep) PROVE IInv'
  <2>2. /\ pending' = Append(pending, ep)
        /\ pending' # <<>>
        /\ Len(pending') = Len(pending) + 1
        /\ \A i \in 1 .. Len(pending) : pending'[i] = pending[i]
        /\ pending'[Len(pending) + 1] = ep
    BY <1>3, AppendProperties DEF NotifyEp, IInv, TypeOK
  <2>3. /\ front' = front
        /\ queue' = [queue EXCEPT ![back] = ep]
        /\ back' = NextSlot(back)
        /\ back \in Slots /\ back = Wrap(front + Len(pending))
        /\ queue \in [Slots -> Endpoints]
    BY <1>3 DEF NotifyEp, IInv, TypeOK, BackIsEnd
  <2>4. BackIsEnd'
    <3>1. Wrap(NextSlot(back) + 0) = Wrap(back + 1 + 0)
      BY <2>3, NextSlotValue
    <3>2. back + 1 + 0 = back + 1 /\ NextSlot(back) + 0 = NextSlot(back)
      <4>1. back \in Nat /\ NextSlot(back) \in Nat
        BY <1>0, <2>3, NextSlotValue DEF Slots
      <4> QED
        BY <4>1
    <3>3. Wrap(back + 1) = Wrap(front + Len(pending) + 1)
      <4> DEFINE x == front + Len(pending)
                 q == x \div QueueSize
      <4>1. x \in Nat
        BY <1>0
      <4>2. q \in Nat /\ back \in Nat /\ x = QueueSize * q + back
        BY <2>3, <4>1, Euclid DEF Slots
      <4> HIDE DEF x, q
      <4>3. x + 1 = (back + 1) + QueueSize * q /\ back + 1 \in Nat
        BY <1>0, <4>1, <4>2
      <4>4. Wrap(x + 1) = Wrap(back + 1)
        BY <4>2, <4>3, WrapRound
      <4> QED
        BY <4>4 DEF x
    <3>4. front' + Len(pending') = front + Len(pending) + 1
      BY <1>0, <2>2, <2>3
    <3>5. Wrap(NextSlot(back)) = NextSlot(back)
      BY <2>3, NextSlotValue, WrapSlot
    <3> QED
      BY <2>3, <3>1, <3>2, <3>3, <3>4, <3>5 DEF BackIsEnd
  <2>5. RingHoldsLatest'
    <3> SUFFICES ASSUME NEW i \in 1 .. Len(pending'), i + QueueSize > Len(pending')
                 PROVE  queue'[Wrap(front + i - 1)] = pending'[i]
      BY <2>3 DEF RingHoldsLatest, SlotOf
    <3>1. CASE i = Len(pending) + 1
      <4>1. front + i - 1 = front + Len(pending)
        BY <1>0, <3>1
      <4> QED
        BY <2>2, <2>3, <3>1, <4>1
    <3>2. CASE i \in 1 .. Len(pending)
      <4>1. /\ front + i - 1 \in Nat /\ front + Len(pending) \in Nat
            /\ front + i - 1 < front + Len(pending)
            /\ front + Len(pending) < front + i - 1 + QueueSize
            /\ i + QueueSize > Len(pending)
        BY <1>0, <2>2, <3>2
      <4>2. Wrap(front + i - 1) # back
        BY <2>3, <4>1, WrapApart
      <4>3. queue[Wrap(front + i - 1)] = pending[i]
        BY <3>2, <4>1 DEF IInv, RingHoldsLatest, SlotOf
      <4>4. Wrap(front + i - 1) \in Slots
        BY <4>1, Euclid DEF Slots
      <4> QED
        BY <2>2, <2>3, <3>2, <4>2, <4>3, <4>4
    <3> QED
      BY <1>0, <2>2, <3>1, <3>2
  <2>6. FetchHasEvent'
    BY <2>2 DEF FetchHasEvent
  <2> QED
    BY <2>4, <2>5, <2>6 DEF IInv
<1>4. CASE UNCHANGED vars
  BY <1>4 DEF vars, IInv, BackIsEnd, RingHoldsLatest, SlotOf, FetchHasEvent
<1> QED
  BY <1>1, <1>2, <1>3, <1>4 DEF Next

LEMMA RingInvariant == Spec => []IInv
<1>1. Init => IInv
  BY IInvInit
<1>2. IInv /\ TypeOK' /\ [Next]_vars => IInv'
  BY IInvStep
<1>3. Spec => []TypeOK
  BY EpQueueTypeCorrect
<1> QED
  BY <1>1, <1>2, <1>3, PTL DEF Spec

\* The ring never gives away a pending code for fewer than QueueSize later
\* ones, the main loop never fetches without an event, and is_transfer_done()
\* is right about the number of codes modulo the size of the ring, however
\* often __notify_ep has lapped the main loop.
THEOREM EpQueueExact == Spec => []RingExact
<1>1. IInv => RingExact
  BY IsEventExact DEF IInv, RingExact, VisibleModuloSize, Wrap
<1> QED
  BY <1>1, RingInvariant, PTL

\* As long as the ring has not been lapped, a fetch returns the oldest code.
LEMMA FetchOldest ==
    ASSUME IInv, Fetch, Len(pending) <= QueueSize
    PROVE  /\ pending # <<>> /\ Len(pending) \in Nat /\ Len(pending) # 0
           /\ fetched' = pending[1] /\ pending' = Tail(pending)
           /\ Len(pending') = Len(pending) - 1
           /\ \A i \in 1 .. Len(pending') : pending'[i] = pending[i + 1]
<1>1. /\ pending # <<>> /\ pending' = Tail(pending) /\ fetched' = queue[front]
      /\ pending \in Seq(Endpoints) /\ Len(pending) \in Nat /\ Len(pending) # 0
      /\ front \in Slots /\ front \in Nat /\ QueueSize \in Nat /\ QueueSize >= 2
  BY RingFacts DEF IInv, FetchHasEvent, Fetch
<1>2. /\ Len(pending') = Len(pending) - 1
      /\ \A i \in 1 .. Len(pending') : pending'[i] = pending[i + 1]
  BY <1>1, HeadTailProperties
<1>3. SlotOf(1) = front
  <2>1. front + 1 - 1 = front
    BY <1>1
  <2> QED
    BY <1>1, <2>1, WrapSlot DEF SlotOf
<1>4. queue[SlotOf(1)] = pending[1]
  <2>1. 1 \in 1 .. Len(pending) /\ 1 + QueueSize > Len(pending)
    BY <1>1
  <2> QED
    BY <2>1 DEF IInv, RingHoldsLatest
<1> QED
  BY <1>1, <1>2, <1>3, <1>4

\* What get_trn_status() returns: the oldest pending code that is still there,
\* which after an overflow is the newest that landed in the slot of the first.
THEOREM FetchReturnsNewest == Spec => FetchReturnsNewestInSlot
<1>1. ASSUME IInv, Fetch
      PROVE  fetched' = pending[1 + QueueSize * ((Len(pending) - 1) \div QueueSize)]
  <2> DEFINE n == Len(pending) - 1
             k == n \div QueueSize
             i == 1 + QueueSize * k
  <2>1. /\ n \in Nat /\ Len(pending) = n + 1 /\ front \in Nat /\ front \in Slots
        /\ QueueSize \in Nat /\ QueueSize >= 2
    BY <1>1, RingFacts DEF IInv, FetchHasEvent, Fetch
  <2>2. k \in Nat /\ Wrap(n) \in 0 .. QueueSize - 1 /\ n = QueueSize * k + Wrap(n)
    BY <2>1, Euclid
  <2> HIDE DEF n, k
  <2>3. i \in 1 .. Len(pending) /\ i + QueueSize > Len(pending) /\ QueueSize * k \in Nat
    BY <2>1, <2>2
  <2>4. SlotOf(i) = front
    <3>1. front + i - 1 = front + QueueSize * k
      BY <2>1, <2>3
    <3>2. Wrap(front + QueueSize * k) = front
      BY <2>1, <2>2, WrapRound, WrapSlot
    <3> QED
      BY <3>1, <3>2 DEF SlotOf
  <2>5. queue[front] = pending[i]
    BY <1>1, <2>3, <2>4 DEF IInv, RingHoldsLatest
  <2> QED
    BY <1>1, <2>5 DEF Fetch, n, k
<1>2. IInv /\ [Next]_vars
      => [Fetch => fetched' = pending[1 + QueueSize * ((Len(pending) - 1) \div QueueSize)]]_vars
  BY <1>1
<1> QED
  BY <1>2, RingInvariant, PTL DEF Spec, FetchReturnsNewestInSlot

\* With fewer than QueueSize packets outstanding every step of the ring is a
\* step of the FIFO of EventFifo: nothing lost, nothing reordered, and a poll
\* that answers exactly.
THEOREM EpQueueImplementsFifo ==
    ASSUME MaxOutstanding < QueueSize
    PROVE  Spec => Fifo!Spec
<1>1. Init => Fifo!Init
  BY ZeroCodeAssumption DEF Init, Fifo!Init
<1>2. IInv /\ [Next]_vars => [Fifo!Next]_(Fifo!vars)
  <2> SUFFICES ASSUME IInv, [Next]_vars PROVE [Fifo!Next]_(Fifo!vars)
    OBVIOUS
  <2>0. /\ Len(pending) \in 0 .. QueueSize - 1
        /\ pending \in Seq(Endpoints)
        /\ QueueSize \in Nat /\ QueueSize >= 2
    BY LenProperties, QueueSizeAssumption, MaxOutstandingAssumption DEF IInv, TypeOK
  <2>1. CASE Poll
    <3>1. IsEvent <=> pending # <<>>
      <4>1. Wrap(Len(pending)) = Len(pending)
        BY <2>0, WrapSlot DEF Slots
      <4> QED
        BY <2>0, <4>1, IsEventExact, EmptySeq DEF IInv
    <3>2. Fifo!Ask
      BY <2>1, <3>1 DEF Poll, Fifo!Ask
    <3> QED
      BY <3>2 DEF Fifo!Next
  <2>2. CASE Fetch
    <3>1. pending # <<>> /\ fetched' = pending[1] /\ pending' = Tail(pending)
      BY <2>0, <2>2, FetchOldest
    <3>2. Head(pending) = pending[1]
      BY <2>0, <3>1
    <3>3. Fifo!Take
      BY <2>2, <3>1, <3>2 DEF Fetch, Fifo!Take
    <3> QED
      BY <3>3 DEF Fifo!Next
  <2>3. ASSUME NEW ep \in Endpoints, NotifyEp(ep) PROVE Fifo!Next
    BY <2>3 DEF NotifyEp, Fifo!Put, Fifo!Next
  <2>4. CASE UNCHANGED vars
    BY <2>4 DEF vars, Fifo!vars
  <2> QED
    BY <2>1, <2>2, <2>3, <2>4 DEF Next
<1> QED
  BY <1>1, <1>2, RingInvariant, PTL DEF Spec, Fifo!Spec
=============================================================================
