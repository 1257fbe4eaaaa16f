------------------------------ MODULE EpQueue ------------------------------
(***************************************************************************)
(* The endpoint event ring of usb_lib_usbip.c (__ep_queue): the HCD thread *)
(* puts the code of an endpoint each time __usb_transfer acknowledges a    *)
(* packet on it, the firmware's main loop polls is_transfer_done() and     *)
(* then calls get_trn_status().  Each of the three functions is one        *)
(* critical section of __ep_queue.lock, hence one action; the poll and the *)
(* fetch are two sections, and packets may be acknowledged between them.   *)
(*                                                                         *)
(* The ring has no element count and __notify_ep has no overflow check.    *)
(* The ghost variable pending holds the codes put and not yet fetched, so  *)
(* that what the ring answers can be compared with what happened.          *)
(***************************************************************************)
EXTENDS Naturals, Sequences

CONSTANTS QueueSize,        \* __ep_QUEUE_SIZE
          Endpoints,        \* endpoint codes, direction bit included
          ZeroCode,         \* code 0, endpoint 0 OUT: what a slot starts with
          MaxOutstanding    \* most packets acknowledged and not yet fetched

ASSUME QueueSizeAssumption == QueueSize \in Nat /\ QueueSize >= 2
ASSUME MaxOutstandingAssumption == MaxOutstanding \in Nat
ASSUME ZeroCodeAssumption == ZeroCode \in Endpoints

VARIABLES front, back, queue,   \* the fields of __ep_queue
          mpc,                  \* main loop: about to "poll" or to "get"
          fetched,              \* what the last get_trn_status() returned
          pending               \* ghost: codes put and not yet fetched

vars == <<front, back, queue, mpc, fetched, pending>>

Slots == 0 .. QueueSize - 1

TypeOK == /\ front \in Slots
          /\ back \in Slots
          /\ queue \in [Slots -> Endpoints]
          /\ mpc \in {"poll", "get"}
          /\ fetched \in Endpoints
          /\ pending \in Seq(Endpoints)
          /\ Len(pending) <= MaxOutstanding

\* The ring is a zeroed static object; usb_init() initialises only its lock.
Init == /\ front = 0
        /\ back = 0
        /\ queue = [i \in Slots |-> ZeroCode]
        /\ mpc = "poll"
        /\ fetched = ZeroCode
        /\ pending = <<>>

Wrap(i) == i % QueueSize
NextSlot(i) == Wrap(i + 1)

NotifyEp_NoWrap(ep) == /\ Len(pending) < MaxOutstanding
                       /\ queue' = [queue EXCEPT ![back] = ep]
                       /\ back' = back + 1
                       /\ pending' = Append(pending, ep)
                       /\ UNCHANGED <<front, mpc, fetched>>

NotifyEp_DropsWhenFull(ep) ==
    /\ Len(pending) < MaxOutstanding
    /\ queue' = [queue EXCEPT ![back] = ep]
    /\ back' = IF NextSlot(back) = front THEN back ELSE NextSlot(back)
    /\ pending' = Append(pending, ep)
    /\ UNCHANGED <<front, mpc, fetched>>

\* __notify_ep, called by __usb_transfer on every acknowledged packet.
NotifyEp(ep) == /\ Len(pending) < MaxOutstanding
                /\ queue' = [queue EXCEPT ![back] = ep]
                /\ back' = NextSlot(back)
                /\ pending' = Append(pending, ep)
                /\ UNCHANGED <<front, mpc, fetched>>

\* is_transfer_done() = __is_event: the main loop goes on to fetch on a yes.
IsEvent == front # back

Poll == /\ mpc = "poll"
        /\ mpc' = IF IsEvent THEN "get" ELSE "poll"
        /\ UNCHANGED <<front, back, queue, fetched, pending>>

\* get_trn_status() = __get_event: no check, it advances front regardless.
Fetch_AfterAdvance == /\ mpc = "get"
                      /\ front' = NextSlot(front)
                      /\ fetched' = queue[NextSlot(front)]
                      /\ pending' = IF pending = <<>> THEN <<>> ELSE Tail(pending)
                      /\ mpc' = "poll"
                      /\ UNCHANGED <<back, queue>>

Fetch == /\ mpc = "get"
         /\ front' = NextSlot(front)
         /\ fetched' = queue[front]
         /\ pending' = IF pending = <<>> THEN <<>> ELSE Tail(pending)
         /\ mpc' = "poll"
         /\ UNCHANGED <<back, queue>>

Next == Poll \/ Fetch \/ \E ep \in Endpoints : NotifyEp(ep)

Spec == Init /\ [][Next]_vars

\* The main loop is a thread of its own that never blocks between its steps.
FairSpec == Spec /\ WF_vars(Poll) /\ WF_vars(Fetch)

-----------------------------------------------------------------------------
(***************************************************************************)
(* Properties                                                              *)
(***************************************************************************)

\* The main loop never fetches when nothing is pending: between its poll
\* (__is_event) and its fetch (__get_event) the lock is released, but nothing
\* else may take an event away, however many more arrive.
FetchHasEvent == mpc = "get" => pending # <<>>

\* Slot of the i-th pending code.
SlotOf(i) == Wrap(front + i - 1)

\* The ring always holds the last QueueSize codes put by __notify_ep, in
\* order, even after the producer has lapped the main loop.
RingHoldsLatest ==
    \A i \in 1 .. Len(pending) :
        i + QueueSize > Len(pending) => queue[SlotOf(i)] = pending[i]

\* __is_event sees the number of pending codes modulo the size of the ring:
\* a full ring answers "no event".
VisibleModuloSize == IsEvent <=> Len(pending) % QueueSize # 0

\* What the lock of the ring is for and what its missing element count costs:
\* no fetch without an event, no pending code overwritten by fewer than QueueSize
\* later ones, and a poll that is exact modulo the size.
RingExact == FetchHasEvent /\ RingHoldsLatest /\ VisibleModuloSize

\* What a fetch returns: the oldest pending code while at most QueueSize are
\* outstanding; after an overflow, the newest code that landed in the slot.
FetchReturnsNewestInSlot ==
    [][Fetch => fetched' = pending[1 + QueueSize * ((Len(pending) - 1) \div QueueSize)]]_vars

\* With at most QueueSize - 1 packets outstanding, the ring is the FIFO the
\* firmware relies on.
Fifo == INSTANCE EventFifo
FifoSpec == Fifo!FairSpec
=============================================================================
