--------------------------- MODULE UrbSyncProofs ---------------------------
(***************************************************************************)
(* No descriptor without its URB, no late signal for a linked stage, for   *)
(* any number of bulk URBs, any socket and any number of transfers.        *)
(***************************************************************************)
EXTENDS UrbSync, TLAPS

\* The driver has a descriptor of a thread only while the thread waits, its URB
\* initialised and not marked.
LinkedWaits == \A t \in Threads :
    t \in linked \/ (hpc = "mark" /\ work = t) => tpc[t] = "wait" /\ alive[t] /\ ~done[t]
\* What is about to be linked has been initialised since it was last marked.
ReadyToLink == \A t \in Threads : tpc[t] = "link" => alive[t] /\ ~done[t]
\* The completion in hand is no longer linked, and the driver is locked.
WorkUnlinked == hpc # "idle" => held /\ work \notin linked
\* Only a bulk URB is answered and freed by the HCD thread, and is used till then.
WorkUsed == hpc # "idle" => /\ work \in Bulk => work \in used
                            /\ hpc \in {"answer", "free"} => work \in Bulk

UrbInv == UrbTypeOK /\ LinkedWaits /\ ReadyToLink /\ WorkUnlinked /\ WorkUsed

LEMMA UrbInitInv == Init => UrbInv
<1> SUFFICES ASSUME Init PROVE UrbInv
  OBVIOUS
<1>1. UrbTypeOK
  <2>1. 0 \in 0 .. MaxTransfers /\ 0 \in 0 .. SocketSize
    BY UrbSyncAssumption DEF UrbSyncAssumption
  <2>2. work \in Threads /\ linked \subseteq Threads \cup used /\ used \subseteq Bulk
    BY DEF Init, Threads
  <2> QED
    BY <2>1, <2>2 DEF Init, UrbTypeOK
<1>2. LinkedWaits /\ ReadyToLink /\ WorkUnlinked /\ WorkUsed
  BY DEF Init, LinkedWaits, ReadyToLink, WorkUnlinked, WorkUsed
<1> QED
  BY <1>1, <1>2 DEF UrbInv

\* Steps of a thread that touch neither the driver's descriptors nor its URB
\* but may initialise it.
LEMMA ThreadStep ==
  ASSUME UrbInv, NEW t \in Threads, Start(t) \/ Control(t)
  PROVE  UrbInv'
<1> USE UrbSyncAssumption DEF UrbInv, UrbTypeOK, LinkedWaits, ReadyToLink, WorkUnlinked,
        WorkUsed, Threads, Goto, HcdUnchanged
<1>1. CASE Start(t)
  BY <1>1 DEF Start, StartsOne
<1>2. CASE Register(t)
  BY <1>2 DEF Register
<1>3. CASE InitStage(t)
  BY <1>3 DEF InitStage
<1>4. CASE LinkStage(t)
  BY <1>4 DEF LinkStage
<1>5. CASE WaitStage(t)
  BY <1>5 DEF WaitStage
<1>6. CASE DestroyStage(t)
  BY <1>6 DEF DestroyStage
<1>7. CASE FreeControl(t)
  BY <1>7 DEF FreeControl
<1> QED
  BY <1>1, <1>2, <1>3, <1>4, <1>5, <1>6, <1>7 DEF Control

LEMMA AcceptStep ==
  ASSUME UrbInv, Answers \/ LockList \/ Read \/ \E u \in Bulk : SubmitBulk(u)
  PROVE  UrbInv'
<1> USE UrbSyncAssumption DEF UrbInv, UrbTypeOK, LinkedWaits, ReadyToLink, WorkUnlinked,
        WorkUsed, Threads, Goto, HcdUnchanged
<1>1. CASE AnswerControl
  BY <1>1 DEF AnswerControl
<1>2. CASE SendList
  BY <1>2 DEF SendList
<1>3. CASE LockList
  BY <1>3 DEF LockList, StartsOne
<1>4. CASE Read
  BY <1>4 DEF Read, threadVars
<1>5. ASSUME NEW u \in Bulk, SubmitBulk(u) PROVE UrbInv'
  BY <1>5 DEF SubmitBulk, StartsOne
<1> QED
  BY <1>1, <1>2, <1>3, <1>4, <1>5 DEF Answers

LEMMA HcdStep ==
  ASSUME UrbInv, Hcd
  PROVE  UrbInv'
<1> USE UrbSyncAssumption DEF UrbInv, UrbTypeOK, LinkedWaits, ReadyToLink, WorkUnlinked,
        WorkUsed, Threads, threadVars
<1>1. ASSUME NEW w \in Threads \cup Bulk, Complete(w) PROVE UrbInv'
  BY <1>1 DEF Complete
<1>2. CASE Mark
  BY <1>2 DEF Mark
<1>3. CASE Signal
  BY <1>3 DEF Signal
<1>4. CASE AnswerBulk
  BY <1>4 DEF AnswerBulk
<1>5. CASE FreeBulk
  BY <1>5 DEF FreeBulk
<1> QED
  BY <1>1, <1>2, <1>3, <1>4, <1>5 DEF Hcd

LEMMA UrbStutter ==
  ASSUME UrbInv, UNCHANGED vars
  PROVE  UrbInv'
BY DEF UrbInv, UrbTypeOK, LinkedWaits, ReadyToLink, WorkUnlinked, WorkUsed, vars, threadVars

LEMMA UrbNextInv == UrbInv /\ [Next]_vars => UrbInv'
  BY ThreadStep, AcceptStep, HcdStep, UrbStutter DEF Next

LEMMA UrbInvHolds == Spec => []UrbInv
  BY UrbInitInv, UrbNextInv, PTL DEF Spec

\* The state of threads, URBs and locks has its types.
THEOREM UrbTypeCorrect == Spec => []UrbTypeOK
<1>1. UrbInv => UrbTypeOK
  BY DEF UrbInv
<1> QED
  BY UrbInvHolds, <1>1, PTL

\* urb_wait does not come back, and its URB does not go away, while the driver
\* has the descriptor of the stage.
THEOREM TdAlwaysHasUrb == Spec => []TdHasUrb
<1>1. UrbInv => TdHasUrb
  BY DEF UrbInv, LinkedWaits, TdHasUrb
<1> QED
  BY UrbInvHolds, <1>1, PTL

\* urb_done signals after it has released the URB, but the lock of the driver
\* keeps the next stage from being linked before.
THEOREM SignalComesInTime == Spec => []SignalBeforeNextLink
<1>1. UrbInv => SignalBeforeNextLink
  BY DEF UrbInv, WorkUnlinked, SignalBeforeNextLink
<1> QED
  BY UrbInvHolds, <1>1, PTL
=============================================================================
