------------------------------ MODULE HcdSched ------------------------------
(***************************************************************************)
(* The host controller driver of the simulator (hcd.c): the scheduler loop *)
(* of the HCD thread and the two threads that link transfer descriptors.   *)
(*                                                                         *)
(* Every function of hcd.c runs inside hcd->lock, so each is one action.   *)
(* One read is outside the lock and is kept apart: hcd_loop evaluates      *)
(* hcd->control_list or hcd->bulk_list as the argument of hcd_gtd_send     *)
(* before that function locks.  A list head never changes once it is set,  *)
(* so all the stale read can differ in is NULL or not: the variable seen.  *)
(*                                                                         *)
(* The EPD lists and the TD queues are sequences here, in list order; the  *)
(* pointers are the business of another module.  A byte count is a small   *)
(* number of units; the eight bytes of a SETUP are one unit, which the     *)
(* device takes or refuses as a whole.  EPD.Skip is only ever written 0    *)
(* and is left out.                                                        *)
(***************************************************************************)
EXTENDS Integers, Sequences, Functions

CONSTANTS CtlEps,       \* (address, endpoint) pairs that get a control EPD
          BlkEps,       \* ... and those that get a bulk EPD
          Tds, NoTd,    \* transfer descriptors, reused after completion
          NoEp,         \* the endpoint of a descriptor not in use
          Clients,      \* threads running control transfers, one at a time
          Streamer,     \* the client that also links bulk transfers
          Stages,       \* control stages the other clients run at most
          CtlStages,    \* what control stages move: records [pid, len]
          BlkTransfers, \* what bulk transfers move, likewise
          StallEps,     \* endpoints on which the device may answer STALL
          Responsive,   \* endpoints the device answers sooner or later
          MaxLen,       \* largest transfer, in units
          Mps           \* maximum packet size, in units

Epds == CtlEps \cup BlkEps

ASSUME EpdAssumption == /\ CtlEps \cap BlkEps = {}
                        /\ NoEp \notin Epds
                        /\ Responsive \subseteq Epds
                        /\ StallEps \subseteq Epds
ASSUME TdAssumption == NoTd \notin Tds
ASSUME ClientAssumption == Streamer \in Clients
ASSUME SizeAssumption == /\ MaxLen \in Nat \ {0}
                         /\ Mps \in Nat \ {0}
                         /\ Stages \in Nat

Flags == {"CONTROL", "BULK", "DONE"}
Pids == {"SETUP", "OUT", "IN"}
ASSUME TransferAssumption ==
    /\ CtlStages \subseteq [pid : Pids, len : 0 .. MaxLen]
    /\ BlkTransfers \subseteq [pid : {"OUT", "IN"}, len : 0 .. MaxLen]
    /\ \A s \in CtlStages : s.pid = "SETUP" => s.len = 1
TdRecord == [ep : Epds \cup {NoEp}, pid : Pids, toggle : 0 .. 2,
             err : 0 .. 2, left : 0 .. MaxLen]
FreeTd == [ep |-> NoEp, pid |-> "OUT", toggle |-> 0, err |-> 0, left |-> 0]

VARIABLES notify,            \* hcd->notify
          hstate, pc, seen,  \* hcd_loop: state, "wait" or "run", head read
          ctlList, blkList,  \* EPDs of hcd->control_list and hcd->bulk_list
          queue,             \* EPD -> its TD queue
          halted, carry,     \* EPD.Halted, EPD.toggleCarry
          td,                \* contents of each TD
          done,              \* hcd->done_list, top first
          awaited,           \* client -> the TD whose URB it waits for
          stages             \* stages left to the clients that are finite

hcdVars == <<hstate, pc, seen>>
listVars == <<ctlList, blkList>>
clientVars == <<awaited, stages>>
vars == <<notify, hstate, pc, seen, ctlList, blkList, queue, halted, carry,
          td, done, awaited, stages>>

TypeOK == /\ notify \subseteq Flags
          /\ hstate \in -2 .. 3
          /\ pc \in {"wait", "run"}
          /\ seen \in BOOLEAN
          /\ ctlList \in Seq(CtlEps)
          /\ blkList \in Seq(BlkEps)
          /\ queue \in [Epds -> Seq(Tds)]
          /\ halted \in [Epds -> BOOLEAN]
          /\ carry \in [Epds -> 0 .. 1]
          /\ td \in [Tds -> TdRecord]
          /\ done \in Seq(Tds)
          /\ awaited \in [Clients -> Tds \cup {NoTd}]
          /\ stages \in 0 .. Stages

\* hcd_init: everything zeroed, the HCD thread starts in state 0.
Init == /\ notify = {}
        /\ hstate = 0
        /\ pc = "wait"
        /\ seen = FALSE
        /\ ctlList = <<>>
        /\ blkList = <<>>
        /\ queue = [e \in Epds |-> <<>>]
        /\ halted = [e \in Epds |-> FALSE]
        /\ carry = [e \in Epds |-> 0]
        /\ td = [t \in Tds |-> FreeTd]
        /\ done = <<>>
        /\ awaited = [c \in Clients |-> NoTd]
        /\ stages = Stages

-----------------------------------------------------------------------------
(***************************************************************************)
(* hcd_gtd_link: find or create the EPD, append the TD, clear Halted,      *)
(* notify.  sys_urb_submit calls it and waits for each control stage.      *)
(***************************************************************************)
WithEpd(list, e) == IF e \in Range(list) THEN list ELSE Append(list, e)

NewTd(e, toggle, x) ==
    [ep |-> e, pid |-> x.pid, toggle |-> toggle, err |-> 0, left |-> x.len]

LinkTd_AtHead(e, t, record) ==
    /\ td[t] = FreeTd
    /\ td' = [td EXCEPT ![t] = record]
    /\ queue' = [queue EXCEPT ![e] = <<t>> \o @]
    /\ halted' = [halted EXCEPT ![e] = FALSE]

LinkTd(e, t, record) ==
    /\ td[t] = FreeTd
    /\ td' = [td EXCEPT ![t] = record]
    /\ queue' = [queue EXCEPT ![e] = Append(@, t)]
    /\ halted' = [halted EXCEPT ![e] = FALSE]

LinkControl_Silent(c, e, t, x) ==
    /\ awaited[c] = NoTd
    /\ IF c = Streamer THEN stages' = stages
                       ELSE stages > 0 /\ stages' = stages - 1
    /\ LinkTd(e, t, NewTd(e, IF x.pid = "SETUP" THEN 0 ELSE 1, x))
    /\ ctlList' = WithEpd(ctlList, e)
    /\ awaited' = [awaited EXCEPT ![c] = t]
    /\ UNCHANGED <<notify, blkList, carry, done, hcdVars>>

\* A stage of sys_urb_submit's control branch: toggle 0 for SETUP, else 1.
LinkControl(c, e, t, x) ==
    /\ awaited[c] = NoTd
    /\ IF c = Streamer THEN stages' = stages
                       ELSE stages > 0 /\ stages' = stages - 1
    /\ LinkTd(e, t, NewTd(e, IF x.pid = "SETUP" THEN 0 ELSE 1, x))
    /\ ctlList' = WithEpd(ctlList, e)
    /\ notify' = notify \cup {"CONTROL"}
    /\ awaited' = [awaited EXCEPT ![c] = t]
    /\ UNCHANGED <<blkList, carry, done, hcdVars>>

\* The other branch: one bulk TD, toggle 2 for "take it from the EPD".  The
\* accept thread does not wait for it, but it is not inside a control
\* transfer either; and it needs the configuration descriptor, which control
\* transfers have fetched.
LinkBulk(e, t, x) ==
    /\ awaited[Streamer] = NoTd
    /\ ctlList # <<>>
    /\ LinkTd(e, t, NewTd(e, 2, x))
    /\ blkList' = WithEpd(blkList, e)
    /\ notify' = notify \cup {"BULK"}
    /\ UNCHANGED <<ctlList, carry, done, clientVars, hcdVars>>

Link == \E t \in Tds :
    \/ \E c \in Clients, e \in CtlEps, x \in CtlStages : LinkControl(c, e, t, x)
    \/ \E e \in BlkEps, x \in BlkTransfers : LinkBulk(e, t, x)

-----------------------------------------------------------------------------
(***************************************************************************)
(* hcd_loop.  Four control slots, one bulk slot, one completion, for ever. *)
(***************************************************************************)
ListNow == IF hstate = -1 THEN blkList ELSE ctlList
FlagNow == IF hstate = -1 THEN "BULK" ELSE "CONTROL"

\* hcd_wait_for_event, then the read of the list head before the lock.
Wait == /\ pc = "wait"
        /\ notify # {}
        /\ pc' = "run"
        /\ seen' = (hstate # -2 /\ ListNow # <<>>)
        /\ UNCHANGED <<notify, hstate, listVars, queue, halted, carry, td,
                       done, clientVars>>

\* The end of one turn of the loop.
EndTurn == /\ hstate' = CASE hstate \in 0 .. 2 -> hstate + 1
                          [] hstate = 3 -> -1
                          [] hstate = -1 -> -2
                          [] OTHER -> 0
           /\ pc' = "wait"
           /\ seen' = FALSE

Eligible(e) == ~halted[e] /\ queue[e] # <<>>

\* hcd_gtd_send picks the first EPD from the list head that has work.
Picked(e) == /\ pc = "run" /\ hstate # -2 /\ seen
             /\ Eligible(e)
             /\ \E i \in DOMAIN ListNow :
                   /\ ListNow[i] = e
                   /\ \A j \in 1 .. i - 1 : ~Eligible(ListNow[j])

\* ... and clears the notification when there is none.
SendNone == /\ pc = "run" /\ hstate # -2
            /\ ~seen \/ \A i \in DOMAIN ListNow : ~Eligible(ListNow[i])
            /\ notify' = notify \ {FlagNow}
            /\ EndTurn
            /\ UNCHANGED <<listVars, queue, halted, carry, td, done,
                           clientVars>>

\* DATA0 or DATA1: a toggle of 2 is replaced by the carry of the EPD.
Toggle(e, t) == IF td[t].toggle = 2 THEN carry[e] ELSE td[t].toggle

\* __hcd_unlink_gtd of the queue's head and __append_to_done_list.
Retire_Kept(e) == /\ done' = <<Head(queue[e])>> \o done
                  /\ notify' = notify \cup {"DONE"}
                  /\ UNCHANGED queue

Retire(e) == /\ queue' = [queue EXCEPT ![e] = Tail(@)]
             /\ done' = <<Head(queue[e])>> \o done
             /\ notify' = notify \cup {"DONE"}

Offered(t) == IF td[t].pid = "OUT" /\ td[t].left > Mps THEN Mps ELSE td[t].left

\* The transfer is over: everything moved, or a short packet came in.
Finished(t, rlen) == \/ td[t].left = rlen
                     \/ td[t].pid = "IN" /\ rlen < Mps

SendAck_NoCarry(e, rlen) ==
    LET t == Head(queue[e]) IN
    /\ Picked(e)
    /\ rlen \in 0 .. Offered(t)
    /\ td[t].pid = "SETUP" => rlen \in {0, td[t].left}
    /\ td' = [td EXCEPT ![t].toggle = 1 - Toggle(e, t), ![t].left = @ - rlen]
    /\ IF Finished(t, rlen) THEN Retire(e) ELSE UNCHANGED <<queue, done, notify>>
    /\ EndTurn
    /\ UNCHANGED <<listVars, halted, carry, clientVars>>

\* __RET_ACK with rlen units moved.
SendAck(e, rlen) ==
    LET t == Head(queue[e]) IN
    /\ Picked(e)
    /\ rlen \in 0 .. Offered(t)
    /\ td[t].pid = "SETUP" => rlen \in {0, td[t].left}
    /\ td' = [td EXCEPT ![t].toggle = 1 - Toggle(e, t), ![t].left = @ - rlen]
    /\ IF Finished(t, rlen)
       THEN Retire(e) /\ carry' = [carry EXCEPT ![e] = 1 - Toggle(e, t)]
       ELSE UNCHANGED <<queue, done, notify, carry>>
    /\ EndTurn
    /\ UNCHANGED <<listVars, halted, clientVars>>

SendNak_Clears(e) ==
    LET t == Head(queue[e]) IN
    /\ Picked(e)
    /\ td' = [td EXCEPT ![t].toggle = Toggle(e, t)]
    /\ notify' = notify \ {FlagNow}
    /\ EndTurn
    /\ UNCHANGED <<listVars, queue, halted, carry, done, clientVars>>

\* __RET_NAK: the TD stays where it is and the notification stays set.
SendNak(e) ==
    LET t == Head(queue[e]) IN
    /\ Picked(e)
    /\ td' = [td EXCEPT ![t].toggle = Toggle(e, t)]
    /\ EndTurn
    /\ UNCHANGED <<notify, listVars, queue, halted, carry, done, clientVars>>

SendErr_NoLimit(e) ==
    LET t == Head(queue[e]) IN
    /\ Picked(e)
    /\ td' = [td EXCEPT ![t].toggle = Toggle(e, t), ![t].err = @ + 1]
    /\ EndTurn
    /\ UNCHANGED <<notify, listVars, queue, halted, carry, done, clientVars>>

\* __RET_ERR: the third error of a TD, in a row or not, retires it.
SendErr(e) ==
    LET t == Head(queue[e]) IN
    /\ Picked(e)
    /\ IF td[t].err = 2
       THEN /\ td' = [td EXCEPT ![t].toggle = Toggle(e, t)]
            /\ Retire(e)
       ELSE /\ td' = [td EXCEPT ![t].toggle = Toggle(e, t), ![t].err = @ + 1]
            /\ UNCHANGED <<queue, done, notify>>
    /\ EndTurn
    /\ UNCHANGED <<listVars, halted, carry, clientVars>>

\* __RET_STALL: the endpoint halts until the next hcd_gtd_link.  hcd.c is
\* written for it; the simulated device never answers so.
SendStall(e) ==
    LET t == Head(queue[e]) IN
    /\ Picked(e)
    /\ e \in StallEps
    /\ td' = [td EXCEPT ![t].toggle = Toggle(e, t)]
    /\ halted' = [halted EXCEPT ![e] = TRUE]
    /\ Retire(e)
    /\ EndTurn
    /\ UNCHANGED <<listVars, carry, clientVars>>

\* hcd_process_done_list: nothing to do, or exactly one URB is completed.
ProcessDone ==
    /\ pc = "run" /\ hstate = -2
    /\ IF done = <<>>
       THEN notify' = notify \ {"DONE"} /\ UNCHANGED <<td, done, awaited>>
       ELSE /\ done' = Tail(done)
            /\ td' = [td EXCEPT ![Head(done)] = FreeTd]
            /\ awaited' = [c \in Clients |->
                             IF awaited[c] = Head(done) THEN NoTd ELSE awaited[c]]
            /\ UNCHANGED notify
    /\ EndTurn
    /\ UNCHANGED <<listVars, queue, halted, carry, stages>>

Send(e) == SendNak(e) \/ SendErr(e) \/ SendStall(e)
           \/ \E rlen \in 0 .. MaxLen : SendAck(e, rlen)

HcdStep == Wait \/ SendNone \/ ProcessDone \/ \E e \in Epds : Send(e)

Next == Link \/ HcdStep

Spec == Init /\ [][Next]_vars

\* The device takes all it is offered.
Answer(e) == queue[e] # <<>> /\ SendAck(e, Offered(Head(queue[e])))

\* The HCD thread keeps running, and a responsive endpoint that is asked again
\* and again does answer.  Nothing makes the clients link anything.
FairSpec == Spec /\ WF_vars(HcdStep) /\ \A e \in Responsive : SF_vars(Answer(e))

-----------------------------------------------------------------------------
(***************************************************************************)
(* Properties                                                              *)
(***************************************************************************)

\* The loop never goes to sleep over a control transfer: while some control
\* endpoint has work, HCD_NOTIFY_CONTROL is set, however the links of two
\* threads and the four control slots of hcd_loop interleave.
ControlNotified == (\E e \in CtlEps : Eligible(e)) => "CONTROL" \in notify

\* Nor over a completion that is due: a non-empty done list keeps
\* HCD_NOTIFY_DONE set although only one entry is processed per round.
DoneNotified == done # <<>> => "DONE" \in notify

\* The loop sleeps on its condition only when there is nothing it could do, bulk
\* work aside.
NeverSleepsOverWork == ControlNotified /\ DoneNotified

\* hcd.h declares hcd_gtd_link "thread-safe"; for bulk work the notification
\* should then be as reliable as for control work.
BulkNotified == (\E e \in BlkEps : Eligible(e)) => "BULK" \in notify

\* A transfer descriptor is in one queue or on the done list, once, exactly
\* as long as it is in use: hcd_process_done_list frees it once.
TdsInOnePlace ==
    /\ \A e \in Epds : \A i \in DOMAIN queue[e] : td[queue[e][i]].ep = e
    /\ \A i \in DOMAIN done : td[done[i]].ep # NoEp
    /\ \A e \in Epds : \A i, j \in DOMAIN queue[e] :
            queue[e][i] = queue[e][j] => i = j
    /\ \A i, j \in DOMAIN done : done[i] = done[j] => i = j
    /\ \A e \in Epds : \A i \in DOMAIN queue[e], j \in DOMAIN done :
            queue[e][i] # done[j]

\* Transfers of a bulk endpoint complete in link order although the done list
\* is last in first out, and no stage is reported to a client that did not ask
\* for it: the driver implements HcdService.  A bulk transfer on the done list
\* is always on top of it.
DoneOf(e) == IF done # <<>> /\ td[Head(done)].ep = e THEN <<Head(done)>> ELSE <<>>
Service == INSTANCE HcdService WITH
               outstanding <- [e \in BlkEps |-> DoneOf(e) \o queue[e]]
ServiceSpec == Service!Spec

\* A control stage completes once the other traffic has ceased; while there is
\* other traffic the last-in-first-out done list may keep it waiting.
OnlyClient(c) == \A t \in Tds : td[t] # FreeTd => awaited[c] = t
ControlCompletes ==
    \A c \in Clients :
        <>[]OnlyClient(c) => (awaited[c] # NoTd ~> awaited[c] = NoTd)

\* A bulk transfer of the endpoint opened first that the device has been asked
\* for is tried again until it is over, as long as its notification has not
\* been lost before the first attempt.
Attempted(t) == td[t].toggle # 2
InProgress(e, t) == /\ blkList # <<>> /\ blkList[1] = e
                    /\ queue[e] # <<>> /\ Head(queue[e]) = t
                    /\ Attempted(t)
BulkRetried ==
    \A e \in BlkEps, t \in Tds :
        InProgress(e, t) /\ "BULK" \in notify ~> ~InProgress(e, t)
=============================================================================
