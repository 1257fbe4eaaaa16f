--------------------------- MODULE HcdSchedProofs ---------------------------
(***************************************************************************)
(* Theorems about the host controller driver, for any number of endpoints, *)
(* transfer descriptors and client threads and any transfer sizes.         *)
(*                                                                         *)
(* The four outcomes of an attempt (ACK, NAK, ERR, STALL) disturb the      *)
(* invariants in only two ways: the head of one queue stays, with new      *)
(* contents, or it moves to the top of the done list.  SendShape says so   *)
(* once, and the proofs below split on it instead of on the outcomes.      *)
(***************************************************************************)
EXTENDS HcdToggle, SequenceTheorems, TLAPS

SendShape(e) ==
    /\ Picked(e)
    /\ \E r \in TdRecord : /\ td' = [td EXCEPT ![Head(queue[e])] = r]
                           /\ r.ep = td[Head(queue[e])].ep
    /\ Retire(e) \/ UNCHANGED <<queue, done, notify>>
    /\ halted' \in [Epds -> BOOLEAN]
    /\ \A b \in Epds : halted[b] => halted'[b]
    /\ carry' \in [Epds -> 0 .. 1]
    /\ EndTurn
    /\ UNCHANGED <<listVars, clientVars>>

\* The EPD that is picked has a transfer descriptor to send.
LEMMA PickedHead ==
    ASSUME TypeOK, NEW e \in Epds, queue[e] # <<>>
    PROVE  /\ Head(queue[e]) \in Tds
           /\ Head(queue[e]) = queue[e][1]
           /\ 1 \in DOMAIN queue[e]
           /\ Tail(queue[e]) \in Seq(Tds)
           /\ Len(Tail(queue[e])) = Len(queue[e]) - 1
           /\ DOMAIN queue[e] = 1 .. Len(queue[e])
           /\ DOMAIN Tail(queue[e]) = 1 .. Len(queue[e]) - 1
           /\ \A i \in DOMAIN Tail(queue[e]) :
                 i + 1 \in DOMAIN queue[e] /\ Tail(queue[e])[i] = queue[e][i + 1]
<1>1. queue[e] \in Seq(Tds)
  BY DEF TypeOK
<1>2. /\ Head(queue[e]) \in Tds
      /\ Tail(queue[e]) \in Seq(Tds)
      /\ Len(Tail(queue[e])) = Len(queue[e]) - 1
      /\ \A i \in 1 .. Len(Tail(queue[e])) : Tail(queue[e])[i] = queue[e][i + 1]
  BY <1>1, HeadTailProperties
<1>3. Len(queue[e]) \in Nat \ {0}
  BY <1>1, EmptySeq
<1>4. /\ DOMAIN queue[e] = 1 .. Len(queue[e])
      /\ DOMAIN Tail(queue[e]) = 1 .. Len(Tail(queue[e]))
  BY <1>1, <1>2, LenProperties
<1>5. Head(queue[e]) = queue[e][1]
  BY <1>1
<1> QED
  BY <1>2, <1>3, <1>4, <1>5

LEMMA ToggleIsBit ==
    ASSUME TypeOK, NEW e \in Epds, NEW t \in Tds
    PROVE  Toggle(e, t) \in 0 .. 1 /\ 1 - Toggle(e, t) \in 0 .. 1
<1>1. td[t].toggle \in 0 .. 2 /\ carry[e] \in 0 .. 1
  <2>1. td \in [Tds -> TdRecord] /\ carry \in [Epds -> 0 .. 1]
    BY DEF TypeOK
  <2> QED
    BY ONLY <2>1, e \in Epds, t \in Tds DEF TdRecord
<1> QED
  BY <1>1 DEF Toggle

\* All four outcomes of hcd_gtd_send have the shape above.
LEMMA SendHasShape ==
    ASSUME TypeOK, NEW e \in Epds, Send(e)
    PROVE  SendShape(e)
<1> DEFINE t == Head(queue[e])
<1>0. Picked(e)
  BY DEF Send, SendAck, SendNak, SendErr, SendStall
<1>1. /\ t \in Tds /\ td[t] \in TdRecord
      /\ Toggle(e, t) \in 0 .. 2 /\ 1 - Toggle(e, t) \in 0 .. 2
      /\ Toggle(e, t) \in 0 .. 1 /\ 1 - Toggle(e, t) \in 0 .. 1
  <2>1. t \in Tds
    BY <1>0, PickedHead DEF Picked, Eligible
  <2>2. Toggle(e, t) \in 0 .. 1 /\ 1 - Toggle(e, t) \in 0 .. 1
    BY <2>1, ToggleIsBit
  <2> QED
    BY <2>1, <2>2 DEF TypeOK
<1> DEFINE WithToggle == [td[t] EXCEPT !.toggle = Toggle(e, t)]
<1>2. WithToggle \in TdRecord /\ WithToggle.ep = td[t].ep
  BY <1>1 DEF TdRecord
<1>3. /\ halted \in [Epds -> BOOLEAN]
      /\ carry \in [Epds -> 0 .. 1]
      /\ td \in [Tds -> TdRecord]
  BY DEF TypeOK
<1> HIDE DEF t
<1>4. CASE SendNak(e)
  <2>1. td' = [td EXCEPT ![t] = WithToggle]
    BY <1>1, <1>3, <1>4 DEF SendNak, t
  <2> QED
    BY <1>0, <1>2, <1>3, <1>4, <2>1 DEF SendNak, SendShape, t
<1>5. CASE SendErr(e)
  <2>1. CASE td[t].err = 2
    <3>1. td' = [td EXCEPT ![t] = WithToggle] /\ Retire(e)
      BY <1>1, <1>3, <1>5, <2>1 DEF SendErr, t
    <3> QED
      BY <1>0, <1>2, <1>3, <1>5, <3>1 DEF SendErr, SendShape, t
  <2>2. CASE td[t].err # 2
    <3> DEFINE r == [WithToggle EXCEPT !.err = td[t].err + 1]
    <3>1. td' = [td EXCEPT ![t] = r]
      BY <1>1, <1>3, <1>5, <2>2 DEF SendErr, TdRecord, t
    <3>2. td[t].err + 1 \in 0 .. 2
      BY <1>1, <2>2 DEF TdRecord
    <3>3. r \in TdRecord /\ r.ep = td[t].ep
      BY <1>2, <3>2 DEF TdRecord
    <3>4. UNCHANGED <<queue, done, notify>>
      BY <1>5, <2>2 DEF SendErr, t
    <3> HIDE DEF r, WithToggle
    <3> QED
      BY <1>0, <1>3, <1>5, <3>1, <3>3, <3>4 DEF SendErr, SendShape, t
  <2> QED
    BY <2>1, <2>2
<1>6. CASE SendStall(e)
  <2>1. td' = [td EXCEPT ![t] = WithToggle]
    BY <1>1, <1>3, <1>6 DEF SendStall, t
  <2>2. halted' = [halted EXCEPT ![e] = TRUE]
    BY <1>6 DEF SendStall
  <2> QED
    BY <1>0, <1>2, <1>3, <1>6, <2>1, <2>2 DEF SendStall, SendShape, t
<1>7. ASSUME NEW rlen \in 0 .. MaxLen, SendAck(e, rlen)
      PROVE  SendShape(e)
  <2> DEFINE r == [td[t] EXCEPT !.toggle = 1 - Toggle(e, t), !.left = td[t].left - rlen]
  <2>1. td' = [td EXCEPT ![t] = r]
    BY <1>1, <1>3, <1>7 DEF SendAck, t
  <2>2. td[t].left - rlen \in 0 .. MaxLen
    <3>1. td[t].left \in 0 .. MaxLen /\ rlen \in 0 .. Offered(t)
      BY <1>1, <1>7 DEF TdRecord, SendAck, t
    <3>2. Offered(t) <= td[t].left /\ Offered(t) \in Nat
      BY <3>1, SizeAssumption DEF Offered
    <3> QED
      BY <3>1, <3>2, SizeAssumption
  <2>3. r \in TdRecord /\ r.ep = td[t].ep
    BY <1>1, <2>2 DEF TdRecord
  <2>4. carry' \in [Epds -> 0 .. 1]
    BY <1>1, <1>3, <1>7 DEF SendAck, t
  <2>5. Retire(e) \/ UNCHANGED <<queue, done, notify>>
    BY <1>7 DEF SendAck
  <2> HIDE DEF r
  <2> QED
    BY <1>0, <1>3, <1>7, <2>1, <2>3, <2>4, <2>5 DEF SendAck, SendShape, t
<1> QED
  BY <1>4, <1>5, <1>6, <1>7 DEF Send

-----------------------------------------------------------------------------
LEMMA EndTurnTypes ==
    ASSUME hstate \in -2 .. 3, EndTurn
    PROVE  hstate' \in -2 .. 3 /\ pc' = "wait" /\ seen' = FALSE
BY DEF EndTurn

\* Linking finds the EPD or creates it at the end of its list.
LEMMA WithEpdList ==
    ASSUME NEW S, NEW list \in Seq(S), NEW e \in S
    PROVE  /\ WithEpd(list, e) \in Seq(S)
           /\ WithEpd(list, e) # <<>>
           /\ Range(list) \subseteq Range(WithEpd(list, e))
           /\ e \in Range(WithEpd(list, e))
<1>1. CASE e \in Range(list)
  <2>1. list # <<>>
    BY <1>1 DEF Range
  <2> QED
    BY <1>1, <2>1 DEF WithEpd
<1>2. CASE e \notin Range(list)
  <2>1. WithEpd(list, e) = Append(list, e)
    BY <1>2 DEF WithEpd
  <2>2. /\ Append(list, e) \in Seq(S)
        /\ Append(list, e) # <<>>
        /\ Len(Append(list, e)) = Len(list) + 1
        /\ \A i \in 1 .. Len(list) : Append(list, e)[i] = list[i]
        /\ Append(list, e)[Len(list) + 1] = e
    BY AppendProperties
  <2>3. /\ DOMAIN list = 1 .. Len(list)
        /\ DOMAIN Append(list, e) = 1 .. Len(list) + 1
        /\ Len(list) \in Nat
    BY <2>2, LenProperties
  <2>4. Range(list) \subseteq Range(Append(list, e))
    BY <2>2, <2>3 DEF Range
  <2>5. e \in Range(Append(list, e))
    BY <2>2, <2>3 DEF Range
  <2> QED
    BY <2>1, <2>2, <2>4, <2>5
<1> QED
  BY <1>1, <1>2

\* The part of a link that both kinds share.
LEMMA LinkTdTypes ==
    ASSUME TypeOK, NEW e \in Epds, NEW t \in Tds, NEW x, x \in CtlStages \cup BlkTransfers,
           NEW g \in 0 .. 2, LinkTd(e, t, NewTd(e, g, x))
    PROVE  /\ queue' \in [Epds -> Seq(Tds)]
           /\ halted' \in [Epds -> BOOLEAN]
           /\ td' \in [Tds -> TdRecord]
           /\ NewTd(e, g, x) \in TdRecord
<1>1. x.pid \in Pids /\ x.len \in 0 .. MaxLen
  BY TransferAssumption DEF Pids
<1>2. NewTd(e, g, x) \in TdRecord
  BY <1>1 DEF NewTd, TdRecord
<1>3. td' \in [Tds -> TdRecord] /\ halted' \in [Epds -> BOOLEAN]
  BY <1>2 DEF LinkTd, TypeOK
<1>4. queue' \in [Epds -> Seq(Tds)]
  BY AppendProperties DEF LinkTd, TypeOK
<1> QED
  BY <1>2, <1>3, <1>4

LEMMA TypeInit == Init => TypeOK
<1>1. FreeTd \in TdRecord
  BY SizeAssumption DEF FreeTd, TdRecord, Pids
<1>2. <<>> \in Seq(CtlEps) /\ <<>> \in Seq(BlkEps) /\ <<>> \in Seq(Tds)
  BY EmptySeq
<1> SUFFICES ASSUME Init PROVE TypeOK
  OBVIOUS
<1>3. td \in [Tds -> TdRecord] /\ queue \in [Epds -> Seq(Tds)]
  BY <1>1, <1>2 DEF Init
<1>4. /\ halted \in [Epds -> BOOLEAN] /\ carry \in [Epds -> 0 .. 1]
      /\ awaited \in [Clients -> Tds \cup {NoTd}] /\ stages \in 0 .. Stages
  BY SizeAssumption DEF Init
<1>5. ctlList \in Seq(CtlEps) /\ blkList \in Seq(BlkEps) /\ done \in Seq(Tds)
  BY <1>2 DEF Init
<1>6. hstate \in -2 .. 3 /\ notify \subseteq Flags /\ pc \in {"wait", "run"}
  BY DEF Init
<1>7. seen \in BOOLEAN
  BY DEF Init
<1> QED
  BY <1>3, <1>4, <1>5, <1>6, <1>7 DEF TypeOK

LEMMA TypeStep == TypeOK /\ [Next]_vars => TypeOK'
<1> SUFFICES ASSUME TypeOK, [Next]_vars PROVE TypeOK'
  OBVIOUS
<1>1. ASSUME NEW t \in Tds, NEW c \in Clients, NEW e \in CtlEps, NEW x \in CtlStages,
             LinkControl(c, e, t, x)
      PROVE  TypeOK'
  <2> DEFINE g == IF x.pid = "SETUP" THEN 0 ELSE 1
  <2>1. g \in 0 .. 2 /\ e \in Epds /\ x \in CtlStages \cup BlkTransfers
    BY DEF Epds
  <2>2. /\ queue' \in [Epds -> Seq(Tds)]
        /\ halted' \in [Epds -> BOOLEAN]
        /\ td' \in [Tds -> TdRecord]
    BY <1>1, <2>1, LinkTdTypes DEF LinkControl
  <2>3. ctlList' \in Seq(CtlEps)
    BY <1>1, WithEpdList DEF LinkControl, TypeOK
  <2>4. notify' \subseteq Flags /\ awaited' \in [Clients -> Tds \cup {NoTd}]
    BY <1>1 DEF LinkControl, TypeOK, Flags
  <2>5. stages' \in 0 .. Stages
    BY <1>1, SizeAssumption DEF LinkControl, TypeOK
  <2> QED
    BY <1>1, <2>2, <2>3, <2>4, <2>5 DEF LinkControl, TypeOK, hcdVars
<1>2. ASSUME NEW t \in Tds, NEW e \in BlkEps, NEW x \in BlkTransfers, LinkBulk(e, t, x)
      PROVE  TypeOK'
  <2>1. 2 \in 0 .. 2 /\ e \in Epds /\ x \in CtlStages \cup BlkTransfers
    BY DEF Epds
  <2>2. /\ queue' \in [Epds -> Seq(Tds)]
        /\ halted' \in [Epds -> BOOLEAN]
        /\ td' \in [Tds -> TdRecord]
    BY <1>2, <2>1, LinkTdTypes DEF LinkBulk
  <2>3. blkList' \in Seq(BlkEps)
    BY <1>2, WithEpdList DEF LinkBulk, TypeOK
  <2>4. notify' \subseteq Flags
    BY <1>2 DEF LinkBulk, TypeOK, Flags
  <2> QED
    BY <1>2, <2>2, <2>3, <2>4 DEF LinkBulk, TypeOK, hcdVars, clientVars
<1>3. CASE Wait
  BY <1>3 DEF Wait, TypeOK, listVars, clientVars
<1>4. CASE SendNone
  <2>1. hstate' \in -2 .. 3 /\ pc' = "wait" /\ seen' = FALSE
    BY <1>4, EndTurnTypes DEF SendNone, TypeOK
  <2> QED
    BY <1>4, <2>1 DEF SendNone, TypeOK, listVars, clientVars
<1>5. CASE ProcessDone
  <2>1. hstate' \in -2 .. 3 /\ pc' = "wait" /\ seen' = FALSE
    BY <1>5, EndTurnTypes DEF ProcessDone, TypeOK
  <2>2. CASE done = <<>>
    BY <1>5, <2>1, <2>2 DEF ProcessDone, TypeOK, listVars
  <2>3. CASE done # <<>>
    <3>1. Head(done) \in Tds /\ Tail(done) \in Seq(Tds)
      BY <2>3, HeadTailProperties DEF TypeOK
    <3>2. FreeTd \in TdRecord
      BY SizeAssumption DEF FreeTd, TdRecord, Pids
    <3>3. td' \in [Tds -> TdRecord] /\ awaited' \in [Clients -> Tds \cup {NoTd}]
      BY <1>5, <2>3, <3>1, <3>2 DEF ProcessDone, TypeOK
    <3> QED
      BY <1>5, <2>1, <2>3, <3>1, <3>3 DEF ProcessDone, TypeOK, listVars
  <2> QED
    BY <2>2, <2>3
<1>6. ASSUME NEW e \in Epds, Send(e) PROVE TypeOK'
  <2>1. SendShape(e)
    BY <1>6, SendHasShape
  <2>2. /\ Head(queue[e]) \in Tds
        /\ Tail(queue[e]) \in Seq(Tds)
    BY <2>1, PickedHead DEF SendShape, Picked, Eligible
  <2>3. hstate' \in -2 .. 3 /\ pc' = "wait" /\ seen' = FALSE
    BY <2>1, EndTurnTypes DEF SendShape, TypeOK
  <2>4. td' \in [Tds -> TdRecord]
    BY <2>1 DEF SendShape, TypeOK
  <2>5. queue' \in [Epds -> Seq(Tds)] /\ done' \in Seq(Tds) /\ notify' \subseteq Flags
    <3>1. CASE Retire(e)
      <4>1. <<Head(queue[e])>> \o done \in Seq(Tds)
        BY <2>2, ConcatProperties DEF TypeOK
      <4> QED
        BY <2>2, <3>1, <4>1 DEF Retire, TypeOK, Flags
    <3>2. CASE UNCHANGED <<queue, done, notify>>
      BY <3>2 DEF TypeOK
    <3> QED
      BY <2>1, <3>1, <3>2 DEF SendShape
  <2> QED
    BY <2>1, <2>3, <2>4, <2>5 DEF SendShape, TypeOK, listVars, clientVars
<1>7. CASE UNCHANGED vars
  BY <1>7 DEF vars, TypeOK
<1> QED
  BY <1>1, <1>2, <1>3, <1>4, <1>5, <1>6, <1>7 DEF Next, Link, HcdStep

\* Types hold for ever: in particular no TD is sent a fourth time after three
\* errors, and no TD moves more than its buffer holds.
THEOREM HcdTypeCorrect == Spec => []TypeOK
BY TypeInit, TypeStep, PTL DEF Spec

-----------------------------------------------------------------------------
(***************************************************************************)
(* Notifications.  The loop can only clear HCD_NOTIFY_CONTROL after a walk *)
(* over the control list that found nothing.  That the walk starts at all, *)
(* although the list head is read before the lock is taken, needs the two  *)
(* middle conjuncts: nothing wakes the loop before the first control link. *)
(***************************************************************************)
NotifyInv ==
    /\ ControlNotified
    /\ DoneNotified
    /\ \A e \in CtlEps : queue[e] # <<>> => e \in Range(ctlList)
    /\ notify # {} \/ pc = "run" => ctlList # <<>>
    /\ pc = "run" /\ hstate \in 0 .. 3 => seen

LEMMA NotifyInit == Init => NotifyInv
BY DEF Init, NotifyInv, ControlNotified, DoneNotified, Eligible, Epds

LEMMA NotifyStep == TypeOK /\ NotifyInv /\ [Next]_vars => NotifyInv'
<1> SUFFICES ASSUME TypeOK, NotifyInv, [Next]_vars PROVE NotifyInv'
  OBVIOUS
<1>0. CtlEps \cap BlkEps = {} /\ CtlEps \subseteq Epds /\ BlkEps \subseteq Epds
  BY EpdAssumption DEF Epds
<1>1. ASSUME NEW t \in Tds, NEW c \in Clients, NEW e \in CtlEps, NEW x \in CtlStages,
             LinkControl(c, e, t, x)
      PROVE  NotifyInv'
  <2>1. /\ WithEpd(ctlList, e) # <<>>
        /\ Range(ctlList) \subseteq Range(WithEpd(ctlList, e))
        /\ e \in Range(WithEpd(ctlList, e))
    BY WithEpdList DEF TypeOK
  <2>2. "CONTROL" \in notify' /\ (DoneNotified => DoneNotified')
    BY <1>1 DEF LinkControl, DoneNotified
  <2>3. \A b \in CtlEps : queue'[b] # <<>> => b \in Range(ctlList')
    <3>1. \A b \in CtlEps : b # e => queue'[b] = queue[b]
      BY <1>0, <1>1 DEF LinkControl, LinkTd, TypeOK
    <3> QED
      BY <1>1, <2>1, <3>1 DEF LinkControl, NotifyInv
  <2> QED
    BY <1>1, <2>1, <2>2, <2>3 DEF LinkControl, NotifyInv, ControlNotified, hcdVars
<1>2. ASSUME NEW t \in Tds, NEW e \in BlkEps, NEW x \in BlkTransfers, LinkBulk(e, t, x)
      PROVE  NotifyInv'
  <2>1. \A b \in CtlEps : queue'[b] = queue[b] /\ halted'[b] = halted[b]
    BY <1>0, <1>2 DEF LinkBulk, LinkTd, TypeOK
  <2>2. \A b \in CtlEps : Eligible(b)' <=> Eligible(b)
    BY <2>1 DEF Eligible
  <2> QED
    BY <1>2, <2>1, <2>2 DEF LinkBulk, NotifyInv, ControlNotified, DoneNotified, hcdVars
<1>3. CASE Wait
  <2>1. ctlList # <<>>
    BY <1>3 DEF Wait, NotifyInv
  <2>2. hstate \in 0 .. 3 => seen'
    <3>1. hstate \in 0 .. 3 => hstate # -2 /\ hstate # -1
      OBVIOUS
    <3>2. hstate # -1 => ListNow = ctlList
      BY DEF ListNow
    <3>3. seen' = (hstate # -2 /\ ListNow # <<>>)
      BY <1>3 DEF Wait
    <3> QED
      BY <2>1, <3>1, <3>2, <3>3, Zenon
  <2> QED
    BY <1>3, <2>1, <2>2
    DEF Wait, NotifyInv, ControlNotified, DoneNotified, Eligible, listVars
<1>4. CASE SendNone
  <2>1. pc' = "wait" /\ ctlList' = ctlList /\ ctlList # <<>>
    BY <1>4 DEF SendNone, EndTurn, NotifyInv, listVars
  <2>2. \A e \in CtlEps : Eligible(e)' <=> Eligible(e)
    BY <1>4 DEF SendNone, Eligible
  <2>3. ControlNotified'
    <3>1. CASE hstate = -1
      BY <1>4, <2>2, <3>1 DEF SendNone, FlagNow, NotifyInv, ControlNotified
    <3>2. CASE hstate \in 0 .. 3
      <4>1. seen /\ ListNow = ctlList
        BY <1>4, <3>2 DEF SendNone, NotifyInv, ListNow
      <4>2. \A i \in DOMAIN ctlList : ~Eligible(ctlList[i])
        BY <1>4, <4>1 DEF SendNone
      <4>3. \A e \in CtlEps : ~Eligible(e)
        BY <4>2 DEF NotifyInv, Range, Eligible
      <4> QED
        BY <2>2, <4>3 DEF ControlNotified
    <3> QED
      BY <1>4, <3>1, <3>2 DEF SendNone, TypeOK
  <2>4. DoneNotified'
    BY <1>4 DEF SendNone, FlagNow, NotifyInv, DoneNotified
  <2> QED
    BY <1>4, <2>1, <2>3, <2>4 DEF SendNone, NotifyInv, listVars
<1>5. CASE ProcessDone
  <2>1. pc' = "wait" /\ ctlList' = ctlList /\ ctlList # <<>> /\ queue' = queue
    BY <1>5 DEF ProcessDone, EndTurn, NotifyInv, listVars
  <2>2. \A e \in CtlEps : Eligible(e)' <=> Eligible(e)
    BY <1>5 DEF ProcessDone, Eligible
  <2>3. ControlNotified'
    BY <1>5, <2>2 DEF ProcessDone, NotifyInv, ControlNotified
  <2>4. DoneNotified'
    BY <1>5 DEF ProcessDone, NotifyInv, DoneNotified
  <2> QED
    BY <2>1, <2>3, <2>4 DEF NotifyInv
<1>6. ASSUME NEW e \in Epds, Send(e) PROVE NotifyInv'
  <2>1. SendShape(e) /\ queue[e] # <<>>
    BY <1>6, SendHasShape DEF SendShape, Picked, Eligible
  <2>2. pc' = "wait" /\ ctlList' = ctlList /\ ctlList # <<>>
    BY <2>1 DEF SendShape, Picked, EndTurn, NotifyInv, listVars
  <2>3. /\ notify \subseteq notify'
        /\ \A b \in Epds : queue'[b] # <<>> => queue[b] # <<>>
        /\ DoneNotified'
    <3>1. CASE Retire(e)
      BY <2>1, <3>1 DEF Retire, TypeOK, DoneNotified
    <3>2. CASE UNCHANGED <<queue, done, notify>>
      BY <3>2 DEF NotifyInv, DoneNotified
    <3> QED
      BY <2>1, <3>1, <3>2 DEF SendShape
  <2>4. \A b \in CtlEps : Eligible(b)' => Eligible(b)
    BY <1>0, <2>1, <2>3 DEF SendShape, Eligible
  <2>5. ControlNotified'
    BY <2>3, <2>4 DEF NotifyInv, ControlNotified
  <2> QED
    BY <1>0, <2>2, <2>3, <2>5 DEF NotifyInv
<1>7. CASE UNCHANGED vars
  BY <1>7 DEF vars, NotifyInv, ControlNotified, DoneNotified, Eligible
<1> QED
  BY <1>1, <1>2, <1>3, <1>4, <1>5, <1>6, <1>7 DEF Next, Link, HcdStep

\* The HCD thread never sleeps over control work or over an URB whose
\* completion is due.
THEOREM HcdNeverSleepsOverWork == Spec => []NeverSleepsOverWork
<1>1. NotifyInv => NeverSleepsOverWork
  BY DEF NotifyInv, NeverSleepsOverWork
<1> QED
  BY <1>1, NotifyInit, NotifyStep, HcdTypeCorrect, PTL DEF Spec

-----------------------------------------------------------------------------
(***************************************************************************)
(* Every descriptor in use is in one place.                                *)
(***************************************************************************)
LEMMA DoneDomain ==
    ASSUME TypeOK
    PROVE  DOMAIN done = 1 .. Len(done) /\ Len(done) \in Nat
BY LenProperties DEF TypeOK

LEMMA QueueDomain ==
    ASSUME TypeOK, NEW e \in Epds
    PROVE  DOMAIN queue[e] = 1 .. Len(queue[e]) /\ Len(queue[e]) \in Nat
BY LenProperties DEF TypeOK

\* A free descriptor is in no queue and not on the done list.
LEMMA FreeIsNowhere ==
    ASSUME TypeOK, TdsInOnePlace, NEW t \in Tds, td[t].ep = NoEp
    PROVE  /\ \A e \in Epds : \A i \in DOMAIN queue[e] : queue[e][i] # t
           /\ \A i \in DOMAIN done : done[i] # t
BY EpdAssumption DEF TdsInOnePlace

\* What LinkTd does to the queue of its endpoint.
LEMMA LinkTdQueue ==
    ASSUME TypeOK, NEW e \in Epds, NEW t \in Tds, NEW r, LinkTd(e, t, r)
    PROVE  /\ td[t].ep = NoEp
           /\ td'[t] = r
           /\ \A u \in Tds : u # t => td'[u] = td[u]
           /\ queue'[e] = Append(queue[e], t)
           /\ \A b \in Epds : b # e => queue'[b] = queue[b]
           /\ DOMAIN queue'[e] = 1 .. Len(queue[e]) + 1
           /\ \A i \in DOMAIN queue[e] : queue'[e][i] = queue[e][i]
           /\ queue'[e][Len(queue[e]) + 1] = t
<1>1. queue[e] \in Seq(Tds)
  BY DEF TypeOK
<1>2. queue'[e] = Append(queue[e], t)
  BY DEF LinkTd, TypeOK
<1>3. /\ Append(queue[e], t) \in Seq(Tds)
      /\ Len(Append(queue[e], t)) = Len(queue[e]) + 1
      /\ \A i \in 1 .. Len(queue[e]) : Append(queue[e], t)[i] = queue[e][i]
      /\ Append(queue[e], t)[Len(queue[e]) + 1] = t
  BY <1>1, AppendProperties
<1>4. DOMAIN Append(queue[e], t) = 1 .. Len(queue[e]) + 1
  BY <1>3, LenProperties
<1>5. td[t].ep = NoEp
  BY DEF LinkTd, FreeTd
<1> QED
  BY <1>2, <1>3, <1>4, <1>5, QueueDomain DEF LinkTd, TypeOK

LEMMA LinkKeepsPlaces ==
    ASSUME TypeOK, TdsInOnePlace, NEW e \in Epds, NEW t \in Tds, NEW r,
           LinkTd(e, t, r), r.ep = e, done' = done
    PROVE  TdsInOnePlace'
<1>1. /\ \A b \in Epds : \A i \in DOMAIN queue[b] : queue[b][i] # t
      /\ \A i \in DOMAIN done : done[i] # t
  BY LinkTdQueue, FreeIsNowhere
<1>2. /\ \A b \in Epds : \A i \in DOMAIN queue[b] : queue[b][i] \in Tds
      /\ \A i \in DOMAIN done : done[i] \in Tds
  BY ElementOfSeq, QueueDomain, DoneDomain DEF TypeOK
<1>3. DOMAIN queue[e] = 1 .. Len(queue[e]) /\ Len(queue[e]) \in Nat
  BY QueueDomain
<1>4. \A i \in DOMAIN queue'[e] : i \in DOMAIN queue[e] \/ i = Len(queue[e]) + 1
  BY <1>3, LinkTdQueue
<1>5. \A b \in Epds : \A i \in DOMAIN queue'[b] : td'[queue'[b][i]].ep = b
  BY <1>1, <1>2, <1>4, LinkTdQueue DEF TdsInOnePlace
<1>6. \A i \in DOMAIN done' : td'[done'[i]].ep # NoEp
  BY <1>1, <1>2, LinkTdQueue DEF TdsInOnePlace
<1>7. \A b \in Epds : \A i, j \in DOMAIN queue'[b] :
          queue'[b][i] = queue'[b][j] => i = j
  BY <1>1, <1>4, LinkTdQueue DEF TdsInOnePlace
<1>8. \A b \in Epds : \A i \in DOMAIN queue'[b], j \in DOMAIN done' :
          queue'[b][i] # done'[j]
  BY <1>1, <1>4, LinkTdQueue DEF TdsInOnePlace
<1> QED
  BY <1>5, <1>6, <1>7, <1>8 DEF TdsInOnePlace

\* What Retire does: the queue loses its head, the done list gains it.
LEMMA RetireLists ==
    ASSUME TypeOK, NEW e \in Epds, queue[e] # <<>>, Retire(e)
    PROVE  /\ queue'[e] = Tail(queue[e])
           /\ \A b \in Epds : b # e => queue'[b] = queue[b]
           /\ \A i \in DOMAIN queue'[e] :
                 i + 1 \in DOMAIN queue[e] /\ queue'[e][i] = queue[e][i + 1]
           /\ DOMAIN queue'[e] \subseteq Nat \ {0}
           /\ done' # <<>>
           /\ Head(done') = queue[e][1]
           /\ done'[1] = queue[e][1]
           /\ \A i \in DOMAIN done' :
                 i = 1 \/ (i - 1 \in DOMAIN done /\ done'[i] = done[i - 1])
           /\ DOMAIN done' \subseteq Nat \ {0}
<1>1. Head(queue[e]) = queue[e][1] /\ Head(queue[e]) \in Tds
  BY PickedHead
<1>2. /\ queue'[e] = Tail(queue[e])
      /\ \A b \in Epds : b # e => queue'[b] = queue[b]
  BY DEF Retire, TypeOK
<1>3. done' = <<queue[e][1]>> \o done
  BY <1>1 DEF Retire
<1>4. /\ <<queue[e][1]>> \in Seq(Tds)
      /\ Len(<<queue[e][1]>>) = 1
      /\ <<queue[e][1]>>[1] = queue[e][1]
      /\ done \in Seq(Tds)
  BY <1>1 DEF TypeOK
<1>5. /\ done' \in Seq(Tds)
      /\ Len(done') = 1 + Len(done)
      /\ \A i \in 1 .. 1 + Len(done) :
            done'[i] = IF i <= 1 THEN <<queue[e][1]>>[i] ELSE done[i - 1]
  BY <1>3, <1>4, ConcatProperties
<1>6. /\ DOMAIN done' = 1 .. 1 + Len(done)
      /\ DOMAIN done = 1 .. Len(done)
      /\ Len(done) \in Nat
  BY <1>5, LenProperties, DoneDomain
<1>7. /\ done'[1] = queue[e][1]
      /\ \A i \in DOMAIN done' :
            i = 1 \/ (i - 1 \in DOMAIN done /\ done'[i] = done[i - 1])
      /\ DOMAIN done' \subseteq Nat \ {0}
  BY <1>4, <1>5, <1>6
<1>8. done' # <<>> /\ Head(done') = done'[1]
  BY <1>5, <1>6
<1>9. /\ \A i \in DOMAIN queue'[e] :
            i + 1 \in DOMAIN queue[e] /\ queue'[e][i] = queue[e][i + 1]
      /\ DOMAIN queue'[e] \subseteq Nat \ {0}
  <2>1. DOMAIN Tail(queue[e]) = 1 .. Len(queue[e]) - 1
    BY PickedHead
  <2> QED
    BY <1>2, <2>1, PickedHead
<1> QED
  BY <1>2, <1>7, <1>8, <1>9

LEMMA InRange ==
    ASSUME TypeOK
    PROVE  /\ \A b \in Epds : \A i \in DOMAIN queue[b] : queue[b][i] \in Tds
           /\ \A i \in DOMAIN done : done[i] \in Tds
BY ElementOfSeq, QueueDomain, DoneDomain DEF TypeOK

LEMMA SendKeepsPlaces ==
    ASSUME TypeOK, TdsInOnePlace, NEW e \in Epds, SendShape(e)
    PROVE  TdsInOnePlace'
<1>1. queue[e] # <<>>
  BY DEF SendShape, Picked, Eligible
<1>2. \A u \in Tds : td'[u].ep = td[u].ep
  <2>1. PICK r \in TdRecord : /\ td' = [td EXCEPT ![Head(queue[e])] = r]
                              /\ r.ep = td[Head(queue[e])].ep
    BY DEF SendShape
  <2> QED
    BY <2>1 DEF TypeOK
<1>3. CASE UNCHANGED <<queue, done, notify>>
  BY <1>2, <1>3, InRange DEF TdsInOnePlace
<1>4. CASE Retire(e)
  <2> DEFINE h == queue[e][1]
  <2>1. /\ 1 \in DOMAIN queue[e] /\ h \in Tds
        /\ \A i \in DOMAIN queue'[e] :
              i + 1 \in DOMAIN queue[e] /\ queue'[e][i] = queue[e][i + 1]
        /\ \A b \in Epds : b # e => queue'[b] = queue[b]
        /\ DOMAIN queue'[e] \subseteq Nat \ {0}
        /\ done'[1] = h
        /\ \A i \in DOMAIN done' :
              i = 1 \/ (i - 1 \in DOMAIN done /\ done'[i] = done[i - 1])
        /\ DOMAIN done' \subseteq Nat \ {0}
    BY <1>1, <1>4, PickedHead, RetireLists
  <2> HIDE DEF h
  <2>2. td[h].ep = e /\ e # NoEp
    BY <2>1, EpdAssumption DEF TdsInOnePlace, h
  <2>3. \A b \in Epds : \A i \in DOMAIN queue'[b] : queue'[b][i] # h
    <3>1. \A i \in DOMAIN queue'[e] : queue'[e][i] # h
      <4> SUFFICES ASSUME NEW i \in DOMAIN queue'[e] PROVE queue'[e][i] # h
        OBVIOUS
      <4>1. i + 1 \in DOMAIN queue[e] /\ queue'[e][i] = queue[e][i + 1] /\ i + 1 # 1
        BY <2>1
      <4> QED
        BY <2>1, <4>1 DEF TdsInOnePlace, h
    <3>2. \A b \in Epds : b # e => \A i \in DOMAIN queue'[b] : queue'[b][i] # h
      BY <2>1, <2>2 DEF TdsInOnePlace
    <3> QED
      BY <3>1, <3>2
  <2>4. \A i \in DOMAIN done : done[i] # h
    BY <2>1 DEF TdsInOnePlace, h
  <2>5. \A b \in Epds : \A i \in DOMAIN queue'[b] :
            \E k \in DOMAIN queue[b] : queue'[b][i] = queue[b][k]
    BY <2>1
  <2>6. \A b \in Epds : \A i \in DOMAIN queue'[b] : td'[queue'[b][i]].ep = b
    BY <1>2, <2>5, InRange DEF TdsInOnePlace
  <2>7. \A i \in DOMAIN done' : td'[done'[i]].ep # NoEp
    BY <1>2, <2>1, <2>2, InRange DEF TdsInOnePlace
  <2>8. \A b \in Epds : \A i, j \in DOMAIN queue'[b] :
            queue'[b][i] = queue'[b][j] => i = j
    <3>1. \A i, j \in DOMAIN queue'[e] : queue'[e][i] = queue'[e][j] => i = j
      <4> SUFFICES ASSUME NEW i \in DOMAIN queue'[e], NEW j \in DOMAIN queue'[e],
                          queue'[e][i] = queue'[e][j]
                   PROVE  i = j
        OBVIOUS
      <4>1. i + 1 = j + 1
        BY <2>1 DEF TdsInOnePlace
      <4>2. i \in Nat /\ j \in Nat
        BY <2>1
      <4> QED
        BY <4>1, <4>2
    <3>2. \A b \in Epds : b # e => \A i, j \in DOMAIN queue'[b] :
              queue'[b][i] = queue'[b][j] => i = j
      BY <2>1 DEF TdsInOnePlace
    <3> QED
      BY <3>1, <3>2
  <2>9. \A i, j \in DOMAIN done' : done'[i] = done'[j] => i = j
    <3> SUFFICES ASSUME NEW i \in DOMAIN done', NEW j \in DOMAIN done',
                        done'[i] = done'[j]
                 PROVE  i = j
      OBVIOUS
    <3>1. i \in Nat /\ j \in Nat
      BY <2>1
    <3>2. i = 1 <=> done'[i] = h
      BY <2>1, <2>4
    <3>3. j = 1 <=> done'[j] = h
      BY <2>1, <2>4
    <3>4. CASE i = 1 \/ j = 1
      BY <3>2, <3>3, <3>4
    <3>5. CASE i # 1 /\ j # 1
      <4>1. i - 1 = j - 1
        BY <2>1, <3>5 DEF TdsInOnePlace
      <4> QED
        BY <3>1, <4>1
    <3> QED
      BY <3>4, <3>5
  <2>10. \A b \in Epds : \A i \in DOMAIN queue'[b], j \in DOMAIN done' :
            queue'[b][i] # done'[j]
    <3> SUFFICES ASSUME NEW b \in Epds, NEW i \in DOMAIN queue'[b],
                        NEW j \in DOMAIN done'
                 PROVE  queue'[b][i] # done'[j]
      OBVIOUS
    <3>1. CASE j = 1
      BY <2>1, <2>3, <3>1
    <3>2. CASE j # 1
      BY <2>1, <2>5, <3>2 DEF TdsInOnePlace
    <3> QED
      BY <3>1, <3>2
  <2> QED
    BY <2>6, <2>7, <2>8, <2>9, <2>10 DEF TdsInOnePlace
<1> QED
  BY <1>3, <1>4 DEF SendShape

\* What completing one URB does to the done list and to the descriptor.
LEMMA DoneTail ==
    ASSUME TypeOK, ProcessDone, done # <<>>
    PROVE  /\ Head(done) = done[1] /\ 1 \in DOMAIN done /\ done[1] \in Tds
           /\ done' = Tail(done)
           /\ DOMAIN done' \subseteq Nat \ {0}
           /\ \A i \in DOMAIN done' : i + 1 \in DOMAIN done /\ done'[i] = done[i + 1]
           /\ td'[done[1]] = FreeTd
           /\ \A u \in Tds : u # done[1] => td'[u] = td[u]
           /\ queue' = queue
<1>1. done \in Seq(Tds) /\ Len(done) \in Nat \ {0}
  BY EmptySeq DEF TypeOK
<1>2. /\ Head(done) \in Tds /\ Head(done) = done[1]
      /\ Tail(done) \in Seq(Tds)
      /\ Len(Tail(done)) = Len(done) - 1
      /\ \A i \in 1 .. Len(Tail(done)) : Tail(done)[i] = done[i + 1]
  BY <1>1, HeadTailProperties
<1>3. /\ DOMAIN done = 1 .. Len(done)
      /\ DOMAIN Tail(done) = 1 .. Len(done) - 1
  BY <1>1, <1>2, LenProperties
<1>4. /\ done' = Tail(done) /\ queue' = queue
      /\ td' = [td EXCEPT ![Head(done)] = FreeTd]
  BY DEF ProcessDone
<1> QED
  BY <1>1, <1>2, <1>3, <1>4 DEF TypeOK

LEMMA CompletionKeepsPlaces ==
    ASSUME TypeOK, TdsInOnePlace, ProcessDone
    PROVE  TdsInOnePlace'
<1>1. CASE done = <<>>
  BY <1>1 DEF ProcessDone, TdsInOnePlace
<1>2. CASE done # <<>>
  <2> DEFINE h == done[1]
  <2>1. /\ 1 \in DOMAIN done /\ h \in Tds
        /\ DOMAIN done' \subseteq Nat \ {0}
        /\ \A i \in DOMAIN done' : i + 1 \in DOMAIN done /\ done'[i] = done[i + 1]
        /\ \A u \in Tds : u # h => td'[u] = td[u]
        /\ queue' = queue
    BY <1>2, DoneTail
  <2>2. \A b \in Epds : \A i \in DOMAIN queue[b] : queue[b][i] # h
    BY <2>1 DEF TdsInOnePlace
  <2>3. \A i \in DOMAIN done' : done'[i] # h
    BY <2>1 DEF TdsInOnePlace
  <2> HIDE DEF h
  <2>4. \A b \in Epds : \A i \in DOMAIN queue'[b] : td'[queue'[b][i]].ep = b
    BY <2>1, <2>2, InRange DEF TdsInOnePlace
  <2>5. \A i \in DOMAIN done' : td'[done'[i]].ep # NoEp
    BY <2>1, <2>3, InRange DEF TdsInOnePlace
  <2>6. \A i, j \in DOMAIN done' : done'[i] = done'[j] => i = j
    <3> SUFFICES ASSUME NEW i \in DOMAIN done', NEW j \in DOMAIN done',
                        done'[i] = done'[j]
                 PROVE  i = j
      OBVIOUS
    <3>1. i + 1 = j + 1
      BY <2>1 DEF TdsInOnePlace
    <3>2. i \in Nat /\ j \in Nat
      BY <2>1
    <3> QED
      BY <3>1, <3>2
  <2>7. \A b \in Epds : \A i \in DOMAIN queue'[b], j \in DOMAIN done' :
            queue'[b][i] # done'[j]
    BY <2>1 DEF TdsInOnePlace
  <2>8. \A b \in Epds : \A i, j \in DOMAIN queue'[b] :
            queue'[b][i] = queue'[b][j] => i = j
    BY <2>1 DEF TdsInOnePlace
  <2> QED
    BY <2>4, <2>5, <2>6, <2>7, <2>8 DEF TdsInOnePlace
<1> QED
  BY <1>1, <1>2

LEMMA PlacesInit == Init => TdsInOnePlace
BY DEF Init, TdsInOnePlace

LEMMA PlacesStep == TypeOK /\ TdsInOnePlace /\ [Next]_vars => TdsInOnePlace'
<1> SUFFICES ASSUME TypeOK, TdsInOnePlace, [Next]_vars PROVE TdsInOnePlace'
  OBVIOUS
<1>1. ASSUME NEW t \in Tds, NEW c \in Clients, NEW e \in CtlEps, NEW x \in CtlStages,
             LinkControl(c, e, t, x)
      PROVE  TdsInOnePlace'
  <2> DEFINE r == NewTd(e, IF x.pid = "SETUP" THEN 0 ELSE 1, x)
  <2>1. LinkTd(e, t, r) /\ done' = done /\ e \in Epds
    BY <1>1 DEF LinkControl, Epds
  <2>2. r.ep = e
    BY DEF NewTd
  <2> HIDE DEF r
  <2> QED
    BY <2>1, <2>2, LinkKeepsPlaces
<1>2. ASSUME NEW t \in Tds, NEW e \in BlkEps, NEW x \in BlkTransfers, LinkBulk(e, t, x)
      PROVE  TdsInOnePlace'
  <2> DEFINE r == NewTd(e, 2, x)
  <2>1. LinkTd(e, t, r) /\ done' = done /\ e \in Epds
    BY <1>2 DEF LinkBulk, Epds
  <2>2. r.ep = e
    BY DEF NewTd
  <2> HIDE DEF r
  <2> QED
    BY <2>1, <2>2, LinkKeepsPlaces
<1>3. CASE Wait \/ SendNone \/ UNCHANGED vars
  BY <1>3 DEF Wait, SendNone, vars, TdsInOnePlace
<1>4. CASE ProcessDone
  BY <1>4, CompletionKeepsPlaces
<1>5. ASSUME NEW e \in Epds, Send(e) PROVE TdsInOnePlace'
  BY <1>5, SendHasShape, SendKeepsPlaces
<1> QED
  BY <1>1, <1>2, <1>3, <1>4, <1>5 DEF Next, Link, HcdStep

\* A descriptor is freed once, by the completion of its own URB: while it is
\* in use it is in the queue of its own endpoint or on the done list, once.
THEOREM HcdTdsInOnePlace == Spec => []TdsInOnePlace
BY PlacesInit, PlacesStep, HcdTypeCorrect, PTL DEF Spec

-----------------------------------------------------------------------------
(***************************************************************************)
(* The data toggle (HcdToggle).  AlternatesOn speaks of the head of a      *)
(* queue; what becomes the head next has never been sent (FreshTail), so   *)
(* it takes its toggle from the EPD, which holds the parity of the ACKs    *)
(* whenever a transfer ends, except one that failed after an odd number.   *)
(***************************************************************************)
FreshTail(e) == \A i \in DOMAIN queue[e] : i # 1 => td[queue[e][i]].toggle = 2
CarryCounts(e) == queue[e] = <<>> => carry[e] = acks[e]

ToggleInv ==
    /\ torn \in [BlkEps -> BOOLEAN]
    /\ \A e \in BlkEps : FreshTail(e)
    /\ \A e \in BlkEps : torn[e] \/ (AlternatesOn(e) /\ CarryCounts(e))

\* A step that leaves alone the queue of e, what is in it and the carry of e.
LEMMA ToggleUndisturbed ==
    ASSUME TypeOK, TypeOK', NEW e \in BlkEps,
           queue'[e] = queue[e], carry'[e] = carry[e], acks'[e] = acks[e],
           \A i \in DOMAIN queue[e] : td'[queue[e][i]] = td[queue[e][i]]
    PROVE  /\ FreshTail(e) => FreshTail(e)'
           /\ AlternatesOn(e) => AlternatesOn(e)'
           /\ CarryCounts(e) => CarryCounts(e)'
<1>1. e \in Epds
  BY DEF Epds
<1>2. CASE queue[e] = <<>>
  BY <1>1, <1>2, QueueDomain DEF FreshTail, AlternatesOn, CarryCounts
<1>3. CASE queue[e] # <<>>
  <2>1. Head(queue[e]) = queue[e][1] /\ 1 \in DOMAIN queue[e]
    BY <1>1, <1>3, PickedHead
  <2>2. td'[Head(queue[e])] = td[Head(queue[e])]
    BY <2>1
  <2> QED
    BY <1>3, <2>2 DEF FreshTail, AlternatesOn, CarryCounts, Toggle
<1> QED
  BY <1>2, <1>3

\* A new transfer descriptor goes behind the others, with toggle 2.
LEMMA ToggleLinked ==
    ASSUME TypeOK, TypeOK', TdsInOnePlace, NEW e \in BlkEps, NEW t \in Tds, NEW r,
           LinkTd(e, t, r), r.toggle = 2, carry' = carry, acks'[e] = acks[e]
    PROVE  /\ FreshTail(e) => FreshTail(e)'
           /\ AlternatesOn(e) /\ CarryCounts(e) => AlternatesOn(e)' /\ CarryCounts(e)'
<1>1. e \in Epds
  BY DEF Epds
<1>2. /\ td'[t] = r
      /\ \A i \in DOMAIN queue[e] : queue[e][i] \in Tds /\ queue[e][i] # t
      /\ \A u \in Tds : u # t => td'[u] = td[u]
      /\ DOMAIN queue'[e] = 1 .. Len(queue[e]) + 1
      /\ DOMAIN queue[e] = 1 .. Len(queue[e]) /\ Len(queue[e]) \in Nat
      /\ \A i \in DOMAIN queue[e] : queue'[e][i] = queue[e][i]
      /\ queue'[e][Len(queue[e]) + 1] = t
  BY <1>1, LinkTdQueue, FreeIsNowhere, InRange, QueueDomain
<1>3. FreshTail(e) => FreshTail(e)'
  BY <1>2 DEF FreshTail
<1>4. queue'[e] # <<>> /\ Head(queue'[e]) = queue'[e][1]
  <2>1. queue'[e] \in Seq(Tds) /\ queue'[e] # <<>>
    BY <1>1, <1>2 DEF TypeOK
  <2> QED
    BY <2>1
<1>5. CASE queue[e] = <<>>
  <2>1. Head(queue'[e]) = t
    BY <1>2, <1>4, <1>5
  <2> QED
    BY <1>2, <1>3, <1>4, <1>5, <2>1 DEF AlternatesOn, CarryCounts, Toggle
<1>6. CASE queue[e] # <<>>
  <2>1. Head(queue'[e]) = Head(queue[e]) /\ td'[Head(queue[e])] = td[Head(queue[e])]
    BY <1>1, <1>2, <1>4, <1>6, PickedHead
  <2> QED
    BY <1>3, <1>4, <1>6, <2>1 DEF AlternatesOn, CarryCounts, Toggle
<1> QED
  BY <1>5, <1>6

\* The head of the queue of e has been sent.  If it is retired, what follows it
\* takes its toggle from the EPD.
LEMMA ToggleSent ==
    ASSUME TypeOK, TypeOK', TdsInOnePlace, NEW e \in BlkEps, SendShape(e), FreshTail(e)
    PROVE  /\ FreshTail(e)'
           /\ Retire(e) => /\ queue'[e] # queue[e]
                           /\ queue'[e] # <<>> => Toggle(e, Head(queue[e]))' = carry'[e]
<1> DEFINE h == queue[e][1]
<1>1. e \in Epds /\ queue[e] # <<>>
  BY DEF Epds, SendShape, Picked, Eligible
<1>2. /\ h \in Tds /\ h = Head(queue[e]) /\ 1 \in DOMAIN queue[e]
      /\ DOMAIN queue[e] = 1 .. Len(queue[e]) /\ Len(queue[e]) \in Nat
      /\ \A i \in DOMAIN queue[e] : queue[e][i] \in Tds /\ (i # 1 => queue[e][i] # h)
  BY <1>1, PickedHead, QueueDomain, InRange DEF TdsInOnePlace
<1>3. \A u \in Tds : u # h => td'[u] = td[u]
  BY <1>2 DEF SendShape, TypeOK
<1> HIDE DEF h
<1>4. \A i \in DOMAIN queue[e] : i # 1 => td'[queue[e][i]].toggle = 2
  BY <1>2, <1>3 DEF FreshTail
<1>5. CASE UNCHANGED <<queue, done, notify>>
  <2>1. FreshTail(e)'
    BY <1>4, <1>5 DEF FreshTail
  <2>2. ~Retire(e)
    <3>1. Len(Tail(queue[e])) = Len(queue[e]) - 1
      BY <1>1, PickedHead
    <3>2. Tail(queue[e]) # queue[e]
      <4>1. Len(Tail(queue[e])) # Len(queue[e])
        BY <1>2, <3>1
      <4> QED
        BY <4>1, Zenon
    <3> QED
      BY <1>1, <1>5, <3>2 DEF Retire, TypeOK
  <2> QED
    BY <2>1, <2>2
<1>6. CASE Retire(e)
  <2>1. /\ queue'[e] = Tail(queue[e])
        /\ \A i \in DOMAIN queue'[e] :
              i + 1 \in DOMAIN queue[e] /\ queue'[e][i] = queue[e][i + 1]
        /\ DOMAIN queue'[e] \subseteq Nat \ {0}
        /\ Len(Tail(queue[e])) = Len(queue[e]) - 1
    BY <1>1, <1>6, RetireLists, PickedHead
  <2>2. \A i \in DOMAIN queue'[e] : td'[queue'[e][i]].toggle = 2
    BY <1>4, <2>1
  <2>3. queue'[e] # queue[e]
    <3>1. Len(Tail(queue[e])) # Len(queue[e])
      BY <1>2, <2>1
    <3> QED
      BY <2>1, <3>1, Zenon
  <2>4. ASSUME queue'[e] # <<>> PROVE Toggle(e, Head(queue[e]))' = carry'[e]
    <3>1. queue'[e] \in Seq(Tds)
      BY <1>1 DEF TypeOK
    <3>2. Head(queue'[e]) = queue'[e][1] /\ 1 \in DOMAIN queue'[e]
      BY <2>4, <3>1
    <3> QED
      BY <2>2, <3>2 DEF Toggle
  <2> QED
    BY <2>2, <2>3, <2>4 DEF FreshTail
<1> QED
  BY <1>5, <1>6 DEF SendShape

\* An ACKed packet.
LEMMA ToggleAcked ==
    ASSUME TypeOK, TypeOK', TdsInOnePlace, NEW e \in BlkEps, NEW rlen \in 0 .. MaxLen,
           SendAck(e, rlen), FreshTail(e), acks'[e] = 1 - acks[e],
           AlternatesOn(e)
    PROVE  AlternatesOn(e)' /\ CarryCounts(e)'
<1> DEFINE h == Head(queue[e])
<1>1. e \in Epds /\ SendShape(e) /\ queue[e] # <<>>
  BY SendHasShape DEF Epds, Send, SendAck, Picked, Eligible
<1>2. h \in Tds /\ td[h] \in TdRecord /\ Toggle(e, h) \in 0 .. 1
  BY <1>1, PickedHead, ToggleIsBit DEF TypeOK
<1>3. Toggle(e, h) = acks[e]
  BY <1>1 DEF AlternatesOn
<1>4. CASE Finished(h, rlen)
  <2>1. Retire(e) /\ carry' = [carry EXCEPT ![e] = 1 - Toggle(e, h)]
    BY <1>4 DEF SendAck
  <2>2. carry'[e] = acks'[e]
    BY <1>1, <1>3, <2>1 DEF TypeOK
  <2> QED
    BY <1>1, <2>1, <2>2, ToggleSent DEF AlternatesOn, CarryCounts
<1>5. CASE ~Finished(h, rlen)
  <2>1. queue' = queue /\ carry' = carry
    <3>1. IF Finished(h, rlen)
          THEN Retire(e) /\ carry' = [carry EXCEPT ![e] = 1 - Toggle(e, h)]
          ELSE UNCHANGED <<queue, done, notify, carry>>
      BY DEF SendAck
    <3> QED
      BY ONLY <1>5, <3>1
  <2>2. td'[h].toggle = 1 - Toggle(e, h)
    <3>1. td' = [td EXCEPT ![h].toggle = 1 - Toggle(e, h), ![h].left = @ - rlen]
      BY DEF SendAck
    <3>2. td \in [Tds -> TdRecord]
      BY DEF TypeOK
    <3> QED
      BY ONLY <1>2, <3>1, <3>2 DEF TdRecord
  <2>3. td'[h].toggle # 2 /\ td'[h].toggle = acks'[e]
    BY <1>2, <1>3, <2>2
  <2> QED
    BY <1>1, <2>1, <2>3 DEF AlternatesOn, CarryCounts, Toggle
<1> QED
  BY ONLY <1>4, <1>5

\* Any other outcome: what is retired leaves the carry as it was.
LEMMA ToggleNotAcked ==
    ASSUME TypeOK, TypeOK', TdsInOnePlace, NEW e \in BlkEps,
           SendNak(e) \/ SendErr(e) \/ SendStall(e), FreshTail(e), acks'[e] = acks[e],
           AlternatesOn(e), Failed(e) => Toggle(e, Head(queue[e])) = carry[e]
    PROVE  AlternatesOn(e)' /\ CarryCounts(e)'
<1> DEFINE h == Head(queue[e])
<1>1. e \in Epds /\ SendShape(e) /\ queue[e] # <<>>
  BY SendHasShape DEF Epds, Send, SendNak, SendErr, SendStall, Picked, Eligible
<1>2. h \in Tds /\ td[h] \in TdRecord /\ Toggle(e, h) \in 0 .. 1
  BY <1>1, PickedHead, ToggleIsBit DEF TypeOK
<1>3. Toggle(e, h) = acks[e] /\ carry' = carry
  <2>1. carry' = carry
    BY DEF SendNak, SendErr, SendStall
  <2> QED
    BY ONLY <1>1, <2>1, AlternatesOn(e) DEF AlternatesOn
<1>4. td'[h].toggle = Toggle(e, h)
  <2>1. \/ td' = [td EXCEPT ![h].toggle = Toggle(e, h)]
        \/ td' = [td EXCEPT ![h].toggle = Toggle(e, h), ![h].err = @ + 1]
    BY DEF SendNak, SendErr, SendStall
  <2>2. td \in [Tds -> TdRecord]
    BY DEF TypeOK
  <2> QED
    BY ONLY <1>2, <2>1, <2>2 DEF TdRecord
<1>5. CASE Retire(e) /\ ~SendNak(e)
  <2>1. /\ queue'[e] # queue[e]
        /\ queue'[e] # <<>> => Toggle(e, Head(queue[e]))' = carry'[e]
    BY <1>1, <1>5, ToggleSent
  <2>2. Failed(e)
    BY <1>5, <2>1 DEF Failed
  <2>3. carry[e] = acks[e]
    BY <1>3, <2>2
  <2> QED
    BY <1>3, <2>1, <2>3 DEF AlternatesOn, CarryCounts
<1>6. CASE queue' = queue
  <2>1. td'[h].toggle # 2
    BY <1>2, <1>4
  <2> QED
    BY <1>1, <1>3, <1>4, <1>6, <2>1 DEF AlternatesOn, CarryCounts, Toggle
<1>7. (Retire(e) /\ ~SendNak(e)) \/ queue' = queue
  <2>1. SendNak(e) => queue' = queue
    BY DEF SendNak
  <2> QED
    BY <2>1 DEF SendErr, SendStall
<1> QED
  BY <1>5, <1>6, <1>7

LEMMA ToggleStart == ToggleInit => ToggleInv
<1> SUFFICES ASSUME ToggleInit PROVE ToggleInv
  OBVIOUS
<1>1. \A e \in BlkEps : queue[e] = <<>> /\ carry[e] = 0 /\ acks[e] = 0
  BY DEF ToggleInit, Init, Epds
<1> QED
  BY <1>1 DEF ToggleInit, ToggleInv, FreshTail, AlternatesOn, CarryCounts

\* A step on another endpoint, of a client or of the completion slot.
LEMMA ToggleElsewhere ==
    ASSUME TypeOK, TypeOK', TdsInOnePlace, NEW e \in BlkEps, acks'[e] = acks[e],
           \/ \E t \in Tds, c \in Clients, f \in CtlEps, x \in CtlStages :
                 LinkControl(c, f, t, x)
           \/ \E t \in Tds, f \in BlkEps, x \in BlkTransfers : f # e /\ LinkBulk(f, t, x)
           \/ Wait \/ SendNone \/ ProcessDone \/ UNCHANGED vars
           \/ \E f \in Epds : f # e /\ Send(f)
    PROVE  /\ FreshTail(e) => FreshTail(e)'
           /\ AlternatesOn(e) => AlternatesOn(e)'
           /\ CarryCounts(e) => CarryCounts(e)'
<1>0. e \in Epds /\ e \notin CtlEps
  BY EpdAssumption DEF Epds
<1> SUFFICES /\ queue'[e] = queue[e] /\ carry'[e] = carry[e]
             /\ \A i \in DOMAIN queue[e] : td'[queue[e][i]] = td[queue[e][i]]
  BY ToggleUndisturbed
<1>1. \A i \in DOMAIN queue[e] : queue[e][i] \in Tds /\ td[queue[e][i]].ep = e
  BY <1>0, InRange DEF TdsInOnePlace
<1>2. ASSUME NEW f \in Epds, f # e, NEW t \in Tds, NEW r, LinkTd(f, t, r), carry' = carry
      PROVE  /\ queue'[e] = queue[e] /\ carry'[e] = carry[e]
             /\ \A i \in DOMAIN queue[e] : td'[queue[e][i]] = td[queue[e][i]]
  <2>1. /\ \A u \in Tds : u # t => td'[u] = td[u]
        /\ \A b \in Epds : b # f => queue'[b] = queue[b]
        /\ \A i \in DOMAIN queue[e] : queue[e][i] # t
    BY <1>0, <1>2, LinkTdQueue, FreeIsNowhere
  <2> QED
    BY <1>0, <1>1, <1>2, <2>1
<1>3. ASSUME NEW f \in Epds, f # e, Send(f)
      PROVE  /\ queue'[e] = queue[e] /\ carry'[e] = carry[e]
             /\ \A i \in DOMAIN queue[e] : td'[queue[e][i]] = td[queue[e][i]]
  <2>1. SendShape(f)
    BY <1>3, SendHasShape
  <2>2. queue[f] # <<>>
    BY <2>1 DEF SendShape, Picked, Eligible
  <2>3. td[Head(queue[f])].ep = f /\ Head(queue[f]) \in Tds
    BY <2>2, PickedHead DEF TdsInOnePlace
  <2>4. \A u \in Tds : u # Head(queue[f]) => td'[u] = td[u]
    BY <2>1 DEF SendShape, TypeOK
  <2>5. queue'[e] = queue[e]
    <3>1. queue' = queue \/ queue' = [queue EXCEPT ![f] = Tail(@)]
      BY <2>1 DEF SendShape, Retire
    <3>2. queue \in [Epds -> Seq(Tds)]
      BY DEF TypeOK
    <3> QED
      BY ONLY <1>0, <1>3, <3>1, <3>2
  <2>6. carry'[e] = carry[e]
    <3>1. ASSUME NEW rlen \in 0 .. MaxLen, SendAck(f, rlen)
          PROVE  carry' = carry \/ carry' = [carry EXCEPT ![f] = 1 - Toggle(f, Head(queue[f]))]
      BY ONLY <3>1 DEF SendAck
    <3>2. carry' = carry \/ carry' = [carry EXCEPT ![f] = 1 - Toggle(f, Head(queue[f]))]
      BY <1>3, <3>1 DEF Send, SendNak, SendErr, SendStall
    <3>3. carry \in [Epds -> 0 .. 1]
      BY DEF TypeOK
    <3> QED
      BY ONLY <1>0, <1>3, <3>2, <3>3
  <2> QED
    BY <1>1, <1>3, <2>3, <2>4, <2>5, <2>6
<1>4. CASE ProcessDone
  <2>1. queue' = queue /\ carry' = carry
    BY <1>4 DEF ProcessDone
  <2>2. CASE done = <<>>
    BY <1>4, <2>1, <2>2 DEF ProcessDone
  <2>3. CASE done # <<>>
    <3>1. /\ 1 \in DOMAIN done
          /\ \A u \in Tds : u # done[1] => td'[u] = td[u]
      BY <1>4, <2>3, DoneTail
    <3>2. \A i \in DOMAIN queue[e] : queue[e][i] # done[1]
      BY <1>0, <3>1 DEF TdsInOnePlace
    <3> QED
      BY <1>1, <2>1, <3>1, <3>2
  <2> QED
    BY <2>2, <2>3
<1>5. CASE Wait \/ SendNone \/ UNCHANGED vars
  BY <1>5 DEF Wait, SendNone, vars
<1>6. ASSUME NEW t \in Tds, NEW c \in Clients, NEW f \in CtlEps, NEW x \in CtlStages,
             LinkControl(c, f, t, x)
      PROVE  \E r : LinkTd(f, t, r) /\ carry' = carry
  BY <1>6 DEF LinkControl
<1>7. ASSUME NEW t \in Tds, NEW f \in BlkEps, NEW x \in BlkTransfers, LinkBulk(f, t, x)
      PROVE  \E r : LinkTd(f, t, r) /\ carry' = carry
  BY <1>7 DEF LinkBulk
<1>8. CtlEps \subseteq Epds /\ BlkEps \subseteq Epds
  BY DEF Epds
<1> QED
  BY <1>0, <1>2, <1>3, <1>4, <1>5, <1>6, <1>7, <1>8

LEMMA ToggleStep ==
    TypeOK /\ TypeOK' /\ TdsInOnePlace /\ ToggleInv /\ [ToggleNext]_toggleVars => ToggleInv'
<1> SUFFICES ASSUME TypeOK, TypeOK', TdsInOnePlace, ToggleInv, [ToggleNext]_toggleVars
             PROVE  ToggleInv'
  OBVIOUS
<1>1. torn' \in [BlkEps -> BOOLEAN]
  <2>1. CASE ToggleNext
    <3>1. \A e \in BlkEps : (torn[e] \/ (Failed(e) /\ Toggle(e, Head(queue[e])) # carry[e])) \in BOOLEAN
      OBVIOUS
    <3> QED
      BY <2>1, <3>1, Zenon DEF ToggleNext
  <2> QED
    BY <2>1 DEF ToggleInv, toggleVars
<1>2. ASSUME NEW e \in BlkEps
      PROVE  /\ FreshTail(e)'
             /\ torn'[e] \/ (AlternatesOn(e)' /\ CarryCounts(e)')
  <2> DEFINE Kept == AlternatesOn(e) /\ CarryCounts(e)
             Whole == Failed(e) => Toggle(e, Head(queue[e])) = carry[e]
  <2>1. FreshTail(e)
    BY DEF ToggleInv
  <2>2. ASSUME UNCHANGED toggleVars PROVE FreshTail(e)' /\ (Kept => Kept')
    BY <2>1, <2>2, ToggleElsewhere DEF toggleVars
  <2>3. ASSUME ToggleNext PROVE FreshTail(e)' /\ (Kept /\ Whole => Kept')
    <3>1. /\ Acked(e) => acks'[e] = 1 - acks[e]
          /\ ~Acked(e) => acks'[e] = acks[e]
      BY <2>3, Zenon DEF ToggleNext
    <3>2. CASE Acked(e)
      <4>1. PICK rlen \in 0 .. MaxLen : SendAck(e, rlen)
        BY <3>2 DEF Acked
      <4>2. SendShape(e)
        BY <4>1, SendHasShape DEF Send, Epds
      <4>3. acks'[e] = 1 - acks[e]
        BY <3>1, <3>2
      <4> QED
        BY <2>1, <4>1, <4>2, <4>3, ToggleSent, ToggleAcked
    <3>3. CASE ~Acked(e)
      <4>1. acks'[e] = acks[e]
        BY <3>1, <3>3
      <4>2. CASE SendNak(e) \/ SendErr(e) \/ SendStall(e)
        <5>1. SendShape(e)
          BY <4>2, SendHasShape DEF Send, Epds
        <5> QED
          BY <2>1, <4>1, <4>2, <5>1, ToggleSent, ToggleNotAcked
      <4>3. ASSUME NEW t \in Tds, NEW x \in BlkTransfers, LinkBulk(e, t, x)
            PROVE  FreshTail(e)' /\ (Kept => Kept')
        <5> DEFINE r == NewTd(e, 2, x)
        <5>1. LinkTd(e, t, r) /\ carry' = carry
          BY <4>3 DEF LinkBulk
        <5>2. r.toggle = 2
          BY DEF NewTd
        <5> HIDE DEF r
        <5> QED
          BY <2>1, <4>1, <5>1, <5>2, ToggleLinked
      <4>4. CASE \/ \E t \in Tds, c \in Clients, f \in CtlEps, x \in CtlStages :
                       LinkControl(c, f, t, x)
                 \/ \E t \in Tds, f \in BlkEps, x \in BlkTransfers :
                       f # e /\ LinkBulk(f, t, x)
                 \/ Wait \/ SendNone \/ ProcessDone
                 \/ \E f \in Epds : f # e /\ Send(f)
        BY <2>1, <4>1, <4>4, ToggleElsewhere
      <4>5. Next
        BY <2>3 DEF ToggleNext
      <4>6. Send(e) => SendNak(e) \/ SendErr(e) \/ SendStall(e)
        BY <3>3 DEF Send, Acked
      <4> QED
        BY <4>2, <4>3, <4>4, <4>5, <4>6 DEF Next, Link, HcdStep
    <3> QED
      BY <3>2, <3>3
  <2>4. ToggleNext => torn'[e] = (torn[e] \/ (Failed(e) /\ Toggle(e, Head(queue[e])) # carry[e]))
    BY Zenon DEF ToggleNext
  <2>5. UNCHANGED toggleVars => torn'[e] = torn[e]
    BY DEF toggleVars
  <2> HIDE DEF Kept
  <2>6. torn[e] \/ Kept
    BY DEF ToggleInv, Kept
  <2>7. torn'[e] \/ Kept'
    BY <2>2, <2>3, <2>4, <2>5, <2>6, Zenon
  <2> QED
    BY <2>2, <2>3, <2>7 DEF Kept
<1> QED
  BY <1>1, <1>2 DEF ToggleInv

\* The type of the packet the driver is about to send on a bulk endpoint is the
\* one after the last ACKed, on every endpoint where no transfer has failed
\* half-way, whatever the transfers, the short packets and the retries were.
THEOREM HcdTogglesAlternate == ToggleSpec => []TogglesAlternateUnlessTorn
<1>1. ToggleSpec => Spec
  <2>1. ToggleInit => Init
    BY DEF ToggleInit
  <2>2. [ToggleNext]_toggleVars => [Next]_vars
    BY DEF ToggleNext, toggleVars
  <2> QED
    BY <2>1, <2>2, PTL DEF ToggleSpec, Spec
<1>2. ToggleInv => TogglesAlternateUnlessTorn
  BY DEF ToggleInv, TogglesAlternateUnlessTorn
<1> QED
  BY <1>1, <1>2, ToggleStart, ToggleStep, HcdTypeCorrect, HcdTdsInOnePlace, PTL
  DEF ToggleSpec

-----------------------------------------------------------------------------
(***************************************************************************)
(* The driver implements HcdService.  The done list is last in first out;  *)
(* that bulk transfers are completed in order all the same rests on        *)
(* OrderInv: after the one bulk attempt of a round comes at once the one    *)
(* completion.                                                             *)
(***************************************************************************)
OrderInv ==
    /\ \A i \in DOMAIN done : td[done[i]].ep \in BlkEps => i = 1 /\ hstate = -2
    /\ \A c \in Clients : awaited[c] # NoTd => td[awaited[c]].ep \in CtlEps
    /\ \A c, d \in Clients : awaited[c] = awaited[d] /\ awaited[c] # NoTd => c = d

LEMMA OrderInit == Init => OrderInv
BY DEF Init, OrderInv

\* Two list-level facts about linking, shared by the two kinds of link.
LEMMA LinkFacts ==
    ASSUME TypeOK, TdsInOnePlace, OrderInv, NEW e \in Epds, NEW t \in Tds, NEW r,
           LinkTd(e, t, r)
    PROVE  /\ \A i \in DOMAIN done : td'[done[i]] = td[done[i]]
           /\ \A c \in Clients : awaited[c] # t
           /\ \A c \in Clients : awaited[c] # NoTd => td'[awaited[c]] = td[awaited[c]]
<1>1. td[t].ep = NoEp /\ \A u \in Tds : u # t => td'[u] = td[u]
  BY LinkTdQueue
<1>2. \A i \in DOMAIN done : done[i] # t /\ done[i] \in Tds
  BY <1>1, FreeIsNowhere, InRange
<1>3. \A c \in Clients : awaited[c] # t
  BY <1>1, EpdAssumption, TdAssumption DEF OrderInv, Epds
<1> QED
  BY <1>1, <1>2, <1>3 DEF TypeOK

\* The hstate in which an endpoint is picked tells which kind it is.
LEMMA PickedKind ==
    ASSUME TypeOK, NEW e \in Epds, Picked(e)
    PROVE  /\ hstate # -2
           /\ e \in BlkEps <=> hstate = -1
<1>1. PICK i \in DOMAIN ListNow : ListNow[i] = e
  BY DEF Picked
<1>2. CASE hstate = -1
  <2>1. ListNow = blkList /\ blkList \in Seq(BlkEps)
    BY <1>2 DEF ListNow, TypeOK
  <2> QED
    BY <1>1, <1>2, <2>1, ElementOfSeq, LenProperties
<1>3. CASE hstate # -1
  <2>1. ListNow = ctlList /\ ctlList \in Seq(CtlEps)
    BY <1>3 DEF ListNow, TypeOK
  <2>2. e \in CtlEps
    BY <1>1, <2>1, ElementOfSeq, LenProperties
  <2> QED
    BY <1>3, <2>2, EpdAssumption DEF Picked
<1> QED
  BY <1>2, <1>3 DEF Picked

LEMMA OrderStep == TypeOK /\ TdsInOnePlace /\ OrderInv /\ [Next]_vars => OrderInv'
<1> SUFFICES ASSUME TypeOK, TdsInOnePlace, OrderInv, [Next]_vars PROVE OrderInv'
  OBVIOUS
<1>1. ASSUME NEW t \in Tds, NEW c \in Clients, NEW e \in CtlEps, NEW x \in CtlStages,
             LinkControl(c, e, t, x)
      PROVE  OrderInv'
  <2> DEFINE r == NewTd(e, IF x.pid = "SETUP" THEN 0 ELSE 1, x)
  <2>1. LinkTd(e, t, r) /\ done' = done /\ hstate' = hstate /\ e \in Epds
    BY <1>1 DEF LinkControl, Epds, hcdVars
  <2>2. r.ep = e
    BY DEF NewTd
  <2> HIDE DEF r
  <2>3. /\ \A i \in DOMAIN done : td'[done[i]] = td[done[i]]
        /\ \A d \in Clients : awaited[d] # t
        /\ \A d \in Clients : awaited[d] # NoTd => td'[awaited[d]] = td[awaited[d]]
    BY <2>1, LinkFacts
  <2>4. td'[t].ep \in CtlEps
    BY <2>1, <2>2, LinkTdQueue
  <2>5. awaited'[c] = t /\ \A d \in Clients : d # c => awaited'[d] = awaited[d]
    BY <1>1 DEF LinkControl, TypeOK
  <2> QED
    BY <2>1, <2>3, <2>4, <2>5 DEF OrderInv
<1>2. ASSUME NEW t \in Tds, NEW e \in BlkEps, NEW x \in BlkTransfers, LinkBulk(e, t, x)
      PROVE  OrderInv'
  <2>1. LinkTd(e, t, NewTd(e, 2, x)) /\ done' = done /\ hstate' = hstate /\ e \in Epds
        /\ awaited' = awaited
    BY <1>2 DEF LinkBulk, Epds, hcdVars, clientVars
  <2>2. /\ \A i \in DOMAIN done : td'[done[i]] = td[done[i]]
        /\ \A d \in Clients : awaited[d] # NoTd => td'[awaited[d]] = td[awaited[d]]
    BY <2>1, LinkFacts
  <2> QED
    BY <2>1, <2>2 DEF OrderInv
<1>3. CASE Wait \/ UNCHANGED vars
  BY <1>3 DEF Wait, vars, OrderInv, clientVars
<1>4. CASE SendNone
  <2>1. /\ \A i \in DOMAIN done : td[done[i]].ep \notin BlkEps
        /\ UNCHANGED <<td, done, awaited>>
    BY <1>4 DEF SendNone, OrderInv, clientVars
  <2> QED
    BY <2>1 DEF OrderInv
<1>5. CASE ProcessDone
  <2>1. CASE done = <<>>
    <3>1. DOMAIN done = {}
      BY <2>1
    <3> QED
      BY <1>5, <2>1, <3>1 DEF ProcessDone, OrderInv
  <2>2. CASE done # <<>>
    <3> DEFINE h == done[1]
    <3>1. /\ Head(done) = h /\ 1 \in DOMAIN done /\ h \in Tds
          /\ DOMAIN done' \subseteq Nat \ {0}
          /\ \A i \in DOMAIN done' : i + 1 \in DOMAIN done /\ done'[i] = done[i + 1]
          /\ \A u \in Tds : u # h => td'[u] = td[u]
      BY <1>5, <2>2, DoneTail
    <3>2. \A i \in DOMAIN done' : done'[i] # h /\ done'[i] \in Tds
      BY <3>1, InRange DEF TdsInOnePlace
    <3>3. \A i \in DOMAIN done' : td'[done'[i]].ep \notin BlkEps
      <4> SUFFICES ASSUME NEW i \in DOMAIN done' PROVE td'[done'[i]].ep \notin BlkEps
        OBVIOUS
      <4>1. i + 1 \in DOMAIN done /\ i + 1 # 1 /\ done'[i] = done[i + 1]
        BY <3>1
      <4>2. td[done[i + 1]].ep \notin BlkEps
        BY <4>1 DEF OrderInv
      <4> QED
        BY <3>1, <3>2, <4>1, <4>2
    <3>4. \A c \in Clients : awaited'[c] = IF awaited[c] = h THEN NoTd ELSE awaited[c]
      BY <1>5, <2>2, <3>1 DEF ProcessDone
    <3> HIDE DEF h
    <3>5. \A c \in Clients : awaited'[c] # NoTd =>
              awaited'[c] = awaited[c] /\ td'[awaited[c]] = td[awaited[c]]
      BY <3>1, <3>4 DEF TypeOK
    <3> QED
      BY <3>3, <3>5 DEF OrderInv
  <2> QED
    BY <2>1, <2>2
<1>6. ASSUME NEW e \in Epds, Send(e) PROVE OrderInv'
  <2>1. SendShape(e) /\ queue[e] # <<>>
    BY <1>6, SendHasShape DEF SendShape, Picked, Eligible
  <2>2. /\ hstate # -2 /\ (e \in BlkEps <=> hstate = -1)
        /\ hstate = -1 => hstate' = -2
        /\ awaited' = awaited
    BY <2>1, PickedKind DEF SendShape, EndTurn, clientVars
  <2>3. \A u \in Tds : td'[u].ep = td[u].ep
    <3>1. PICK r \in TdRecord : /\ td' = [td EXCEPT ![Head(queue[e])] = r]
                                /\ r.ep = td[Head(queue[e])].ep
      BY <2>1 DEF SendShape
    <3> QED
      BY <3>1 DEF TypeOK
  <2>4. \A i \in DOMAIN done : td[done[i]].ep \notin BlkEps
    BY <2>2 DEF OrderInv
  <2>5. \A i \in DOMAIN done' : td'[done'[i]].ep \in BlkEps => i = 1 /\ hstate' = -2
    <3>1. CASE Retire(e)
      <4>1. /\ done'[1] = queue[e][1] /\ 1 \in DOMAIN queue[e]
            /\ \A i \in DOMAIN done' :
                  i = 1 \/ (i - 1 \in DOMAIN done /\ done'[i] = done[i - 1])
        BY <2>1, <3>1, RetireLists, PickedHead
      <4>2. td[queue[e][1]].ep = e /\ queue[e][1] \in Tds
        BY <4>1, InRange DEF TdsInOnePlace
      <4> QED
        BY <2>2, <2>3, <2>4, <4>1, <4>2, InRange
    <3>2. CASE UNCHANGED <<queue, done, notify>>
      BY <2>3, <2>4, <3>2, InRange
    <3> QED
      BY <2>1, <3>1, <3>2 DEF SendShape
  <2>6. \A c \in Clients : awaited[c] # NoTd => td'[awaited[c]].ep \in CtlEps
    BY <2>3 DEF OrderInv, TypeOK
  <2> QED
    BY <2>2, <2>5, <2>6 DEF OrderInv
<1> QED
  BY <1>1, <1>2, <1>3, <1>4, <1>5, <1>6 DEF Next, Link, HcdStep

-----------------------------------------------------------------------------
(***************************************************************************)
(* The refinement.  Out is the abstract queue of linked and not completed  *)
(* transfers of each bulk endpoint.                                        *)
(***************************************************************************)
Out == [e \in BlkEps |-> DoneOf(e) \o queue[e]]

LEMMA ConsOfTail ==
    ASSUME NEW S, NEW q \in Seq(S), q # <<>>
    PROVE  <<q[1]>> \o Tail(q) = q
<1>1. /\ Head(q) \in S /\ Tail(q) \in Seq(S) /\ Len(Tail(q)) = Len(q) - 1
      /\ \A i \in 1 .. Len(Tail(q)) : Tail(q)[i] = q[i + 1]
      /\ Head(q) = q[1]
  BY HeadTailProperties
<1>2. <<q[1]>> \in Seq(S) /\ Len(<<q[1]>>) = 1 /\ <<q[1]>>[1] = q[1]
  BY <1>1
<1>3. /\ <<q[1]>> \o Tail(q) \in Seq(S)
      /\ Len(<<q[1]>> \o Tail(q)) = 1 + Len(Tail(q))
      /\ \A i \in 1 .. 1 + Len(Tail(q)) :
            (<<q[1]>> \o Tail(q))[i] = IF i <= 1 THEN <<q[1]>>[i] ELSE Tail(q)[i - 1]
  BY <1>1, <1>2, ConcatProperties
<1>4. Len(q) \in Nat \ {0}
  BY EmptySeq
<1>5. \A i \in 1 .. Len(q) : (<<q[1]>> \o Tail(q))[i] = q[i]
  BY <1>1, <1>2, <1>3, <1>4
<1> QED
  BY <1>1, <1>3, <1>4, <1>5, SeqEqual

LEMMA TailOfCons ==
    ASSUME NEW S, NEW h \in S, NEW q \in Seq(S)
    PROVE  <<h>> \o q # <<>> /\ Tail(<<h>> \o q) = q
<1>1. <<h>> \in Seq(S) /\ Len(<<h>>) = 1
  OBVIOUS
<1>2. /\ <<h>> \o q \in Seq(S)
      /\ Len(<<h>> \o q) = 1 + Len(q)
      /\ \A i \in 1 .. 1 + Len(q) : (<<h>> \o q)[i] = IF i <= 1 THEN <<h>>[i] ELSE q[i - 1]
  BY <1>1, ConcatProperties
<1>3. Len(q) \in Nat
  BY LenProperties
<1>4. <<h>> \o q # <<>>
  BY <1>2, <1>3
<1>5. /\ Tail(<<h>> \o q) \in Seq(S)
      /\ Len(Tail(<<h>> \o q)) = Len(q)
      /\ \A i \in 1 .. Len(q) : Tail(<<h>> \o q)[i] = (<<h>> \o q)[i + 1]
  BY <1>2, <1>3, <1>4, HeadTailProperties
<1>6. \A i \in 1 .. Len(q) : Tail(<<h>> \o q)[i] = q[i]
  BY <1>2, <1>3, <1>5
<1> QED
  BY <1>4, <1>5, <1>6, SeqEqual

LEMMA ConcatOfAppend ==
    ASSUME NEW S, NEW p \in Seq(S), NEW q \in Seq(S), NEW t \in S
    PROVE  p \o Append(q, t) = Append(p \o q, t)
<1>1. <<t>> \in Seq(S) /\ p \o q \in Seq(S)
  BY ConcatProperties
<1>2. Append(q, t) = q \o <<t>> /\ Append(p \o q, t) = (p \o q) \o <<t>>
  BY <1>1, AppendIsConcat
<1> QED
  BY <1>1, <1>2, ConcatAssociative

LEMMA ConcatOfOne ==
    ASSUME NEW S, NEW p \in Seq(S), NEW q \in Seq(S), Len(p) = 1
    PROVE  /\ DOMAIN (p \o q) = 1 .. 1 + Len(q)
           /\ \A i \in 1 .. 1 + Len(q) : (p \o q)[i] = IF i <= 1 THEN p[i] ELSE q[i - 1]
<1>1. /\ p \o q \in Seq(S)
      /\ Len(p \o q) = Len(p) + Len(q)
      /\ \A i \in 1 .. Len(p) + Len(q) :
            (p \o q)[i] = IF i <= Len(p) THEN p[i] ELSE q[i - Len(p)]
  BY ConcatProperties
<1>2. DOMAIN (p \o q) = 1 .. Len(p) + Len(q)
  BY <1>1, LenProperties
<1> QED
  BY <1>1, <1>2

\* A transfer is on at most one side of a bulk endpoint's DoneOf and queue.
LEMMA DoneOfShape ==
    ASSUME TypeOK, NEW e \in BlkEps
    PROVE  /\ DoneOf(e) \in Seq(Tds) /\ queue[e] \in Seq(Tds)
           /\ DoneOf(e) = <<>> => Out[e] = queue[e]
           /\ \A t \in Range(Out[e]) :
                 \/ \E i \in DOMAIN queue[e] : t = queue[e][i]
                 \/ \E i \in DOMAIN done : t = done[i]
<1>1. queue[e] \in Seq(Tds) /\ e \in Epds /\ Out[e] = DoneOf(e) \o queue[e]
  BY DEF TypeOK, Epds, Out
<1>2. CASE DoneOf(e) = <<>>
  <2>1. Out[e] = queue[e]
    BY <1>1, <1>2, ConcatEmptySeq
  <2> QED
    BY <1>1, <1>2, <2>1, EmptySeq DEF Range
<1>3. CASE DoneOf(e) # <<>>
  <2>1. DoneOf(e) = <<Head(done)>> /\ done # <<>>
    BY <1>3 DEF DoneOf
  <2>2. Head(done) \in Tds /\ Head(done) = done[1] /\ 1 \in DOMAIN done
    <3>1. done \in Seq(Tds) /\ Len(done) \in Nat \ {0}
      BY <2>1, EmptySeq DEF TypeOK
    <3> QED
      BY <2>1, <3>1, HeadTailProperties, DoneDomain
  <2>3. DoneOf(e) \in Seq(Tds) /\ Len(DoneOf(e)) = 1 /\ DoneOf(e)[1] = done[1]
    BY <2>1, <2>2
  <2>4. /\ DOMAIN Out[e] = 1 .. 1 + Len(queue[e])
        /\ \A i \in 1 .. 1 + Len(queue[e]) :
              Out[e][i] = IF i <= 1 THEN DoneOf(e)[i] ELSE queue[e][i - 1]
    BY <1>1, <2>3, ConcatOfOne
  <2>5. DOMAIN queue[e] = 1 .. Len(queue[e]) /\ Len(queue[e]) \in Nat
    BY <1>1, QueueDomain
  <2>6. \A t \in Range(Out[e]) :
                 \/ \E i \in DOMAIN queue[e] : t = queue[e][i]
                 \/ \E i \in DOMAIN done : t = done[i]
    <3> SUFFICES ASSUME NEW i \in DOMAIN Out[e]
                 PROVE  \/ \E j \in DOMAIN queue[e] : Out[e][i] = queue[e][j]
                        \/ \E j \in DOMAIN done : Out[e][i] = done[j]
      BY DEF Range
    <3>1. CASE i = 1
      BY <2>2, <2>3, <2>4, <3>1
    <3>2. CASE i # 1
      <4>1. i - 1 \in DOMAIN queue[e] /\ Out[e][i] = queue[e][i - 1]
        BY <2>4, <2>5, <3>2
      <4> QED
        BY <4>1
    <3> QED
      BY <3>1, <3>2
  <2> QED
    BY <1>1, <1>3, <2>3, <2>6
<1> QED
  BY <1>2, <1>3

LEMMA FreeIsUnused ==
    ASSUME TypeOK, TdsInOnePlace, OrderInv, NEW t \in Tds, td[t].ep = NoEp
    PROVE  /\ \A e \in BlkEps : t \notin Range(Out[e])
           /\ \A c \in Clients : awaited[c] # t
<1>1. \A e \in BlkEps : t \notin Range(Out[e])
  <2> SUFFICES ASSUME NEW e \in BlkEps, t \in Range(Out[e]) PROVE FALSE
    OBVIOUS
  <2>1. \/ \E i \in DOMAIN queue[e] : t = queue[e][i]
        \/ \E i \in DOMAIN done : t = done[i]
    BY DoneOfShape
  <2>2. e \in Epds
    BY DEF Epds
  <2> QED
    BY <2>1, <2>2, FreeIsNowhere
<1>2. \A c \in Clients : awaited[c] # t
  BY EpdAssumption, TdAssumption DEF OrderInv, Epds
<1> QED
  BY <1>1, <1>2

LEMMA ServiceInit == Init => Service!Init
<1> SUFFICES ASSUME Init PROVE Service!Init
  OBVIOUS
<1>1. \A e \in BlkEps : DoneOf(e) \o queue[e] = <<>>
  BY ConcatEmptySeq, EmptySeq DEF Init, DoneOf, Epds
<1> QED
  BY <1>1 DEF Init, Service!Init

ServiceInv == TypeOK /\ TdsInOnePlace /\ OrderInv

LEMMA SubmitControlStep ==
    ASSUME ServiceInv, NEW t \in Tds, NEW c \in Clients, NEW e \in CtlEps,
           NEW x \in CtlStages, LinkControl(c, e, t, x)
    PROVE  Service!SubmitControl(c, t)
<1> USE DEF ServiceInv
<1> DEFINE r == NewTd(e, IF x.pid = "SETUP" THEN 0 ELSE 1, x)
<1>1. LinkTd(e, t, r) /\ done' = done /\ e \in Epds /\ e \notin BlkEps
  BY EpdAssumption DEF LinkControl, Epds
<1> HIDE DEF r
<1>2. /\ \A i \in DOMAIN done : td'[done[i]] = td[done[i]]
      /\ td[t].ep = NoEp
      /\ \A b \in Epds : b # e => queue'[b] = queue[b]
  BY <1>1, LinkFacts, LinkTdQueue
<1>3. \A b \in BlkEps : DoneOf(b)' = DoneOf(b)
  <2>1. done # <<>> => Head(done) = done[1] /\ 1 \in DOMAIN done
    BY EmptySeq, DoneDomain DEF TypeOK
  <2> QED
    BY <1>1, <1>2, <2>1 DEF DoneOf
<1>4. Out' = Out
  BY <1>1, <1>2, <1>3 DEF Out, Epds
<1>5. (\A b \in BlkEps : t \notin Range(Out[b])) /\ (\A d \in Clients : awaited[d] # t)
  BY <1>2, FreeIsUnused
<1>6. ~Service!InUse(t)
  BY <1>5 DEF Out, Range, Service!InUse, Service!Range
<1> QED
  BY <1>4, <1>6 DEF LinkControl, Out, Service!SubmitControl

LEMMA SubmitBulkStep ==
    ASSUME ServiceInv, NEW t \in Tds, NEW e \in BlkEps, NEW x \in BlkTransfers,
           LinkBulk(e, t, x)
    PROVE  Service!SubmitBulk(e, t)
<1> USE DEF ServiceInv
<1> DEFINE r == NewTd(e, 2, x)
<1>1. LinkTd(e, t, r) /\ done' = done /\ e \in Epds
  BY DEF LinkBulk, Epds
<1> HIDE DEF r
<1>2. /\ \A i \in DOMAIN done : td'[done[i]] = td[done[i]]
      /\ td[t].ep = NoEp
      /\ queue'[e] = Append(queue[e], t)
      /\ \A b \in Epds : b # e => queue'[b] = queue[b]
  BY <1>1, LinkFacts, LinkTdQueue
<1>3. \A b \in BlkEps : DoneOf(b)' = DoneOf(b)
  <2>1. done # <<>> => Head(done) = done[1] /\ 1 \in DOMAIN done
    BY EmptySeq, DoneDomain DEF TypeOK
  <2> QED
    BY <1>1, <1>2, <2>1 DEF DoneOf
<1>4. DoneOf(e) \o Append(queue[e], t) = Append(DoneOf(e) \o queue[e], t)
  BY DoneOfShape, ConcatOfAppend
<1>5. Out' = [Out EXCEPT ![e] = Append(@, t)]
  BY <1>1, <1>2, <1>3, <1>4 DEF Out, Epds
<1>6. (\A b \in BlkEps : t \notin Range(Out[b])) /\ (\A d \in Clients : awaited[d] # t)
  BY <1>2, FreeIsUnused
<1>7. ~Service!InUse(t)
  BY <1>6 DEF Out, Range, Service!InUse, Service!Range
<1> QED
  BY <1>5, <1>7 DEF LinkBulk, clientVars, Out, Service!SubmitBulk

\* An attempt is invisible: at most it moves a transfer from the head of a
\* queue to the top of the done list.
LEMMA SendIsInvisible ==
    ASSUME ServiceInv, NEW e \in Epds, Send(e)
    PROVE  Out' = Out /\ awaited' = awaited
<1> USE DEF ServiceInv
<1>1. SendShape(e) /\ queue[e] # <<>>
  BY SendHasShape DEF SendShape, Picked, Eligible
<1>2. hstate # -2 /\ awaited' = awaited
  BY <1>1, PickedKind DEF SendShape, clientVars
<1>3. \A u \in Tds : td'[u].ep = td[u].ep
  <2>1. PICK r \in TdRecord : /\ td' = [td EXCEPT ![Head(queue[e])] = r]
                              /\ r.ep = td[Head(queue[e])].ep
    BY <1>1 DEF SendShape
  <2> QED
    BY <2>1 DEF TypeOK
<1>4. done # <<>> => Head(done) = done[1] /\ 1 \in DOMAIN done /\ done[1] \in Tds
  BY EmptySeq, DoneDomain, InRange DEF TypeOK
<1>5. CASE UNCHANGED <<queue, done, notify>>
  <2>1. \A b \in BlkEps : DoneOf(b)' = DoneOf(b)
    BY <1>3, <1>4, <1>5 DEF DoneOf
  <2> QED
    BY <1>2, <1>5, <2>1 DEF Out
<1>6. CASE Retire(e)
  <2>1. \A b \in BlkEps : DoneOf(b) = <<>>
    BY <1>2, <1>4 DEF OrderInv, DoneOf
  <2>2. /\ done' # <<>> /\ Head(done') = queue[e][1]
        /\ 1 \in DOMAIN queue[e] /\ queue[e][1] \in Tds
        /\ queue'[e] = Tail(queue[e])
        /\ \A b \in Epds : b # e => queue'[b] = queue[b]
    BY <1>1, <1>6, RetireLists, PickedHead
  <2>3. td'[Head(done')].ep = e
    BY <1>3, <2>2 DEF TdsInOnePlace
  <2>4. \A b \in BlkEps : DoneOf(b)' = IF b = e THEN <<queue[e][1]>> ELSE <<>>
    BY <2>2, <2>3 DEF DoneOf
  <2>5. <<queue[e][1]>> \o Tail(queue[e]) = queue[e]
    BY <1>1, ConsOfTail DEF TypeOK
  <2>6. \A b \in BlkEps : (DoneOf(b) \o queue[b])' = DoneOf(b) \o queue[b]
    <3> SUFFICES ASSUME NEW b \in BlkEps
                 PROVE  DoneOf(b)' \o queue'[b] = DoneOf(b) \o queue[b]
      OBVIOUS
    <3>1. b \in Epds /\ queue[b] \in Seq(Tds)
      BY DEF TypeOK, Epds
    <3>2. DoneOf(b) \o queue[b] = queue[b]
      BY <2>1, <3>1, ConcatEmptySeq
    <3>3. CASE b = e
      BY <2>2, <2>4, <2>5, <3>2, <3>3
    <3>4. CASE b # e
      <4>1. <<>> \o queue[b] = queue[b]
        BY <3>1, ConcatEmptySeq
      <4> QED
        BY <2>2, <2>4, <3>1, <3>2, <3>4, <4>1
    <3> QED
      BY <3>3, <3>4
  <2> QED
    BY <1>2, <2>6 DEF Out
<1> QED
  BY <1>1, <1>5, <1>6 DEF SendShape

\* hcd_process_done_list completes the oldest transfer of a bulk endpoint, or
\* the stage one client waits for, or a stage nobody waits for any more.
LEMMA CompletionStep ==
    ASSUME ServiceInv, ProcessDone
    PROVE  \/ \E e \in BlkEps : Service!CompleteBulk(e)
           \/ \E c \in Clients : Service!CompleteControl(c)
           \/ Out' = Out /\ awaited' = awaited
<1> USE DEF ServiceInv
<1>1. CASE done = <<>>
  BY <1>1 DEF ProcessDone, Out, DoneOf
<1>2. CASE done # <<>>
  <2> DEFINE h == done[1]
  <2>1. /\ Head(done) = h /\ 1 \in DOMAIN done /\ h \in Tds
        /\ DOMAIN done' \subseteq Nat \ {0}
        /\ \A i \in DOMAIN done' : i + 1 \in DOMAIN done /\ done'[i] = done[i + 1]
        /\ \A u \in Tds : u # h => td'[u] = td[u]
        /\ queue' = queue
    BY <1>2, DoneTail
  <2>2. awaited' = [c \in Clients |-> IF awaited[c] = h THEN NoTd ELSE awaited[c]]
    BY <1>2, <2>1 DEF ProcessDone
  <2>3. \A b \in BlkEps : DoneOf(b) = IF td[h].ep = b THEN <<h>> ELSE <<>>
    BY <1>2, <2>1 DEF DoneOf
  <2>4. \A b \in BlkEps : DoneOf(b)' = <<>>
    <3> SUFFICES ASSUME done' # <<>>
                 PROVE  \A b \in BlkEps : td'[Head(done')].ep # b
      BY DEF DoneOf
    <3>1. done' \in Seq(Tds)
      <4>1. done \in Seq(Tds) /\ done' = Tail(done)
        BY <1>2, DoneTail DEF TypeOK
      <4> QED
        BY <1>2, <4>1, HeadTailProperties
    <3>2. 1 \in DOMAIN done' /\ Head(done') = done'[1]
      BY <3>1, EmptySeq, LenProperties
    <3>3. 2 \in DOMAIN done /\ done'[1] = done[2]
      BY <2>1, <3>2
    <3>4. done[2] # h /\ done[2] \in Tds
      BY <2>1, <3>3, InRange DEF TdsInOnePlace
    <3>5. td[done[2]].ep \notin BlkEps
      BY <3>3 DEF OrderInv
    <3> QED
      BY <2>1, <3>2, <3>3, <3>4, <3>5
  <2>5. \A b \in BlkEps : queue[b] \in Seq(Tds) /\ <<>> \o queue[b] = queue[b]
    BY ConcatEmptySeq DEF TypeOK, Epds
  <2> HIDE DEF h
  <2>6. ASSUME NEW e \in BlkEps, td[h].ep = e
        PROVE  Service!CompleteBulk(e)
    <3>1. Out[e] # <<>> /\ Tail(Out[e]) = queue[e]
      <4>1. queue[e] \in Seq(Tds) /\ Out[e] = <<h>> \o queue[e]
        BY <2>3, <2>5, <2>6 DEF Out
      <4> QED
        BY <2>1, <4>1, TailOfCons
    <3>2. \A b \in BlkEps : (DoneOf(b) \o queue[b])' = IF b = e THEN Tail(Out[e]) ELSE Out[b]
      <4> SUFFICES ASSUME NEW b \in BlkEps
                   PROVE  DoneOf(b)' \o queue'[b] = IF b = e THEN Tail(Out[e]) ELSE Out[b]
        OBVIOUS
      <4>1. DoneOf(b)' \o queue'[b] = queue[b]
        BY ONLY <2>1, <2>4, <2>5
      <4>2. b # e => Out[b] = queue[b]
        BY ONLY <2>3, <2>5, <2>6 DEF Out
      <4> QED
        BY ONLY <3>1, <4>1, <4>2
    <3>3. Out' = [Out EXCEPT ![e] = Tail(@)]
      BY <3>2 DEF Out
    <3>4. awaited' = awaited
      <4>1. \A c \in Clients : awaited[c] # h
        BY <2>1, <2>6, EpdAssumption, TdAssumption DEF OrderInv
      <4> QED
        BY <2>2, <4>1 DEF TypeOK
    <3> QED
      BY <3>1, <3>3, <3>4 DEF Out, Service!CompleteBulk
  <2>7. CASE td[h].ep \notin BlkEps
    <3>1. \A b \in BlkEps : (DoneOf(b) \o queue[b])' = DoneOf(b) \o queue[b]
      BY <2>1, <2>3, <2>4, <2>7
    <3>2. Out' = Out
      BY <3>1 DEF Out
    <3>3. CASE \E c \in Clients : awaited[c] = h
      <4>1. PICK c \in Clients : awaited[c] = h
        BY <3>3
      <4>2. h # NoTd
        BY <2>1, TdAssumption
      <4>3. \A d \in Clients : d # c => awaited[d] # h
        BY <4>1, <4>2 DEF OrderInv
      <4>4. awaited' = [awaited EXCEPT ![c] = NoTd]
        BY <2>2, <4>1, <4>3 DEF TypeOK
      <4>5. Service!CompleteControl(c)
        BY <3>2, <4>1, <4>2, <4>4 DEF Out, Service!CompleteControl
      <4> QED
        BY <4>5
    <3>4. CASE \A c \in Clients : awaited[c] # h
      <4>1. awaited' = awaited
        BY <2>2, <3>4 DEF TypeOK
      <4> QED
        BY <3>2, <4>1
    <3> QED
      BY <3>3, <3>4
  <2> QED
    BY <2>6, <2>7
<1> QED
  BY <1>1, <1>2

LEMMA ServiceStep == ServiceInv /\ [Next]_vars => [Service!Next]_(Service!vars)
<1> SUFFICES ASSUME ServiceInv, [Next]_vars PROVE [Service!Next]_(Service!vars)
  OBVIOUS
<1>0. Out' = Out /\ awaited' = awaited => UNCHANGED Service!vars
  BY DEF Out, Service!vars
<1>1. ASSUME NEW t \in Tds, NEW c \in Clients, NEW e \in CtlEps, NEW x \in CtlStages,
             LinkControl(c, e, t, x)
      PROVE  Service!Next
  BY <1>1, SubmitControlStep DEF Service!Next
<1>2. ASSUME NEW t \in Tds, NEW e \in BlkEps, NEW x \in BlkTransfers, LinkBulk(e, t, x)
      PROVE  Service!Next
  BY <1>2, SubmitBulkStep DEF Service!Next
<1>3. CASE Wait \/ SendNone \/ UNCHANGED vars
  <2>1. Out' = Out /\ awaited' = awaited
    BY <1>3 DEF Wait, SendNone, vars, clientVars, Out, DoneOf
  <2> QED
    BY <1>0, <2>1
<1>4. CASE ProcessDone
  BY <1>0, <1>4, CompletionStep DEF Service!Next
<1>5. ASSUME NEW e \in Epds, Send(e) PROVE UNCHANGED Service!vars
  BY <1>0, <1>5, SendIsInvisible
<1> QED
  BY <1>1, <1>2, <1>3, <1>4, <1>5 DEF Next, Link, HcdStep

\* Every behaviour of the driver is one of HcdService: bulk transfers of an
\* endpoint complete in link order, a client is told of its own stage only.
THEOREM HcdImplementsService == Spec => ServiceSpec
<1>1. Init => OrderInv /\ TdsInOnePlace /\ Service!Init
  BY OrderInit, PlacesInit, ServiceInit
<1>2. TypeOK /\ TdsInOnePlace /\ OrderInv /\ [Next]_vars => OrderInv'
  BY OrderStep
<1>3. TypeOK /\ TdsInOnePlace /\ OrderInv /\ [Next]_vars => [Service!Next]_(Service!vars)
  BY ServiceStep DEF ServiceInv
<1> QED
  BY <1>1, <1>2, <1>3, HcdTypeCorrect, HcdTdsInOnePlace, PTL
  DEF Spec, ServiceSpec, Service!Spec
=============================================================================
