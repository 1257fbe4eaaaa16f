---------------------------- MODULE ControlPipe ----------------------------
(***************************************************************************)
(* Endpoint 0, end to end: control transfers of host threads (sys.c), the  *)
(* packets of the host controller (hcd.c), the registers of the simulated  *)
(* device (usb_lib_usbip.c) and the firmware's main loop (main.c).         *)
(*                                                                         *)
(* Device and firmware share the buffer descriptors without a lock, so a   *)
(* packet may fall between any two writes of the firmware: it is given a   *)
(* program counter of its own.  A packet is one action (__usb_transfer     *)
(* runs to its end in the HCD thread, and the firmware reads a descriptor  *)
(* only after the event the packet queues last).  HcdSched shows what the  *)
(* driver adds: here its control queue is the sequence line.  The event    *)
(* ring is a sequence: EpQueue shows it is one below 16 events.            *)
(*                                                                         *)
(* After a bus reset the host sleeps 15 ms, taken here to be enough for    *)
(* the firmware to catch up.  Nothing else in the code makes the host wait *)
(* for it.  A scenario says what the threads run and whether their speeds  *)
(* are assumed to fit (timely): then the firmware has nothing left to do   *)
(* when a SETUP packet is sent, and it has handled all events before a     *)
(* packet is refused for the third time.                                   *)
(***************************************************************************)
EXTENDS Naturals, Sequences, SequencesExt

CONSTANTS Clients,   \* host threads that run control transfers
          Scenarios  \* what they run, one transfer after the other, and timely

Kinds == {"RESET", "GET", "ADDR", "CONF", "OTHER"}

\* A transfer: its request, the device address it is sent to, and how much
\* data it asks for (wLength, never more than the descriptor has; the requests
\* that set something ask for none).
Transfers == {t \in [kind : Kinds, addr : 0 .. 1, len : {0, 9, 18, 32}] :
                  t.len > 0 => t.kind \in {"GET", "OTHER"}}

ASSUME ScenarioAssumption ==
    Scenarios \subseteq [script : [Clients -> Seq(Transfers)], timely : BOOLEAN]

ArmSize == 64     \* EP0_OUT_BUF_SIZE
SetupSize == 8

\* The maximum packet size of an EPD is that of the first transfer on it.
Mps(addr) == IF addr = 0 THEN 8 ELSE 64
Least(a, b) == IF a < b THEN a ELSE b

VARIABLES
    script, timely,           \* the scenario: it never changes
    at, stage, linked,        \* client: transfer, stage, waiting for it
    err, left,                \* client: errorCount and bytes left of its TD
    line,                     \* the control queue: clients, head first
    reset, pktdis, uaddr,     \* RESET, PKTDIS, U1ADDR
    out, in,                  \* the two descriptors of endpoint 0
    obuf,                     \* the request in ep0_buf_out
    events,                   \* the event ring
    fpc, ev, cts, naddr, plan,\* firmware: program counter, event, state,
                              \* addr, and the descriptor it is about to arm
    got, ran, failed,         \* ghosts, of each client's current transfer:
                              \* the request its data answers, how often the
                              \* firmware ran it (2: more than once), and
                              \* whether a stage was given up
    overlap                   \* ghost: a SETUP was sent to a firmware that had
                              \* something left to do, or in the midst of
                              \* another client's transfer

scenario == <<script, timely>>
hostVars == <<scenario, at, stage, linked, err, left, line, got, failed, overlap>>
regVars == <<reset, pktdis, uaddr, out, in, obuf>>
fwVars == <<fpc, ev, cts, naddr, plan, ran>>
vars == <<hostVars, regVars, events, fwVars>>

Stages == {"SETUP", "DATA", "STATUS"}
None == [client |-> "none", at |-> 0]
Request(c) == [client |-> c, at |-> at[c]]
Running(c) == at[c] <= Len(script[c])
Now(c) == script[c][at[c]]
Transfer(r) == script[r.client][r.at]
Requests == [client : Clients, at : Nat] \cup {None}

HostTypes ==
    /\ at \in [Clients -> Nat] /\ \A c \in Clients : at[c] \in 1 .. Len(script[c]) + 1
    /\ stage \in [Clients -> Stages]
    /\ linked \in [Clients -> BOOLEAN]
    /\ line \in Seq(Clients) /\ Range(line) = {c \in Clients : linked[c]} /\ IsInjective(line)

TransferTypes ==
    /\ err \in [Clients -> 0 .. 2]
    /\ left \in [Clients -> 0 .. ArmSize]
    /\ got \in [Clients -> Requests]
    /\ ran \in [Clients -> 0 .. 2]
    /\ failed \in [Clients -> BOOLEAN]
    /\ overlap \in BOOLEAN

DeviceTypes ==
    /\ reset \in BOOLEAN /\ pktdis \in BOOLEAN /\ uaddr \in 0 .. 1
    /\ out \in [own : BOOLEAN, cnt : 0 .. ArmSize, setup : BOOLEAN]
    /\ in \in [own : BOOLEAN, cnt : 0 .. ArmSize, of : Requests]
    /\ obuf \in Requests
    /\ events \in Seq({"OUT", "IN"})

FirmwareTypes ==
    /\ fpc \in {"loop", "poll", "regs", "bdt", "decide", "copy",
                "early", "cnt", "stat", "enable"}
    /\ ev \in {"OUT", "IN"} /\ naddr \in 0 .. 1
    /\ cts \in {"SETUP", "DATA", "ACKIN", "ACKAD", "ACKSC"}
    /\ plan \in [side : {"out", "in"}, cnt : 0 .. ArmSize, of : Requests, then : {"loop", "poll"}]

ControlTypes == HostTypes /\ TransferTypes /\ DeviceTypes /\ FirmwareTypes

\* The ring has 16 slots and no element count.
TypeOK == ControlTypes /\ Len(events) < 16

\* Mutant: endpoint 0 receives into half a SETUP packet.
ArmOutHalf(then) == [side |-> "out", cnt |-> 4, of |-> None, then |-> then]

\* What usb_ep_transf_start is about to write, and where the loop goes on.
ArmOut(then) == [side |-> "out", cnt |-> ArmSize, of |-> None, then |-> then]
ArmIn(size, r) == [side |-> "in", cnt |-> size, of |-> r, then |-> "loop"]

\* usb_init and usb_enable are over, the bus has not been reset yet.
Init == /\ \E s \in Scenarios : script = s.script /\ timely = s.timely
        /\ at = [c \in Clients |-> 1]
        /\ stage = [c \in Clients |-> "SETUP"]
        /\ linked = [c \in Clients |-> FALSE]
        /\ err = [c \in Clients |-> 0]
        /\ left = [c \in Clients |-> 0]
        /\ line = <<>>
        /\ reset = FALSE /\ pktdis = FALSE /\ uaddr = 0
        /\ out = [own |-> FALSE, cnt |-> 0, setup |-> FALSE]
        /\ in = [own |-> FALSE, cnt |-> 0, of |-> None]
        /\ obuf = None
        /\ events = <<>>
        /\ fpc = "loop" /\ ev = "OUT" /\ cts = "SETUP" /\ naddr = 0
        /\ plan = ArmOut("loop")
        /\ got = [c \in Clients |-> None]
        /\ ran = [c \in Clients |-> 0]
        /\ failed = [c \in Clients |-> FALSE]
        /\ overlap = FALSE

-----------------------------------------------------------------------------
(***************************************************************************)
(* The host threads.                                                       *)
(***************************************************************************)
\* The accept thread has nothing to submit before the device list is there:
\* sys is the client whose script enumerates the device.
Enumerator == CHOOSE c \in Clients : Len(script[c]) > 0 /\ script[c][1].kind = "RESET"
Published == at[Enumerator] > Len(SelectSeq(script[Enumerator],
                                            LAMBDA t : t.kind \in {"RESET", "GET", "ADDR"}))

FirmwareIdle == events = <<>> /\ ~reset /\ fpc \in {"loop", "poll"}

\* The usleep at the end of hcd_bus_reset.
AfterReset(c) == IF stage[c] = "SETUP" /\ at[c] > 1
                 THEN script[c][at[c] - 1].kind = "RESET" ELSE FALSE
Slept(c) == AfterReset(c) => FirmwareIdle

\* hcd_bus_reset: __usb_transfer refuses it like any other packet.
BusReset(c) ==
    /\ Running(c) /\ Now(c).kind = "RESET" /\ Slept(c)
    /\ reset' = (reset \/ (uaddr = 0 /\ ~pktdis))
    /\ at' = [at EXCEPT ![c] = @ + 1]
    /\ UNCHANGED <<scenario, stage, linked, err, left, line, got, failed, overlap, pktdis, uaddr,
                   out, in, obuf, events, fwVars>>

\* sys_urb_submit: the stages are linked one after the other, each with a
\* fresh TD, whatever became of the one before.
Submit(c) ==
    /\ Running(c) /\ Now(c).kind # "RESET" /\ ~linked[c] /\ Slept(c)
    /\ c = Enumerator \/ Published
    /\ linked' = [linked EXCEPT ![c] = TRUE]
    /\ line' = Append(line, c)
    /\ err' = [err EXCEPT ![c] = 0]
    /\ left' = [left EXCEPT ![c] = CASE stage[c] = "SETUP" -> SetupSize
                                     [] stage[c] = "DATA" -> Now(c).len
                                     [] stage[c] = "STATUS" -> 0]
    /\ IF stage[c] = "SETUP"
       THEN /\ got' = [got EXCEPT ![c] = None]
            /\ ran' = [ran EXCEPT ![c] = 0]
            /\ failed' = [failed EXCEPT ![c] = FALSE]
       ELSE UNCHANGED <<got, ran, failed>>
    /\ UNCHANGED <<scenario, at, stage, overlap, regVars, events, fpc, ev, cts, naddr, plan>>

\* Mutant: the TD of the stage is left in the queue.
StageDoneKeepsTd(c) ==
    /\ linked' = [linked EXCEPT ![c] = FALSE]
    /\ line' = line
    /\ stage' = [stage EXCEPT ![c] = CASE @ = "SETUP" /\ Now(c).len > 0 -> "DATA"
                                       [] @ = "STATUS" -> "SETUP"
                                       [] OTHER -> "STATUS"]
    /\ at' = IF stage[c] = "STATUS" THEN [at EXCEPT ![c] = @ + 1] ELSE at

\* urb_done of the stage's URB: on to the next stage, or the next transfer.
StageDone(c) ==
    /\ linked' = [linked EXCEPT ![c] = FALSE]
    /\ line' = Tail(line)
    /\ stage' = [stage EXCEPT ![c] = CASE @ = "SETUP" /\ Now(c).len > 0 -> "DATA"
                                       [] @ = "STATUS" -> "SETUP"
                                       [] OTHER -> "STATUS"]
    /\ at' = IF stage[c] = "STATUS" THEN [at EXCEPT ![c] = @ + 1] ELSE at

-----------------------------------------------------------------------------
(***************************************************************************)
(* Packets: hcd_gtd_send on the head of the queue, with __usb_transfer.    *)
(***************************************************************************)
Refused(c) == Now(c).addr # uaddr \/ pktdis

\* c's stage is at the head of the queue, and the speeds assumed allow it.
Turn(c) == /\ line # <<>> /\ Head(line) = c
           /\ timely /\ stage[c] = "SETUP" => FirmwareIdle
           /\ timely /\ Refused(c) /\ err[c] = 2 => FirmwareIdle

DirIn(c) == IF stage[c] = "DATA" THEN TRUE ELSE stage[c] = "STATUS" /\ Now(c).len = 0

\* __RET_ERR: retried twice, then the stage is over all the same.
Err(c) == IF err[c] = 2
          THEN /\ StageDone(c)
               /\ failed' = [failed EXCEPT ![c] = TRUE]
               /\ UNCHANGED err
          ELSE /\ err' = [err EXCEPT ![c] = @ + 1]
               /\ UNCHANGED <<at, stage, linked, line, failed>>

SendRefused(c) ==
    /\ Turn(c) /\ Refused(c)
    /\ Err(c)
    /\ UNCHANGED <<scenario, left, got, overlap, regVars, events, fwVars>>

\* SETUP switches packets off before it looks at the descriptor.
SendSetup(c) ==
    /\ Turn(c) /\ ~Refused(c) /\ stage[c] = "SETUP"
    /\ pktdis' = TRUE
    /\ overlap' = (overlap \/ ~FirmwareIdle \/ \E d \in Clients : d # c /\ stage[d] # "SETUP")
    /\ IF ~out.own
       THEN Err(c) /\ UNCHANGED <<left, out, obuf, events>>
       ELSE LET rlen == Least(out.cnt, left[c]) IN
            /\ out' = [out EXCEPT !.cnt = rlen, !.setup = TRUE]
            /\ obuf' = IF rlen = SetupSize THEN Request(c) ELSE obuf
            /\ events' = Append(events, "OUT")
            /\ left' = [left EXCEPT ![c] = @ - rlen]
            /\ IF rlen = left[c] THEN StageDone(c)
                                 ELSE UNCHANGED <<at, stage, linked, line>>
            /\ UNCHANGED <<err, failed>>
    /\ UNCHANGED <<scenario, got, reset, uaddr, in, fwVars>>

\* Mutant: the packet does not put its PID in the status byte.
SendOutKeepsPid(c) ==
    /\ Turn(c) /\ ~Refused(c) /\ stage[c] # "SETUP" /\ ~DirIn(c)
    /\ out.own
    /\ out' = [out EXCEPT !.cnt = Least(@, left[c])]
    /\ events' = Append(events, "OUT")
    /\ StageDone(c)
    /\ UNCHANGED <<scenario, err, left, got, failed, overlap, reset, pktdis, uaddr, in, obuf,
                   fwVars>>

\* The status stage of a read.  The device keeps its descriptor (UOWN).
SendOut(c) ==
    /\ Turn(c) /\ ~Refused(c) /\ stage[c] # "SETUP" /\ ~DirIn(c)
    /\ out.own
    /\ out' = [out EXCEPT !.cnt = Least(@, left[c]), !.setup = FALSE]
    /\ events' = Append(events, "OUT")
    /\ StageDone(c)
    /\ UNCHANGED <<scenario, err, left, got, failed, overlap, reset, pktdis, uaddr, in, obuf,
                   fwVars>>

SendIn(c) ==
    LET rlen == Least(in.cnt, left[c]) IN
    /\ Turn(c) /\ ~Refused(c) /\ DirIn(c)
    /\ in.own
    /\ in' = [in EXCEPT !.own = FALSE, !.cnt = 0]
    /\ events' = Append(events, "IN")
    /\ left' = [left EXCEPT ![c] = @ - rlen]
    /\ got' = IF stage[c] = "DATA" /\ rlen > 0 THEN [got EXCEPT ![c] = in.of] ELSE got
    /\ IF rlen = left[c] \/ rlen < Mps(Now(c).addr)
       THEN StageDone(c)
       ELSE UNCHANGED <<at, stage, linked, line>>
    /\ UNCHANGED <<scenario, err, failed, overlap, reset, pktdis, uaddr, out, obuf, fwVars>>

\* __RET_NAK changes nothing: the attempt is left out (it would only stutter).

Packet(c) == SendRefused(c) \/ SendSetup(c) \/ SendOut(c) \/ SendIn(c)

-----------------------------------------------------------------------------
(***************************************************************************)
(* The firmware's main loop.                                               *)
(***************************************************************************)

\* is_reset() reads and clears RESET.
Loop == /\ fpc = "loop"
        /\ reset' = FALSE
        /\ fpc' = IF reset THEN "regs" ELSE "poll"
        /\ UNCHANGED <<hostVars, pktdis, uaddr, out, in, obuf, events, ev, cts,
                       naddr, plan, ran>>

\* usb_reset: the registers, then the descriptors.  Neither the event ring
\* nor the state of process_control_transfer is reset.
ResetRegs == /\ fpc = "regs"
             /\ pktdis' = FALSE
             /\ uaddr' = 0
             /\ fpc' = "bdt"
             /\ UNCHANGED <<hostVars, reset, out, in, obuf, events, ev, cts,
                            naddr, plan, ran>>

ResetBdt == /\ fpc = "bdt"
            /\ out' = [own |-> FALSE, cnt |-> 0, setup |-> FALSE]
            /\ in' = [own |-> FALSE, cnt |-> 0, of |-> None]
            /\ plan' = ArmOut("poll")
            /\ fpc' = "cnt"
            /\ UNCHANGED <<hostVars, reset, pktdis, uaddr, obuf, events, ev, cts,
                           naddr, ran>>

\* is_transfer_done() and get_trn_status().
Poll == /\ fpc = "poll"
        /\ IF events = <<>>
           THEN fpc' = "loop" /\ UNCHANGED <<events, ev>>
           ELSE /\ ev' = Head(events)
                /\ events' = Tail(events)
                /\ fpc' = "decide"
        /\ UNCHANGED <<hostVars, regVars, cts, naddr, plan, ran>>

\* is_setup() looks at the descriptor as it is now; what is no SETUP is taken
\* for the next stage of the transfer cts says is going on.
Decide ==
    /\ fpc = "decide"
    /\ IF ev = "OUT" /\ out.setup
       THEN fpc' = "copy" /\ UNCHANGED <<uaddr, cts, plan>>
       ELSE IF cts \in {"SETUP", "ACKSC"}
       THEN fpc' = "loop" /\ UNCHANGED <<uaddr, cts, plan>>
       ELSE /\ uaddr' = IF cts = "ACKAD" THEN naddr ELSE uaddr
            /\ cts' = CASE cts = "DATA" -> "ACKIN"
                        [] cts = "ACKIN" -> "SETUP"
                        [] cts = "ACKAD" -> "ACKAD"
            /\ plan' = ArmOut("loop")
            /\ fpc' = "cnt"
    /\ UNCHANGED <<hostVars, reset, pktdis, out, in, obuf, events, ev, naddr, ran>>

\* Mutant: SET_ADDRESS takes effect before its status stage.
AnswerAddressAtOnce(r, req) ==
    /\ cts' = CASE r.kind = "GET" -> "DATA"
                [] r.kind = "ADDR" -> "ACKAD"
                [] r.kind = "CONF" -> "ACKSC"
    /\ naddr' = IF r.kind = "ADDR" THEN 1 ELSE naddr
    /\ uaddr' = naddr'
    /\ plan' = ArmIn(IF r.kind = "GET" THEN r.len ELSE 0, req)
    /\ fpc' = IF r.kind = "CONF" THEN "early" ELSE "cnt"

\* The answer to request req, transfer r, up to the first write of a register.
Answer(r, req) ==
    /\ cts' = CASE r.kind = "GET" -> "DATA"
                [] r.kind = "ADDR" -> "ACKAD"
                [] r.kind = "CONF" -> "ACKSC"
    /\ naddr' = IF r.kind = "ADDR" THEN 1 ELSE naddr
    /\ UNCHANGED uaddr
    /\ plan' = ArmIn(IF r.kind = "GET" THEN r.len ELSE 0, req)
    /\ fpc' = IF r.kind = "CONF" THEN "early" ELSE "cnt"

\* The SETUP branch of process_control_transfer.  A request it does not know
\* leaves everything as it is: packets stay switched off.
Copy ==
    /\ fpc = "copy"
    /\ IF obuf = None \/ Transfer(obuf).kind = "OTHER"
       THEN fpc' = "loop" /\ UNCHANGED <<uaddr, cts, naddr, plan>>
       ELSE Answer(Transfer(obuf), obuf)
    /\ ran' = [c \in Clients |-> IF obuf = Request(c) /\ ran[c] < 2
                                 THEN ran[c] + 1 ELSE ran[c]]
    /\ UNCHANGED <<hostVars, reset, pktdis, out, in, obuf, events, ev>>

\* SET_CONFIGURATION arms endpoints 2 and 1 first: each call clears PKTDIS.
Early == /\ fpc = "early"
         /\ pktdis' = FALSE
         /\ fpc' = "cnt"
         /\ UNCHANGED <<hostVars, reset, uaddr, out, in, obuf, events, ev, cts,
                        naddr, plan, ran>>

\* usb_ep_transf_start: size and buffer, then the status byte with UOWN, then
\* PKTDIS.
ArmCnt == /\ fpc = "cnt"
          /\ IF plan.side = "out"
             THEN out' = [out EXCEPT !.cnt = plan.cnt] /\ UNCHANGED in
             ELSE in' = [in EXCEPT !.cnt = plan.cnt, !.of = plan.of] /\ UNCHANGED out
          /\ fpc' = "stat"
          /\ UNCHANGED <<hostVars, reset, pktdis, uaddr, obuf, events, ev, cts,
                         naddr, plan, ran>>

\* Mutant: an IN descriptor without data is not given to the device.
ArmStatDataOnly ==
           /\ fpc = "stat"
           /\ IF plan.side = "out"
              THEN out' = [out EXCEPT !.own = TRUE, !.setup = FALSE] /\ UNCHANGED in
              ELSE in' = [in EXCEPT !.own = (in.cnt > 0)] /\ UNCHANGED out
           /\ fpc' = "enable"
           /\ UNCHANGED <<hostVars, reset, pktdis, uaddr, obuf, events, ev, cts,
                          naddr, plan, ran>>

ArmStat == /\ fpc = "stat"
           /\ IF plan.side = "out"
              THEN out' = [out EXCEPT !.own = TRUE, !.setup = FALSE] /\ UNCHANGED in
              ELSE in' = [in EXCEPT !.own = TRUE] /\ UNCHANGED out
           /\ fpc' = "enable"
           /\ UNCHANGED <<hostVars, reset, pktdis, uaddr, obuf, events, ev, cts,
                          naddr, plan, ran>>

\* Mutant: packets stay switched off.
EnableNot == /\ fpc = "enable"
             /\ fpc' = plan.then
             /\ UNCHANGED <<hostVars, reset, pktdis, uaddr, out, in, obuf, events, ev,
                            cts, naddr, plan, ran>>

Enable == /\ fpc = "enable"
          /\ pktdis' = FALSE
          /\ fpc' = plan.then
          /\ UNCHANGED <<hostVars, reset, uaddr, out, in, obuf, events, ev, cts,
                         naddr, plan, ran>>

Firmware == Loop \/ ResetRegs \/ ResetBdt \/ Poll \/ Decide \/ Copy \/ Early
            \/ ArmCnt \/ ArmStat \/ Enable

Host(c) == BusReset(c) \/ Submit(c)
Next == Firmware \/ \E c \in Clients : Host(c) \/ Packet(c)

Spec == Init /\ [][Next]_vars

\* All threads keep running.  The HCD thread retries the head of the queue for
\* ever; it and the hosts are held back by sleeps and speeds until the firmware
\* idles, which happens again and again but not continuously: its loop is two
\* states.
FairSpec == /\ Spec
            /\ WF_vars(Firmware)
            /\ \A c \in Clients : SF_vars(Host(c)) /\ SF_vars(Packet(c))

-----------------------------------------------------------------------------
(***************************************************************************)
(* Properties                                                              *)
(***************************************************************************)

Ends(c) == at'[c] # at[c] /\ Now(c).kind # "RESET"
Answered(c) == ran[c] = 1 /\ (Now(c).len > 0 => got[c] = Request(c))

\* A transfer that ends with no stage given up has been run by the firmware
\* once, and the data it brought answers this very request, no earlier one, as
\* long as transfers have not overlapped.
TransfersHonest ==
    [][\A c \in Clients : Ends(c) /\ ~failed'[c] /\ ~overlap' => Answered(c)]_vars

\* sys_usb_control_transfer returns the size asked for and on_urb_complete puts
\* "status OK" in the answer, whatever happened: then every transfer that ends
\* must have gone through all its stages and been answered; and a bus reset must
\* have reached the device, whatever state it was in.
TransfersGood ==
    [][\A c \in Clients : timely /\ Running(c) /\ at'[c] # at[c] =>
           IF Now(c).kind = "RESET" THEN reset' ELSE ~failed'[c] /\ Answered(c)]_vars

\* The device answers to its new address only after the host has seen the
\* status stage of SET_ADDRESS end (the state CTS_ACKAD is there for this).  The
\* order of the enumeration matters: after two reads with no reset between them
\* a slow firmware could take an event of theirs for that status stage.
AddressAfterStatus ==
    [][uaddr' # uaddr /\ uaddr' # 0 =>
       \E c \in Clients : \E k \in 1 .. at[c] - 1 : script[c][k].kind = "ADDR"]_vars

\* The address of the device when transfer k of script s begins.
AddressAt(s, k) == IF \E j \in 1 .. k - 1 : s[j].kind = "ADDR" THEN 1 ELSE 0

\* A script like that of system_loop: it begins with a bus reset and resets the
\* device while its address is 0 only, speaks to it by the address it has, and
\* asks for nothing it does not know.
Orderly(s) == \A k \in 1 .. Len(s) : /\ k = 1 => s[k].kind = "RESET"
                                     /\ s[k].kind = "RESET" => AddressAt(s, k) = 0
                                     /\ s[k].addr = AddressAt(s, k)
                                     /\ s[k].kind # "OTHER"

\* Hypotheses of theorems: one thread runs an orderly script and the others
\* nothing; and, of one thread only, there are transfers to address 0.
OneOrderly(s) == \E e \in Clients : Orderly(s[e]) /\ \A c \in Clients \ {e} : s[c] = <<>>
OneAtZero(s) == \E e \in Clients : \A c \in Clients \ {e} : \A k \in 1 .. Len(s[c]) :
                    s[c][k].kind = "RESET" \/ s[c][k].addr = 1

\* What hcd_gtd_send asserts of the SETUP packet it is about to send: the device
\* has taken none of it or all of it before.
SetupWhole == \A c \in Clients :
                  linked[c] /\ stage[c] = "SETUP" => left[c] = SetupSize

\* A SETUP packet switches packets off for a while only.
PacketsComeBack == pktdis ~> ~pktdis

\* Every transfer a host thread starts comes to its end.
ControlTransfersEnd == timely => \A c \in Clients : <>(~Running(c))
=============================================================================
