------------------------- MODULE ControlPipeProofs -------------------------
(***************************************************************************)
(* Theorems about endpoint 0.  For any number of host threads, any scripts *)
(* of theirs and any speed: the types, the size of a SETUP packet, and the *)
(* honesty of a control transfer that ends well.  For hosts that wait for  *)
(* the firmware before a SETUP packet: the address, the event ring, and    *)
(* that all transfers of one orderly thread end well.                      *)
(***************************************************************************)
EXTENDS ControlPipe, FiniteSets, SequenceTheorems, FiniteSetTheorems, TLAPS

-----------------------------------------------------------------------------
(***************************************************************************)
(* The invariants.                                                         *)
(***************************************************************************)
\* A request that the device holds was made, by its client's present transfer
\* at the latest, and by that only if its SETUP packet is over.
Made(r) ==
    /\ r.client \in Clients /\ r.at \in 1 .. Len(script[r.client])
    /\ r.at <= at[r.client]
    /\ stage[r.client] = "SETUP" => r.at < at[r.client]
    /\ Transfer(r).kind # "RESET"

HostWhole ==
    /\ \A c \in Clients : linked[c] \/ stage[c] # "SETUP" => Running(c) /\ Now(c).kind # "RESET"
    /\ \A c \in Clients : linked[c] /\ stage[c] = "SETUP" => left[c] = SetupSize /\ ran[c] = 0
    /\ \A c \in Clients : linked[c] /\ stage[c] = "STATUS" => left[c] = 0
    /\ \A c \in Clients : stage[c] = "DATA" => Now(c).len > 0
    /\ obuf = None \/ Made(obuf)

\* The device takes all of a SETUP packet or nothing.
ArmWhole == /\ out.cnt \in {0, SetupSize, ArmSize}
            /\ plan.side = "out" => plan.cnt = ArmSize

PipeInv == /\ script \in [Clients -> Seq(Transfers)] /\ timely \in BOOLEAN
           /\ ControlTypes /\ HostWhole /\ ArmWhole

\* A client in the midst of a transfer of which no stage was given up.
Live(c) == stage[c] # "SETUP" /\ ~failed[c]

\* How far the firmware is with the SETUP packet it got last.
Unheard(c) ==
    /\ ran[c] = 0
    /\ pktdis /\ ~reset /\ out.setup
    /\ \/ events = <<"OUT">> /\ fpc \in {"loop", "poll"}
       \/ events = <<>> /\ fpc = "decide" /\ ev = "OUT"
       \/ events = <<>> /\ fpc = "copy"

Ignored(c) ==
    /\ Now(c).kind = "OTHER"
    /\ pktdis /\ ~reset
    /\ events = <<>> /\ fpc \in {"loop", "poll"}

\* The data for c is in the descriptor, or will be before packets are let in.
DataReady(c) ==
    LET mine == in.of = Request(c) /\ in.cnt = Now(c).len IN
    /\ fpc # "early"
    /\ IF fpc \in {"cnt", "stat"} /\ plan.side = "in"
       THEN /\ pktdis
            /\ plan.of = Request(c) /\ plan.cnt = Now(c).len
            /\ fpc = "stat" => mine
       ELSE in.own => mine

Taken(c) ==
    /\ ran[c] = 1
    /\ fpc # "copy"
    /\ ("OUT" \in Range(events) \/ (fpc = "decide" /\ ev = "OUT")) => ~out.setup
    /\ stage[c] = "DATA" => DataReady(c)

Honest(c) ==
    /\ obuf = Request(c)
    /\ stage[c] = "STATUS" /\ Now(c).len > 0 => got[c] = Request(c)
    /\ stage[c] = "DATA" /\ linked[c] => left[c] = Now(c).len
    /\ Unheard(c) \/ Ignored(c) \/ Taken(c)

HonestInv == ~overlap => \A c \in Clients : Live(c) => Honest(c)

-----------------------------------------------------------------------------
(***************************************************************************)
(* The host's side.                                                        *)
(***************************************************************************)
LEMMA SizeFacts == SetupSize = 8 /\ ArmSize = 64
BY DEF SetupSize, ArmSize

LEMMA ScriptFacts ==
    ASSUME PipeInv, NEW c \in Clients
    PROVE  /\ script[c] \in Seq(Transfers) /\ Len(script[c]) \in Nat
           /\ \A k \in 1 .. Len(script[c]) : script[c][k] \in Transfers
           /\ at[c] \in 1 .. Len(script[c]) + 1
           /\ Running(c) => at[c] \in 1 .. Len(script[c]) /\ Now(c) \in Transfers
           /\ Request(c) # None /\ Request(c) \in Requests
           /\ Request(c).client = c /\ Request(c).at = at[c]
<1>1. script[c] \in Seq(Transfers) /\ at[c] \in 1 .. Len(script[c]) + 1 /\ at[c] \in Nat
  BY DEF PipeInv, ControlTypes, HostTypes, TransferTypes, DeviceTypes, FirmwareTypes
<1>2. Len(script[c]) \in Nat /\ \A k \in 1 .. Len(script[c]) : script[c][k] \in Transfers
  BY <1>1, LenProperties, ElementOfSeq
<1>3. Request(c).client = c /\ Request(c).at = at[c] /\ None.at = 0 /\ at[c] # 0
  BY <1>1, <1>2 DEF Request, None
<1>4. Request(c) \in Requests
  BY <1>1 DEF Request, Requests
<1>5. Running(c) => at[c] \in 1 .. Len(script[c]) /\ Now(c) \in Transfers
  BY <1>1, <1>2 DEF Running, Now
<1> QED
  BY <1>1, <1>2, <1>3, <1>4, <1>5

LEMMA TransferFacts ==
    ASSUME NEW t \in Transfers
    PROVE  /\ t.kind \in Kinds /\ t.addr \in 0 .. 1 /\ t.len \in {0, 9, 18, 32}
           /\ t.len > 0 => t.kind \in {"GET", "OTHER"}
BY DEF Transfers

\* The queue and who is in it.
LEMMA LineFacts ==
    ASSUME ControlTypes
    PROVE  /\ line \in Seq(Clients) /\ Len(line) \in Nat /\ DOMAIN line = 1 .. Len(line)
           /\ \A i, j \in 1 .. Len(line) : line[i] = line[j] => i = j
           /\ \A c : (c \in Clients /\ linked[c]) <=> \E i \in 1 .. Len(line) : line[i] = c
           /\ line # <<>> => 1 \in 1 .. Len(line) /\ Head(line) = line[1]
<1>1. line \in Seq(Clients)
  BY DEF ControlTypes, HostTypes, TransferTypes, DeviceTypes, FirmwareTypes
<1>2. /\ Len(line) \in Nat /\ DOMAIN line = 1 .. Len(line)
      /\ line # <<>> => Len(line) # 0 /\ Head(line) = line[1]
  BY <1>1, LenProperties, EmptySeq, HeadTailProperties
<1>3. \A c : c \in Range(line) <=> c \in Clients /\ linked[c]
  BY DEF ControlTypes, HostTypes, TransferTypes, DeviceTypes, FirmwareTypes
<1>4. \A i, j \in 1 .. Len(line) : line[i] = line[j] => i = j
  BY <1>2 DEF ControlTypes, HostTypes, IsInjective
<1> QED
  BY <1>1, <1>2, <1>3, <1>4 DEF Range

LEMMA LineAppend ==
    ASSUME ControlTypes, NEW c \in Clients, ~linked[c],
           line' = Append(line, c), linked' = [linked EXCEPT ![c] = TRUE]
    PROVE  /\ line' \in Seq(Clients) /\ Range(line') = {d \in Clients : linked'[d]}
           /\ IsInjective(line') /\ linked' \in [Clients -> BOOLEAN]
<1> DEFINE n == Len(line)
<1>1. /\ line \in Seq(Clients) /\ n \in Nat
      /\ \A i, j \in 1 .. n : line[i] = line[j] => i = j
      /\ \A d : (d \in Clients /\ linked[d]) <=> \E i \in 1 .. n : line[i] = d
  BY LineFacts
<1>2. /\ line' \in Seq(Clients) /\ DOMAIN line' = 1 .. n + 1
      /\ \A i \in 1 .. n : line'[i] = line[i]
      /\ line'[n + 1] = c
  BY <1>1, AppendProperties, LenProperties
<1> HIDE DEF n
<1>3. linked' \in [Clients -> BOOLEAN] /\ \A d \in Clients : linked'[d] <=> linked[d] \/ d = c
  BY DEF ControlTypes, HostTypes, TransferTypes, DeviceTypes, FirmwareTypes
<1>4. \A i \in 1 .. n : line[i] # c
  BY <1>1
<1>5. IsInjective(line')
  BY <1>1, <1>2, <1>4 DEF IsInjective
<1>6. \A d : d \in Range(line') <=> d \in Clients /\ linked'[d]
  <2>1. \A d : d \in Range(line') <=> d = c \/ \E i \in 1 .. n : line[i] = d
    BY <1>1, <1>2 DEF Range
  <2> QED
    BY <1>1, <1>3, <2>1
<1> QED
  BY <1>2, <1>3, <1>5, <1>6

LEMMA LineTail ==
    ASSUME ControlTypes, NEW c \in Clients, line # <<>>, Head(line) = c,
           line' = Tail(line), linked' = [linked EXCEPT ![c] = FALSE]
    PROVE  /\ line' \in Seq(Clients) /\ Range(line') = {d \in Clients : linked'[d]}
           /\ IsInjective(line') /\ linked' \in [Clients -> BOOLEAN]
<1> DEFINE n == Len(line)
<1>1. /\ line \in Seq(Clients) /\ n \in Nat /\ 1 \in 1 .. n /\ line[1] = c
      /\ \A i, j \in 1 .. n : line[i] = line[j] => i = j
      /\ \A d : (d \in Clients /\ linked[d]) <=> \E i \in 1 .. n : line[i] = d
  BY LineFacts
<1>2. /\ line' \in Seq(Clients) /\ Len(line') = n - 1
      /\ \A i \in 1 .. n - 1 : line'[i] = line[i + 1]
  BY <1>1, HeadTailProperties
<1> HIDE DEF n
<1>3. linked' \in [Clients -> BOOLEAN] /\ \A d \in Clients : linked'[d] <=> linked[d] /\ d # c
  BY DEF ControlTypes, HostTypes, TransferTypes, DeviceTypes, FirmwareTypes
<1>4. DOMAIN line' = 1 .. n - 1
  BY <1>2, LenProperties
<1>5. IsInjective(line')
  BY <1>1, <1>2, <1>4 DEF IsInjective
<1>6. \A d : d \in Range(line') <=> d \in Clients /\ linked'[d]
  <2> SUFFICES ASSUME NEW d PROVE d \in Range(line') <=> d \in Clients /\ linked'[d]
    OBVIOUS
  <2>1. d \in Range(line') <=> \E i \in 1 .. n - 1 : line[i + 1] = d
    BY <1>2, <1>4 DEF Range
  <2>2. (\E i \in 1 .. n - 1 : line[i + 1] = d) <=> d # c /\ \E i \in 1 .. n : line[i] = d
    <3>1. ASSUME NEW i \in 1 .. n - 1, line[i + 1] = d
          PROVE  d # c /\ \E j \in 1 .. n : line[j] = d
      <4>1. i + 1 \in 1 .. n /\ i + 1 # 1
        BY <1>1
      <4> QED
        BY <1>1, <3>1, <4>1
    <3>2. ASSUME NEW j \in 1 .. n, line[j] = d, d # c
          PROVE  \E i \in 1 .. n - 1 : line[i + 1] = d
      <4>1. j - 1 \in 1 .. n - 1 /\ j - 1 + 1 = j
        BY <1>1, <3>2
      <4> QED
        BY <3>2, <4>1
    <3> QED
      BY <3>1, <3>2
  <2> QED
    BY <1>1, <1>3, <2>1, <2>2
<1> QED
  BY <1>2, <1>3, <1>5, <1>6

\* A client whose turn it is, and its packet.
LEMMA HeadFacts ==
    ASSUME PipeInv, NEW c \in Clients, Turn(c)
    PROVE  /\ line # <<>> /\ Head(line) = c /\ linked[c] /\ Running(c) /\ Now(c).kind # "RESET"
           /\ left[c] \in 0 .. ArmSize
           /\ stage[c] = "SETUP" => left[c] = SetupSize /\ ran[c] = 0
           /\ stage[c] = "STATUS" => left[c] = 0
<1>1. line # <<>> /\ Head(line) = c
  BY DEF Turn
<1>2. linked[c]
  BY <1>1, LineFacts DEF PipeInv
<1> QED
  BY <1>1, <1>2 DEF PipeInv, HostWhole, ControlTypes, TransferTypes

\* A packet that ends the stage of its client, or does not.
LEMMA HostMoves ==
    ASSUME PipeInv, NEW c \in Clients, Turn(c),
           StageDone(c) \/ UNCHANGED <<at, stage, linked, line>>,
           UNCHANGED <<script, ran>>,
           \A d \in Clients : d # c => left'[d] = left[d],
           linked'[c] => /\ stage[c] = "SETUP" => left'[c] = SetupSize
                         /\ stage[c] = "STATUS" => left'[c] = 0,
           obuf' = obuf \/ (obuf' = Request(c) /\ stage[c] = "SETUP" /\ StageDone(c))
    PROVE  /\ HostWhole'
           /\ HostTypes'
<1>1. /\ line # <<>> /\ Head(line) = c /\ linked[c] /\ Running(c) /\ Now(c).kind # "RESET"
      /\ stage[c] = "SETUP" => ran[c] = 0
  BY HeadFacts
<1>2. CASE UNCHANGED <<at, stage, linked, line>>
  <2>1. obuf' = obuf
    BY <1>1, <1>2, ScriptFacts DEF StageDone, PipeInv, ControlTypes, HostTypes, TransferTypes, DeviceTypes, FirmwareTypes
  <2>2. (obuf = None \/ Made(obuf))'
    BY <1>2, <2>1 DEF PipeInv, HostWhole, Made, Transfer
  <2>3. \A d \in Clients : /\ linked'[d] /\ stage'[d] = "SETUP" => left'[d] = SetupSize /\ ran'[d] = 0
                           /\ linked'[d] /\ stage'[d] = "STATUS" => left'[d] = 0
    BY <1>1, <1>2 DEF PipeInv, HostWhole
  <2>4. HostWhole'
    BY <1>2, <2>2, <2>3 DEF PipeInv, HostWhole, Running, Now
  <2> QED
    BY <1>2, <2>4 DEF PipeInv, ControlTypes, HostTypes, TransferTypes, DeviceTypes, FirmwareTypes
<1>3. CASE StageDone(c)
  <2>1. /\ linked' = [linked EXCEPT ![c] = FALSE] /\ line' = Tail(line)
        /\ stage' = [stage EXCEPT ![c] = CASE @ = "SETUP" /\ Now(c).len > 0 -> "DATA"
                                           [] @ = "STATUS" -> "SETUP"
                                           [] OTHER -> "STATUS"]
        /\ at' = IF stage[c] = "STATUS" THEN [at EXCEPT ![c] = @ + 1] ELSE at
    BY <1>3 DEF StageDone
  <2>2. /\ line' \in Seq(Clients) /\ Range(line') = {d \in Clients : linked'[d]}
        /\ IsInjective(line') /\ linked' \in [Clients -> BOOLEAN]
    BY <1>1, <2>1, LineTail DEF PipeInv
  <2>3. /\ stage[c] \in Stages /\ stage \in [Clients -> Stages] /\ at \in [Clients -> Nat]
        /\ linked \in [Clients -> BOOLEAN]
    BY DEF PipeInv, ControlTypes, HostTypes, TransferTypes, DeviceTypes, FirmwareTypes
  <2>4. /\ stage' \in [Clients -> Stages]
        /\ stage'[c] = CASE stage[c] = "SETUP" /\ Now(c).len > 0 -> "DATA"
                         [] stage[c] = "STATUS" -> "SETUP"
                         [] OTHER -> "STATUS"
        /\ \A d \in Clients : d # c => stage'[d] = stage[d]
    BY <2>1, <2>3 DEF Stages
  <2>5. /\ at' \in [Clients -> Nat]
        /\ at'[c] = IF stage[c] = "STATUS" THEN at[c] + 1 ELSE at[c]
        /\ \A d \in Clients : d # c => at'[d] = at[d]
    BY <2>1, <2>3
  <2>6. \A d \in Clients : at'[d] \in 1 .. Len(script'[d]) + 1
    BY <1>1, <2>5, ScriptFacts
  <2>7. \A d \in Clients : linked'[d] <=> linked[d] /\ d # c
    BY <2>1, <2>3
  <2>8. \A d \in Clients : d # c => (Running(d)' <=> Running(d)) /\ Now(d)' = Now(d)
    BY <2>5 DEF Running, Now
  <2>9. stage[c] # "STATUS" => Running(c)' /\ Now(c)' = Now(c)
    BY <1>1, <2>5 DEF Running, Now
  <2>10. stage'[c] # "SETUP" => stage[c] # "STATUS"
    BY <2>4
  <2>11. stage'[c] = "DATA" => Now(c).len > 0 /\ stage[c] # "STATUS"
    BY <2>4
  <2>12. (obuf = None \/ Made(obuf))'
    <3>1. CASE obuf' = obuf /\ obuf # None
      <4>1. Made(obuf)
        BY <3>1 DEF PipeInv, HostWhole
      <4>2. /\ obuf.client \in Clients /\ obuf.at \in 1 .. Len(script[obuf.client])
            /\ obuf.at <= at[obuf.client] /\ Transfer(obuf).kind # "RESET"
            /\ stage[obuf.client] = "SETUP" => obuf.at < at[obuf.client]
        BY <4>1 DEF Made
      <4>3. Transfer(obuf)' = Transfer(obuf)
        BY <3>1 DEF Transfer
      <4>4. CASE obuf.client = c
        <5>1. at[c] \in Nat /\ obuf.at \in Nat /\ Len(script[c]) \in Nat
          BY <4>2, <4>4, ScriptFacts
        <5>2. obuf.at <= at'[c]
          BY <2>5, <4>2, <4>4, <5>1
        <5>3. stage'[c] = "SETUP" => obuf.at < at'[c]
          BY <2>4, <2>5, <4>2, <4>4, <5>1
        <5> QED
          BY <3>1, <4>2, <4>3, <4>4, <5>2, <5>3 DEF Made
      <4>5. CASE obuf.client # c
        BY <2>4, <2>5, <3>1, <4>2, <4>3, <4>5 DEF Made
      <4> QED
        BY <4>4, <4>5
    <3>2. CASE obuf' = Request(c) /\ stage[c] = "SETUP"
      <4>1. /\ obuf'.client = c /\ obuf'.at = at[c] /\ at[c] \in 1 .. Len(script[c])
            /\ at'[c] = at[c] /\ stage'[c] # "SETUP"
        BY <1>1, <2>4, <2>5, <3>2, ScriptFacts
      <4>2. Transfer(obuf)' = Now(c)
        BY <4>1 DEF Transfer, Now
      <4> QED
        BY <1>1, <4>1, <4>2 DEF Made
    <3> QED
      BY <3>1, <3>2
  <2>13. \A d \in Clients : linked'[d] \/ stage'[d] # "SETUP" => Running(d)' /\ (Now(d).kind # "RESET")'
    <3> SUFFICES ASSUME NEW d \in Clients, linked'[d] \/ stage'[d] # "SETUP"
                 PROVE  Running(d)' /\ (Now(d).kind # "RESET")'
      OBVIOUS
    <3>1. CASE d = c
      BY <1>1, <2>7, <2>9, <2>10, <3>1
    <3>2. CASE d # c
      <4>1. Running(d) /\ Now(d).kind # "RESET"
        BY <2>4, <2>7, <3>2 DEF PipeInv, HostWhole
      <4> QED
        BY <2>8, <3>2, <4>1
    <3> QED
      BY <3>1, <3>2
  <2>14. \A d \in Clients : /\ linked'[d] /\ stage'[d] = "SETUP" => left'[d] = SetupSize /\ ran'[d] = 0
                            /\ linked'[d] /\ stage'[d] = "STATUS" => left'[d] = 0
    BY <2>4, <2>7 DEF PipeInv, HostWhole
  <2>15. \A d \in Clients : stage'[d] = "DATA" => (Now(d).len > 0)'
    <3> SUFFICES ASSUME NEW d \in Clients, stage'[d] = "DATA" PROVE (Now(d).len > 0)'
      OBVIOUS
    <3>1. CASE d = c
      BY <2>9, <2>11, <3>1
    <3>2. CASE d # c
      BY <2>4, <2>8, <3>2 DEF PipeInv, HostWhole
    <3> QED
      BY <3>1, <3>2
  <2>16. HostWhole'
    BY <2>12, <2>13, <2>14, <2>15 DEF HostWhole
  <2> QED
    BY <2>2, <2>4, <2>5, <2>6, <2>16 DEF HostTypes
<1> QED
  BY <1>2, <1>3

\* hcd_bus_reset leaves the transfers alone.
LEMMA BusResetKeeps ==
    ASSUME PipeInv, NEW c \in Clients, BusReset(c)
    PROVE  PipeInv'
<1>1. /\ Running(c) /\ Now(c).kind = "RESET"
      /\ reset' = (reset \/ (uaddr = 0 /\ ~pktdis))
      /\ at' = [at EXCEPT ![c] = @ + 1]
      /\ UNCHANGED <<script, timely, stage, linked, err, left, line, got, failed, overlap, pktdis,
                     uaddr, out, in, obuf, events, fpc, ev, cts, naddr, plan, ran>>
  BY DEF BusReset, scenario, fwVars
<1>2. ~linked[c] /\ stage[c] = "SETUP"
  BY <1>1 DEF PipeInv, HostWhole
<1>3. /\ at' \in [Clients -> Nat] /\ at'[c] = at[c] + 1
      /\ \A d \in Clients : d # c => at'[d] = at[d]
  BY <1>1 DEF PipeInv, ControlTypes, HostTypes, TransferTypes, DeviceTypes, FirmwareTypes
<1>4. \A d \in Clients : at'[d] \in 1 .. Len(script'[d]) + 1
  BY <1>1, <1>3, ScriptFacts
<1>5. reset' \in BOOLEAN
  BY <1>1 DEF PipeInv, ControlTypes, HostTypes, TransferTypes, DeviceTypes, FirmwareTypes
<1>6. ControlTypes'
  <2>1. HostTypes'
    BY <1>1, <1>3, <1>4, <1>5 DEF PipeInv, ControlTypes, HostTypes
  <2>2. TransferTypes'
    BY <1>1, <1>3, <1>4, <1>5 DEF PipeInv, ControlTypes, TransferTypes
  <2>3. DeviceTypes'
    BY <1>1, <1>3, <1>4, <1>5 DEF PipeInv, ControlTypes, DeviceTypes
  <2>4. FirmwareTypes'
    BY <1>1, <1>3, <1>4, <1>5 DEF PipeInv, ControlTypes, FirmwareTypes
  <2> QED
    BY <2>1, <2>2, <2>3, <2>4 DEF ControlTypes
<1>7. \A d \in Clients : d # c => (Running(d)' <=> Running(d)) /\ Now(d)' = Now(d)
  BY <1>1, <1>3 DEF Running, Now
<1>8. (obuf = None \/ Made(obuf))'
  <2>1. CASE obuf # None
    <3>1. /\ obuf.client \in Clients /\ obuf.at \in 1 .. Len(script[obuf.client])
          /\ obuf.at <= at[obuf.client] /\ Transfer(obuf).kind # "RESET"
          /\ stage[obuf.client] = "SETUP" => obuf.at < at[obuf.client]
      BY <2>1 DEF PipeInv, HostWhole, Made
    <3>2. Transfer(obuf)' = Transfer(obuf)
      BY <1>1 DEF Transfer
    <3>3. CASE obuf.client = c
      <4>1. at[c] \in Nat /\ obuf.at \in Nat /\ Len(script[c]) \in Nat
        BY <3>1, <3>3, ScriptFacts
      <4>2. obuf.at <= at'[c] /\ obuf.at < at'[c]
        BY <1>3, <3>1, <3>3, <4>1
      <4> QED
        BY <1>1, <3>1, <3>2, <3>3, <4>2 DEF Made
    <3>4. CASE obuf.client # c
      BY <1>1, <1>3, <3>1, <3>2, <3>4 DEF Made
    <3> QED
      BY <3>3, <3>4
  <2> QED
    BY <1>1, <2>1
<1>9. \A d \in Clients : linked'[d] \/ stage'[d] # "SETUP" => Running(d)' /\ (Now(d).kind # "RESET")'
  BY <1>1, <1>2, <1>7 DEF PipeInv, HostWhole
<1>10. \A d \in Clients : stage'[d] = "DATA" => (Now(d).len > 0)'
  BY <1>1, <1>2, <1>7 DEF PipeInv, HostWhole
<1>11. HostWhole'
  BY <1>1, <1>8, <1>9, <1>10 DEF PipeInv, HostWhole
<1> QED
  BY <1>1, <1>6, <1>11 DEF PipeInv, ArmWhole

LEMMA SubmitKeeps ==
    ASSUME PipeInv, NEW c \in Clients, Submit(c)
    PROVE  PipeInv'
<1>1. /\ Running(c) /\ Now(c).kind # "RESET" /\ ~linked[c]
      /\ linked' = [linked EXCEPT ![c] = TRUE]
      /\ line' = Append(line, c)
      /\ err' = [err EXCEPT ![c] = 0]
      /\ left' = [left EXCEPT ![c] = CASE stage[c] = "SETUP" -> SetupSize
                                       [] stage[c] = "DATA" -> Now(c).len
                                       [] stage[c] = "STATUS" -> 0]
      /\ UNCHANGED <<script, timely, at, stage, overlap, reset, pktdis, uaddr, out, in, obuf,
                     events, fpc, ev, cts, naddr, plan>>
  BY DEF Submit, scenario, regVars
<1>2. IF stage[c] = "SETUP"
      THEN /\ got' = [got EXCEPT ![c] = None]
           /\ ran' = [ran EXCEPT ![c] = 0]
           /\ failed' = [failed EXCEPT ![c] = FALSE]
      ELSE UNCHANGED <<got, ran, failed>>
  BY DEF Submit
<1>3. /\ line' \in Seq(Clients) /\ Range(line') = {d \in Clients : linked'[d]}
      /\ IsInjective(line') /\ linked' \in [Clients -> BOOLEAN]
  BY <1>1, LineAppend DEF PipeInv
<1>4. /\ stage[c] \in Stages /\ Now(c).len \in 0 .. ArmSize
  BY <1>1, ScriptFacts, TransferFacts, SizeFacts DEF PipeInv, ControlTypes, HostTypes, TransferTypes, DeviceTypes, FirmwareTypes
<1>5. /\ left' \in [Clients -> 0 .. ArmSize]
      /\ stage[c] = "SETUP" => left'[c] = SetupSize
      /\ stage[c] = "DATA" => left'[c] = Now(c).len
      /\ stage[c] = "STATUS" => left'[c] = 0
      /\ \A d \in Clients : d # c => left'[d] = left[d]
  BY <1>1, <1>4, SizeFacts DEF PipeInv, ControlTypes, HostTypes, TransferTypes, DeviceTypes, FirmwareTypes, Stages
<1>6. /\ err' \in [Clients -> 0 .. 2]
      /\ got' \in [Clients -> Requests] /\ ran' \in [Clients -> 0 .. 2]
      /\ failed' \in [Clients -> BOOLEAN]
      /\ stage[c] = "SETUP" => ran'[c] = 0
      /\ \A d \in Clients : d # c => ran'[d] = ran[d]
  <2>1. None \in Requests
    BY DEF Requests
  <2>2. got \in [Clients -> Requests] /\ ran \in [Clients -> 0 .. 2] /\ failed \in [Clients -> BOOLEAN]
        /\ err \in [Clients -> 0 .. 2]
    BY DEF PipeInv, ControlTypes, TransferTypes
  <2>3. err' \in [Clients -> 0 .. 2]
    BY <1>1, <2>2
  <2>4. CASE stage[c] = "SETUP"
    <3>1. /\ got' = [got EXCEPT ![c] = None] /\ ran' = [ran EXCEPT ![c] = 0]
          /\ failed' = [failed EXCEPT ![c] = FALSE]
      BY <1>2, <2>4
    <3> QED
      BY <2>1, <2>2, <2>3, <3>1
  <2>5. CASE stage[c] # "SETUP"
    BY <1>2, <2>2, <2>3, <2>5
  <2> QED
    BY <2>4, <2>5
<1>7. ControlTypes'
  <2>0. HostTypes /\ TransferTypes /\ DeviceTypes /\ FirmwareTypes
    BY DEF PipeInv, ControlTypes
  <2>1. HostTypes'
    BY ONLY <1>1, <1>3, <1>5, <1>6, <2>0 DEF HostTypes
  <2>2. TransferTypes'
    BY ONLY <1>1, <1>3, <1>5, <1>6, <2>0 DEF TransferTypes
  <2>3. DeviceTypes'
    BY ONLY <1>1, <1>3, <1>5, <1>6, <2>0 DEF DeviceTypes
  <2>4. FirmwareTypes'
    BY ONLY <1>1, <1>3, <1>5, <1>6, <2>0 DEF FirmwareTypes
  <2> QED
    BY <2>1, <2>2, <2>3, <2>4 DEF ControlTypes
<1>8. \A d \in Clients : (Running(d)' <=> Running(d)) /\ Now(d)' = Now(d)
  BY <1>1 DEF Running, Now
<1>9. (obuf = None \/ Made(obuf))'
  BY <1>1 DEF PipeInv, HostWhole, Made, Transfer
<1>10. \A d \in Clients : d # c => (linked'[d] <=> linked[d])
  BY <1>1 DEF PipeInv, ControlTypes, HostTypes, TransferTypes, DeviceTypes, FirmwareTypes
<1>11. HostWhole'
  <2>1. HostWhole
    BY DEF PipeInv
  <2>2. \A d \in Clients : linked'[d] \/ stage'[d] # "SETUP" => Running(d)' /\ (Now(d).kind # "RESET")'
    BY ONLY <1>1, <1>8, <1>10, <2>1 DEF HostWhole
  <2>3. \A d \in Clients : linked'[d] /\ stage'[d] = "SETUP" => left'[d] = SetupSize /\ ran'[d] = 0
    BY ONLY <1>1, <1>5, <1>6, <1>10, <2>1 DEF HostWhole
  <2>4. \A d \in Clients : linked'[d] /\ stage'[d] = "STATUS" => left'[d] = 0
    BY ONLY <1>1, <1>5, <1>10, <2>1 DEF HostWhole
  <2>5. \A d \in Clients : stage'[d] = "DATA" => (Now(d).len > 0)'
    BY ONLY <1>1, <1>8, <2>1 DEF HostWhole
  <2> QED
    BY ONLY <1>9, <2>2, <2>3, <2>4, <2>5 DEF HostWhole
<1> QED
  BY <1>1, <1>7, <1>11 DEF PipeInv, ArmWhole

-----------------------------------------------------------------------------
(***************************************************************************)
(* Packets.                                                                *)
(***************************************************************************)
\* An error is counted, or the third one ends the stage.
LEMMA ErrFacts ==
    ASSUME PipeInv, NEW c \in Clients, Err(c)
    PROVE  /\ StageDone(c) \/ UNCHANGED <<at, stage, linked, line>>
           /\ err' \in [Clients -> 0 .. 2] /\ failed' \in [Clients -> BOOLEAN]
           /\ UNCHANGED <<at, stage, linked, line, failed>> \/ failed' = [failed EXCEPT ![c] = TRUE]
<1>1. err \in [Clients -> 0 .. 2] /\ failed \in [Clients -> BOOLEAN]
  BY DEF PipeInv, ControlTypes, HostTypes, TransferTypes, DeviceTypes, FirmwareTypes
<1>2. CASE err[c] = 2
  <2>1. StageDone(c) /\ failed' = [failed EXCEPT ![c] = TRUE] /\ err' = err
    BY <1>2 DEF Err
  <2> QED
    BY <1>1, <2>1
<1>3. CASE err[c] # 2
  <2>1. err' = [err EXCEPT ![c] = @ + 1] /\ UNCHANGED <<at, stage, linked, line, failed>>
    BY <1>3 DEF Err
  <2>2. err[c] + 1 \in 0 .. 2
    BY <1>1, <1>3
  <2> QED
    BY <1>1, <2>1, <2>2
<1> QED
  BY <1>2, <1>3

LEMMA RefusedKeeps ==
    ASSUME PipeInv, NEW c \in Clients, SendRefused(c)
    PROVE  PipeInv'
<1>1. /\ Turn(c) /\ Err(c)
      /\ UNCHANGED <<script, timely, left, got, overlap, reset, pktdis, uaddr, out, in, obuf, events,
                     fpc, ev, cts, naddr, plan, ran>>
  BY DEF SendRefused, scenario, regVars, fwVars
<1>2. /\ StageDone(c) \/ UNCHANGED <<at, stage, linked, line>>
      /\ err' \in [Clients -> 0 .. 2] /\ failed' \in [Clients -> BOOLEAN]
  BY <1>1, ErrFacts
<1>3. HostWhole' /\ HostTypes'
  BY <1>1, <1>2, HeadFacts, HostMoves
<1>4. ControlTypes'
  <2>1. HostTypes'
    BY <1>1, <1>2, <1>3 DEF PipeInv, ControlTypes, HostTypes
  <2>2. TransferTypes'
    BY <1>1, <1>2, <1>3 DEF PipeInv, ControlTypes, TransferTypes
  <2>3. DeviceTypes'
    BY <1>1, <1>2, <1>3 DEF PipeInv, ControlTypes, DeviceTypes
  <2>4. FirmwareTypes'
    BY <1>1, <1>2, <1>3 DEF PipeInv, ControlTypes, FirmwareTypes
  <2> QED
    BY <2>1, <2>2, <2>3, <2>4 DEF ControlTypes
<1> QED
  BY <1>1, <1>3, <1>4 DEF PipeInv, ArmWhole

LEMMA EventAppend ==
    ASSUME ControlTypes, NEW e \in {"OUT", "IN"}
    PROVE  /\ Append(events, e) \in Seq({"OUT", "IN"})
           /\ Range(Append(events, e)) = Range(events) \cup {e}
<1> DEFINE n == Len(events)
<1>1. events \in Seq({"OUT", "IN"})
  BY DEF ControlTypes, HostTypes, TransferTypes, DeviceTypes, FirmwareTypes
<1>2. /\ Append(events, e) \in Seq({"OUT", "IN"})
      /\ Len(Append(events, e)) = n + 1 /\ n \in Nat /\ DOMAIN events = 1 .. n
      /\ \A i \in 1 .. n : Append(events, e)[i] = events[i]
      /\ Append(events, e)[n + 1] = e
  BY <1>1, AppendProperties, LenProperties
<1>3. DOMAIN Append(events, e) = 1 .. n + 1
  BY <1>2, LenProperties
<1> HIDE DEF n
<1>4. \A x : x \in Range(Append(events, e)) <=> x \in Range(events) \/ x = e
  BY <1>2, <1>3 DEF Range
<1> QED
  BY <1>2, <1>4

\* What a SETUP packet that the descriptor has room for does.
LEMMA SetupFacts ==
    ASSUME PipeInv, NEW c \in Clients, SendSetup(c), out.own
    PROVE  /\ Turn(c) /\ stage[c] = "SETUP" /\ ~Refused(c) /\ pktdis'
           /\ out'.setup /\ out' \in [own : BOOLEAN, cnt : {0, SetupSize}, setup : BOOLEAN]
           /\ events' = Append(events, "OUT")
           /\ UNCHANGED <<script, timely, err, failed, got, reset, uaddr, in, fpc, ev, cts, naddr,
                          plan, ran>>
           /\ \/ /\ out'.cnt = SetupSize /\ obuf' = Request(c) /\ StageDone(c)
                 /\ left' = [left EXCEPT ![c] = 0]
              \/ /\ out'.cnt = 0 /\ obuf' = obuf /\ UNCHANGED <<at, stage, linked, line>>
                 /\ left' = left
<1> DEFINE rlen == Least(out.cnt, left[c])
<1>1. /\ Turn(c) /\ ~Refused(c) /\ stage[c] = "SETUP" /\ pktdis' = TRUE
      /\ out' = [out EXCEPT !.cnt = rlen, !.setup = TRUE]
      /\ obuf' = IF rlen = SetupSize THEN Request(c) ELSE obuf
      /\ events' = Append(events, "OUT")
      /\ left' = [left EXCEPT ![c] = @ - rlen]
      /\ IF rlen = left[c] THEN StageDone(c) ELSE UNCHANGED <<at, stage, linked, line>>
      /\ UNCHANGED <<script, timely, err, failed, got, reset, uaddr, in, fpc, ev, cts, naddr,
                     plan, ran>>
  BY DEF SendSetup, scenario, fwVars
<1>2. left[c] = 8 /\ out.cnt \in {0, 8, 64} /\ SetupSize = 8 /\ left \in [Clients -> 0 .. ArmSize]
  BY <1>1, HeadFacts, SizeFacts DEF PipeInv, ArmWhole, ControlTypes, TransferTypes
<1>3. (rlen = 8 /\ out.cnt # 0) \/ (rlen = 0 /\ out.cnt = 0)
  BY <1>2 DEF Least
<1> HIDE DEF rlen
<1>4. /\ out' \in [own : BOOLEAN, cnt : {0, 8}, setup : BOOLEAN] /\ out'.setup /\ out'.cnt = rlen
  BY <1>1, <1>3 DEF PipeInv, ControlTypes, HostTypes, TransferTypes, DeviceTypes, FirmwareTypes
<1>5. CASE rlen = 8
  <2>1. left' = [left EXCEPT ![c] = 0]
    BY <1>1, <1>2, <1>5
  <2> QED
    BY <1>1, <1>2, <1>4, <1>5, <2>1
<1>6. CASE rlen = 0
  <2>1. left' = left
    BY <1>1, <1>2, <1>6
  <2> QED
    BY <1>1, <1>2, <1>4, <1>6, <2>1
<1> QED
  BY <1>3, <1>5, <1>6

LEMMA SetupKeeps ==
    ASSUME PipeInv, NEW c \in Clients, SendSetup(c)
    PROVE  PipeInv'
<1>1. Turn(c) /\ stage[c] = "SETUP" /\ pktdis' = TRUE /\ overlap' \in BOOLEAN
  <2>1. overlap' = (overlap \/ ~FirmwareIdle \/ \E d \in Clients : d # c /\ stage[d] # "SETUP")
    BY DEF SendSetup
  <2>2. overlap' \in BOOLEAN
    BY <2>1
  <2> QED
    BY <2>2 DEF SendSetup
<1>2. CASE ~out.own
  <2>1. /\ Err(c)
        /\ UNCHANGED <<script, timely, left, out, obuf, events, got, reset, uaddr, in, fpc, ev, cts,
                       naddr, plan, ran>>
    BY <1>2 DEF SendSetup, scenario, fwVars
  <2>2. /\ StageDone(c) \/ UNCHANGED <<at, stage, linked, line>>
        /\ err' \in [Clients -> 0 .. 2] /\ failed' \in [Clients -> BOOLEAN]
    BY <2>1, ErrFacts
  <2>3. HostWhole' /\ HostTypes'
    BY <1>1, <2>1, <2>2, HeadFacts, HostMoves
  <2>4. ControlTypes'
    <3>1. HostTypes'
      BY <1>1, <2>1, <2>2, <2>3 DEF PipeInv, ControlTypes, HostTypes
    <3>2. TransferTypes'
      BY <1>1, <2>1, <2>2, <2>3 DEF PipeInv, ControlTypes, TransferTypes
    <3>3. DeviceTypes'
      BY <1>1, <2>1, <2>2, <2>3 DEF PipeInv, ControlTypes, DeviceTypes
    <3>4. FirmwareTypes'
      BY <1>1, <2>1, <2>2, <2>3 DEF PipeInv, ControlTypes, FirmwareTypes
    <3> QED
      BY <3>1, <3>2, <3>3, <3>4 DEF ControlTypes
  <2> QED
    BY <2>1, <2>3, <2>4 DEF PipeInv, ArmWhole
<1>3. CASE out.own
  <2>1. /\ out' \in [own : BOOLEAN, cnt : {0, SetupSize}, setup : BOOLEAN]
        /\ events' = Append(events, "OUT")
        /\ UNCHANGED <<script, timely, err, failed, got, reset, uaddr, in, fpc, ev, cts, naddr,
                       plan, ran>>
        /\ \/ /\ obuf' = Request(c) /\ StageDone(c) /\ left' = [left EXCEPT ![c] = 0]
           \/ /\ obuf' = obuf /\ UNCHANGED <<at, stage, linked, line>> /\ left' = left
    BY <1>3, SetupFacts
  <2>2. left \in [Clients -> 0 .. ArmSize] /\ left[c] = SetupSize /\ linked \in [Clients -> BOOLEAN]
    BY <1>1, HeadFacts DEF PipeInv, ControlTypes, HostTypes, TransferTypes, DeviceTypes, FirmwareTypes
  <2>3. /\ left' \in [Clients -> 0 .. ArmSize]
        /\ \A d \in Clients : d # c => left'[d] = left[d]
    <3>1. 0 \in 0 .. ArmSize
      BY SizeFacts
    <3> QED
      BY <2>1, <2>2, <3>1
  <2>4. linked'[c] => left'[c] = SetupSize
    BY <2>1, <2>2 DEF StageDone
  <2>5. HostWhole' /\ HostTypes'
    <3>1. /\ StageDone(c) \/ UNCHANGED <<at, stage, linked, line>>
          /\ UNCHANGED <<script, ran>>
          /\ obuf' = obuf \/ (obuf' = Request(c) /\ stage[c] = "SETUP" /\ StageDone(c))
      BY ONLY <1>1, <2>1
    <3>2. linked'[c] => /\ stage[c] = "SETUP" => left'[c] = SetupSize
                        /\ stage[c] = "STATUS" => left'[c] = 0
      BY ONLY <1>1, <2>4
    <3>3. \A d \in Clients : d # c => left'[d] = left[d]
      BY ONLY <2>3
    <3>4. Turn(c)
      BY <1>1
    <3> QED
      BY ONLY <3>1, <3>2, <3>3, <3>4, PipeInv, c \in Clients, HostMoves
  <2>6. obuf' \in Requests /\ events' \in Seq({"OUT", "IN"})
    <3>1. obuf \in Requests /\ events \in Seq({"OUT", "IN"})
      BY DEF PipeInv, ControlTypes, DeviceTypes, FirmwareTypes
    <3> QED
      BY <2>1, <3>1, ScriptFacts, EventAppend
  <2>7. ControlTypes'
    <3>1. HostTypes'
      BY <2>5
    <3>2. TransferTypes'
      BY <1>1, <2>1, <2>3, <2>5, <2>6, SizeFacts DEF PipeInv, ControlTypes, TransferTypes
    <3>3. DeviceTypes'
      BY <1>1, <2>1, <2>3, <2>5, <2>6, SizeFacts DEF PipeInv, ControlTypes, DeviceTypes
    <3>4. FirmwareTypes'
      BY <1>1, <2>1, <2>3, <2>5, <2>6, SizeFacts DEF PipeInv, ControlTypes, FirmwareTypes
    <3> QED
      BY <3>1, <3>2, <3>3, <3>4 DEF ControlTypes
  <2>8. ArmWhole'
    BY <2>1 DEF PipeInv, ArmWhole
  <2> QED
    BY <2>1, <2>5, <2>7, <2>8 DEF PipeInv
<1> QED
  BY <1>2, <1>3 DEF PipeInv, ControlTypes, HostTypes, TransferTypes, DeviceTypes, FirmwareTypes

\* The status stage of a read.
LEMMA OutFacts ==
    ASSUME PipeInv, NEW c \in Clients, SendOut(c)
    PROVE  /\ Turn(c) /\ ~Refused(c) /\ stage[c] = "STATUS" /\ Now(c).len # 0
           /\ out' = [out EXCEPT !.cnt = 0, !.setup = FALSE]
           /\ events' = Append(events, "OUT")
           /\ StageDone(c)
           /\ UNCHANGED <<script, timely, err, left, got, failed, overlap, reset, pktdis, uaddr, in,
                          obuf, fpc, ev, cts, naddr, plan, ran>>
<1>1. /\ Turn(c) /\ ~Refused(c) /\ stage[c] # "SETUP" /\ ~DirIn(c)
      /\ out' = [out EXCEPT !.cnt = Least(@, left[c]), !.setup = FALSE]
      /\ events' = Append(events, "OUT")
      /\ StageDone(c)
      /\ UNCHANGED <<script, timely, err, left, got, failed, overlap, reset, pktdis, uaddr, in,
                     obuf, fpc, ev, cts, naddr, plan, ran>>
  BY DEF SendOut, scenario, fwVars
<1>2. stage[c] = "STATUS" /\ Now(c).len # 0
  BY <1>1 DEF DirIn, PipeInv, ControlTypes, HostTypes, Stages
<1>3. left[c] = 0 /\ out.cnt \in Nat
  <2>1. left[c] = 0
    BY <1>1, <1>2, HeadFacts
  <2>2. out.cnt \in 0 .. ArmSize
    BY DEF PipeInv, ControlTypes, DeviceTypes
  <2> QED
    BY ONLY <2>1, <2>2
<1>4. Least(out.cnt, left[c]) = 0
  BY <1>3 DEF Least
<1> QED
  BY <1>1, <1>2, <1>4

LEMMA OutKeeps ==
    ASSUME PipeInv, NEW c \in Clients, SendOut(c)
    PROVE  PipeInv'
<1>1. /\ Turn(c) /\ stage[c] = "STATUS"
      /\ out' = [out EXCEPT !.cnt = 0, !.setup = FALSE]
      /\ events' = Append(events, "OUT")
      /\ StageDone(c)
      /\ UNCHANGED <<script, timely, err, left, got, failed, overlap, reset, pktdis, uaddr, in,
                     obuf, fpc, ev, cts, naddr, plan, ran>>
  BY OutFacts
<1>2. HostWhole' /\ HostTypes'
  BY <1>1, HeadFacts, HostMoves
<1>3. events' \in Seq({"OUT", "IN"})
  BY <1>1, EventAppend DEF PipeInv
<1>4. out' \in [own : BOOLEAN, cnt : 0 .. ArmSize, setup : BOOLEAN] /\ out'.cnt = 0
  <2>1. 0 \in 0 .. ArmSize /\ out \in [own : BOOLEAN, cnt : 0 .. ArmSize, setup : BOOLEAN]
    BY SizeFacts DEF PipeInv, ControlTypes, DeviceTypes
  <2> QED
    BY <1>1, <2>1
<1>5. ControlTypes'
  <2>1. HostTypes'
    BY <1>1, <1>2, <1>3, <1>4 DEF PipeInv, ControlTypes, HostTypes
  <2>2. TransferTypes'
    BY <1>1, <1>2, <1>3, <1>4 DEF PipeInv, ControlTypes, TransferTypes
  <2>3. DeviceTypes'
    BY <1>1, <1>2, <1>3, <1>4 DEF PipeInv, ControlTypes, DeviceTypes
  <2>4. FirmwareTypes'
    BY <1>1, <1>2, <1>3, <1>4 DEF PipeInv, ControlTypes, FirmwareTypes
  <2> QED
    BY <2>1, <2>2, <2>3, <2>4 DEF ControlTypes
<1>6. ArmWhole'
  BY <1>1, <1>4 DEF PipeInv, ArmWhole
<1> QED
  BY <1>1, <1>2, <1>5, <1>6 DEF PipeInv

LEMMA InFacts ==
    ASSUME PipeInv, NEW c \in Clients, SendIn(c)
    PROVE  /\ Turn(c) /\ ~Refused(c) /\ in.own
           /\ stage[c] = "DATA" \/ (stage[c] = "STATUS" /\ Now(c).len = 0)
           /\ in' = [in EXCEPT !.own = FALSE, !.cnt = 0]
           /\ events' = Append(events, "IN")
           /\ Least(in.cnt, left[c]) \in 0 .. left[c]
           /\ left' = [left EXCEPT ![c] = @ - Least(in.cnt, left[c])]
           /\ got' = IF stage[c] = "DATA" /\ Least(in.cnt, left[c]) > 0
                     THEN [got EXCEPT ![c] = in.of] ELSE got
           /\ Least(in.cnt, left[c]) = left[c] => StageDone(c)
           /\ StageDone(c) \/ UNCHANGED <<at, stage, linked, line>>
           /\ UNCHANGED <<script, timely, err, failed, overlap, reset, pktdis, uaddr, out, obuf,
                          fpc, ev, cts, naddr, plan, ran>>
<1>1. Turn(c) /\ left[c] \in Nat /\ in.cnt \in Nat
  BY DEF SendIn, PipeInv, ControlTypes, HostTypes, TransferTypes, DeviceTypes, FirmwareTypes
<1>2. Least(in.cnt, left[c]) \in 0 .. left[c]
  BY <1>1 DEF Least
<1> QED
  BY <1>2 DEF SendIn, DirIn, scenario, fwVars

LEMMA InKeeps ==
    ASSUME PipeInv, NEW c \in Clients, SendIn(c)
    PROVE  PipeInv'
<1> DEFINE rlen == Least(in.cnt, left[c])
<1>1. /\ Turn(c) /\ (stage[c] = "DATA" \/ stage[c] = "STATUS")
      /\ in' = [in EXCEPT !.own = FALSE, !.cnt = 0]
      /\ events' = Append(events, "IN")
      /\ rlen \in 0 .. left[c]
      /\ left' = [left EXCEPT ![c] = @ - rlen]
      /\ got' = IF stage[c] = "DATA" /\ rlen > 0 THEN [got EXCEPT ![c] = in.of] ELSE got
      /\ StageDone(c) \/ UNCHANGED <<at, stage, linked, line>>
      /\ UNCHANGED <<script, timely, err, failed, overlap, reset, pktdis, uaddr, out, obuf,
                     fpc, ev, cts, naddr, plan, ran>>
  BY InFacts
<1> HIDE DEF rlen
<1>2. /\ left \in [Clients -> 0 .. ArmSize] /\ ArmSize = 64
      /\ stage[c] = "STATUS" => left[c] = 0
  BY <1>1, HeadFacts, SizeFacts DEF PipeInv, ControlTypes, HostTypes, TransferTypes, DeviceTypes, FirmwareTypes
<1>3. /\ left' \in [Clients -> 0 .. ArmSize]
      /\ \A d \in Clients : d # c => left'[d] = left[d]
      /\ stage[c] = "STATUS" => left'[c] = 0
  <2>1. left[c] - rlen \in 0 .. ArmSize /\ (left[c] = 0 => left[c] - rlen = 0)
    <3>1. rlen \in 0 .. left[c] /\ left[c] \in 0 .. 64 /\ ArmSize = 64
      BY <1>1, <1>2
    <3> QED
      BY <3>1
  <2> QED
    BY <1>1, <1>2, <2>1
<1>4. HostWhole' /\ HostTypes'
  BY <1>1, <1>3, HostMoves
<1>5. events' \in Seq({"OUT", "IN"})
  BY <1>1, EventAppend DEF PipeInv
<1>6. /\ in' \in [own : BOOLEAN, cnt : 0 .. ArmSize, of : Requests]
      /\ got' \in [Clients -> Requests]
  <2>1. 0 \in 0 .. ArmSize /\ in \in [own : BOOLEAN, cnt : 0 .. ArmSize, of : Requests]
    BY SizeFacts DEF PipeInv, ControlTypes, DeviceTypes
  <2>2. in.of \in Requests /\ got \in [Clients -> Requests]
    BY <2>1 DEF PipeInv, ControlTypes, TransferTypes
  <2> QED
    BY <1>1, <2>1, <2>2
<1>7. ControlTypes'
  <2>1. HostTypes'
    BY <1>1, <1>3, <1>4, <1>5, <1>6 DEF PipeInv, ControlTypes, HostTypes
  <2>2. TransferTypes'
    BY <1>1, <1>3, <1>4, <1>5, <1>6 DEF PipeInv, ControlTypes, TransferTypes
  <2>3. DeviceTypes'
    BY <1>1, <1>3, <1>4, <1>5, <1>6 DEF PipeInv, ControlTypes, DeviceTypes
  <2>4. FirmwareTypes'
    BY <1>1, <1>3, <1>4, <1>5, <1>6 DEF PipeInv, ControlTypes, FirmwareTypes
  <2> QED
    BY <2>1, <2>2, <2>3, <2>4 DEF ControlTypes
<1>8. ArmWhole'
  BY <1>1 DEF PipeInv, ArmWhole
<1> QED
  BY <1>1, <1>4, <1>7, <1>8 DEF PipeInv

-----------------------------------------------------------------------------
(***************************************************************************)
(* The firmware.  It leaves alone what belongs to the hosts, except that a *)
(* request is run.                                                         *)
(***************************************************************************)
LEMMA HostsAlone ==
    ASSUME PipeInv, UNCHANGED <<script, timely, at, stage, linked, left, line, obuf, ran>>
    PROVE  HostWhole' /\ HostTypes'
<1>1. (obuf = None \/ Made(obuf))'
  BY DEF PipeInv, HostWhole, Made, Transfer
<1>2. HostWhole'
  BY <1>1 DEF PipeInv, HostWhole, Running, Now
<1>3. HostTypes'
  BY DEF PipeInv, ControlTypes, HostTypes
<1> QED
  BY <1>2, <1>3

LEMMA LoopKeeps == PipeInv /\ (Loop \/ Early \/ Enable \/ ResetRegs) => PipeInv'
<1> SUFFICES ASSUME PipeInv, Loop \/ Early \/ Enable \/ ResetRegs PROVE PipeInv'
  OBVIOUS
<1>1. plan.then \in {"loop", "poll"}
  BY DEF PipeInv, ControlTypes, FirmwareTypes
<1>2. /\ UNCHANGED <<script, timely, at, stage, linked, err, left, line, got, failed, overlap, out,
                     in, obuf, events, ev, cts, naddr, plan, ran>>
      /\ (reset' = reset \/ reset' = FALSE) /\ (pktdis' = pktdis \/ pktdis' = FALSE)
      /\ uaddr' \in {uaddr, 0}
      /\ fpc' \in {"regs", "poll", "cnt", "bdt", "loop"}
  BY <1>1 DEF Loop, Early, Enable, ResetRegs, hostVars, scenario
<1>3. HostWhole' /\ HostTypes'
  BY <1>2, HostsAlone
<1>4. TransferTypes'
  BY <1>2 DEF PipeInv, ControlTypes, TransferTypes
<1>5. DeviceTypes'
  <2>1. reset \in BOOLEAN /\ pktdis \in BOOLEAN /\ uaddr \in 0 .. 1
    BY DEF PipeInv, ControlTypes, DeviceTypes
  <2>2. reset' \in BOOLEAN
    BY <1>2, <2>1
  <2>3. pktdis' \in BOOLEAN
    BY <1>2, <2>1
  <2>4. uaddr' \in 0 .. 1
    BY <1>2, <2>1
  <2> QED
    BY <1>2, <2>2, <2>3, <2>4 DEF PipeInv, ControlTypes, DeviceTypes
<1>6. FirmwareTypes'
  BY <1>2 DEF PipeInv, ControlTypes, FirmwareTypes
<1> QED
  BY <1>2, <1>3, <1>4, <1>5, <1>6 DEF PipeInv, ControlTypes, ArmWhole

LEMMA NoneFacts == None \in Requests /\ 0 \in 0 .. ArmSize /\ ArmSize \in 0 .. ArmSize
BY SizeFacts DEF Requests

LEMMA ResetBdtKeeps == PipeInv /\ ResetBdt => PipeInv'
<1> SUFFICES ASSUME PipeInv, ResetBdt PROVE PipeInv'
  OBVIOUS
<1>1. /\ UNCHANGED <<script, timely, at, stage, linked, err, left, line, got, failed, overlap,
                     reset, pktdis, uaddr, obuf, events, ev, cts, naddr, ran>>
      /\ out' = [own |-> FALSE, cnt |-> 0, setup |-> FALSE]
      /\ in' = [own |-> FALSE, cnt |-> 0, of |-> None]
      /\ plan' = ArmOut("poll") /\ fpc' = "cnt"
  BY DEF ResetBdt, hostVars, scenario
<1>2. HostWhole' /\ HostTypes'
  BY <1>1, HostsAlone
<1>3. TransferTypes'
  BY <1>1 DEF PipeInv, ControlTypes, TransferTypes
<1>4. DeviceTypes'
  BY <1>1, NoneFacts DEF PipeInv, ControlTypes, DeviceTypes
<1>5. FirmwareTypes'
  BY <1>1, NoneFacts DEF PipeInv, ControlTypes, FirmwareTypes, ArmOut
<1>6. ArmWhole'
  BY <1>1 DEF ArmWhole, ArmOut
<1> QED
  BY <1>1, <1>2, <1>3, <1>4, <1>5, <1>6 DEF PipeInv, ControlTypes

LEMMA EventsTail ==
    ASSUME ControlTypes, events # <<>>
    PROVE  /\ Head(events) \in {"OUT", "IN"} /\ Head(events) \in Range(events)
           /\ Tail(events) \in Seq({"OUT", "IN"})
           /\ Range(Tail(events)) \subseteq Range(events)
<1>1. events \in Seq({"OUT", "IN"})
  BY DEF ControlTypes, DeviceTypes
<1>2. Len(events) \in Nat /\ Len(events) # 0 /\ DOMAIN events = 1 .. Len(events)
  BY <1>1, LenProperties, EmptySeq
<1>3. /\ Head(events) = events[1] /\ Head(events) \in {"OUT", "IN"}
      /\ Tail(events) \in Seq({"OUT", "IN"}) /\ Len(Tail(events)) = Len(events) - 1
      /\ \A i \in 1 .. Len(events) - 1 : Tail(events)[i] = events[i + 1]
  BY <1>1, HeadTailProperties
<1>4. DOMAIN Tail(events) = 1 .. Len(events) - 1
  BY <1>3, LenProperties
<1>5. \A i \in 1 .. Len(events) - 1 : i + 1 \in DOMAIN events
  BY <1>2
<1>6. 1 \in DOMAIN events
  BY <1>2
<1> QED
  BY <1>3, <1>4, <1>5, <1>6 DEF Range

LEMMA PollKeeps == PipeInv /\ Poll => PipeInv'
<1> SUFFICES ASSUME PipeInv, Poll PROVE PipeInv'
  OBVIOUS
<1>1. /\ UNCHANGED <<script, timely, at, stage, linked, err, left, line, got, failed, overlap,
                     reset, pktdis, uaddr, out, in, obuf, cts, naddr, plan, ran>>
      /\ IF events = <<>>
         THEN fpc' = "loop" /\ UNCHANGED <<events, ev>>
         ELSE ev' = Head(events) /\ events' = Tail(events) /\ fpc' = "decide"
  BY DEF Poll, hostVars, scenario, regVars
<1>2. HostWhole' /\ HostTypes'
  BY <1>1, HostsAlone
<1>3. TransferTypes'
  BY <1>1 DEF PipeInv, ControlTypes, TransferTypes
<1>4. events' \in Seq({"OUT", "IN"}) /\ ev' \in {"OUT", "IN"} /\ fpc' \in {"loop", "decide"}
  BY <1>1, EventsTail DEF PipeInv, ControlTypes, DeviceTypes, FirmwareTypes
<1>5. DeviceTypes'
  BY <1>1, <1>4 DEF PipeInv, ControlTypes, DeviceTypes
<1>6. FirmwareTypes'
  BY <1>1, <1>4 DEF PipeInv, ControlTypes, FirmwareTypes
<1> QED
  BY <1>1, <1>2, <1>3, <1>5, <1>6 DEF PipeInv, ControlTypes, ArmWhole

\* To an event that is no SETUP the firmware has one answer: to receive again.
LEMMA DecideFacts ==
    ASSUME PipeInv, Decide
    PROVE  /\ fpc = "decide"
           /\ UNCHANGED <<script, timely, at, stage, linked, err, left, line, got, failed, overlap,
                          reset, pktdis, out, in, obuf, events, ev, naddr, ran>>
           /\ \/ ev = "OUT" /\ out.setup /\ fpc' = "copy" /\ UNCHANGED <<uaddr, cts, plan>>
              \/ ~(ev = "OUT" /\ out.setup) /\ fpc' = "loop" /\ UNCHANGED <<uaddr, cts, plan>>
              \/ /\ ~(ev = "OUT" /\ out.setup) /\ fpc' = "cnt" /\ plan' = ArmOut("loop")
                 /\ uaddr' \in {uaddr, naddr} /\ cts' \in {"ACKIN", "SETUP", "ACKAD"}
<1>1. cts \in {"SETUP", "DATA", "ACKIN", "ACKAD", "ACKSC"}
  BY DEF PipeInv, ControlTypes, FirmwareTypes
<1> QED
  BY <1>1 DEF Decide, hostVars, scenario

LEMMA DecideKeeps == PipeInv /\ Decide => PipeInv'
<1> SUFFICES ASSUME PipeInv, Decide PROVE PipeInv'
  OBVIOUS
<1>1. /\ UNCHANGED <<script, timely, at, stage, linked, err, left, line, got, failed, overlap,
                     reset, pktdis, out, in, obuf, events, ev, naddr, ran>>
      /\ uaddr' \in {uaddr, naddr}
      /\ fpc' \in {"copy", "loop", "cnt"}
      /\ plan' = plan \/ plan' = ArmOut("loop")
      /\ cts' \in {cts, "ACKIN", "SETUP", "ACKAD"}
  BY DecideFacts
<1>2. HostWhole' /\ HostTypes'
  BY <1>1, HostsAlone
<1>3. TransferTypes'
  BY <1>1 DEF PipeInv, ControlTypes, TransferTypes
<1>4. DeviceTypes'
  BY <1>1 DEF PipeInv, ControlTypes, DeviceTypes, FirmwareTypes
<1>5. plan' \in [side : {"out", "in"}, cnt : 0 .. ArmSize, of : Requests, then : {"loop", "poll"}]
  BY <1>1, NoneFacts DEF PipeInv, ControlTypes, FirmwareTypes, ArmOut
<1>6. FirmwareTypes'
  BY <1>1, <1>5 DEF PipeInv, ControlTypes, FirmwareTypes
<1>7. ArmWhole'
  BY <1>1 DEF PipeInv, ArmWhole, ArmOut
<1> QED
  BY <1>1, <1>2, <1>3, <1>4, <1>6, <1>7 DEF PipeInv, ControlTypes

\* The request that is run, and the descriptor that is planned for it.
LEMMA CopyFacts ==
    ASSUME PipeInv, Copy
    PROVE  /\ fpc = "copy"
           /\ UNCHANGED <<script, timely, at, stage, linked, err, left, line, got, failed, overlap,
                          reset, pktdis, uaddr, out, in, obuf, events, ev>>
           /\ \A c \in Clients : ran'[c] = IF obuf = Request(c) /\ ran[c] < 2
                                           THEN ran[c] + 1 ELSE ran[c]
           /\ ran' \in [Clients -> 0 .. 2]
           /\ \/ /\ obuf = None \/ Transfer(obuf).kind = "OTHER"
                 /\ fpc' = "loop" /\ UNCHANGED <<cts, naddr, plan>>
              \/ /\ obuf # None /\ obuf.client \in Clients
                 /\ Transfer(obuf) \in Transfers /\ Transfer(obuf).kind \in {"GET", "ADDR", "CONF"}
                 /\ plan' = ArmIn(Transfer(obuf).len, obuf)
                 /\ fpc' = IF Transfer(obuf).kind = "CONF" THEN "early" ELSE "cnt"
                 /\ cts' \in {"DATA", "ACKAD", "ACKSC"} /\ naddr' \in {naddr, 1}
<1>1. /\ fpc = "copy"
      /\ UNCHANGED <<script, timely, at, stage, linked, err, left, line, got, failed, overlap,
                     reset, pktdis, out, in, obuf, events, ev>>
      /\ ran' = [c \in Clients |-> IF obuf = Request(c) /\ ran[c] < 2
                                   THEN ran[c] + 1 ELSE ran[c]]
  BY DEF Copy, hostVars, scenario
<1>2. ran' \in [Clients -> 0 .. 2]
  <2>1. ran \in [Clients -> 0 .. 2]
    BY DEF PipeInv, ControlTypes, TransferTypes
  <2>2. \A c \in Clients : (IF obuf = Request(c) /\ ran[c] < 2 THEN ran[c] + 1 ELSE ran[c]) \in 0 .. 2
    BY <2>1
  <2> QED
    BY <1>1, <2>2
<1>3. CASE obuf = None \/ Transfer(obuf).kind = "OTHER"
  <2>1. fpc' = "loop" /\ UNCHANGED <<uaddr, cts, naddr, plan>>
    BY <1>3 DEF Copy
  <2> QED
    BY <1>1, <1>2, <1>3, <2>1
<1>4. CASE ~(obuf = None \/ Transfer(obuf).kind = "OTHER")
  <2> DEFINE r == Transfer(obuf)
  <2>1. Answer(r, obuf)
    BY <1>4 DEF Copy
  <2>2. /\ obuf.client \in Clients /\ r \in Transfers /\ r.kind # "RESET" /\ r.kind # "OTHER"
    BY <1>4, ScriptFacts DEF PipeInv, HostWhole, Made, Transfer
  <2> HIDE DEF r
  <2>3. r.kind \in {"GET", "ADDR", "CONF"} /\ (r.kind = "GET" \/ r.len = 0)
    BY <2>2, TransferFacts DEF Kinds
  <2>4. (IF r.kind = "GET" THEN r.len ELSE 0) = r.len
    BY <2>3
  <2>5. /\ plan' = ArmIn(r.len, obuf) /\ uaddr' = uaddr
        /\ fpc' = IF r.kind = "CONF" THEN "early" ELSE "cnt"
        /\ cts' \in {"DATA", "ACKAD", "ACKSC"} /\ naddr' \in {naddr, 1}
    BY <2>1, <2>3, <2>4 DEF Answer
  <2> QED
    BY <1>1, <1>2, <1>4, <2>2, <2>3, <2>5 DEF r
<1> QED
  BY <1>3, <1>4

LEMMA CopyKeeps == PipeInv /\ Copy => PipeInv'
<1> SUFFICES ASSUME PipeInv, Copy PROVE PipeInv'
  OBVIOUS
<1>1. /\ UNCHANGED <<script, timely, at, stage, linked, err, left, line, got, failed, overlap,
                     reset, pktdis, uaddr, out, in, obuf, events, ev>>
      /\ \A c \in Clients : ran'[c] = IF obuf = Request(c) /\ ran[c] < 2
                                      THEN ran[c] + 1 ELSE ran[c]
      /\ ran' \in [Clients -> 0 .. 2]
      /\ fpc' \in {"loop", "early", "cnt"} /\ naddr' \in {naddr, 1}
      /\ cts' \in {cts, "DATA", "ACKAD", "ACKSC"}
  BY CopyFacts
<1>2. \/ plan' = plan
      \/ Transfer(obuf) \in Transfers /\ plan' = ArmIn(Transfer(obuf).len, obuf)
  BY CopyFacts
<1>3. (obuf = None \/ Made(obuf))'
  BY <1>1 DEF PipeInv, HostWhole, Made, Transfer
<1>4. \A c \in Clients : linked[c] /\ stage[c] = "SETUP" => ran'[c] = 0
  <2> SUFFICES ASSUME NEW c \in Clients, linked[c], stage[c] = "SETUP" PROVE ran'[c] = 0
    OBVIOUS
  <2>1. ran[c] = 0 /\ (obuf = None \/ Made(obuf))
    BY DEF PipeInv, HostWhole
  <2>2. obuf # Request(c)
    <3>1. Request(c) # None /\ Request(c).client = c /\ Request(c).at = at[c] /\ at[c] \in Nat
      BY ScriptFacts
    <3> QED
      BY <2>1, <3>1 DEF Made
  <2> QED
    BY <1>1, <2>1, <2>2
<1>5. HostWhole'
  BY <1>1, <1>3, <1>4 DEF PipeInv, HostWhole, Running, Now
<1>6. HostTypes'
  BY <1>1 DEF PipeInv, ControlTypes, HostTypes
<1>7. TransferTypes'
  BY <1>1 DEF PipeInv, ControlTypes, TransferTypes
<1>8. DeviceTypes'
  BY <1>1 DEF PipeInv, ControlTypes, DeviceTypes
<1>9. FirmwareTypes'
  <2>1. plan' \in [side : {"out", "in"}, cnt : 0 .. ArmSize, of : Requests, then : {"loop", "poll"}]
    <3>1. obuf \in Requests /\ plan \in [side : {"out", "in"}, cnt : 0 .. ArmSize, of : Requests,
                                         then : {"loop", "poll"}]
      BY DEF PipeInv, ControlTypes, DeviceTypes, FirmwareTypes
    <3>2. Transfer(obuf) \in Transfers => Transfer(obuf).len \in 0 .. ArmSize
      BY TransferFacts, SizeFacts
    <3> QED
      BY <1>2, <3>1, <3>2 DEF ArmIn
  <2> QED
    BY <1>1, <2>1 DEF PipeInv, ControlTypes, FirmwareTypes
<1>10. ArmWhole'
  BY <1>1, <1>2 DEF PipeInv, ArmWhole, ArmIn
<1> QED
  BY <1>1, <1>5, <1>6, <1>7, <1>8, <1>9, <1>10 DEF PipeInv, ControlTypes

\* usb_ep_transf_start writes one of the descriptors.
LEMMA ArmFacts ==
    ASSUME PipeInv, ArmCnt \/ ArmStat
    PROVE  /\ UNCHANGED <<script, timely, at, stage, linked, err, left, line, got, failed, overlap,
                          reset, pktdis, uaddr, obuf, events, ev, cts, naddr, plan, ran>>
           /\ out' \in [own : BOOLEAN, cnt : 0 .. ArmSize, setup : BOOLEAN]
           /\ in' \in [own : BOOLEAN, cnt : 0 .. ArmSize, of : Requests]
           /\ out'.cnt \in {out.cnt, ArmSize} /\ out'.setup \in {out.setup, FALSE}
           /\ ArmCnt => fpc = "cnt" /\ fpc' = "stat" /\ out'.setup = out.setup
           /\ ArmStat => fpc = "stat" /\ fpc' = "enable"
<1>1. /\ UNCHANGED <<script, timely, at, stage, linked, err, left, line, got, failed, overlap,
                     reset, pktdis, uaddr, obuf, events, ev, cts, naddr, plan, ran>>
      /\ ArmCnt => fpc = "cnt" /\ fpc' = "stat"
      /\ ArmStat => fpc = "stat" /\ fpc' = "enable"
  BY DEF ArmCnt, ArmStat, hostVars, scenario
<1>2. /\ plan \in [side : {"out", "in"}, cnt : 0 .. ArmSize, of : Requests, then : {"loop", "poll"}]
      /\ out \in [own : BOOLEAN, cnt : 0 .. ArmSize, setup : BOOLEAN]
      /\ in \in [own : BOOLEAN, cnt : 0 .. ArmSize, of : Requests]
      /\ plan.side = "out" => plan.cnt = ArmSize
  BY DEF PipeInv, ControlTypes, DeviceTypes, FirmwareTypes, ArmWhole
<1>3. CASE ArmCnt
  BY <1>1, <1>2, <1>3 DEF ArmCnt
<1>4. CASE ArmStat
  BY <1>1, <1>2, <1>4 DEF ArmStat
<1> QED
  BY <1>3, <1>4

LEMMA ArmKeeps == PipeInv /\ (ArmCnt \/ ArmStat) => PipeInv'
<1> SUFFICES ASSUME PipeInv, ArmCnt \/ ArmStat PROVE PipeInv'
  OBVIOUS
<1>1. /\ UNCHANGED <<script, timely, at, stage, linked, err, left, line, got, failed, overlap,
                     reset, pktdis, uaddr, obuf, events, ev, cts, naddr, plan, ran>>
      /\ out' \in [own : BOOLEAN, cnt : 0 .. ArmSize, setup : BOOLEAN]
      /\ in' \in [own : BOOLEAN, cnt : 0 .. ArmSize, of : Requests]
      /\ out'.cnt \in {out.cnt, ArmSize} /\ fpc' \in {"stat", "enable"}
  BY ArmFacts
<1>2. HostWhole' /\ HostTypes'
  BY <1>1, HostsAlone
<1>3. TransferTypes'
  BY <1>1 DEF PipeInv, ControlTypes, TransferTypes
<1>4. DeviceTypes'
  BY <1>1 DEF PipeInv, ControlTypes, DeviceTypes
<1>5. FirmwareTypes'
  BY <1>1 DEF PipeInv, ControlTypes, FirmwareTypes
<1>6. ArmWhole'
  BY <1>1 DEF PipeInv, ArmWhole
<1> QED
  BY <1>1, <1>2, <1>3, <1>4, <1>5, <1>6 DEF PipeInv, ControlTypes

LEMMA PipeStutter == PipeInv /\ UNCHANGED vars => PipeInv'
<1> SUFFICES ASSUME PipeInv, UNCHANGED vars PROVE PipeInv'
  OBVIOUS
<1>1. UNCHANGED <<script, timely, at, stage, linked, err, left, line, got, failed, overlap, reset,
                  pktdis, uaddr, out, in, obuf, events, fpc, ev, cts, naddr, plan, ran>>
  BY DEF vars, hostVars, scenario, regVars, fwVars
<1>2. HostWhole' /\ HostTypes'
  BY <1>1, HostsAlone
<1>3. TransferTypes' /\ DeviceTypes' /\ FirmwareTypes'
  BY <1>1 DEF PipeInv, ControlTypes, TransferTypes, DeviceTypes, FirmwareTypes
<1> QED
  BY <1>1, <1>2, <1>3 DEF PipeInv, ControlTypes, ArmWhole

LEMMA PipeInit == Init => PipeInv
<1> SUFFICES ASSUME Init PROVE PipeInv
  OBVIOUS
<1>1. script \in [Clients -> Seq(Transfers)] /\ timely \in BOOLEAN
  BY ScenarioAssumption DEF Init
<1>2. \A c \in Clients : Len(script[c]) \in Nat
  BY <1>1, LenProperties
<1>3. HostTypes
  <2>1. line \in Seq(Clients) /\ Range(line) = {} /\ IsInjective(line)
    BY DEF Init, Range, IsInjective
  <2>2. /\ at \in [Clients -> Nat] /\ stage \in [Clients -> Stages]
        /\ linked \in [Clients -> BOOLEAN] /\ \A c \in Clients : ~linked[c]
    BY DEF Init, Stages
  <2>3. \A c \in Clients : at[c] \in 1 .. Len(script[c]) + 1
    BY <1>2 DEF Init
  <2>4. Range(line) = {c \in Clients : linked[c]}
    BY <2>1, <2>2
  <2> QED
    BY <2>1, <2>2, <2>3, <2>4 DEF HostTypes
<1>4. TransferTypes
  <2>1. /\ err = [c \in Clients |-> 0] /\ left = [c \in Clients |-> 0]
        /\ got = [c \in Clients |-> None] /\ ran = [c \in Clients |-> 0]
        /\ failed = [c \in Clients |-> FALSE] /\ overlap = FALSE
    BY DEF Init
  <2>2. err \in [Clients -> 0 .. 2] /\ ran \in [Clients -> 0 .. 2] /\ left \in [Clients -> 0 .. ArmSize]
    BY <2>1, NoneFacts
  <2>3. got \in [Clients -> Requests]
    BY <2>1, NoneFacts
  <2>4. failed \in [Clients -> BOOLEAN]
    BY <2>1
  <2>5. overlap \in BOOLEAN
    BY <2>1
  <2> QED
    BY <2>2, <2>3, <2>4, <2>5 DEF TransferTypes
<1>5. DeviceTypes
  <2>1. /\ reset = FALSE /\ pktdis = FALSE /\ uaddr = 0 /\ obuf = None /\ events = <<>>
        /\ out = [own |-> FALSE, cnt |-> 0, setup |-> FALSE]
        /\ in = [own |-> FALSE, cnt |-> 0, of |-> None]
    BY DEF Init
  <2>2. <<>> \in Seq({"OUT", "IN"})
    OBVIOUS
  <2>3. out \in [own : BOOLEAN, cnt : 0 .. ArmSize, setup : BOOLEAN]
    BY <2>1, NoneFacts
  <2>4. in \in [own : BOOLEAN, cnt : 0 .. ArmSize, of : Requests]
    BY <2>1, NoneFacts
  <2>5. reset \in BOOLEAN /\ pktdis \in BOOLEAN
    BY <2>1
  <2>6. uaddr \in 0 .. 1 /\ obuf \in Requests /\ events \in Seq({"OUT", "IN"})
    BY <2>1, <2>2, NoneFacts
  <2> QED
    BY <2>3, <2>4, <2>5, <2>6 DEF DeviceTypes
<1>6. FirmwareTypes
  BY NoneFacts DEF Init, FirmwareTypes, ArmOut
<1>7. HostWhole
  BY DEF Init, HostWhole
<1>8. ArmWhole
  BY DEF Init, ArmWhole, ArmOut
<1> QED
  BY <1>1, <1>3, <1>4, <1>5, <1>6, <1>7, <1>8 DEF PipeInv, ControlTypes

LEMMA PipeStep == PipeInv /\ [Next]_vars => PipeInv'
<1> SUFFICES ASSUME PipeInv, [Next]_vars PROVE PipeInv'
  OBVIOUS
<1>1. CASE UNCHANGED vars
  BY <1>1, PipeStutter
<1>2. CASE Firmware
  BY <1>2, LoopKeeps, ResetBdtKeeps, PollKeeps, DecideKeeps, CopyKeeps, ArmKeeps DEF Firmware
<1>3. ASSUME NEW c \in Clients, Host(c) \/ Packet(c) PROVE PipeInv'
  BY <1>3, BusResetKeeps, SubmitKeeps, RefusedKeeps, SetupKeeps, OutKeeps, InKeeps DEF Host, Packet
<1> QED
  BY <1>1, <1>2, <1>3 DEF Next

\* Types, for any scripts of any number of host threads at any speed.  (That 16
\* slots are enough for the events: RingIsLargeEnough.)
THEOREM ControlTypeCorrect == Spec => []ControlTypes
<1>1. PipeInv => ControlTypes
  BY DEF PipeInv
<1> QED
  BY <1>1, PipeInit, PipeStep, PTL DEF Spec

\* Whatever the firmware and the hosts do meanwhile, what is left of a SETUP
\* packet that was refused or not taken is the whole packet: the descriptor of
\* endpoint 0 OUT has room for all of it or for none.
THEOREM SetupStaysWhole == Spec => []SetupWhole
<1>1. PipeInv => SetupWhole
  BY DEF PipeInv, HostWhole, SetupWhole
<1> QED
  BY <1>1, PipeInit, PipeStep, PTL DEF Spec


-----------------------------------------------------------------------------
(***************************************************************************)
(* The honesty of a transfer: as long as SETUP packets come to an idle     *)
(* firmware and no transfer is begun in the midst of another one, there is *)
(* one live transfer, and the device works for it alone.                   *)
(***************************************************************************)
\* Nobody but c is moved by the end of c's stage.
LEMMA StageFacts ==
    ASSUME PipeInv, NEW c \in Clients, UNCHANGED script,
           StageDone(c) \/ UNCHANGED <<at, stage, linked, line>>
    PROVE  /\ \A d \in Clients : d # c => /\ stage'[d] = stage[d] /\ (linked'[d] <=> linked[d])
                                          /\ at'[d] = at[d]
                                          /\ Request(d)' = Request(d) /\ Now(d)' = Now(d)
           /\ StageDone(c) =>
                /\ stage'[c] = CASE stage[c] = "SETUP" /\ Now(c).len > 0 -> "DATA"
                                 [] stage[c] = "STATUS" -> "SETUP"
                                 [] OTHER -> "STATUS"
                /\ ~linked'[c]
                /\ stage[c] # "STATUS" => /\ at'[c] = at[c]
                                          /\ Request(c)' = Request(c) /\ Now(c)' = Now(c)
<1>1. stage \in [Clients -> Stages] /\ at \in [Clients -> Nat] /\ linked \in [Clients -> BOOLEAN]
  BY DEF PipeInv, ControlTypes, HostTypes
<1>2. CASE UNCHANGED <<at, stage, linked, line>> /\ ~StageDone(c)
  BY <1>2 DEF Request, Now
<1>3. CASE StageDone(c)
  <2>1. /\ linked' = [linked EXCEPT ![c] = FALSE]
        /\ stage' = [stage EXCEPT ![c] = CASE @ = "SETUP" /\ Now(c).len > 0 -> "DATA"
                                           [] @ = "STATUS" -> "SETUP"
                                           [] OTHER -> "STATUS"]
        /\ at' = IF stage[c] = "STATUS" THEN [at EXCEPT ![c] = @ + 1] ELSE at
    BY <1>3 DEF StageDone
  <2>2. \A d \in Clients : linked'[d] <=> linked[d] /\ d # c
    BY <1>1, <2>1
  <2>3. \A d \in Clients : d # c => stage'[d] = stage[d] /\ at'[d] = at[d]
    BY <1>1, <2>1
  <2>4. stage'[c] = CASE stage[c] = "SETUP" /\ Now(c).len > 0 -> "DATA"
                      [] stage[c] = "STATUS" -> "SETUP"
                      [] OTHER -> "STATUS"
    BY <1>1, <2>1
  <2> QED
    BY <2>1, <2>2, <2>3, <2>4 DEF Request, Now
<1> QED
  BY <1>2, <1>3

\* A client that the step leaves alone stays honest if its phase fits.
LEMMA SameHonest ==
    ASSUME NEW c \in Clients, Honest(c), obuf' = obuf,
           stage'[c] = stage[c], got'[c] = got[c], left'[c] = left[c],
           linked'[c] => linked[c], Request(c)' = Request(c), Now(c)' = Now(c),
           (Unheard(c) \/ Ignored(c) \/ Taken(c))'
    PROVE  Honest(c)'
BY DEF Honest

LEMMA FirmwareHonest ==
    ASSUME HonestInv,
           UNCHANGED <<script, at, stage, linked, left, got, failed, overlap, obuf>>,
           \A c \in Clients : Live(c) /\ Honest(c) => (Unheard(c) \/ Ignored(c) \/ Taken(c))'
    PROVE  HonestInv'
<1> SUFFICES ASSUME ~overlap', NEW c \in Clients, Live(c)' PROVE Honest(c)'
  BY DEF HonestInv
<1>1. Live(c) /\ ~overlap
  BY DEF Live
<1>2. Honest(c)
  BY <1>1 DEF HonestInv
<1>3. (Unheard(c) \/ Ignored(c) \/ Taken(c))'
  BY <1>1, <1>2
<1> QED
  BY <1>2, <1>3, SameHonest DEF Request, Now

LEMMA LoopHonest == PipeInv /\ HonestInv /\ (Loop \/ Early \/ Enable \/ ResetRegs) => HonestInv'
<1> SUFFICES ASSUME PipeInv, HonestInv, Loop \/ Early \/ Enable \/ ResetRegs PROVE HonestInv'
  OBVIOUS
<1>1. UNCHANGED <<script, at, stage, linked, left, got, failed, overlap, out, in, obuf, events, ev,
                  plan, ran>>
  BY DEF Loop, Early, Enable, ResetRegs, hostVars, scenario
<1>2. plan.then \in {"loop", "poll"}
  BY DEF PipeInv, ControlTypes, FirmwareTypes
<1> SUFFICES ASSUME NEW c \in Clients, Live(c), Honest(c)
             PROVE  (Unheard(c) \/ Ignored(c) \/ Taken(c))'
  BY <1>1, FirmwareHonest
<1>3. CASE Unheard(c) \/ Ignored(c)
  <2>1. Loop
    BY <1>3 DEF Unheard, Ignored, Early, Enable, ResetRegs
  <2>2. fpc' = "poll" /\ reset' = FALSE /\ pktdis' = pktdis /\ fpc = "loop"
    BY <1>3, <2>1 DEF Unheard, Ignored, Loop
  <2> QED
    BY <1>1, <1>3, <2>2 DEF Unheard, Ignored, Now
<1>4. CASE Taken(c)
  <2>1. /\ fpc' \notin {"copy", "decide", "early", "stat"} /\ fpc # "decide"
        /\ fpc' = "cnt" => fpc = "early"
        /\ fpc \notin {"cnt", "stat"}
    BY <1>2 DEF Loop, Early, Enable, ResetRegs
  <2>2. stage[c] = "DATA" => DataReady(c)'
    BY <1>1, <1>4, <2>1 DEF Taken, DataReady, Request, Now
  <2> QED
    BY <1>1, <1>4, <2>1, <2>2 DEF Taken
<1> QED
  BY <1>3, <1>4 DEF Honest

LEMMA ResetBdtHonest == PipeInv /\ HonestInv /\ ResetBdt => HonestInv'
<1> SUFFICES ASSUME PipeInv, HonestInv, ResetBdt PROVE HonestInv'
  OBVIOUS
<1>1. /\ UNCHANGED <<script, at, stage, linked, left, got, failed, overlap, obuf, ran>>
      /\ fpc = "bdt" /\ fpc' = "cnt" /\ plan'.side = "out" /\ ~out'.setup /\ ~in'.own
  BY DEF ResetBdt, hostVars, scenario, ArmOut
<1> SUFFICES ASSUME NEW c \in Clients, Live(c), Honest(c)
             PROVE  (Unheard(c) \/ Ignored(c) \/ Taken(c))'
  BY <1>1, FirmwareHonest
<1>2. Taken(c)
  BY <1>1 DEF Honest, Unheard, Ignored
<1>3. DataReady(c)'
  BY <1>1 DEF DataReady
<1> QED
  BY <1>1, <1>2, <1>3 DEF Taken

LEMMA PollHonest == PipeInv /\ HonestInv /\ Poll => HonestInv'
<1> SUFFICES ASSUME PipeInv, HonestInv, Poll PROVE HonestInv'
  OBVIOUS
<1>1. /\ UNCHANGED <<script, at, stage, linked, left, got, failed, overlap, reset, pktdis, out, in,
                     obuf, plan, ran>>
      /\ fpc = "poll"
      /\ IF events = <<>>
         THEN fpc' = "loop" /\ UNCHANGED <<events, ev>>
         ELSE ev' = Head(events) /\ events' = Tail(events) /\ fpc' = "decide"
  BY DEF Poll, hostVars, scenario, regVars
<1> SUFFICES ASSUME NEW c \in Clients, Live(c), Honest(c)
             PROVE  (Unheard(c) \/ Ignored(c) \/ Taken(c))'
  BY <1>1, FirmwareHonest
<1>2. CASE Unheard(c)
  <2>1. events = <<"OUT">>
    BY <1>1, <1>2 DEF Unheard
  <2>2. ev' = "OUT" /\ events' = <<>> /\ fpc' = "decide"
    BY <1>1, <2>1
  <2> QED
    BY <1>1, <1>2, <2>2 DEF Unheard
<1>3. CASE Ignored(c)
  BY <1>1, <1>3 DEF Ignored, Now
<1>4. CASE Taken(c)
  <2>1. /\ Range(events') \subseteq Range(events)
        /\ fpc' = "decide" => ev' \in Range(events)
        /\ fpc' \in {"loop", "decide"}
    BY <1>1, EventsTail DEF PipeInv
  <2>2. ("OUT" \in Range(events') \/ (fpc' = "decide" /\ ev' = "OUT")) => ~out'.setup
    BY <1>1, <1>4, <2>1 DEF Taken
  <2>3. stage[c] = "DATA" => DataReady(c)'
    BY <1>1, <1>4, <2>1 DEF Taken, DataReady, Request, Now
  <2> QED
    BY <1>1, <1>4, <2>1, <2>2, <2>3 DEF Taken
<1> QED
  BY <1>2, <1>3, <1>4 DEF Honest

LEMMA DecideHonest == PipeInv /\ HonestInv /\ Decide => HonestInv'
<1> SUFFICES ASSUME PipeInv, HonestInv, Decide PROVE HonestInv'
  OBVIOUS
<1>1. /\ UNCHANGED <<script, at, stage, linked, left, got, failed, overlap, reset, pktdis, out, in,
                     obuf, events, ev, ran>>
      /\ fpc = "decide"
      /\ \/ ev = "OUT" /\ out.setup /\ fpc' = "copy"
         \/ ~(ev = "OUT" /\ out.setup) /\ fpc' = "loop"
         \/ ~(ev = "OUT" /\ out.setup) /\ fpc' = "cnt" /\ plan' = ArmOut("loop")
  BY DecideFacts
<1> SUFFICES ASSUME NEW c \in Clients, Live(c), Honest(c)
             PROVE  (Unheard(c) \/ Ignored(c) \/ Taken(c))'
  BY <1>1, FirmwareHonest
<1>2. CASE Unheard(c)
  BY <1>1, <1>2 DEF Unheard
<1>3. CASE Ignored(c)
  BY <1>1, <1>3 DEF Ignored
<1>4. CASE Taken(c)
  <2>1. fpc' = "loop" \/ (fpc' = "cnt" /\ plan'.side = "out")
    BY <1>1, <1>4 DEF Taken, ArmOut
  <2>2. stage[c] = "DATA" => DataReady(c)'
    BY <1>1, <1>4, <2>1 DEF Taken, DataReady, Request, Now
  <2> QED
    BY <1>1, <1>4, <2>1, <2>2 DEF Taken
<1> QED
  BY <1>2, <1>3, <1>4 DEF Honest

LEMMA NoEvents == Range(<<>>) = {}
BY DEF Range

LEMMA CopyHonest == PipeInv /\ HonestInv /\ Copy => HonestInv'
<1> SUFFICES ASSUME PipeInv, HonestInv, Copy PROVE HonestInv'
  OBVIOUS
<1>1. /\ UNCHANGED <<script, at, stage, linked, left, got, failed, overlap, reset, pktdis, out, in,
                     obuf, events, ev>>
      /\ fpc = "copy"
      /\ \/ /\ obuf = None \/ Transfer(obuf).kind = "OTHER"
            /\ fpc' = "loop" /\ plan' = plan
         \/ /\ Transfer(obuf) \in Transfers /\ Transfer(obuf).kind \in {"GET", "ADDR", "CONF"}
            /\ plan' = ArmIn(Transfer(obuf).len, obuf)
            /\ fpc' = IF Transfer(obuf).kind = "CONF" THEN "early" ELSE "cnt"
  BY CopyFacts
<1> SUFFICES ASSUME NEW c \in Clients, Live(c), Honest(c)
             PROVE  (Unheard(c) \/ Ignored(c) \/ Taken(c))'
  BY <1>1, FirmwareHonest
<1>2. Unheard(c) /\ obuf = Request(c)
  BY <1>1 DEF Honest, Ignored, Taken
<1>3. ran'[c] = 1 /\ pktdis /\ ~reset /\ events = <<>>
  <2>1. ran[c] = 0 /\ pktdis /\ ~reset /\ events = <<>>
    BY <1>1, <1>2 DEF Unheard
  <2>2. ran'[c] = ran[c] + 1
    BY <1>2, <2>1, CopyFacts
  <2> QED
    BY <2>1, <2>2
<1>4. obuf # None /\ Transfer(obuf) = Now(c)
  BY <1>2, ScriptFacts DEF Transfer, Now
<1>5. CASE Now(c).kind = "OTHER" /\ fpc' = "loop"
  BY <1>1, <1>3, <1>5 DEF Ignored, Now
<1>6. CASE /\ Now(c) \in Transfers /\ Now(c).kind \in {"GET", "ADDR", "CONF"}
           /\ plan' = ArmIn(Now(c).len, Request(c))
           /\ fpc' = IF Now(c).kind = "CONF" THEN "early" ELSE "cnt"
  <2>1. stage[c] = "DATA" => DataReady(c)'
    <3> SUFFICES ASSUME stage[c] = "DATA" PROVE DataReady(c)'
      OBVIOUS
    <3>1. Now(c).len > 0
      BY DEF PipeInv, HostWhole
    <3>2. fpc' = "cnt"
      BY <1>6, <3>1, TransferFacts
    <3>3. plan'.side = "in" /\ plan'.of = Request(c) /\ plan'.cnt = Now(c).len
      BY <1>6 DEF ArmIn
    <3>4. Request(c)' = Request(c) /\ Now(c)' = Now(c) /\ pktdis'
      BY <1>1, <1>3 DEF Request, Now
    <3> QED
      BY <3>2, <3>3, <3>4 DEF DataReady
  <2> QED
    BY <1>1, <1>3, <1>6, <2>1, NoEvents DEF Taken
<1> QED
  BY <1>1, <1>2, <1>4, <1>5, <1>6

LEMMA ArmHonest == PipeInv /\ HonestInv /\ (ArmCnt \/ ArmStat) => HonestInv'
<1> SUFFICES ASSUME PipeInv, HonestInv, ArmCnt \/ ArmStat PROVE HonestInv'
  OBVIOUS
<1>1. UNCHANGED <<script, at, stage, linked, left, got, failed, overlap, reset, pktdis, obuf,
                  events, ev, plan, ran>>
  BY ArmFacts
<1>2. /\ plan.side \in {"out", "in"}
      /\ in \in [own : BOOLEAN, cnt : 0 .. ArmSize, of : Requests]
      /\ out \in [own : BOOLEAN, cnt : 0 .. ArmSize, setup : BOOLEAN]
  BY DEF PipeInv, ControlTypes, DeviceTypes, FirmwareTypes
<1> SUFFICES ASSUME NEW c \in Clients, Live(c), Honest(c)
             PROVE  (Unheard(c) \/ Ignored(c) \/ Taken(c))'
  BY <1>1, FirmwareHonest
<1>3. Taken(c)
  BY DEF Honest, Unheard, Ignored, ArmCnt, ArmStat
<1>4. Request(c)' = Request(c) /\ Now(c)' = Now(c)
  BY <1>1 DEF Request, Now
<1>5. CASE ArmCnt
  <2>1. /\ fpc = "cnt" /\ fpc' = "stat"
        /\ IF plan.side = "out"
           THEN in' = in
           ELSE in' = [in EXCEPT !.cnt = plan.cnt, !.of = plan.of]
        /\ out'.setup = out.setup
    BY <1>2, <1>5 DEF ArmCnt
  <2>2. plan.side = "in" => in'.cnt = plan.cnt /\ in'.of = plan.of
    BY <1>2, <2>1
  <2>3. stage[c] = "DATA" => DataReady(c)'
    BY <1>1, <1>2, <1>3, <1>4, <2>1, <2>2 DEF Taken, DataReady
  <2> QED
    BY <1>1, <1>3, <2>1, <2>3 DEF Taken
<1>6. CASE ArmStat
  <2>1. /\ fpc = "stat" /\ fpc' = "enable"
        /\ IF plan.side = "out"
           THEN in' = in /\ ~out'.setup
           ELSE in' = [in EXCEPT !.own = TRUE] /\ out' = out
    BY <1>2, <1>6 DEF ArmStat
  <2>2. in'.cnt = in.cnt /\ in'.of = in.of
    BY <1>2, <2>1
  <2>3. stage[c] = "DATA" => DataReady(c)'
    BY <1>1, <1>2, <1>3, <1>4, <2>1, <2>2 DEF Taken, DataReady
  <2> QED
    BY <1>1, <1>2, <1>3, <2>1, <2>3 DEF Taken
<1> QED
  BY <1>5, <1>6

\* A bus reset is refused while packets are off, so the request that waits for
\* the firmware is not lost to it.
LEMMA BusResetHonest ==
    ASSUME PipeInv, HonestInv, NEW d \in Clients, BusReset(d)
    PROVE  HonestInv'
<1>1. /\ Now(d).kind = "RESET"
      /\ reset' = (reset \/ (uaddr = 0 /\ ~pktdis))
      /\ at' = [at EXCEPT ![d] = @ + 1]
      /\ UNCHANGED <<script, stage, linked, left, got, failed, overlap, pktdis, out, in, obuf,
                     events, fpc, ev, plan, ran>>
  BY DEF BusReset, scenario, fwVars
<1>2. stage[d] = "SETUP"
  BY <1>1 DEF PipeInv, HostWhole
<1> SUFFICES ASSUME ~overlap', NEW c \in Clients, Live(c)' PROVE Honest(c)'
  BY DEF HonestInv
<1>3. Live(c) /\ c # d
  BY <1>1, <1>2 DEF Live
<1>4. Honest(c)
  BY <1>1, <1>3 DEF HonestInv
<1>5. at'[c] = at[c]
  BY <1>1, <1>3 DEF PipeInv, ControlTypes, HostTypes
<1>6. Request(c)' = Request(c) /\ Now(c)' = Now(c)
  BY <1>1, <1>5 DEF Request, Now
<1>7. pktdis => reset' = reset
  BY <1>1 DEF PipeInv, ControlTypes, DeviceTypes
<1>8. Unheard(c) => Unheard(c)'
  BY <1>1, <1>7 DEF Unheard
<1>9. Ignored(c) => Ignored(c)'
  BY <1>1, <1>6, <1>7 DEF Ignored
<1>10. Taken(c) => Taken(c)'
  BY <1>1, <1>6 DEF Taken, DataReady
<1> QED
  BY <1>1, <1>4, <1>6, <1>8, <1>9, <1>10, SameHonest DEF Honest

LEMMA SubmitHonest ==
    ASSUME PipeInv, HonestInv, NEW d \in Clients, Submit(d)
    PROVE  HonestInv'
<1>1. /\ left' = [left EXCEPT ![d] = CASE stage[d] = "SETUP" -> SetupSize
                                       [] stage[d] = "DATA" -> Now(d).len
                                       [] stage[d] = "STATUS" -> 0]
      /\ linked' = [linked EXCEPT ![d] = TRUE]
      /\ IF stage[d] = "SETUP"
         THEN /\ got' = [got EXCEPT ![d] = None]
              /\ ran' = [ran EXCEPT ![d] = 0]
              /\ failed' = [failed EXCEPT ![d] = FALSE]
         ELSE UNCHANGED <<got, ran, failed>>
      /\ UNCHANGED <<script, at, stage, overlap, reset, pktdis, out, in, obuf, events, fpc, ev, plan>>
  BY DEF Submit, scenario, regVars
<1>2. /\ left \in [Clients -> 0 .. ArmSize] /\ linked \in [Clients -> BOOLEAN]
      /\ got \in [Clients -> Requests] /\ ran \in [Clients -> 0 .. 2]
      /\ failed \in [Clients -> BOOLEAN]
  BY DEF PipeInv, ControlTypes, HostTypes, TransferTypes
<1> SUFFICES ASSUME ~overlap', NEW c \in Clients, Live(c)' PROVE Honest(c)'
  BY DEF HonestInv
<1>3. stage[c] # "SETUP"
  BY <1>1 DEF Live
<1>4. got'[c] = got[c] /\ ran'[c] = ran[c]
  BY <1>1, <1>2, <1>3
<1>5. failed'[c] <=> failed[c]
  BY <1>1, <1>2, <1>3
<1>6. Live(c) /\ Honest(c)
  BY <1>1, <1>5 DEF Live, HonestInv
<1>7. Request(c)' = Request(c) /\ Now(c)' = Now(c)
  BY <1>1 DEF Request, Now
<1>8. stage[c] = "DATA" /\ linked'[c] => left'[c] = Now(c).len
  <2>1. CASE c = d
    BY <1>1, <1>2, <2>1
  <2>2. CASE c # d
    BY <1>1, <1>2, <1>6, <2>2 DEF Honest
  <2> QED
    BY <2>1, <2>2
<1>9. (Unheard(c) \/ Ignored(c) \/ Taken(c))'
  BY <1>1, <1>4, <1>6, <1>7 DEF Honest, Unheard, Ignored, Taken, DataReady
<1> QED
  BY <1>1, <1>4, <1>6, <1>7, <1>8, <1>9 DEF Honest

\* A stage that ends by errors makes its client's transfer a failed one.
LEMMA RefusedHonest ==
    ASSUME PipeInv, HonestInv, NEW d \in Clients, SendRefused(d)
    PROVE  HonestInv'
<1>1. /\ Err(d)
      /\ UNCHANGED <<script, left, got, overlap, reset, pktdis, out, in, obuf, events, fpc, ev,
                     plan, ran>>
  BY DEF SendRefused, scenario, regVars, fwVars
<1>2. /\ StageDone(d) \/ UNCHANGED <<at, stage, linked, line>>
      /\ \/ UNCHANGED <<at, stage, linked, line, failed>>
         \/ failed' = [failed EXCEPT ![d] = TRUE]
      /\ failed \in [Clients -> BOOLEAN]
  BY <1>1, ErrFacts DEF PipeInv, ControlTypes, TransferTypes
<1> SUFFICES ASSUME ~overlap', NEW c \in Clients, Live(c)' PROVE Honest(c)'
  BY DEF HonestInv
<1>3. /\ stage'[c] = stage[c] /\ (linked'[c] <=> linked[c]) /\ (failed'[c] <=> failed[c])
      /\ Request(c)' = Request(c) /\ Now(c)' = Now(c)
  <2>1. CASE UNCHANGED <<at, stage, linked, line, failed>>
    BY <1>1, <2>1 DEF Request, Now
  <2>2. CASE failed' = [failed EXCEPT ![d] = TRUE]
    <3>1. c # d
      BY <1>2, <2>2 DEF Live
    <3>2. failed'[c] <=> failed[c]
      BY <1>2, <2>2, <3>1
    <3> QED
      BY <1>1, <1>2, <3>1, <3>2, StageFacts
  <2> QED
    BY <1>2, <2>1, <2>2
<1>4. Honest(c)
  BY <1>1, <1>3 DEF Live, HonestInv
<1>5. (Unheard(c) \/ Ignored(c) \/ Taken(c))'
  BY <1>1, <1>3, <1>4 DEF Honest, Unheard, Ignored, Taken, DataReady
<1> QED
  BY <1>1, <1>3, <1>4, <1>5, SameHonest

\* A transfer begins: every other client is between two transfers, and the
\* firmware will find this request and nothing else.
LEMMA SetupHonest ==
    ASSUME PipeInv, HonestInv, NEW d \in Clients, SendSetup(d)
    PROVE  HonestInv'
<1>1. /\ Turn(d) /\ stage[d] = "SETUP" /\ pktdis' = TRUE
      /\ overlap' = (overlap \/ ~FirmwareIdle \/ \E c \in Clients : c # d /\ stage[c] # "SETUP")
      /\ UNCHANGED <<script, reset, fpc, ran>>
  BY DEF SendSetup, scenario, fwVars
<1> SUFFICES ASSUME ~overlap', NEW c \in Clients, Live(c)' PROVE Honest(c)'
  BY DEF HonestInv
<1>2. FirmwareIdle /\ (c # d => stage[c] = "SETUP")
  BY <1>1
<1>3. StageDone(d) \/ UNCHANGED <<at, stage, linked, line>>
  <2>1. CASE out.own
    BY <2>1, SetupFacts
  <2>2. CASE ~out.own
    BY <2>2, ErrFacts DEF SendSetup
  <2> QED
    BY <2>1, <2>2 DEF PipeInv, ControlTypes, DeviceTypes
<1>4. c = d /\ stage'[c] # "SETUP"
  BY <1>1, <1>2, <1>3, StageFacts DEF Live
<1>5. out.own
  <2> SUFFICES ASSUME ~out.own PROVE FALSE
    BY DEF PipeInv, ControlTypes, DeviceTypes
  <2>1. Err(d)
    BY DEF SendSetup
  <2>2. failed' = [failed EXCEPT ![d] = TRUE] /\ failed \in [Clients -> BOOLEAN]
    BY <1>1, <1>4, <2>1, ErrFacts DEF PipeInv, ControlTypes, TransferTypes
  <2> QED
    BY <1>4, <2>2 DEF Live
<1>6. /\ out'.setup /\ events' = Append(events, "OUT")
      /\ obuf' = Request(d) /\ StageDone(d)
  BY <1>1, <1>4, <1>5, SetupFacts
<1>7. /\ stage'[d] = IF Now(d).len > 0 THEN "DATA" ELSE "STATUS"
      /\ ~linked'[d] /\ Request(d)' = Request(d) /\ Now(d)' = Now(d)
  BY <1>1, <1>6, StageFacts
<1>8. Unheard(d)'
  <2>1. events' = <<"OUT">> /\ fpc' \in {"loop", "poll"} /\ ~reset'
    BY <1>1, <1>2, <1>6 DEF FirmwareIdle
  <2>2. ran'[d] = 0
    BY <1>1, HeadFacts
  <2> QED
    BY <1>1, <1>6, <2>1, <2>2 DEF Unheard
<1> QED
  BY <1>4, <1>6, <1>7, <1>8 DEF Honest

\* Packets other than SETUP are let in only when the request has been run and
\* its data is ready.
LEMMA LetIn ==
    ASSUME PipeInv, HonestInv, ~overlap, ~pktdis, NEW c \in Clients, Live(c)
    PROVE  Honest(c) /\ Taken(c)
BY DEF HonestInv, Honest, Unheard, Ignored

LEMMA OutHonest ==
    ASSUME PipeInv, HonestInv, NEW d \in Clients, SendOut(d)
    PROVE  HonestInv'
<1>1. /\ ~pktdis /\ stage[d] = "STATUS" /\ StageDone(d)
      /\ out' = [out EXCEPT !.cnt = 0, !.setup = FALSE]
      /\ UNCHANGED <<script, left, got, failed, overlap, pktdis, in, obuf, fpc, ev, plan, ran>>
  BY OutFacts DEF Refused
<1>2. ~out'.setup
  BY <1>1 DEF PipeInv, ControlTypes, DeviceTypes
<1> SUFFICES ASSUME ~overlap', NEW c \in Clients, Live(c)' PROVE Honest(c)'
  BY DEF HonestInv
<1>3. c # d
  BY <1>1, StageFacts DEF Live
<1>4. /\ stage'[c] = stage[c] /\ (linked'[c] <=> linked[c])
      /\ Request(c)' = Request(c) /\ Now(c)' = Now(c)
  BY <1>1, <1>3, StageFacts
<1>5. Honest(c) /\ Taken(c)
  BY <1>1, <1>4, LetIn DEF Live
<1>6. Taken(c)'
  BY <1>1, <1>2, <1>4, <1>5 DEF Taken, DataReady
<1> QED
  BY <1>1, <1>4, <1>5, <1>6, SameHonest

LEMMA InHonest ==
    ASSUME PipeInv, HonestInv, NEW d \in Clients, SendIn(d)
    PROVE  HonestInv'
<1> DEFINE rlen == Least(in.cnt, left[d])
<1>1. /\ Turn(d) /\ ~pktdis /\ in.own
      /\ stage[d] = "DATA" \/ stage[d] = "STATUS"
      /\ in' = [in EXCEPT !.own = FALSE, !.cnt = 0]
      /\ events' = Append(events, "IN")
      /\ left' = [left EXCEPT ![d] = @ - rlen]
      /\ got' = IF stage[d] = "DATA" /\ rlen > 0 THEN [got EXCEPT ![d] = in.of] ELSE got
      /\ rlen \in 0 .. left[d]
      /\ rlen = left[d] => StageDone(d)
      /\ StageDone(d) \/ UNCHANGED <<at, stage, linked, line>>
      /\ UNCHANGED <<script, failed, overlap, pktdis, out, obuf, fpc, ev, plan, ran>>
  BY InFacts DEF Refused
<1>2. /\ in \in [own : BOOLEAN, cnt : 0 .. ArmSize, of : Requests]
      /\ left \in [Clients -> 0 .. ArmSize] /\ got \in [Clients -> Requests]
  BY DEF PipeInv, ControlTypes, DeviceTypes, TransferTypes
<1>3. ~in'.own
  BY <1>1, <1>2
<1>4. "OUT" \in Range(events') => "OUT" \in Range(events)
  <2>1. Range(Append(events, "IN")) = Range(events) \cup {"IN"}
    BY EventAppend DEF PipeInv
  <2> QED
    BY <1>1, <2>1
<1> SUFFICES ASSUME ~overlap', NEW c \in Clients, Live(c)' PROVE Honest(c)'
  BY DEF HonestInv
<1>5. CASE c # d
  <2>1. /\ stage'[c] = stage[c] /\ (linked'[c] <=> linked[c])
        /\ Request(c)' = Request(c) /\ Now(c)' = Now(c)
    BY <1>1, <1>5, StageFacts
  <2>2. got'[c] = got[c] /\ left'[c] = left[c]
    BY <1>1, <1>2, <1>5
  <2>3. Honest(c) /\ Taken(c)
    BY <1>1, <2>1, LetIn DEF Live
  <2>4. stage[c] = "DATA" => DataReady(c)'
    BY <1>1, <1>3, <2>1, <2>3 DEF Taken, DataReady
  <2>5. Taken(c)'
    BY <1>1, <1>4, <2>1, <2>3, <2>4 DEF Taken
  <2> QED
    BY <1>1, <2>1, <2>2, <2>3, <2>5, SameHonest
<1>6. CASE c = d
  <2>1. Honest(d) /\ Taken(d) /\ linked[d]
    <3>1. stage[d] # "SETUP" /\ ~failed[d] /\ ~overlap
      BY <1>1, <1>6 DEF Live
    <3> QED
      BY <1>1, <3>1, LetIn, HeadFacts DEF Live
  <2>2. stage[d] = "DATA"
    <3> SUFFICES ASSUME stage[d] = "STATUS" PROVE FALSE
      BY <1>1
    <3>1. left[d] = 0
      BY <1>1, HeadFacts
    <3>2. rlen = left[d]
      BY <1>1, <3>1
    <3>3. stage'[d] = "SETUP"
      BY <1>1, <3>2, StageFacts
    <3> QED
      BY <1>6, <3>3 DEF Live
  <2>3. Now(d).len > 0 /\ left[d] = Now(d).len /\ left[d] \in Nat
    BY <1>2, <2>1, <2>2 DEF Honest, PipeInv, HostWhole
  <2>4. in.of = Request(d) /\ in.cnt = Now(d).len
    BY <1>1, <2>1, <2>2 DEF Taken, DataReady
  <2>5. rlen = left[d]
    BY <2>3, <2>4 DEF Least
  <2> HIDE DEF rlen
  <2>6. got'[d] = Request(d)
    BY <1>1, <1>2, <2>2, <2>3, <2>4, <2>5
  <2>7. /\ stage'[d] = "STATUS" /\ Request(d)' = Request(d) /\ Now(d)' = Now(d)
    BY <1>1, <2>2, <2>5, StageFacts
  <2>8. Taken(d)'
    BY <1>1, <1>4, <2>1, <2>7 DEF Taken
  <2> QED
    BY <1>1, <1>6, <2>1, <2>6, <2>7, <2>8 DEF Honest
<1> QED
  BY <1>5, <1>6

LEMMA HonestStep == PipeInv /\ HonestInv /\ [Next]_vars => HonestInv'
<1> SUFFICES ASSUME PipeInv, HonestInv, [Next]_vars PROVE HonestInv'
  OBVIOUS
<1>1. CASE UNCHANGED vars
  <2>1. UNCHANGED <<script, at, stage, linked, left, got, failed, overlap, reset, pktdis, out, in,
                    obuf, events, fpc, ev, plan, ran>>
    BY <1>1 DEF vars, hostVars, scenario, regVars, fwVars
  <2> QED
    BY <2>1 DEF HonestInv, Live, Honest, Unheard, Ignored, Taken, DataReady, Request, Now
<1>2. CASE Firmware
  BY <1>2, LoopHonest, ResetBdtHonest, PollHonest, DecideHonest, CopyHonest, ArmHonest DEF Firmware
<1>3. ASSUME NEW c \in Clients, Host(c) \/ Packet(c) PROVE HonestInv'
  BY <1>3, BusResetHonest, SubmitHonest, RefusedHonest, SetupHonest, OutHonest, InHonest
     DEF Host, Packet
<1> QED
  BY <1>1, <1>2, <1>3 DEF Next

\* The step that ends a transfer well is the packet of its status stage, and
\* that is let in only when the request has been run.
LEMMA EndsWell ==
    ASSUME PipeInv, HonestInv, [Next]_vars,
           NEW c \in Clients, Ends(c), ~failed'[c], ~overlap'
    PROVE  Answered(c)
<1>1. at'[c] # at[c] /\ Now(c).kind # "RESET"
  BY DEF Ends
<1>2. CASE UNCHANGED vars
  BY <1>1, <1>2 DEF vars, hostVars
<1>3. CASE Firmware
  BY <1>1, <1>3 DEF Firmware, Loop, ResetRegs, ResetBdt, Poll, Decide, Copy, Early, ArmCnt, ArmStat,
                    Enable, hostVars
<1>4. ASSUME NEW d \in Clients, Host(d) PROVE FALSE
  <2>1. at' = at \/ (at' = [at EXCEPT ![d] = @ + 1] /\ Now(d).kind = "RESET")
    BY <1>4 DEF Host, BusReset, Submit
  <2> QED
    BY <1>1, <2>1 DEF PipeInv, ControlTypes, HostTypes
<1>5. ASSUME NEW d \in Clients, Packet(d) PROVE Answered(c)
  <2>1. CASE SendRefused(d)
    <3>1. UNCHANGED script /\ Err(d)
      BY <2>1 DEF SendRefused, scenario
    <3>2. StageDone(d) \/ UNCHANGED <<at, stage, linked, line>>
      BY <3>1, ErrFacts
    <3>3. c = d
      BY <1>1, <3>1, <3>2, StageFacts
    <3>4. failed' = [failed EXCEPT ![c] = TRUE] /\ failed \in [Clients -> BOOLEAN]
      BY <1>1, <3>1, <3>3, ErrFacts DEF PipeInv, ControlTypes, TransferTypes
    <3> QED
      BY <3>4
  <2>2. CASE SendSetup(d)
    <3>1. stage[d] = "SETUP" /\ UNCHANGED script
      BY <2>2 DEF SendSetup, scenario
    <3>2. StageDone(d) \/ UNCHANGED <<at, stage, linked, line>>
      <4>1. CASE out.own
        BY <2>2, <4>1, SetupFacts
      <4>2. CASE ~out.own
        BY <2>2, <4>2, ErrFacts DEF SendSetup
      <4> QED
        BY <4>1, <4>2 DEF PipeInv, ControlTypes, DeviceTypes
    <3>3. at'[c] = at[c]
      BY <3>1, <3>2, StageFacts
    <3> QED
      BY <1>1, <3>3
  <2>3. CASE SendOut(d)
    <3>1. /\ ~pktdis /\ stage[d] = "STATUS" /\ StageDone(d) /\ Now(d).len # 0
          /\ UNCHANGED <<script, failed, overlap>>
      BY <2>3, OutFacts DEF Refused
    <3>2. c = d
      BY <1>1, <3>1, StageFacts
    <3>3. Honest(c) /\ Taken(c)
      BY <3>1, <3>2, LetIn DEF Live
    <3> QED
      BY <3>1, <3>2, <3>3 DEF Honest, Taken, Answered
  <2>4. CASE SendIn(d)
    <3>1. /\ ~pktdis /\ Turn(d)
          /\ StageDone(d) \/ UNCHANGED <<at, stage, linked, line>>
          /\ stage[d] = "DATA" \/ (stage[d] = "STATUS" /\ Now(d).len = 0)
          /\ UNCHANGED <<script, failed, overlap>>
      BY <2>4, InFacts DEF Refused
    <3>2. c = d /\ stage[c] = "STATUS"
      BY <1>1, <3>1, StageFacts
    <3>3. Honest(c) /\ Taken(c)
      BY <3>1, <3>2, LetIn DEF Live
    <3> QED
      BY <3>1, <3>2, <3>3 DEF Taken, Answered
  <2> QED
    BY <1>5, <2>1, <2>2, <2>3, <2>4 DEF Packet
<1> QED
  BY <1>2, <1>3, <1>4, <1>5 DEF Next

\* A transfer that ends with no stage given up was run by the firmware once,
\* and its data answers this very request: for any number of host threads and
\* any scripts, as long as transfers have not overlapped.
THEOREM TransfersAreHonest == Spec => TransfersHonest
<1> DEFINE Inv == PipeInv /\ HonestInv
<1>1. Init => Inv
  <2> SUFFICES ASSUME Init PROVE HonestInv
    BY PipeInit
  <2>1. \A c \in Clients : ~Live(c)
    BY DEF Init, Live
  <2> QED
    BY <2>1 DEF HonestInv
<1>2. Inv /\ [Next]_vars => Inv'
  BY PipeStep, HonestStep
<1>3. Inv /\ [Next]_vars
      => [\A c \in Clients : Ends(c) /\ ~failed'[c] /\ ~overlap' => Answered(c)]_vars
  BY EndsWell
<1> QED
  BY <1>1, <1>2, <1>3, PTL DEF Spec, TransfersHonest

-----------------------------------------------------------------------------
(***************************************************************************)
(* The address: for hosts that wait for the firmware before a SETUP packet *)
(* and of which one only speaks to address 0.                              *)
(***************************************************************************)
\* What the firmware has still to take out of the ring or to decide upon.
NoneLeft == events = <<>> /\ fpc # "decide"
OneLeft(x) == IF fpc = "decide" THEN ev = x /\ events = <<>> ELSE events = <<x>>
TwoLeft(x, y) == IF fpc = "decide" THEN ev = x /\ events = <<y>> ELSE events = <<x, y>>

AddressSet == \E c \in Clients : \E k \in 1 .. at[c] - 1 : script[c][k].kind = "ADDR"

AtZero(e) == \A c \in Clients \ {e} : \A k \in 1 .. Len(script[c]) :
                 script[c][k].kind = "RESET" \/ script[c][k].addr = 1

\* The firmware has the request of e's SET_ADDRESS, and e waits for its status.
Asking(e) == stage[e] = "STATUS" /\ Now(e).kind = "ADDR" /\ obuf = Request(e)

\* As long as no SET_ADDRESS is over, e alone is let in, and the firmware that
\* has run SET_ADDRESS has no event of an earlier packet in front of it.
BeforeAddress(e) ==
    /\ uaddr = 0
    /\ obuf = None \/ obuf.client = e
    /\ Asking(e) => NoneLeft \/ (OneLeft("OUT") /\ fpc # "copy")
    /\ cts = "ACKAD" => Asking(e) /\ NoneLeft

AddressInv == timely /\ \E e \in Clients : AtZero(e) /\ (AddressSet \/ BeforeAddress(e))

\* No step goes back in a script.
LEMMA AtGrows ==
    ASSUME PipeInv, [Next]_vars
    PROVE  /\ script' = script /\ timely' = timely
           /\ \A c \in Clients : at'[c] = at[c] \/ at'[c] = at[c] + 1
<1>1. at \in [Clients -> Nat]
  BY DEF PipeInv, ControlTypes, HostTypes
<1>2. CASE UNCHANGED vars
  BY <1>2 DEF vars, hostVars, scenario
<1>3. CASE Firmware
  BY <1>3 DEF Firmware, Loop, ResetRegs, ResetBdt, Poll, Decide, Copy, Early, ArmCnt, ArmStat, Enable,
              hostVars, scenario
<1>4. ASSUME NEW d \in Clients, Host(d) \/ Packet(d)
      PROVE  /\ script' = script /\ timely' = timely
             /\ at' = at \/ at' = [at EXCEPT ![d] = @ + 1]
  <2>1. script' = script /\ timely' = timely
    BY <1>4 DEF Host, Packet, BusReset, Submit, SendRefused, SendSetup, SendOut, SendIn, scenario
  <2>2. ASSUME Host(d) PROVE at' = at \/ at' = [at EXCEPT ![d] = @ + 1]
    <3>1. CASE BusReset(d)
      BY <3>1 DEF BusReset
    <3>2. CASE Submit(d)
      BY <3>2 DEF Submit
    <3> QED
      BY <2>2, <3>1, <3>2 DEF Host
  <2>3. ASSUME Packet(d) PROVE at' = at \/ at' = [at EXCEPT ![d] = @ + 1]
    <3>1. StageDone(d) \/ at' = at
      BY <2>3 DEF Packet, SendRefused, SendSetup, SendOut, SendIn, Err
    <3>2. StageDone(d) => at' = IF stage[d] = "STATUS" THEN [at EXCEPT ![d] = @ + 1] ELSE at
      BY DEF StageDone
    <3> QED
      BY <3>1, <3>2
  <2> QED
    BY <1>4, <2>1, <2>2, <2>3
<1> QED
  BY <1>1, <1>2, <1>3, <1>4 DEF Next

LEMMA AddressStays == PipeInv /\ [Next]_vars /\ AddressSet => AddressSet'
<1> SUFFICES ASSUME PipeInv, [Next]_vars, NEW c \in Clients, NEW k \in 1 .. at[c] - 1,
                    script[c][k].kind = "ADDR"
             PROVE  AddressSet'
  BY DEF AddressSet
<1>1. at[c] \in Nat
  BY DEF PipeInv, ControlTypes, HostTypes
<1>2. k \in 1 .. at'[c] - 1 /\ script' = script
  BY <1>1, AtGrows
<1> QED
  BY <1>2 DEF AddressSet

\* The end of SET_ADDRESS, well or not.
LEMMA AddressOver ==
    ASSUME PipeInv, NEW e \in Clients, UNCHANGED script, StageDone(e),
           stage[e] = "STATUS", Now(e).kind = "ADDR"
    PROVE  AddressSet'
<1>1. at \in [Clients -> Nat] /\ at[e] # 0
  BY DEF PipeInv, ControlTypes, HostTypes
<1>2. at'[e] = at[e] + 1
  BY <1>1 DEF StageDone
<1>3. at[e] \in 1 .. at'[e] - 1 /\ script'[e][at[e]].kind = "ADDR"
  BY <1>1, <1>2 DEF Now
<1> QED
  BY <1>3 DEF AddressSet

\* The firmware's steps that handle no event.
LEMMA FirmwareBefore ==
    ASSUME NEW e \in Clients, BeforeAddress(e),
           UNCHANGED <<script, at, stage, obuf, cts>>, uaddr' \in {uaddr, 0},
           UNCHANGED <<events, ev>>, fpc \notin {"decide"}, fpc' \notin {"decide", "copy"}
    PROVE  BeforeAddress(e)'
BY DEF BeforeAddress, Asking, Request, Now, NoneLeft, OneLeft

LEMMA PollBefore ==
    ASSUME PipeInv, NEW e \in Clients, BeforeAddress(e), Poll
    PROVE  BeforeAddress(e)'
<1>1. /\ UNCHANGED <<script, at, stage, uaddr, obuf, cts>>
      /\ fpc = "poll"
      /\ IF events = <<>>
         THEN fpc' = "loop" /\ UNCHANGED <<events, ev>>
         ELSE ev' = Head(events) /\ events' = Tail(events) /\ fpc' = "decide"
  BY DEF Poll, hostVars, scenario, regVars
<1>2. events = <<"OUT">> => Head(events) = "OUT" /\ Tail(events) = <<>> /\ events # <<>>
  OBVIOUS
<1>3. Asking(e)' <=> Asking(e)
  BY <1>1 DEF Asking, Request, Now
<1>4. NoneLeft => NoneLeft'
  BY <1>1 DEF NoneLeft
<1>5. OneLeft("OUT") => OneLeft("OUT")' /\ fpc' # "copy"
  BY <1>1, <1>2 DEF OneLeft
<1> QED
  BY <1>1, <1>3, <1>4, <1>5 DEF BeforeAddress

LEMMA DecideBefore ==
    ASSUME PipeInv, NEW e \in Clients, BeforeAddress(e), Decide
    PROVE  BeforeAddress(e)' /\ uaddr' = uaddr
<1>1. /\ UNCHANGED <<script, at, stage, obuf, events>> /\ fpc = "decide" /\ fpc' # "decide"
  BY DecideFacts
<1>2. cts # "ACKAD"
  BY <1>1 DEF BeforeAddress, NoneLeft
<1>3. uaddr' = uaddr /\ cts' # "ACKAD"
  <2>1. cts \in {"SETUP", "DATA", "ACKIN", "ACKSC"}
    BY <1>2 DEF PipeInv, ControlTypes, FirmwareTypes
  <2> QED
    BY <2>1 DEF Decide
<1>4. Asking(e)' => Asking(e)
  BY <1>1 DEF Asking, Request, Now
<1>5. Asking(e) => NoneLeft'
  BY <1>1 DEF BeforeAddress, NoneLeft, OneLeft
<1> QED
  BY <1>1, <1>3, <1>4, <1>5 DEF BeforeAddress

LEMMA CopyBefore ==
    ASSUME PipeInv, NEW e \in Clients, BeforeAddress(e), ~AddressSet, Copy
    PROVE  BeforeAddress(e)'
<1>1. /\ UNCHANGED <<script, at, stage, uaddr, obuf, events, ev>>
      /\ fpc = "copy" /\ fpc' \notin {"copy", "decide"}
  BY CopyFacts
<1>2. Asking(e)' <=> Asking(e)
  BY <1>1 DEF Asking, Request, Now
<1>3. Asking(e) => NoneLeft
  BY <1>1 DEF BeforeAddress
<1>4. NoneLeft' <=> NoneLeft
  BY <1>1 DEF NoneLeft
<1>5. cts' = "ACKAD" /\ cts' # cts => Asking(e)
  <2> SUFFICES ASSUME cts' = "ACKAD", cts' # cts PROVE Asking(e)
    OBVIOUS
  <2>1. obuf # None /\ Transfer(obuf).kind \in {"GET", "ADDR", "CONF"} /\ Answer(Transfer(obuf), obuf)
    BY CopyFacts DEF Copy
  <2>2. Transfer(obuf).kind = "ADDR"
    BY <2>1 DEF Answer
  <2>3. Made(obuf) /\ obuf.client = e
    BY <2>1 DEF PipeInv, HostWhole, BeforeAddress
  <2>4. at[e] \in Nat /\ obuf.at \in Nat
    BY <2>3, ScriptFacts DEF Made
  <2>5. obuf.at = at[e]
    <3> SUFFICES ASSUME obuf.at # at[e] PROVE FALSE
      OBVIOUS
    <3>1. obuf.at \in 1 .. at[e] - 1 /\ script[e][obuf.at].kind = "ADDR"
      BY <2>2, <2>3, <2>4 DEF Made, Transfer
    <3> QED
      BY <3>1 DEF AddressSet
  <2>6. obuf = Request(e)
    <3>1. obuf \in Requests
      BY DEF PipeInv, ControlTypes, DeviceTypes
    <3>2. obuf \in [client : Clients, at : Nat]
      BY <2>1, <3>1 DEF Requests
    <3> QED
      BY <2>3, <2>5, <3>2 DEF Request
  <2>7. Now(e).kind = "ADDR" /\ stage[e] # "SETUP" /\ Running(e)
    BY <2>2, <2>3, <2>4, <2>5 DEF Transfer, Now, Made, PipeInv, HostWhole
  <2>8. stage[e] = "STATUS"
    <3>1. Now(e).len = 0
      BY <2>7, ScriptFacts, TransferFacts
    <3> QED
      BY <2>7, <3>1 DEF PipeInv, HostWhole, ControlTypes, HostTypes, Stages
  <2> QED
    BY <2>6, <2>7, <2>8 DEF Asking
<1> QED
  BY <1>1, <1>2, <1>3, <1>4, <1>5 DEF BeforeAddress

LEMMA HostBefore ==
    ASSUME PipeInv, NEW e \in Clients, BeforeAddress(e), NEW c \in Clients, Host(c)
    PROVE  BeforeAddress(e)'
<1>1. /\ UNCHANGED <<script, stage, uaddr, obuf, events, fpc, ev, cts>>
      /\ at' = at \/ (Now(c).kind = "RESET" /\ at' = [at EXCEPT ![c] = @ + 1])
  BY DEF Host, BusReset, Submit, scenario, regVars, fwVars
<1>2. Asking(e)' <=> Asking(e)
  <2>1. CASE stage[e] = "SETUP"
    BY <1>1, <2>1 DEF Asking
  <2>2. CASE stage[e] # "SETUP"
    <3>1. at'[e] = at[e]
      <4>1. Now(e).kind # "RESET"
        BY <2>2 DEF PipeInv, HostWhole
      <4> QED
        BY <1>1, <4>1 DEF PipeInv, ControlTypes, HostTypes
    <3> QED
      BY <1>1, <3>1 DEF Asking, Request, Now
  <2> QED
    BY <2>1, <2>2
<1> QED
  BY <1>1, <1>2 DEF BeforeAddress, NoneLeft, OneLeft

\* A stage of c is over, or not, and nothing else happens that matters here.
LEMMA StageBefore ==
    ASSUME PipeInv, NEW e \in Clients, BeforeAddress(e), NEW c \in Clients, ~AddressSet',
           StageDone(c) \/ UNCHANGED <<at, stage, linked, line>>,
           UNCHANGED <<script, uaddr, obuf, cts>>,
           UNCHANGED <<events, fpc, ev>>
             \/ (c = e /\ StageDone(e))
             \/ (c = e /\ stage[e] # "STATUS")
    PROVE  BeforeAddress(e)'
<1>1. Asking(e)' => Asking(e) /\ ~(c = e /\ StageDone(e)) /\ stage[e] = "STATUS"
  <2> SUFFICES ASSUME Asking(e)'
               PROVE  Asking(e) /\ ~(c = e /\ StageDone(e)) /\ stage[e] = "STATUS"
    OBVIOUS
  <2>1. stage'[e] = "STATUS" /\ Now(e)'.kind = "ADDR" /\ obuf = Request(e)'
    BY DEF Asking
  <2>2. ~(c = e /\ StageDone(e))
    <3> SUFFICES ASSUME c = e, StageDone(e) PROVE FALSE
      OBVIOUS
    <3>1. stage[e] # "STATUS" /\ Now(e)' = Now(e) /\ Request(e)' = Request(e)
      BY <2>1, StageFacts
    <3>2. stage[e] = "DATA"
      <4> SUFFICES ASSUME stage[e] = "SETUP" PROVE FALSE
        BY <3>1 DEF PipeInv, ControlTypes, HostTypes, Stages
      <4>1. obuf # None /\ obuf.client = e /\ obuf.at = at[e] /\ at[e] \in Nat
        BY <2>1, <3>1, ScriptFacts
      <4>2. Made(obuf)
        BY <4>1 DEF PipeInv, HostWhole
      <4> QED
        BY <4>1, <4>2 DEF Made
    <3>3. Now(e).len > 0 /\ Now(e) \in Transfers
      BY <3>2, ScriptFacts DEF PipeInv, HostWhole
    <3> QED
      BY <2>1, <3>1, <3>3, TransferFacts
  <2>3. stage'[e] = stage[e] /\ Now(e)' = Now(e) /\ Request(e)' = Request(e)
    BY <2>2, StageFacts DEF Now, Request
  <2> QED
    BY <2>1, <2>2, <2>3 DEF Asking
<1>2. Asking(e) => Asking(e)'
  <2> SUFFICES ASSUME Asking(e) PROVE Asking(e)'
    OBVIOUS
  <2>1. ~(c = e /\ StageDone(e))
    BY AddressOver DEF Asking
  <2>2. stage'[e] = stage[e] /\ Now(e)' = Now(e) /\ Request(e)' = Request(e)
    BY <2>1, StageFacts DEF Now, Request
  <2> QED
    BY <2>2 DEF Asking
<1>3. Asking(e)' => UNCHANGED <<events, fpc, ev>>
  BY <1>1
<1> QED
  BY <1>1, <1>2, <1>3 DEF BeforeAddress, NoneLeft, OneLeft

\* Before SET_ADDRESS is over all packets that are not refused are those of e.
LEMMA OnlyOne ==
    ASSUME PipeInv, NEW e \in Clients, AtZero(e), BeforeAddress(e),
           NEW c \in Clients, Turn(c), ~Refused(c)
    PROVE  c = e
<1>1. Now(c).kind # "RESET" /\ Running(c)
  BY HeadFacts
<1>2. at[c] \in 1 .. Len(script[c]) /\ Now(c).addr = 0
  BY <1>1, ScriptFacts DEF Refused, BeforeAddress
<1> QED
  BY <1>1, <1>2 DEF AtZero, Now

LEMMA PacketBefore ==
    ASSUME PipeInv, timely, NEW e \in Clients, AtZero(e), BeforeAddress(e), ~AddressSet',
           NEW c \in Clients, Packet(c)
    PROVE  BeforeAddress(e)'
<1>1. CASE SendRefused(c)
  <2>1. Err(c) /\ UNCHANGED <<script, uaddr, obuf, events, fpc, ev, cts>>
    BY <1>1 DEF SendRefused, scenario, regVars, fwVars
  <2> QED
    BY <2>1, ErrFacts, StageBefore
<1>2. CASE SendSetup(c)
  <2>1. Turn(c) /\ ~Refused(c) /\ stage[c] = "SETUP" /\ UNCHANGED <<script, uaddr, fpc, ev, cts>>
    BY <1>2 DEF SendSetup, scenario, fwVars
  <2>2. c = e
    BY <2>1, OnlyOne
  <2>3. FirmwareIdle
    BY <2>1 DEF Turn
  <2>4. CASE ~out.own
    <3>1. Err(c) /\ UNCHANGED <<obuf, events>>
      BY <1>2, <2>4 DEF SendSetup
    <3> QED
      BY <2>1, <2>2, <3>1, ErrFacts, StageBefore
  <2>5. CASE out.own
    <3>1. events' = Append(events, "OUT")
      BY <1>2, <2>5, SetupFacts
    <3>2. OneLeft("OUT")' /\ fpc' # "copy"
      BY <2>1, <2>3, <3>1 DEF FirmwareIdle, OneLeft
    <3>3. CASE obuf' = Request(c) /\ StageDone(c)
      <4>1. Request(c).client = e /\ cts # "ACKAD"
        BY <2>1, <2>2, ScriptFacts DEF BeforeAddress, Asking
      <4> QED
        BY <2>1, <3>2, <3>3, <4>1 DEF BeforeAddress
    <3>4. CASE obuf' = obuf /\ UNCHANGED <<at, stage, linked, line>>
      BY <2>1, <2>2, <3>4, StageBefore
    <3> QED
      BY <1>2, <2>5, <3>3, <3>4, SetupFacts
  <2> QED
    BY <2>4, <2>5 DEF PipeInv, ControlTypes, DeviceTypes
<1>3. CASE SendOut(c)
  <2>1. Turn(c) /\ ~Refused(c) /\ StageDone(c) /\ UNCHANGED <<script, uaddr, obuf, cts>>
    BY <1>3, OutFacts
  <2> QED
    BY <2>1, OnlyOne, StageBefore
<1>4. CASE SendIn(c)
  <2>1. /\ Turn(c) /\ ~Refused(c) /\ UNCHANGED <<script, uaddr, obuf, cts>>
        /\ StageDone(c) \/ UNCHANGED <<at, stage, linked, line>>
        /\ Least(in.cnt, left[c]) \in 0 .. left[c]
        /\ Least(in.cnt, left[c]) = left[c] => StageDone(c)
    BY <1>4, InFacts
  <2>2. c = e
    BY <2>1, OnlyOne
  <2>3. stage[e] = "STATUS" => StageDone(e)
    BY <2>1, <2>2, HeadFacts
  <2> QED
    BY <2>1, <2>2, <2>3, StageBefore
<1> QED
  BY <1>1, <1>2, <1>3, <1>4 DEF Packet

LEMMA BeforeStep ==
    ASSUME PipeInv, timely, [Next]_vars, NEW e \in Clients, AtZero(e), ~AddressSet', BeforeAddress(e)
    PROVE  BeforeAddress(e)'
<1>1. CASE UNCHANGED vars
  <2>1. UNCHANGED <<script, at, stage, uaddr, obuf, cts, events, fpc, ev>>
    BY <1>1 DEF vars, hostVars, scenario, regVars, fwVars
  <2> QED
    BY <2>1 DEF BeforeAddress, Asking, Request, Now, NoneLeft, OneLeft
<1>2. ~AddressSet
  BY AddressStays
<1>3. CASE Loop \/ ResetRegs \/ ResetBdt \/ Early \/ Enable
  <2>1. /\ UNCHANGED <<script, at, stage, obuf, cts, events, ev>> /\ uaddr' \in {uaddr, 0}
        /\ fpc # "decide" /\ fpc' \in {"regs", "poll", "bdt", "cnt", plan.then}
    BY <1>3 DEF Loop, ResetRegs, ResetBdt, Early, Enable, hostVars, scenario
  <2>2. plan.then \in {"loop", "poll"}
    BY DEF PipeInv, ControlTypes, FirmwareTypes
  <2> QED
    BY <2>1, <2>2, FirmwareBefore
<1>4. CASE ArmCnt \/ ArmStat
  BY <1>4, ArmFacts, FirmwareBefore
<1>5. CASE Firmware
  BY <1>2, <1>3, <1>4, <1>5, PollBefore, DecideBefore, CopyBefore DEF Firmware
<1>6. ASSUME NEW c \in Clients, Host(c) \/ Packet(c) PROVE BeforeAddress(e)'
  BY <1>6, HostBefore, PacketBefore
<1> QED
  BY <1>1, <1>5, <1>6 DEF Next

\* The address of the device changes only after the host has seen a SET_ADDRESS
\* end, if the hosts wait for the firmware before each SETUP packet and one of
\* them only speaks to address 0: what the others do, in which order and when
\* their stages are given up, does not matter.
THEOREM AddressComesLate ==
    ASSUME \A s \in Scenarios : s.timely /\ OneAtZero(s.script)
    PROVE  Spec => AddressAfterStatus
<1> DEFINE Inv == PipeInv /\ AddressInv
<1>1. Init => Inv
  <2> SUFFICES ASSUME Init PROVE AddressInv
    BY PipeInit
  <2>1. timely /\ OneAtZero(script)
    BY DEF Init
  <2>2. PICK e \in Clients : AtZero(e)
    BY <2>1 DEF OneAtZero, AtZero
  <2>3. BeforeAddress(e)
    BY DEF Init, BeforeAddress, Asking, NoneLeft
  <2> QED
    BY <2>1, <2>2, <2>3 DEF AddressInv
<1>2. Inv /\ [Next]_vars => Inv'
  <2> SUFFICES ASSUME Inv, [Next]_vars PROVE AddressInv'
    BY PipeStep
  <2>1. PICK e \in Clients : AtZero(e) /\ (AddressSet \/ BeforeAddress(e))
    BY DEF AddressInv
  <2>2. script' = script /\ timely' = timely /\ timely
    BY AtGrows DEF AddressInv
  <2>3. AtZero(e)'
    BY <2>1, <2>2 DEF AtZero
  <2>4. AddressSet' \/ BeforeAddress(e)'
    BY <2>1, <2>2, AddressStays, BeforeStep
  <2> QED
    BY <2>2, <2>3, <2>4 DEF AddressInv
<1>3. Inv /\ [Next]_vars => [uaddr' # uaddr /\ uaddr' # 0 => AddressSet]_vars
  <2> SUFFICES ASSUME Inv, [Next]_vars, uaddr' # uaddr, uaddr' # 0, ~AddressSet PROVE FALSE
    OBVIOUS
  <2>1. PICK e \in Clients : BeforeAddress(e)
    BY DEF AddressInv
  <2>2. ~UNCHANGED vars
    BY DEF vars, regVars
  <2>3. CASE Firmware
    <3>1. CASE Decide
      BY <2>1, <3>1, DecideBefore
    <3>2. CASE ~Decide
      BY <2>3, <3>2 DEF Firmware, Loop, ResetRegs, ResetBdt, Poll, Copy, Early, ArmCnt, ArmStat, Enable,
                        Answer, regVars
    <3> QED
      BY <3>1, <3>2
  <2>4. ASSUME NEW c \in Clients, Host(c) \/ Packet(c) PROVE FALSE
    BY <2>4 DEF Host, Packet, BusReset, Submit, SendRefused, SendSetup, SendOut, SendIn, regVars
  <2> QED
    BY <2>2, <2>3, <2>4 DEF Next
<1> QED
  BY <1>1, <1>2, <1>3, PTL DEF Spec, AddressAfterStatus, AddressSet

-----------------------------------------------------------------------------
(***************************************************************************)
(* The ring: what is in it and what may still come without a SETUP packet. *)
(***************************************************************************)
Bit(p) == IF p THEN 1 ELSE 0

\* The firmware is on its way from an event to an IN descriptor.
Busy == fpc \in {"decide", "copy", "early"} \/ (fpc \in {"cnt", "stat"} /\ plan.side = "in")

\* Clients that may still send a packet of the status stage.
Begun == {c \in Clients : stage[c] # "SETUP"}

\* An event, an IN descriptor that is armed or about to be, a status stage: a
\* step turns one of them into another, or takes one away.
Load == Len(events) + Bit(Busy) + Bit(in.own) + Cardinality(Begun)

RingInv == timely => Load <= Cardinality(Clients) + 2

LEMMA LoadFacts ==
    ASSUME PipeInv, IsFiniteSet(Clients)
    PROVE  /\ Len(events) \in Nat /\ IsFiniteSet(Begun)
           /\ Cardinality(Begun) \in Nat /\ Cardinality(Clients) \in Nat
           /\ Cardinality(Begun) <= Cardinality(Clients)
           /\ Len(Append(events, "IN")) = Len(events) + 1
           /\ Len(Append(events, "OUT")) = Len(events) + 1
<1>1. events \in Seq({"OUT", "IN"})
  BY DEF PipeInv, ControlTypes, DeviceTypes
<1>2. Len(events) \in Nat
  BY <1>1, LenProperties
<1>3. /\ Len(Append(events, "IN")) = Len(events) + 1
      /\ Len(Append(events, "OUT")) = Len(events) + 1
  BY <1>1, AppendProperties
<1>4. Begun \in SUBSET Clients
  BY DEF Begun
<1> QED
  BY <1>2, <1>3, <1>4, FS_Subset, FS_CardinalityType

LEMMA FirmwareLoad == PipeInv /\ IsFiniteSet(Clients) /\ Firmware => Load' <= Load
<1> SUFFICES ASSUME PipeInv, IsFiniteSet(Clients), Firmware PROVE Load' <= Load
  OBVIOUS
<1> DEFINE n == Len(events)
           k == Cardinality(Begun)
<1>1. n \in Nat /\ k \in Nat
  BY LoadFacts
<1>2. k' = k
  <2>1. stage' = stage
    BY DEF Firmware, Loop, ResetRegs, ResetBdt, Poll, Decide, Copy, Early, ArmCnt, ArmStat, Enable,
           hostVars
  <2> QED
    BY <2>1 DEF Begun
<1>3. SUFFICES n' + Bit(Busy)' + Bit(in.own)' <= n + Bit(Busy) + Bit(in.own) /\ n' \in Nat
  <2>1. /\ Bit(Busy) \in Nat /\ Bit(Busy)' \in Nat /\ Bit(in.own) \in Nat /\ Bit(in.own)' \in Nat
    BY DEF Bit
  <2> HIDE DEF n, k
  <2>2. n' + Bit(Busy)' + Bit(in.own)' + k <= n + Bit(Busy) + Bit(in.own) + k
    BY <1>1, <1>3, <2>1
  <2> QED
    BY <1>2, <2>2 DEF Load, n, k
<1>4. CASE Loop \/ ResetRegs \/ Enable \/ Early
  <2>1. UNCHANGED <<events, in, plan>>
    BY <1>4 DEF Loop, ResetRegs, Enable, Early, fwVars, regVars
  <2>2. Busy' => Busy
    <3>1. plan.then \in {"loop", "poll"}
      BY DEF PipeInv, ControlTypes, FirmwareTypes
    <3> QED
      BY <1>4, <2>1, <3>1 DEF Busy, Loop, ResetRegs, Enable, Early
  <2>3. n' = n /\ in'.own = in.own
    BY <2>1
  <2> HIDE DEF n
  <2> QED
    BY <1>1, <2>2, <2>3 DEF Bit
<1>5. CASE ResetBdt
  <2>1. events' = events /\ ~in'.own /\ ~Busy'
    BY <1>5 DEF ResetBdt, Busy, ArmOut
  <2>2. n' = n
    BY <2>1
  <2> HIDE DEF n
  <2> QED
    BY <1>1, <2>1, <2>2 DEF Bit
<1>6. CASE Poll
  <2>1. fpc = "poll" /\ in' = in
    BY <1>6 DEF Poll, regVars
  <2>2. CASE events = <<>>
    <3>1. events' = events /\ ~Busy'
      BY <1>6, <2>2 DEF Poll, Busy
    <3>2. n' = n /\ in'.own = in.own
      BY <2>1, <3>1
    <3> HIDE DEF n
    <3> QED
      BY <1>1, <3>1, <3>2 DEF Bit
  <2>3. CASE events # <<>>
    <3>1. events' = Tail(events) /\ events \in Seq({"OUT", "IN"})
      BY <1>6, <2>3 DEF Poll, PipeInv, ControlTypes, DeviceTypes
    <3>2. n' = n - 1 /\ n # 0 /\ in'.own = in.own
      BY <2>1, <2>3, <3>1, EmptySeq, HeadTailProperties
    <3>3. ~Busy
      BY <2>1 DEF Busy
    <3> HIDE DEF n
    <3> QED
      BY <1>1, <3>2, <3>3 DEF Bit
  <2> QED
    BY <2>2, <2>3
<1>7. CASE Decide \/ Copy
  <2>1. fpc \in {"decide", "copy"} /\ UNCHANGED <<events, in>>
    BY <1>7 DEF Decide, Copy, regVars
  <2>2. Busy /\ n' = n /\ in'.own = in.own
    BY <2>1 DEF Busy
  <2> HIDE DEF n
  <2> QED
    BY <1>1, <2>2 DEF Bit
<1>8. CASE ArmCnt
  <2>1. fpc = "cnt" /\ fpc' = "stat" /\ UNCHANGED <<events, plan>>
    BY <1>8, ArmFacts
  <2>2. in'.own = in.own
    <3>1. in' = in \/ in' = [in EXCEPT !.cnt = plan.cnt, !.of = plan.of]
      BY <1>8 DEF ArmCnt
    <3> QED
      BY <3>1 DEF PipeInv, ControlTypes, DeviceTypes
  <2>3. n' = n /\ (Busy' => Busy)
    BY <2>1 DEF Busy
  <2> HIDE DEF n
  <2> QED
    BY <1>1, <2>2, <2>3 DEF Bit
<1>9. CASE ArmStat
  <2>1. fpc = "stat" /\ fpc' = "enable" /\ UNCHANGED <<events, plan>>
    BY <1>9, ArmFacts
  <2>2. (plan.side = "out" /\ in' = in) \/ plan.side = "in"
    BY <1>9 DEF ArmStat, PipeInv, ControlTypes, FirmwareTypes
  <2>3. n' = n /\ ~Busy' /\ (Busy \/ in'.own = in.own)
    BY <2>1, <2>2 DEF Busy
  <2> HIDE DEF n
  <2> QED
    BY <1>1, <2>3 DEF Bit
<1> QED
  BY <1>4, <1>5, <1>6, <1>7, <1>8, <1>9 DEF Firmware

\* A client that has begun gives its claim up when its status stage is over.
LEMMA BegunShrinks ==
    ASSUME PipeInv, IsFiniteSet(Clients), NEW c \in Clients, UNCHANGED script, stage[c] # "SETUP",
           StageDone(c) \/ UNCHANGED <<at, stage, linked, line>>
    PROVE  /\ Cardinality(Begun') <= Cardinality(Begun) /\ Cardinality(Begun') \in Nat
           /\ StageDone(c) /\ stage[c] = "STATUS" => Cardinality(Begun') = Cardinality(Begun) - 1
<1>1. /\ IsFiniteSet(Begun) /\ c \in Begun
      /\ \A d \in Clients : d # c => stage'[d] = stage[d]
  BY LoadFacts, StageFacts DEF Begun
<1>2. Begun' \in SUBSET Begun
  BY <1>1 DEF Begun
<1>3. Cardinality(Begun') <= Cardinality(Begun) /\ Cardinality(Begun') \in Nat
  BY <1>1, <1>2, FS_Subset, FS_CardinalityType
<1>4. ASSUME StageDone(c), stage[c] = "STATUS" PROVE Cardinality(Begun') = Cardinality(Begun) - 1
  <2>1. stage'[c] = "SETUP"
    BY <1>4, StageFacts
  <2>2. Begun' = Begun \ {c}
    BY <1>1, <2>1 DEF Begun
  <2> QED
    BY <1>1, <2>2, FS_RemoveElement
<1> QED
  BY <1>3, <1>4

LEMMA PacketLoad ==
    ASSUME PipeInv, IsFiniteSet(Clients), timely, RingInv, NEW c \in Clients, Packet(c)
    PROVE  RingInv'
<1> DEFINE n == Len(events)
           k == Cardinality(Begun)
           m == Cardinality(Clients)
           b == Bit(Busy)
           i == Bit(in.own)
           n2 == Len(events')
           k2 == Cardinality(Begun')
           b2 == Bit(Busy')
           i2 == Bit(in'.own)
<1>1. /\ n \in Nat /\ k \in Nat /\ m \in Nat /\ b \in Nat /\ i \in Nat /\ b <= 1 /\ i <= 1
      /\ n + b + i + k <= m + 2
  <2>1. b \in Nat /\ i \in Nat /\ b <= 1 /\ i <= 1
    BY DEF Bit
  <2> QED
    BY <2>1, LoadFacts DEF RingInv, Load
<1>2. k2 \in Nat /\ k2 <= m /\ n2 \in Nat /\ b2 \in Nat /\ i2 \in Nat
  <2>1. Begun' \in SUBSET Clients
    BY DEF Begun
  <2>2. k2 \in Nat /\ k2 <= m
    BY <2>1, FS_Subset, FS_CardinalityType
  <2>3. events' \in Seq({"OUT", "IN"})
    BY PipeStep DEF Next, PipeInv, ControlTypes, DeviceTypes
  <2>4. n2 \in Nat
    BY <2>3, LenProperties
  <2>5. b2 \in Nat /\ i2 \in Nat
    BY DEF Bit
  <2> QED
    BY <2>2, <2>4, <2>5
<1>3. b2 = b
  <2>1. UNCHANGED <<fpc, plan>>
    BY DEF Packet, SendRefused, SendSetup, SendOut, SendIn, fwVars
  <2> QED
    BY <2>1 DEF Busy
<1>4. script' = script
  BY DEF Packet, SendRefused, SendSetup, SendOut, SendIn, scenario
<1>5. SUFFICES n2 + b2 + i2 + k2 <= m + 2
  BY DEF RingInv, Load
<1>6. CASE SendRefused(c)
  <2>1. Err(c) /\ UNCHANGED <<events, in>>
    BY <1>6 DEF SendRefused, regVars
  <2>2. n2 = n /\ i2 = i
    BY <2>1
  <2>3. CASE stage[c] # "SETUP"
    <3>1. k2 <= k
      BY <1>4, <2>1, <2>3, ErrFacts, BegunShrinks
    <3> HIDE DEF n, k, m, b, i, n2, k2, b2, i2
    <3> QED
      BY <1>1, <1>2, <1>3, <2>2, <3>1
  <2>4. CASE stage[c] = "SETUP" /\ err[c] = 2
    <3>1. FirmwareIdle
      BY <1>6, <2>4 DEF SendRefused, Turn
    <3>2. n = 0 /\ b = 0
      <4>1. events = <<>> /\ ~Busy
        BY <3>1 DEF FirmwareIdle, Busy
      <4> QED
        BY <4>1 DEF Bit
    <3> HIDE DEF n, k, m, b, i, n2, k2, b2, i2
    <3> QED
      BY <1>1, <1>2, <1>3, <2>2, <3>2
  <2>5. CASE err[c] # 2
    <3>1. stage' = stage
      BY <2>1, <2>5 DEF Err
    <3>2. k2 = k
      BY <3>1 DEF Begun
    <3> HIDE DEF n, k, m, b, i, n2, k2, b2, i2
    <3> QED
      BY <1>1, <1>2, <1>3, <2>2, <3>2
  <2> QED
    BY <2>3, <2>4, <2>5
<1>7. CASE SendSetup(c)
  <2>1. Turn(c) /\ stage[c] = "SETUP" /\ in' = in
    BY <1>7 DEF SendSetup
  <2>2. events = <<>> /\ ~Busy
    BY <2>1 DEF Turn, FirmwareIdle, Busy
  <2>3. b = 0 /\ i2 = i /\ n = 0
    BY <2>1, <2>2 DEF Bit
  <2>4. events' = events \/ events' = Append(events, "OUT")
    BY <1>7 DEF SendSetup
  <2>5. n2 \in {0, 1}
    BY <2>3, <2>4, LoadFacts
  <2> HIDE DEF n, k, m, b, i, n2, k2, b2, i2
  <2> QED
    BY <1>1, <1>2, <1>3, <2>3, <2>5
<1>8. CASE SendOut(c)
  <2>1. /\ stage[c] = "STATUS" /\ StageDone(c) /\ in' = in /\ events' = Append(events, "OUT")
    BY <1>8, OutFacts
  <2>2. k2 = k - 1 /\ n2 = n + 1 /\ i2 = i
    BY <1>4, <2>1, BegunShrinks, LoadFacts
  <2> HIDE DEF n, k, m, b, i, n2, k2, b2, i2
  <2> QED
    BY <1>1, <1>2, <1>3, <2>2
<1>9. CASE SendIn(c)
  <2>1. /\ stage[c] # "SETUP" /\ in.own /\ in' = [in EXCEPT !.own = FALSE, !.cnt = 0]
        /\ events' = Append(events, "IN")
        /\ StageDone(c) \/ UNCHANGED <<at, stage, linked, line>>
    BY <1>9, InFacts
  <2>2. ~in'.own
    BY <2>1 DEF PipeInv, ControlTypes, DeviceTypes
  <2>3. n2 = n + 1 /\ i = 1 /\ i2 = 0
    BY <2>1, <2>2, LoadFacts DEF Bit
  <2>4. k2 <= k
    BY <1>4, <2>1, BegunShrinks
  <2> HIDE DEF n, k, m, b, i, n2, k2, b2, i2
  <2> QED
    BY <1>1, <1>2, <1>3, <2>3, <2>4
<1> QED
  BY <1>6, <1>7, <1>8, <1>9 DEF Packet

LEMMA RingStep ==
    ASSUME PipeInv, IsFiniteSet(Clients), RingInv, [Next]_vars
    PROVE  RingInv'
<1> SUFFICES ASSUME timely' PROVE RingInv'
  BY DEF RingInv
<1>1. timely /\ Load <= Cardinality(Clients) + 2
  BY AtGrows DEF RingInv
<1>2. CASE UNCHANGED <<stage, in, events, fpc, plan>>
  BY <1>1, <1>2 DEF RingInv, Load, Busy, Begun
<1>3. CASE UNCHANGED vars
  BY <1>2, <1>3 DEF vars, hostVars, regVars, fwVars
<1>4. CASE Firmware
  <2>1. Load' <= Load /\ Load \in Int /\ Load' \in Int /\ Cardinality(Clients) \in Nat
    <3>1. Load \in Int
      <4>1. Bit(Busy) \in Nat /\ Bit(in.own) \in Nat
        BY DEF Bit
      <4> QED
        BY <4>1, LoadFacts DEF Load
    <3>2. PipeInv'
      BY PipeStep
    <3>3. Load' \in Int
      <4>1. Len(events') \in Nat /\ Cardinality(Begun') \in Nat
        <5>1. events' \in Seq({"OUT", "IN"})
          BY <3>2 DEF PipeInv, ControlTypes, DeviceTypes
        <5>2. Begun' \in SUBSET Clients
          BY DEF Begun
        <5> QED
          BY <5>1, <5>2, LenProperties, FS_Subset, FS_CardinalityType
      <4>2. Bit(Busy)' \in Nat /\ Bit(in.own)' \in Nat
        BY DEF Bit
      <4> QED
        BY <4>1, <4>2 DEF Load
    <3> QED
      BY <1>4, <3>1, <3>3, FirmwareLoad, LoadFacts
  <2> QED
    BY <1>1, <2>1 DEF RingInv
<1>5. ASSUME NEW c \in Clients, Host(c) \/ Packet(c) PROVE RingInv'
  <2>1. CASE Host(c)
    <3>1. UNCHANGED <<stage, in, events, fpc, plan>>
      BY <2>1 DEF Host, BusReset, Submit, regVars, fwVars
    <3> QED
      BY <1>2, <3>1
  <2>2. CASE Packet(c)
    BY <1>1, <2>2, PacketLoad
  <2> QED
    BY <1>5, <2>1, <2>2
<1> QED
  BY <1>3, <1>4, <1>5 DEF Next

\* The ring never holds more than two events and one for each thread that runs
\* control transfers, if a SETUP packet is sent to a firmware that has nothing
\* left to do: 16 slots, of which 15 may be used, are enough for 13 threads, and
\* the program has two.
THEOREM RingIsLargeEnough ==
    ASSUME IsFiniteSet(Clients), Cardinality(Clients) <= 13, \A s \in Scenarios : s.timely
    PROVE  Spec => []TypeOK
<1> DEFINE Inv == PipeInv /\ timely /\ RingInv
<1>1. Init => Inv
  <2> SUFFICES ASSUME Init PROVE timely /\ RingInv
    BY PipeInit
  <2>1. timely /\ events = <<>> /\ ~Busy /\ ~in.own
    BY DEF Init, Busy
  <2>2. Begun = {}
    BY DEF Init, Begun
  <2>3. Load = 0 /\ Cardinality(Clients) \in Nat
    BY <2>1, <2>2, FS_EmptySet, FS_CardinalityType DEF Load, Bit
  <2> QED
    BY <2>1, <2>3 DEF RingInv
<1>2. Inv /\ [Next]_vars => Inv'
  BY PipeStep, RingStep, AtGrows
<1>3. Inv => TypeOK
  <2> SUFFICES ASSUME Inv PROVE Len(events) < 16
    BY DEF TypeOK, PipeInv
  <2>1. /\ Len(events) \in Nat /\ Cardinality(Begun) \in Nat /\ Cardinality(Clients) \in Nat
        /\ Bit(Busy) \in Nat /\ Bit(in.own) \in Nat
    BY LoadFacts DEF Bit
  <2>2. Len(events) + Bit(Busy) + Bit(in.own) + Cardinality(Begun) <= Cardinality(Clients) + 2
    BY DEF RingInv, Load
  <2>3. Len(events) <= Cardinality(Clients) + 2
    BY <2>1, <2>2
  <2> QED
    BY <2>1, <2>3
<1> QED
  BY <1>1, <1>2, <1>3, PTL DEF Spec

-----------------------------------------------------------------------------
(***************************************************************************)
(* One thread that waits for the firmware: all its transfers end well.     *)
(***************************************************************************)
\* One thread runs an orderly script and the others nothing.
Alone(e) == Orderly(script[e]) /\ \A c \in Clients \ {e} : script[c] = <<>>

Rearming(s) == fpc \in s /\ plan.side = "out"
InReset == reset \/ fpc \in {"regs", "bdt"}

\* The OUT packet of a status stage that is over leaves no room in the buffer:
\* its event is in the ring, and the firmware will arm the endpoint again.
StatusOut == /\ ~out.setup
             /\ (OneLeft("OUT") /\ cts = "ACKIN") \/ (TwoLeft("IN", "OUT") /\ cts = "DATA")

\* The device has endpoint 0 OUT and room in it, but for what the firmware is
\* going to do before it idles.
Armed(e) ==
    /\ at[e] = 1 \/ InReset \/ out.own \/ Rearming({"cnt", "stat"})
    /\ at[e] = 1 \/ InReset \/ out.cnt # 0 \/ Rearming({"cnt"}) \/ StatusOut

\* Packets are switched off between a SETUP packet and its answer only.
PacketsOn(e) ==
    pktdis => stage[e] # "SETUP" /\ (ran[e] = 0 \/ fpc \in {"early", "cnt", "stat", "enable"})

\* The events that the firmware has still to handle, and what it takes the next
\* one for, in each stage of a transfer.
Backlog(e) ==
    /\ stage[e] = "SETUP" => fpc # "copy" /\ (NoneLeft \/ OneLeft("IN") \/ StatusOut)
    /\ stage[e] = "DATA" /\ ran[e] = 1 => NoneLeft /\ cts = "DATA"
    /\ stage[e] = "STATUS" /\ Now(e).len > 0 =>
           ran[e] = 1 /\ ((OneLeft("IN") /\ cts = "DATA") \/ (NoneLeft /\ cts = "ACKIN"))
    /\ stage[e] = "STATUS" /\ Now(e).len = 0 /\ ran[e] = 1 =>
           NoneLeft /\ (Now(e).kind = "ADDR" => cts = "ACKAD")

\* The device has the address of the present transfer, or is about to take it.
AddressKnown(e) ==
    /\ AddressSet \/ BeforeAddress(e)
    /\ AddressSet => uaddr = 1 \/ (stage[e] = "SETUP" /\ OneLeft("IN") /\ cts = "ACKAD")
    /\ cts = "ACKAD" => naddr = 1

\* A bus reset is handled before the next transfer begins.
ResetFirst(e) == InReset => ~linked[e] /\ AfterReset(e)

Smooth(e) == /\ ~overlap /\ ~failed[e]
             /\ Armed(e) /\ PacketsOn(e) /\ Backlog(e) /\ AddressKnown(e) /\ ResetFirst(e)

\* The other threads do nothing, and what the script promises of the present
\* transfer.
LEMMA AloneFacts ==
    ASSUME PipeInv, NEW e \in Clients, Alone(e)
    PROVE  /\ \A c \in Clients \ {e} : at[c] = 1 /\ stage[c] = "SETUP" /\ ~Running(c) /\ ~linked[c]
           /\ AtZero(e)
           /\ Running(e) => /\ at[e] = 1 => Now(e).kind = "RESET"
                            /\ Now(e).kind = "RESET" => ~AddressSet
                            /\ Now(e).kind # "OTHER"
                            /\ Now(e).addr = IF AddressSet THEN 1 ELSE 0
           /\ stage[e] = "SETUP" /\ AfterReset(e) => ~AddressSet
<1>1. ASSUME NEW c \in Clients \ {e}
      PROVE  at[c] = 1 /\ stage[c] = "SETUP" /\ ~Running(c) /\ ~linked[c] /\ Len(script[c]) = 0
  <2>1. script[c] = <<>> /\ Len(script[c]) = 0
    BY DEF Alone
  <2>2. at[c] = 1 /\ ~Running(c)
    BY <2>1, ScriptFacts DEF Running
  <2> QED
    BY <2>1, <2>2 DEF PipeInv, HostWhole, ControlTypes, HostTypes
<1>2. AtZero(e)
  BY <1>1 DEF AtZero
<1>3. at[e] \in Nat /\ at[e] # 0
  BY DEF PipeInv, ControlTypes, HostTypes
<1>4. AddressAt(script[e], at[e]) = IF AddressSet THEN 1 ELSE 0
  <2>1. AddressSet <=> \E k \in 1 .. at[e] - 1 : script[e][k].kind = "ADDR"
    BY <1>1 DEF AddressSet
  <2> QED
    BY <2>1 DEF AddressAt
<1>5. ASSUME Running(e)
      PROVE  /\ at[e] = 1 => Now(e).kind = "RESET"
             /\ Now(e).kind = "RESET" => ~AddressSet
             /\ Now(e).kind # "OTHER"
             /\ Now(e).addr = IF AddressSet THEN 1 ELSE 0
  <2>1. at[e] \in 1 .. Len(script[e])
    BY <1>5, ScriptFacts
  <2> QED
    BY <1>4, <2>1 DEF Alone, Orderly, Now
<1>6. ASSUME stage[e] = "SETUP", AfterReset(e), AddressSet PROVE FALSE
  <2>1. at[e] > 1 /\ script[e][at[e] - 1].kind = "RESET"
    BY <1>6 DEF AfterReset
  <2>2. at[e] - 1 \in 1 .. Len(script[e])
    <3>1. at[e] \in 1 .. Len(script[e]) + 1 /\ Len(script[e]) \in Nat
      BY ScriptFacts
    <3> QED
      BY <2>1, <3>1
  <2>3. AddressAt(script[e], at[e] - 1) = 0
    BY <2>1, <2>2 DEF Alone, Orderly
  <2>4. ~\E k \in 1 .. (at[e] - 1) - 1 : script[e][k].kind = "ADDR"
    BY <2>3 DEF AddressAt
  <2>5. PICK k \in 1 .. at[e] - 1 : script[e][k].kind = "ADDR"
    BY <1>1, <1>6 DEF AddressSet
  <2>6. k = at[e] - 1
    BY <1>3, <2>4, <2>5
  <2> QED
    BY <2>1, <2>5, <2>6
<1> QED
  BY <1>1, <1>2, <1>5, <1>6

\* In a transfer the firmware has the request, and has run it or is about to.
LEMMA SmoothHonest ==
    ASSUME PipeInv, HonestInv, NEW e \in Clients, Alone(e), Smooth(e), stage[e] # "SETUP"
    PROVE  /\ obuf = Request(e) /\ Running(e) /\ Now(e).kind \in {"GET", "ADDR", "CONF"}
           /\ (ran[e] = 0 /\ Unheard(e)) \/ (ran[e] = 1 /\ Taken(e))
           /\ ~pktdis => ran[e] = 1 /\ Taken(e)
<1>1. Running(e) /\ Now(e).kind # "RESET"
  BY DEF PipeInv, HostWhole
<1>2. Now(e).kind \in {"GET", "ADDR", "CONF"}
  BY <1>1, AloneFacts, ScriptFacts, TransferFacts DEF Kinds
<1>3. Honest(e)
  BY DEF HonestInv, Live, Smooth
<1> QED
  BY <1>1, <1>2, <1>3 DEF Honest, Ignored, Unheard, Taken

\* The device is never asked for nothing: a packet is not refused three times.
LEMMA NeverGivenUp ==
    ASSUME PipeInv, HonestInv, timely, NEW e \in Clients, Alone(e), Smooth(e),
           Turn(e), Refused(e)
    PROVE  err[e] # 2
<1> SUFFICES ASSUME FirmwareIdle PROVE FALSE
  BY DEF Turn
<1>1. events = <<>> /\ ~reset /\ fpc \in {"loop", "poll"}
  BY DEF FirmwareIdle
<1>2. ~pktdis
  <2> SUFFICES ASSUME pktdis PROVE FALSE
    OBVIOUS
  <2>1. stage[e] # "SETUP" /\ ran[e] = 0
    BY <1>1 DEF Smooth, PacketsOn
  <2> QED
    BY <1>1, <2>1, SmoothHonest DEF Unheard
<1>3. Now(e).addr = IF AddressSet THEN 1 ELSE 0
  BY HeadFacts, AloneFacts
<1>4. uaddr = IF AddressSet THEN 1 ELSE 0
  BY <1>1 DEF Smooth, AddressKnown, BeforeAddress, OneLeft
<1> QED
  BY <1>2, <1>3, <1>4 DEF Refused

\* The parts of the address that are the same for all steps.
LEMMA AddressStep ==
    ASSUME PipeInv, timely, NEW e \in Clients, Alone(e), Smooth(e), [Next]_vars,
           AddressSet' => uaddr' = 1 \/ (stage'[e] = "SETUP" /\ OneLeft("IN")' /\ cts' = "ACKAD")
    PROVE  AddressKnown(e)'
<1>1. AddressSet' \/ BeforeAddress(e)'
  BY AloneFacts, AddressStays, BeforeStep DEF Smooth, AddressKnown
<1>2. cts' = "ACKAD" => naddr' = 1
  <2>1. cts = "ACKAD" => naddr = 1
    BY DEF Smooth, AddressKnown
  <2>2. CASE UNCHANGED vars
    BY <2>1, <2>2 DEF vars, fwVars
  <2>3. CASE Decide
    <3>1. cts' = "ACKAD" => cts = "ACKAD"
      <4>1. cts \in {"SETUP", "DATA", "ACKIN", "ACKAD", "ACKSC"}
        BY DEF PipeInv, ControlTypes, FirmwareTypes
      <4> QED
        BY <2>3, <4>1 DEF Decide
    <3> QED
      BY <2>1, <2>3, <3>1, DecideFacts
  <2>4. CASE Copy
    <3>1. CASE obuf = None \/ Transfer(obuf).kind = "OTHER"
      BY <2>1, <2>4, <3>1 DEF Copy
    <3>2. CASE ~(obuf = None \/ Transfer(obuf).kind = "OTHER")
      <4>1. Answer(Transfer(obuf), obuf) /\ Transfer(obuf).kind \in {"GET", "ADDR", "CONF"}
        BY <2>4, <3>2, CopyFacts DEF Copy
      <4> QED
        BY <4>1 DEF Answer
    <3> QED
      BY <3>1, <3>2
  <2>5. CASE Firmware /\ ~Decide /\ ~Copy
    <3>1. UNCHANGED <<cts, naddr>>
      BY <2>5 DEF Firmware, Loop, ResetRegs, ResetBdt, Poll, Early, ArmCnt, ArmStat, Enable
    <3> QED
      BY <2>1, <3>1
  <2>6. ASSUME NEW c \in Clients, Host(c) \/ Packet(c) PROVE UNCHANGED <<cts, naddr>>
    BY <2>6 DEF Host, Packet, BusReset, Submit, SendRefused, SendSetup, SendOut, SendIn, fwVars
  <2> QED
    BY <2>1, <2>2, <2>3, <2>4, <2>5, <2>6 DEF Next
<1> QED
  BY <1>1, <1>2 DEF AddressKnown

LEMMA FirmwareSame ==
    ASSUME NEW e \in Clients, Firmware
    PROVE  /\ UNCHANGED <<script, timely, at, stage, linked, failed, overlap, obuf>>
           /\ Now(e)' = Now(e)
           /\ AddressSet' <=> AddressSet
           /\ AfterReset(e)' <=> AfterReset(e)
<1>1. UNCHANGED <<script, timely, at, stage, linked, failed, overlap, obuf>>
  BY DEF Firmware, Loop, ResetRegs, ResetBdt, Poll, Decide, Copy, Early, ArmCnt, ArmStat, Enable,
         hostVars, scenario, regVars
<1> QED
  BY <1>1 DEF Now, AddressSet, AfterReset

\* The firmware's steps that neither take nor handle an event.
LEMMA QuietSmooth ==
    ASSUME PipeInv, timely, NEW e \in Clients, Alone(e), Smooth(e), Firmware,
           UNCHANGED <<events, ev, cts, ran>>, uaddr' = uaddr \/ ~AddressSet,
           fpc # "decide", fpc' \notin {"decide", "copy"},
           Armed(e)', PacketsOn(e)', InReset' => InReset
    PROVE  Smooth(e)'
<1>1. /\ NoneLeft' <=> NoneLeft
      /\ OneLeft("IN")' <=> OneLeft("IN")
      /\ OneLeft("OUT")' <=> OneLeft("OUT")
      /\ TwoLeft("IN", "OUT")' <=> TwoLeft("IN", "OUT")
  BY DEF NoneLeft, OneLeft, TwoLeft
<1>2. StatusOut => StatusOut'
  <2>1. out.setup' => out.setup
    <3>1. CASE ArmCnt \/ ArmStat
      BY <3>1, ArmFacts
    <3>2. CASE ResetBdt
      BY <3>2 DEF ResetBdt
    <3>3. CASE ~ArmCnt /\ ~ArmStat /\ ~ResetBdt
      BY <3>3 DEF Firmware, Loop, ResetRegs, Poll, Decide, Copy, Early, Enable, regVars
    <3> QED
      BY <3>1, <3>2, <3>3
  <2> QED
    BY <1>1, <2>1 DEF StatusOut
<1>3. Backlog(e)'
  BY <1>1, <1>2, FirmwareSame DEF Smooth, Backlog
<1>4. ResetFirst(e)'
  BY FirmwareSame DEF Smooth, ResetFirst
<1>5. AddressKnown(e)'
  <2>1. [Next]_vars
    BY DEF Next
  <2>2. AddressSet' => uaddr' = 1 \/ (stage'[e] = "SETUP" /\ OneLeft("IN")' /\ cts' = "ACKAD")
    BY <1>1, FirmwareSame DEF Smooth, AddressKnown
  <2> QED
    BY <2>1, <2>2, AddressStep
<1> QED
  BY <1>3, <1>4, <1>5, FirmwareSame DEF Smooth

LEMMA ResetSmooth ==
    ASSUME PipeInv, timely, NEW e \in Clients, Alone(e), Smooth(e), Loop \/ ResetRegs \/ ResetBdt
    PROVE  Smooth(e)'
<1>1. /\ Firmware /\ UNCHANGED <<events, ev, cts, ran>>
      /\ fpc \in {"loop", "regs", "bdt"} /\ fpc' \in {"regs", "poll", "bdt", "cnt"}
      /\ InReset' => InReset
  BY DEF Firmware, Loop, ResetRegs, ResetBdt, InReset, regVars, PipeInv, ControlTypes, DeviceTypes
<1>2. uaddr' = uaddr \/ ~AddressSet
  <2>1. CASE ResetRegs
    BY <2>1, AloneFacts DEF ResetRegs, Smooth, ResetFirst, InReset, AfterReset
  <2>2. CASE Loop \/ ResetBdt
    BY <2>2 DEF Loop, ResetBdt
  <2> QED
    BY <2>1, <2>2
<1>3. Armed(e)'
  <2>1. CASE Loop
    <3>1. UNCHANGED <<at, out, events, ev, cts, plan>> /\ fpc = "loop" /\ fpc' = IF reset THEN "regs" ELSE "poll"
      BY <2>1 DEF Loop, hostVars
    <3>2. StatusOut => StatusOut'
      BY <3>1 DEF StatusOut, OneLeft, TwoLeft
    <3> QED
      BY <3>1, <3>2 DEF Smooth, Armed, Rearming, InReset
  <2>2. CASE ResetRegs
    BY <2>2 DEF ResetRegs, Armed, InReset
  <2>3. CASE ResetBdt
    BY <2>3 DEF ResetBdt, Armed, Rearming, ArmOut
  <2> QED
    BY <2>1, <2>2, <2>3
<1>4. PacketsOn(e)'
  BY <1>1, FirmwareSame DEF Smooth, PacketsOn, Loop, ResetRegs, ResetBdt
<1> QED
  BY <1>1, <1>2, <1>3, <1>4, QuietSmooth

LEMMA WriteSmooth ==
    ASSUME PipeInv, timely, NEW e \in Clients, Alone(e), Smooth(e),
           Early \/ ArmCnt \/ ArmStat \/ Enable
    PROVE  Smooth(e)'
<1>1. plan \in [side : {"out", "in"}, cnt : 0 .. ArmSize, of : Requests, then : {"loop", "poll"}]
  BY DEF PipeInv, ControlTypes, FirmwareTypes
<1>2. /\ Firmware /\ UNCHANGED <<at, reset, uaddr, events, ev, cts, plan, ran>>
      /\ fpc \in {"early", "cnt", "stat", "enable"} /\ fpc' \in {"cnt", "stat", "enable", plan.then}
  BY DEF Firmware, Early, ArmCnt, ArmStat, Enable, hostVars
<1>3. InReset' => InReset
  BY <1>1, <1>2 DEF InReset
<1>4. /\ OneLeft("OUT")' <=> OneLeft("OUT")
      /\ TwoLeft("IN", "OUT")' <=> TwoLeft("IN", "OUT")
  BY <1>1, <1>2 DEF OneLeft, TwoLeft
<1>5. Armed(e)'
  <2>1. CASE Early \/ Enable
    <3>1. out' = out /\ fpc \in {"early", "enable"} /\ fpc' \in {"cnt", "loop", "poll"}
      BY <1>1, <2>1 DEF Early, Enable
    <3>2. StatusOut => StatusOut'
      BY <1>2, <1>4, <3>1 DEF StatusOut
    <3> QED
      BY <1>2, <3>1, <3>2 DEF Smooth, Armed, Rearming, InReset
  <2>2. CASE ArmCnt
    <3>1. /\ fpc = "cnt" /\ fpc' = "stat" /\ out'.setup = out.setup /\ out'.own = out.own
          /\ IF plan.side = "out" THEN out'.cnt = ArmSize ELSE out' = out
      <4>1. /\ out \in [own : BOOLEAN, cnt : 0 .. ArmSize, setup : BOOLEAN]
            /\ plan.side = "out" => plan.cnt = ArmSize
        BY DEF PipeInv, ControlTypes, DeviceTypes, ArmWhole
      <4> QED
        BY <2>2, <4>1 DEF ArmCnt
    <3>2. StatusOut => StatusOut'
      BY <1>2, <1>4, <3>1 DEF StatusOut
    <3> QED
      BY <1>2, <3>1, <3>2, SizeFacts DEF Smooth, Armed, Rearming, InReset
  <2>3. CASE ArmStat
    <3>1. /\ fpc = "stat" /\ fpc' = "enable" /\ out'.cnt = out.cnt
          /\ out' = out \/ ~out'.setup
          /\ IF plan.side = "out" THEN out'.own ELSE out' = out
      <4>1. out \in [own : BOOLEAN, cnt : 0 .. ArmSize, setup : BOOLEAN]
        BY DEF PipeInv, ControlTypes, DeviceTypes
      <4> QED
        BY <2>3, <4>1 DEF ArmStat
    <3>2. StatusOut => StatusOut'
      BY <1>2, <1>4, <3>1 DEF StatusOut
    <3> QED
      BY <1>2, <3>1, <3>2 DEF Smooth, Armed, Rearming, InReset
  <2> QED
    BY <2>1, <2>2, <2>3
<1>6. PacketsOn(e)'
  <2>1. CASE Early \/ Enable
    BY <2>1 DEF Early, Enable, PacketsOn
  <2>2. CASE ArmCnt \/ ArmStat
    BY <2>2, FirmwareSame, <1>2 DEF ArmCnt, ArmStat, Smooth, PacketsOn
  <2> QED
    BY <2>1, <2>2
<1> QED
  BY <1>1, <1>2, <1>3, <1>5, <1>6, QuietSmooth

LEMMA PollSmooth ==
    ASSUME PipeInv, HonestInv, timely, NEW e \in Clients, Alone(e), Smooth(e), Poll
    PROVE  Smooth(e)'
<1>1. /\ Firmware /\ UNCHANGED <<at, stage, reset, pktdis, uaddr, out, cts, plan, ran>> /\ fpc = "poll"
      /\ IF events = <<>>
         THEN fpc' = "loop" /\ UNCHANGED <<events, ev>>
         ELSE ev' = Head(events) /\ events' = Tail(events) /\ fpc' = "decide"
  BY DEF Firmware, Poll, hostVars, regVars
<1>2. /\ NoneLeft => NoneLeft'
      /\ OneLeft("IN") => OneLeft("IN")'
      /\ OneLeft("OUT") => OneLeft("OUT")'
      /\ TwoLeft("IN", "OUT") => TwoLeft("IN", "OUT")'
  <2>1. \A x \in {"IN", "OUT"} : <<x>> # <<>> /\ Head(<<x>>) = x /\ Tail(<<x>>) = <<>>
    OBVIOUS
  <2>2. /\ <<"IN", "OUT">> # <<>> /\ Head(<<"IN", "OUT">>) = "IN"
        /\ Tail(<<"IN", "OUT">>) = <<"OUT">>
    OBVIOUS
  <2>3. NoneLeft => NoneLeft'
    BY <1>1 DEF NoneLeft
  <2>4. ASSUME NEW x \in {"IN", "OUT"}, OneLeft(x) PROVE OneLeft(x)'
    BY <1>1, <2>1, <2>4 DEF OneLeft
  <2>5. TwoLeft("IN", "OUT") => TwoLeft("IN", "OUT")'
    BY <1>1, <2>2 DEF TwoLeft
  <2> QED
    BY <2>3, <2>4, <2>5
<1>3. StatusOut => StatusOut'
  BY <1>1, <1>2 DEF StatusOut
<1>4. fpc' \in {"loop", "decide"} /\ (InReset' <=> InReset)
  BY <1>1 DEF InReset
<1>5. Armed(e)'
  BY <1>1, <1>3, <1>4 DEF Smooth, Armed, Rearming
<1>6. PacketsOn(e)'
  BY <1>1 DEF Smooth, PacketsOn
<1>7. Backlog(e)'
  BY <1>1, <1>2, <1>3, <1>4, FirmwareSame DEF Smooth, Backlog
<1>8. AddressKnown(e)'
  <2>1. [Next]_vars
    BY <1>1 DEF Next
  <2>2. AddressSet' => uaddr' = 1 \/ (stage'[e] = "SETUP" /\ OneLeft("IN")' /\ cts' = "ACKAD")
    BY <1>1, <1>2, FirmwareSame DEF Smooth, AddressKnown
  <2> QED
    BY <2>1, <2>2, AddressStep
<1>9. ResetFirst(e)'
  BY <1>1, <1>4, FirmwareSame DEF Smooth, ResetFirst
<1> QED
  BY <1>1, <1>5, <1>6, <1>7, <1>8, <1>9, FirmwareSame DEF Smooth

LEMMA DecideSmooth ==
    ASSUME PipeInv, HonestInv, timely, NEW e \in Clients, Alone(e), Smooth(e), Decide
    PROVE  Smooth(e)'
<1>1. /\ Firmware /\ [Next]_vars
      /\ UNCHANGED <<at, stage, reset, pktdis, out, events, ev, naddr, ran>> /\ fpc = "decide"
  BY DecideFacts DEF Firmware, Next
<1>2. InReset' <=> InReset
  BY <1>1, DecideFacts DEF InReset
<1>3. ResetFirst(e)'
  BY <1>1, <1>2, FirmwareSame DEF Smooth, ResetFirst
<1>4. CASE ev = "OUT" /\ out.setup
  <2>1. fpc' = "copy" /\ UNCHANGED <<uaddr, cts, plan>>
    BY <1>4, DecideFacts
  <2>2. stage[e] # "SETUP"
    BY <1>1, <1>4 DEF Smooth, Backlog, NoneLeft, OneLeft, StatusOut
  <2>3. ran[e] = 0
    BY <1>1, <1>4, <2>2, SmoothHonest DEF Taken
  <2>4. Armed(e)'
    BY <1>1, <1>2, <1>4, <2>1 DEF Smooth, Armed, Rearming, StatusOut
  <2>5. PacketsOn(e)' /\ Backlog(e)'
    <3>1. UNCHANGED <<stage, ran>> /\ Now(e)' = Now(e)
      BY <1>1, FirmwareSame
    <3>2. ~(stage[e] = "STATUS" /\ Now(e).len > 0)
      BY <2>3 DEF Smooth, Backlog
    <3> QED
      BY <2>2, <2>3, <3>1, <3>2 DEF PacketsOn, Backlog
  <2>6. AddressKnown(e)'
    BY <1>1, <2>1, <2>2, FirmwareSame, AddressStep DEF Smooth, AddressKnown
  <2> QED
    BY <1>1, <1>3, <2>4, <2>5, <2>6, FirmwareSame DEF Smooth
<1>5. CASE ~(ev = "OUT" /\ out.setup)
  <2>1. /\ cts \in {"SETUP", "DATA", "ACKIN", "ACKAD", "ACKSC"}
        /\ IF cts \in {"SETUP", "ACKSC"}
           THEN fpc' = "loop" /\ UNCHANGED <<uaddr, cts, plan>>
           ELSE /\ uaddr' = (IF cts = "ACKAD" THEN naddr ELSE uaddr)
                /\ cts = "DATA" => cts' = "ACKIN"
                /\ plan'.side = "out" /\ fpc' = "cnt"
    <3>1. cts \in {"SETUP", "DATA", "ACKIN", "ACKAD", "ACKSC"}
      BY DEF PipeInv, ControlTypes, FirmwareTypes
    <3> QED
      BY <1>5, <3>1 DEF Decide, ArmOut
  <2>2. \/ stage[e] = "SETUP" /\ (OneLeft("IN") \/ StatusOut)
        \/ stage[e] = "STATUS" /\ Now(e).len > 0 /\ ran[e] = 1 /\ OneLeft("IN") /\ cts = "DATA"
    <3>1. ~NoneLeft
      BY <1>1 DEF NoneLeft
    <3>2. stage[e] # "SETUP" => ran[e] = 1
      BY <1>1, <1>5, SmoothHonest DEF Unheard
    <3>3. Now(e).len > 0 \/ Now(e).len = 0 \/ stage[e] = "SETUP"
      BY SmoothHonest, ScriptFacts, TransferFacts
    <3> QED
      BY <3>1, <3>2, <3>3 DEF Smooth, Backlog, PipeInv, ControlTypes, HostTypes, Stages
  <2>3. /\ OneLeft("IN") => NoneLeft'
        /\ OneLeft("OUT") => NoneLeft'
        /\ TwoLeft("IN", "OUT") => OneLeft("OUT")'
    BY <1>1, <2>1 DEF NoneLeft, OneLeft, TwoLeft
  <2>4. Armed(e)'
    BY <1>1, <1>2, <2>1 DEF Smooth, Armed, Rearming, StatusOut
  <2>5. PacketsOn(e)'
    BY <1>1, <2>2 DEF Smooth, PacketsOn
  <2>6. Backlog(e)'
    <3>1. CASE stage[e] = "SETUP"
      <4>1. StatusOut => NoneLeft' \/ StatusOut'
        BY <1>1, <2>1, <2>3 DEF StatusOut
      <4> QED
        BY <1>1, <2>1, <2>2, <2>3, <3>1, <4>1 DEF Backlog
    <3>2. CASE stage[e] # "SETUP"
      <4>1. UNCHANGED <<stage, ran>> /\ Now(e)' = Now(e)
        BY <1>1, FirmwareSame
      <4>2. stage[e] = "STATUS" /\ ran[e] = 1 /\ ~(Now(e).len = 0) /\ NoneLeft' /\ cts' = "ACKIN"
        BY <2>1, <2>2, <2>3, <3>2
      <4> QED
        BY <4>1, <4>2 DEF Backlog
    <3> QED
      BY <3>1, <3>2
  <2>7. AddressKnown(e)'
    BY <1>1, <2>1, FirmwareSame, AddressStep DEF Smooth, AddressKnown
  <2> QED
    BY <1>1, <1>3, <2>4, <2>5, <2>6, <2>7, FirmwareSame DEF Smooth
<1> QED
  BY <1>4, <1>5

LEMMA CopySmooth ==
    ASSUME PipeInv, HonestInv, timely, NEW e \in Clients, Alone(e), Smooth(e), Copy
    PROVE  Smooth(e)'
<1>1. /\ Firmware /\ [Next]_vars
      /\ UNCHANGED <<at, stage, reset, pktdis, uaddr, out, events, ev>> /\ fpc = "copy"
  BY CopyFacts DEF Firmware, Next
<1>2. stage[e] # "SETUP"
  BY <1>1 DEF Smooth, Backlog
<1>3. /\ obuf = Request(e) /\ ran[e] = 0 /\ Now(e).kind \in {"GET", "ADDR", "CONF"}
      /\ events = <<>> /\ out.setup
  BY <1>1, <1>2, SmoothHonest DEF Taken, Unheard
<1>4. Transfer(obuf) = Now(e) /\ obuf # None
  BY <1>3, ScriptFacts DEF Transfer, Now
<1>5. /\ fpc' \in {"early", "cnt"}
      /\ Now(e).kind = "GET" => cts' = "DATA"
      /\ Now(e).kind = "ADDR" => cts' = "ACKAD"
  <2>1. Answer(Now(e), obuf)
    BY <1>3, <1>4 DEF Copy
  <2> QED
    BY <1>3, <2>1 DEF Answer
<1>6. ran'[e] = 1
  BY <1>3, CopyFacts
<1>7. InReset' <=> InReset
  BY <1>1, <1>5 DEF InReset
<1>8. Armed(e)'
  BY <1>1, <1>3, <1>7 DEF Smooth, Armed, Rearming, StatusOut
<1>9. PacketsOn(e)'
  BY <1>1, <1>2, <1>5 DEF PacketsOn
<1>10. Backlog(e)'
  <2>1. NoneLeft'
    BY <1>1, <1>3, <1>5 DEF NoneLeft
  <2>2. stage[e] = "DATA" => Now(e).kind = "GET"
    <3>1. stage[e] = "DATA" => Now(e).len > 0 /\ Now(e) \in Transfers
      BY <1>2, SmoothHonest, ScriptFacts DEF PipeInv, HostWhole
    <3> QED
      BY <1>3, <3>1, TransferFacts
  <2>3. ~(stage[e] = "STATUS" /\ Now(e).len > 0)
    BY <1>3 DEF Smooth, Backlog
  <2> QED
    <3>1. UNCHANGED stage /\ Now(e)' = Now(e)
      BY <1>1, FirmwareSame
    <3> QED
      BY <1>2, <1>5, <2>1, <2>2, <2>3, <3>1 DEF Backlog
<1>11. AddressKnown(e)'
  BY <1>1, <1>2, FirmwareSame, AddressStep DEF Smooth, AddressKnown
<1>12. ResetFirst(e)'
  BY <1>1, <1>7, FirmwareSame DEF Smooth, ResetFirst
<1> QED
  BY <1>1, <1>8, <1>9, <1>10, <1>11, <1>12, FirmwareSame DEF Smooth

LEMMA FirmwareSmooth ==
    ASSUME PipeInv, HonestInv, timely, NEW e \in Clients, Alone(e), Smooth(e), Firmware
    PROVE  Smooth(e)'
BY ResetSmooth, WriteSmooth, PollSmooth, DecideSmooth, CopySmooth DEF Firmware

-----------------------------------------------------------------------------
\* The thread's own steps.
LEMMA OnlyMoves ==
    ASSUME PipeInv, NEW e \in Clients, Alone(e), NEW c \in Clients, Host(c) \/ Packet(c)
    PROVE  c = e
<1>1. Running(c)
  BY HeadFacts DEF Host, Packet, BusReset, Submit, SendRefused, SendSetup, SendOut, SendIn
<1> QED
  BY <1>1, AloneFacts

LEMMA BusResetSmooth ==
    ASSUME PipeInv, timely, NEW e \in Clients, Alone(e), Smooth(e), BusReset(e)
    PROVE  Smooth(e)' /\ reset'
<1>1. /\ Running(e) /\ Now(e).kind = "RESET" /\ reset' = (reset \/ (uaddr = 0 /\ ~pktdis))
      /\ at' = [at EXCEPT ![e] = @ + 1] /\ at[e] \in Nat /\ at \in [Clients -> Nat] /\ at[e] # 0
      /\ UNCHANGED <<script, stage, linked, failed, overlap, pktdis, uaddr, out, events, fpc, ev, cts,
                     naddr, plan, ran>>
  BY DEF BusReset, scenario, fwVars, PipeInv, ControlTypes, HostTypes
<1>2. stage[e] = "SETUP" /\ ~linked[e] /\ ~AddressSet
  BY <1>1, AloneFacts DEF PipeInv, HostWhole
<1>3. uaddr = 0 /\ ~pktdis /\ reset'
  BY <1>1, <1>2 DEF Smooth, AddressKnown, BeforeAddress, PacketsOn
<1>4. at'[e] = at[e] + 1 /\ at'[e] > 1
  BY <1>1
<1>5. Armed(e)' /\ PacketsOn(e)'
  BY <1>1, <1>3 DEF Armed, InReset, PacketsOn
<1>6. Backlog(e)'
  BY <1>1, <1>2 DEF Smooth, Backlog, NoneLeft, OneLeft, TwoLeft, StatusOut
<1>7. AddressKnown(e)'
  <2>1. [Next]_vars
    BY DEF Next, Host
  <2>2. ~AddressSet'
    <3> SUFFICES ASSUME NEW c \in Clients, NEW k \in 1 .. at'[c] - 1, script[c][k].kind = "ADDR"
                 PROVE  FALSE
      BY <1>1 DEF AddressSet
    <3>1. c = e /\ k = at[e]
      BY <1>1, <1>2, <1>4 DEF AddressSet
    <3> QED
      BY <1>1, <3>1 DEF Now
  <2> QED
    BY <2>1, <2>2, AddressStep
<1>8. ResetFirst(e)'
  <2>1. script'[e][at'[e] - 1].kind = "RESET"
    BY <1>1, <1>4 DEF Now
  <2> QED
    BY <1>1, <1>2, <1>4, <2>1 DEF ResetFirst, AfterReset
<1> QED
  BY <1>1, <1>3, <1>5, <1>6, <1>7, <1>8 DEF Smooth

LEMMA SubmitSmooth ==
    ASSUME PipeInv, timely, NEW e \in Clients, Alone(e), Smooth(e), Submit(e)
    PROVE  Smooth(e)'
<1>1. /\ Slept(e)
      /\ IF stage[e] = "SETUP" THEN ran' = [ran EXCEPT ![e] = 0] /\ failed' = [failed EXCEPT ![e] = FALSE]
                               ELSE UNCHANGED <<ran, failed>>
      /\ UNCHANGED <<script, at, stage, overlap, reset, pktdis, uaddr, out, events, fpc, ev, cts,
                     naddr, plan>>
  BY DEF Submit, scenario, regVars
<1>2. ~failed'[e]
  BY <1>1 DEF Smooth, PipeInv, ControlTypes, TransferTypes
<1>3. Now(e)' = Now(e) /\ (AddressSet' <=> AddressSet)
  BY <1>1 DEF Now, AddressSet
<1>4. stage[e] # "SETUP" => ran' = ran
  BY <1>1
<1>5. Armed(e)'
  BY <1>1 DEF Smooth, Armed, InReset, Rearming, StatusOut, OneLeft, TwoLeft
<1>6. PacketsOn(e)'
  BY <1>1, <1>4 DEF Smooth, PacketsOn
<1>7. Backlog(e)'
  <2>1. CASE stage[e] = "SETUP"
    BY <1>1, <2>1 DEF Smooth, Backlog, NoneLeft, OneLeft, TwoLeft, StatusOut
  <2>2. CASE stage[e] # "SETUP"
    BY <1>1, <1>3, <1>4, <2>2 DEF Smooth, Backlog, NoneLeft, OneLeft
  <2> QED
    BY <2>1, <2>2
<1>8. AddressKnown(e)'
  <2>1. [Next]_vars
    BY DEF Next, Host
  <2> QED
    BY <1>1, <1>3, <2>1, AddressStep DEF Smooth, AddressKnown, OneLeft
<1>9. ResetFirst(e)'
  <2>1. ~InReset
    BY <1>1 DEF Smooth, ResetFirst, Slept, FirmwareIdle, InReset
  <2> QED
    BY <1>1, <2>1 DEF ResetFirst, InReset
<1> QED
  BY <1>1, <1>2, <1>5, <1>6, <1>7, <1>8, <1>9 DEF Smooth

LEMMA RefusedSmooth ==
    ASSUME PipeInv, HonestInv, timely, NEW e \in Clients, Alone(e), Smooth(e), SendRefused(e)
    PROVE  Smooth(e)'
<1>1. err[e] # 2
  BY NeverGivenUp DEF SendRefused
<1>2. UNCHANGED <<script, at, stage, linked, failed, overlap, reset, pktdis, uaddr, out, events, fpc,
                  ev, cts, naddr, plan, ran>>
  BY <1>1 DEF SendRefused, Err, scenario, regVars, fwVars
<1>3. Now(e)' = Now(e) /\ (AddressSet' <=> AddressSet) /\ (AfterReset(e)' <=> AfterReset(e))
  BY <1>2 DEF Now, AddressSet, AfterReset
<1>4. AddressKnown(e)'
  <2>1. [Next]_vars
    BY DEF Next, Packet
  <2> QED
    BY <1>2, <1>3, <2>1, AddressStep DEF Smooth, AddressKnown, OneLeft
<1>5. /\ NoneLeft' <=> NoneLeft
      /\ OneLeft("IN")' <=> OneLeft("IN")
      /\ StatusOut' <=> StatusOut
  BY <1>2 DEF NoneLeft, OneLeft, TwoLeft, StatusOut
<1>6. Armed(e)' /\ PacketsOn(e)'
  BY <1>2, <1>5 DEF Smooth, Armed, InReset, Rearming, PacketsOn
<1>7. Backlog(e)'
  BY <1>2, <1>3, <1>5 DEF Smooth, Backlog
<1>8. ResetFirst(e)'
  BY <1>2, <1>3 DEF Smooth, ResetFirst, InReset
<1> QED
  BY <1>2, <1>4, <1>6, <1>7, <1>8 DEF Smooth

LEMMA SetupSmooth ==
    ASSUME PipeInv, HonestInv, timely, NEW e \in Clients, Alone(e), Smooth(e), SendSetup(e)
    PROVE  Smooth(e)'
<1>1. Turn(e) /\ stage[e] = "SETUP" /\ FirmwareIdle
  BY DEF SendSetup, Turn
<1>2. /\ events = <<>> /\ ~reset /\ fpc \in {"loop", "poll"} /\ linked[e] /\ at[e] # 1
      /\ left[e] = SetupSize /\ ran[e] = 0
  BY <1>1, HeadFacts, AloneFacts DEF FirmwareIdle
<1>3. out.own /\ out.cnt \in {SetupSize, ArmSize}
  BY <1>2 DEF Smooth, Armed, InReset, Rearming, StatusOut, OneLeft, TwoLeft, PipeInv, ArmWhole
<1>4. out' = [out EXCEPT !.cnt = SetupSize, !.setup = TRUE]
  <2>1. Least(out.cnt, left[e]) = SetupSize
    BY <1>2, <1>3, SizeFacts DEF Least
  <2> QED
    BY <1>3, <2>1 DEF SendSetup
<1>5. out'.own /\ out'.cnt = SetupSize /\ out'.cnt # 0
  BY <1>3, <1>4, SizeFacts DEF PipeInv, ControlTypes, DeviceTypes
<1>6. /\ StageDone(e)
      /\ UNCHANGED <<script, failed, reset, uaddr, fpc, ev, cts, naddr, plan, ran>>
  BY <1>3, <1>5, SetupFacts
<1>7. /\ stage'[e] = IF Now(e).len > 0 THEN "DATA" ELSE "STATUS"
      /\ at'[e] = at[e] /\ Now(e)' = Now(e)
      /\ \A c \in Clients : at'[c] = at[c]
  BY <1>1, <1>6, StageFacts
<1>8. ~overlap'
  BY <1>1, AloneFacts DEF SendSetup, Smooth
<1>9. Armed(e)'
  BY <1>5 DEF Armed
<1>10. PacketsOn(e)'
  BY <1>2, <1>6, <1>7 DEF PacketsOn
<1>11. Backlog(e)'
  <2>1. stage'[e] # "SETUP" /\ ran'[e] = 0 /\ ~(stage'[e] = "STATUS" /\ Now(e)'.len > 0)
    BY <1>2, <1>6, <1>7
  <2> QED
    BY <2>1 DEF Backlog
<1>12. AddressKnown(e)'
  <2>1. [Next]_vars
    BY DEF Next, Packet
  <2>2. AddressSet' => AddressSet
    BY <1>6, <1>7 DEF AddressSet
  <2>3. AddressSet => uaddr = 1
    BY <1>2 DEF Smooth, AddressKnown, OneLeft
  <2> QED
    BY <1>6, <2>1, <2>2, <2>3, AddressStep
<1>13. ~InReset'
  BY <1>2, <1>6 DEF InReset
<1> QED
  BY <1>6, <1>8, <1>9, <1>10, <1>11, <1>12, <1>13 DEF Smooth, ResetFirst

\* The end of a transfer.
LEMMA StatusOver ==
    ASSUME PipeInv, NEW e \in Clients, UNCHANGED script, StageDone(e), stage[e] = "STATUS"
    PROVE  /\ stage'[e] = "SETUP" /\ ~linked'[e]
           /\ at'[e] = at[e] + 1
           /\ AddressSet' => AddressSet \/ Now(e).kind = "ADDR"
<1>1. at \in [Clients -> Nat]
  BY DEF PipeInv, ControlTypes, HostTypes
<1>2. stage'[e] = "SETUP" /\ ~linked'[e]
  BY StageFacts
<1>3. at' = [at EXCEPT ![e] = @ + 1]
  BY DEF StageDone
<1>4. ASSUME NEW c \in Clients, NEW k \in 1 .. at'[c] - 1, script[c][k].kind = "ADDR"
      PROVE  AddressSet \/ Now(e).kind = "ADDR"
  <2>1. k \in 1 .. at[c] - 1 \/ (c = e /\ k = at[e])
    BY <1>1, <1>3
  <2> QED
    BY <1>4, <2>1 DEF AddressSet, Now
<1>5. AddressSet' => AddressSet \/ Now(e).kind = "ADDR"
  BY <1>4 DEF AddressSet
<1> QED
  BY <1>1, <1>2, <1>3, <1>5

LEMMA TwoEvents == \A x \in {"OUT", "IN"} : Append(<<"IN">>, x) = <<"IN", x>>
<1> SUFFICES ASSUME NEW x \in {"OUT", "IN"} PROVE Append(<<"IN">>, x) = <<"IN", x>>
  OBVIOUS
<1>1. /\ <<"IN">> \in Seq({"OUT", "IN"}) /\ Len(<<"IN">>) = 1 /\ <<"IN">>[1] = "IN"
      /\ <<"IN", x>> \in Seq({"OUT", "IN"}) /\ Len(<<"IN", x>>) = 2
      /\ <<"IN", x>>[1] = "IN" /\ <<"IN", x>>[2] = x
  OBVIOUS
<1>2. Append(<<"IN">>, x) \in Seq({"OUT", "IN"}) /\ Len(Append(<<"IN">>, x)) = 2
  BY <1>1, AppendProperties
<1>3. Append(<<"IN">>, x)[1] = "IN" /\ Append(<<"IN">>, x)[2] = x
  BY <1>1, AppendProperties
<1>4. \A i \in 1 .. 2 : Append(<<"IN">>, x)[i] = <<"IN", x>>[i]
  <2> SUFFICES ASSUME NEW i \in 1 .. 2 PROVE Append(<<"IN">>, x)[i] = <<"IN", x>>[i]
    OBVIOUS
  <2>1. i = 1 \/ i = 2
    OBVIOUS
  <2> QED
    BY <1>1, <1>3, <2>1
<1> DEFINE s == Append(<<"IN">>, x)
           t == <<"IN", x>>
<1>5. /\ s \in Seq({"OUT", "IN"}) /\ t \in Seq({"OUT", "IN"}) /\ Len(s) = 2 /\ Len(t) = 2
      /\ \A i \in 1 .. 2 : s[i] = t[i]
  BY <1>1, <1>2, <1>4
<1> HIDE DEF s, t
<1>6. s = t
  BY <1>5, SeqEqual
<1> QED
  BY <1>6 DEF s, t

\* What a packet that is let in adds to the ring.
LEMMA OneMore ==
    ASSUME NEW x \in {"OUT", "IN"}, events' = Append(events, x), UNCHANGED <<fpc, ev>>
    PROVE  /\ NoneLeft => OneLeft(x)'
           /\ OneLeft("IN") => TwoLeft("IN", x)'
<1>1. Append(<<>>, x) = <<x>> /\ Append(<<"IN">>, x) = <<"IN", x>>
  BY TwoEvents
<1>2. NoneLeft => OneLeft(x)'
  BY <1>1 DEF NoneLeft, OneLeft
<1>3. OneLeft("IN") => TwoLeft("IN", x)'
  BY <1>1 DEF OneLeft, TwoLeft
<1> QED
  BY <1>2, <1>3

LEMMA OutSmooth ==
    ASSUME PipeInv, HonestInv, timely, NEW e \in Clients, Alone(e), Smooth(e), SendOut(e)
    PROVE  Smooth(e)'
<1>1. /\ Turn(e) /\ ~pktdis /\ stage[e] = "STATUS" /\ Now(e).len # 0
      /\ out' = [out EXCEPT !.cnt = 0, !.setup = FALSE]
      /\ events' = Append(events, "OUT")
      /\ StageDone(e)
      /\ UNCHANGED <<script, failed, overlap, reset, pktdis, uaddr, fpc, ev, cts, naddr, plan, ran>>
  BY OutFacts DEF Refused
<1>2. linked[e] /\ at[e] # 1 /\ Now(e).len > 0 /\ Now(e).kind # "ADDR"
  <2>1. linked[e] /\ at[e] # 1 /\ Now(e) \in Transfers
    BY <1>1, HeadFacts, AloneFacts, ScriptFacts
  <2> QED
    BY <1>1, <2>1, TransferFacts
<1>3. ~out'.setup /\ out'.own = out.own
  BY <1>1 DEF PipeInv, ControlTypes, DeviceTypes
<1>4. /\ stage'[e] = "SETUP" /\ ~linked'[e] /\ (AddressSet' => AddressSet)
  BY <1>1, <1>2, StatusOver
<1>5. fpc # "copy" /\ ((OneLeft("IN") /\ cts = "DATA") \/ (NoneLeft /\ cts = "ACKIN"))
  BY <1>1, <1>2, SmoothHonest DEF Taken, Smooth, Backlog
<1>6. StatusOut'
  BY <1>1, <1>3, <1>5, OneMore DEF StatusOut
<1>7. ~InReset
  BY <1>2 DEF Smooth, ResetFirst
<1>8. ~InReset'
  BY <1>1, <1>7 DEF InReset
<1>9. Armed(e)'
  BY <1>1, <1>2, <1>3, <1>6, <1>7 DEF Smooth, Armed, Rearming
<1>10. PacketsOn(e)'
  BY <1>1 DEF PacketsOn
<1>11. Backlog(e)'
  BY <1>1, <1>4, <1>5, <1>6 DEF Backlog
<1>12. AddressKnown(e)'
  <2>1. [Next]_vars
    BY DEF Next, Packet
  <2> QED
    BY <1>1, <1>4, <2>1, AddressStep DEF Smooth, AddressKnown
<1> QED
  BY <1>1, <1>8, <1>9, <1>10, <1>11, <1>12 DEF Smooth, ResetFirst

LEMMA InSmooth ==
    ASSUME PipeInv, HonestInv, timely, NEW e \in Clients, Alone(e), Smooth(e), SendIn(e)
    PROVE  Smooth(e)'
<1>1. /\ Turn(e) /\ ~pktdis /\ in.own
      /\ stage[e] = "DATA" \/ (stage[e] = "STATUS" /\ Now(e).len = 0)
      /\ events' = Append(events, "IN")
      /\ Least(in.cnt, left[e]) = left[e] => StageDone(e)
      /\ UNCHANGED <<script, failed, overlap, reset, pktdis, uaddr, out, fpc, ev, cts, naddr, plan, ran>>
  BY InFacts DEF Refused
<1>2. /\ linked[e] /\ at[e] # 1 /\ Running(e) /\ left[e] \in 0 .. ArmSize
      /\ stage[e] = "STATUS" => left[e] = 0
  BY <1>1, HeadFacts, AloneFacts
<1>3. ran[e] = 1 /\ Taken(e) /\ fpc # "copy"
  BY <1>1, SmoothHonest DEF Taken
<1>4. StageDone(e)
  <2>1. CASE stage[e] = "DATA"
    <3>1. DataReady(e) /\ left[e] = Now(e).len
      BY <1>2, <1>3, <2>1 DEF Taken, HonestInv, Live, Smooth, Honest
    <3>2. in.cnt = left[e]
      BY <1>1, <3>1 DEF DataReady
    <3> QED
      BY <1>1, <3>2 DEF Least
  <2>2. CASE stage[e] = "STATUS"
    <3>1. in.cnt \in Nat /\ left[e] = 0
      BY <1>2, <2>2 DEF PipeInv, ControlTypes, DeviceTypes
    <3> QED
      BY <1>1, <3>1 DEF Least
  <2> QED
    BY <1>1, <2>1, <2>2
<1>5. NoneLeft /\ OneLeft("IN")'
  BY <1>1, <1>3, OneMore DEF Smooth, Backlog
<1>6. ~InReset
  BY <1>2 DEF Smooth, ResetFirst
<1>7. ~InReset'
  BY <1>1, <1>6 DEF InReset
<1>8. Armed(e)'
  <2>1. ~StatusOut
    BY <1>5 DEF StatusOut, NoneLeft, OneLeft, TwoLeft
  <2> QED
    BY <1>1, <1>2, <1>6, <2>1 DEF Smooth, Armed, Rearming
<1>9. PacketsOn(e)'
  BY <1>1 DEF PacketsOn
<1>10. CASE stage[e] = "DATA"
  <2>1. stage'[e] = "STATUS" /\ Now(e)' = Now(e) /\ \A c \in Clients : at'[c] = at[c]
    BY <1>1, <1>4, <1>10, StageFacts
  <2>2. Backlog(e)'
    <3>1. cts = "DATA" /\ Now(e).len > 0 /\ ~(Now(e).len = 0)
      BY <1>3, <1>10 DEF Smooth, Backlog, PipeInv, HostWhole
    <3> QED
      BY <1>1, <1>3, <1>5, <2>1, <3>1 DEF Backlog
  <2>3. AddressKnown(e)'
    <3>1. [Next]_vars
      BY DEF Next, Packet
    <3>2. AddressSet' => AddressSet
      BY <1>1, <2>1 DEF AddressSet
    <3> QED
      BY <1>1, <1>10, <3>1, <3>2, AddressStep DEF Smooth, AddressKnown
  <2> QED
    BY <1>1, <1>7, <1>8, <1>9, <2>2, <2>3 DEF Smooth, ResetFirst
<1>11. CASE stage[e] = "STATUS"
  <2>1. stage'[e] = "SETUP" /\ (AddressSet' => AddressSet \/ Now(e).kind = "ADDR")
    BY <1>1, <1>4, <1>11, StatusOver
  <2>2. Backlog(e)'
    BY <1>1, <1>3, <1>5, <2>1 DEF Backlog
  <2>3. AddressKnown(e)'
    <3>1. [Next]_vars
      BY DEF Next, Packet
    <3>2. AddressSet => uaddr = 1
      BY <1>11 DEF Smooth, AddressKnown
    <3>3. Now(e).kind = "ADDR" => cts = "ACKAD"
      BY <1>1, <1>3, <1>11 DEF Smooth, Backlog
    <3> QED
      BY <1>1, <1>5, <2>1, <3>1, <3>2, <3>3, AddressStep
  <2> QED
    BY <1>1, <1>7, <1>8, <1>9, <2>2, <2>3 DEF Smooth, ResetFirst
<1> QED
  BY <1>1, <1>10, <1>11

LEMMA SmoothStep ==
    ASSUME PipeInv, HonestInv, timely, NEW e \in Clients, Alone(e), Smooth(e), [Next]_vars
    PROVE  Smooth(e)'
<1>1. CASE UNCHANGED vars
  <2>1. UNCHANGED <<script, at, stage, linked, failed, overlap, reset, pktdis, uaddr, out, obuf, events,
                    fpc, ev, cts, naddr, plan, ran>>
    BY <1>1 DEF vars, hostVars, scenario, regVars, fwVars
  <2>2. Armed(e)' /\ PacketsOn(e)'
    BY <2>1 DEF Smooth, Armed, PacketsOn, InReset, Rearming, StatusOut, OneLeft, TwoLeft
  <2>3. Backlog(e)'
    BY <2>1 DEF Smooth, Backlog, NoneLeft, OneLeft, TwoLeft, StatusOut, Now
  <2>4. AddressKnown(e)'
    BY <2>1, AddressStep DEF Smooth, AddressKnown, AddressSet, OneLeft
  <2>5. ResetFirst(e)'
    BY <2>1 DEF Smooth, ResetFirst, InReset, AfterReset
  <2> QED
    BY <2>1, <2>2, <2>3, <2>4, <2>5 DEF Smooth
<1>2. CASE Firmware
  BY <1>2, FirmwareSmooth
<1>3. ASSUME NEW c \in Clients, Host(c) \/ Packet(c) PROVE Smooth(e)'
  <2>1. c = e
    BY <1>3, OnlyMoves
  <2> QED
    BY <1>3, <2>1, BusResetSmooth, SubmitSmooth, RefusedSmooth, SetupSmooth, OutSmooth, InSmooth
       DEF Host, Packet
<1> QED
  BY <1>1, <1>2, <1>3 DEF Next

SmoothInv == timely /\ \E e \in Clients : Alone(e) /\ Smooth(e)

\* With one thread that waits for the firmware before a SETUP packet, the size
\* sys_usb_control_transfer returns and the "status OK" of on_urb_complete are
\* true: every transfer goes through all its stages and is answered, and every
\* bus reset reaches the device, whatever an orderly script asks for and however
\* the other packets fall between the firmware's steps.
THEOREM TransfersAreGood ==
    ASSUME \A s \in Scenarios : s.timely /\ OneOrderly(s.script)
    PROVE  Spec => TransfersGood
<1> DEFINE Inv == PipeInv /\ HonestInv /\ SmoothInv
           Good(c) == timely /\ Running(c) /\ at'[c] # at[c] =>
                          IF Now(c).kind = "RESET" THEN reset' ELSE ~failed'[c] /\ Answered(c)
<1>1. Init => Inv
  <2> SUFFICES ASSUME Init PROVE HonestInv /\ SmoothInv
    BY PipeInit
  <2>1. \A c \in Clients : ~Live(c)
    BY DEF Init, Live
  <2>2. timely /\ OneOrderly(script)
    BY DEF Init
  <2>3. PICK e \in Clients : Alone(e)
    BY <2>2 DEF OneOrderly, Alone
  <2>4. /\ at[e] = 1 /\ stage[e] = "SETUP" /\ ~failed[e] /\ ~overlap /\ ~pktdis /\ ~InReset
        /\ NoneLeft /\ fpc = "loop" /\ cts = "SETUP"
    BY DEF Init, InReset, NoneLeft
  <2>5. ~AddressSet
    BY DEF Init, AddressSet
  <2>6. BeforeAddress(e)
    BY DEF Init, BeforeAddress, Asking, NoneLeft
  <2>7. Smooth(e)
    BY <2>4, <2>5, <2>6 DEF Smooth, Armed, PacketsOn, Backlog, AddressKnown, ResetFirst
  <2> QED
    BY <2>1, <2>2, <2>3, <2>7 DEF HonestInv, SmoothInv
<1>2. Inv /\ [Next]_vars => Inv'
  <2> SUFFICES ASSUME Inv, [Next]_vars PROVE SmoothInv'
    BY PipeStep, HonestStep
  <2>1. PICK e \in Clients : Alone(e) /\ Smooth(e)
    BY DEF SmoothInv
  <2>2. script' = script /\ timely' = timely /\ timely
    BY AtGrows DEF SmoothInv
  <2>3. Alone(e)'
    BY <2>1, <2>2 DEF Alone
  <2>4. Smooth(e)'
    BY <2>1, <2>2, SmoothStep
  <2> QED
    BY <2>2, <2>3, <2>4 DEF SmoothInv
<1>3. Inv /\ [Next]_vars => [\A c \in Clients : Good(c)]_vars
  <2> SUFFICES ASSUME Inv, [Next]_vars, NEW c \in Clients, Running(c), at'[c] # at[c]
               PROVE  IF Now(c).kind = "RESET" THEN reset' ELSE ~failed'[c] /\ Answered(c)
    OBVIOUS
  <2>1. PICK e \in Clients : Alone(e) /\ Smooth(e)
    BY DEF SmoothInv
  <2>2. c = e /\ timely
    BY <2>1, AloneFacts DEF SmoothInv
  <2>3. Smooth(e)'
    BY <2>1, <2>2, SmoothStep
  <2>4. CASE Now(c).kind # "RESET"
    <3>1. ~failed'[c] /\ ~overlap'
      BY <2>2, <2>3 DEF Smooth
    <3> QED
      BY <2>4, <3>1, EndsWell DEF Ends
  <2>5. CASE Now(c).kind = "RESET"
    <3>1. ~UNCHANGED vars /\ ~Firmware
      BY FirmwareSame DEF vars, hostVars
    <3>2. PICK d \in Clients : Host(d) \/ Packet(d)
      BY <3>1 DEF Next
    <3>3. d = c
      BY <2>1, <2>2, <3>2, OnlyMoves
    <3>4. BusReset(c)
      BY <2>5, <3>2, <3>3, HeadFacts DEF Host, Submit, Packet, SendRefused, SendSetup, SendOut, SendIn
    <3>5. reset'
      BY <2>1, <2>2, <3>4, BusResetSmooth
    <3> QED
      BY <2>5, <3>5
  <2> QED
    BY <2>4, <2>5
<1> QED
  BY <1>1, <1>2, <1>3, PTL DEF Spec, TransfersGood
=============================================================================
