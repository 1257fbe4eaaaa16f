--------------------------- MODULE BulkPipeProofs ---------------------------
(***************************************************************************)
(* Theorems about the bulk endpoints, for any texts, any size of buffer    *)
(* and ring and any number of linked reads: the event ring inside is that  *)
(* of EpQueue, so what EpQueueProofs shows of the ring is used here.       *)
(***************************************************************************)
EXTENDS BulkPipe, EpQueueProofs

-----------------------------------------------------------------------------
(***************************************************************************)
(* The ring.                                                               *)
(***************************************************************************)
\* Two polling functions, one notification: nothing else touches the ring.
LEMMA RingStep == [BulkNext]_bulkVars => [Next]_vars
<1> SUFFICES ASSUME [BulkNext]_bulkVars PROVE [Next]_vars
  OBVIOUS
<1>1. CASE UNCHANGED bulkVars
  BY <1>1 DEF bulkVars
<1>2. CASE Start \/ Kill \/ ReadFirst \/ ReadAgain \/ \E t \in Texts : SendText(t)
  BY <1>2 DEF Start, Kill, ReadFirst, ReadAgain, LinkRead, SendText
<1>3. CASE SendOut
  <2>1. BulkOut \in Endpoints /\ NotifyEp(BulkOut)
    BY <1>3, BulkAssumption DEF SendOut, Notified
  <2> QED
    BY <2>1 DEF Next
<1>4. CASE SendIn
  <2>1. BulkIn \in Endpoints /\ NotifyEp(BulkIn)
    BY <1>4, BulkAssumption DEF SendIn, Notified
  <2> QED
    BY <2>1 DEF Next
<1>5. CASE FwPoll \/ FwFetch
  BY <1>5 DEF FwPoll, FwFetch, Next
<1>6. CASE WaitPress \/ TakeKey \/ SendKey \/ CopyOut \/ ArmOut \/ Press \/ Release
  BY <1>6 DEF WaitPress, TakeKey, SendKey, CopyOut, ArmOut, Press, Release
<1> QED
  BY <1>1, <1>2, <1>3, <1>4, <1>5, <1>6 DEF BulkNext

\* The pipe drives the ring as EpQueue says, whatever the program of the host
\* does and however far the firmware lags behind.
THEOREM BulkImplementsRing == BulkSpec => Spec
<1>1. BulkInit => Init
  BY DEF BulkInit
<1> QED
  BY <1>1, RingStep, PTL DEF BulkSpec, Spec

\* The firmware never fetches an event that is not there, and its poll answers
\* for the number of codes modulo the size of the ring.
THEOREM BulkRingExact == BulkSpec => []RingExact
BY BulkImplementsRing, EpQueueExact, PTL

-----------------------------------------------------------------------------
(***************************************************************************)
(* Types.                                                                  *)
(***************************************************************************)
Program == /\ prog \in {"off", "menu", "read", "again", "send"}
           /\ list \in Seq({BulkIn, BulkOut}) /\ IsInjective(list)
           /\ reads \in Seq({"mine", "nobody"}) /\ Len(reads) <= MaxReads
           /\ text \in Texts \cup {<<>>} /\ left \in 0 .. Len(text)

Device == /\ own1 \in BOOLEAN
          /\ cnt2 \in 0 .. BufSize /\ buf2 \in [1 .. BufSize -> Bytes]
          /\ heard \in [1 .. BufSize -> Bytes]

Loop == /\ fpc \in {"main", "press", "take", "release", "copy", "arm"}
        /\ key \in {Up, "down"} /\ pad \in {Up, "down"}
        /\ taken \in BOOLEAN /\ crowded \in BOOLEAN

BulkTypes == Program /\ Device /\ Loop

LEMMA TextFacts ==
    ASSUME Program
    PROVE  /\ Len(text) \in Nat /\ left \in Nat /\ left <= Len(text)
           /\ \A i \in 1 .. Len(text) : text[i] \in Bytes
<1>1. text \in Seq(Bytes)
  <2>1. <<>> \in Seq(Bytes)
    OBVIOUS
  <2> QED
    BY <2>1, BulkAssumption DEF Program
<1>2. Len(text) \in Nat /\ \A i \in 1 .. Len(text) : text[i] \in Bytes
  BY <1>1, LenProperties, ElementOfSeq
<1> QED
  BY <1>2 DEF Program

LEMMA OpenedFacts ==
    ASSUME list \in Seq({BulkIn, BulkOut}), IsInjective(list), NEW e \in {BulkIn, BulkOut}
    PROVE  Opened(e) \in Seq({BulkIn, BulkOut}) /\ IsInjective(Opened(e))
<1>1. CASE e \in Range(list)
  BY <1>1 DEF Opened
<1>2. CASE e \notin Range(list)
  <2> DEFINE n == Len(list)
  <2>1. /\ Opened(e) = Append(list, e)
        /\ n \in Nat /\ DOMAIN list = 1 .. n
    BY <1>2, LenProperties DEF Opened
  <2>2. /\ Opened(e) \in Seq({BulkIn, BulkOut}) /\ Len(Opened(e)) = n + 1
        /\ \A i \in 1 .. n : Opened(e)[i] = list[i]
        /\ Opened(e)[n + 1] = e
    BY <2>1, AppendProperties
  <2>3. DOMAIN Opened(e) = 1 .. n + 1
    BY <2>2, LenProperties
  <2>4. \A i \in 1 .. n : list[i] # e
    BY <1>2, <2>1 DEF Range
  <2>5. \A i, j \in 1 .. n : list[i] = list[j] => i = j
    BY <2>1 DEF IsInjective
  <2> HIDE DEF n
  <2>6. \A i, j \in 1 .. n + 1 : Opened(e)[i] = Opened(e)[j] => i = j
    BY <2>1, <2>2, <2>4, <2>5
  <2> QED
    BY <2>2, <2>3, <2>6 DEF IsInjective
<1> QED
  BY <1>1, <1>2

LEMMA ProgramKeeps ==
    ASSUME Program, Start \/ Kill \/ ReadFirst \/ ReadAgain \/ \E t \in Texts : SendText(t)
    PROVE  Program'
<1>1. CASE Start
  BY <1>1 DEF Start, Program
<1>2. CASE Kill
  <2> DEFINE n == Len(reads)
  <2>1. n \in Nat /\ DOMAIN reads = 1 .. n /\ n <= MaxReads
    BY LenProperties DEF Program
  <2>2. reads' = [i \in 1 .. n |-> "nobody"]
    BY <1>2, <2>1 DEF Kill
  <2>3. reads' \in Seq({"mine", "nobody"}) /\ DOMAIN reads' = 1 .. n
    BY <2>1, <2>2, SeqDef
  <2>4. Len(reads') = n
    BY <2>1, <2>3, LenProperties
  <2> QED
    BY <1>2, <2>1, <2>3, <2>4 DEF Kill, Program
<1>3. CASE ReadFirst \/ ReadAgain
  <2>1. /\ Len(reads) < MaxReads /\ reads' = Append(reads, "mine") /\ list' = Opened(BulkIn)
        /\ prog' = "read" /\ UNCHANGED <<text, left>>
    BY <1>3 DEF ReadFirst, ReadAgain, LinkRead
  <2>2. reads' \in Seq({"mine", "nobody"}) /\ Len(reads') = Len(reads) + 1 /\ Len(reads) \in Nat
    BY <2>1, AppendProperties, LenProperties DEF Program
  <2>3. Len(reads') <= MaxReads
    BY <2>1, <2>2, BulkAssumption
  <2>4. list' \in Seq({BulkIn, BulkOut}) /\ IsInjective(list')
    BY <2>1, OpenedFacts DEF Program
  <2> QED
    BY <2>1, <2>2, <2>3, <2>4 DEF Program
<1>4. ASSUME NEW t \in Texts, SendText(t) PROVE Program'
  <2>1. /\ text' = t /\ left' = Len(t) /\ list' = Opened(BulkOut) /\ prog' = "send"
        /\ reads' = reads
    BY <1>4 DEF SendText
  <2>2. Len(t) \in 0 .. Len(t)
    BY BulkAssumption
  <2>3. list' \in Seq({BulkIn, BulkOut}) /\ IsInjective(list')
    BY <2>1, OpenedFacts DEF Program
  <2> QED
    BY <2>1, <2>2, <2>3 DEF Program
<1> QED
  BY <1>1, <1>2, <1>3, <1>4

\* A packet of the program's text, cut to the room there is.
LEMMA OutKeeps ==
    ASSUME Program, Device, SendOut
    PROVE  Program' /\ Device'
<1> DEFINE n == IF cnt2 < left THEN cnt2 ELSE left
           at == Len(text) - left
<1>1. /\ buf2' = [i \in 1 .. BufSize |-> IF i <= n THEN text[at + i] ELSE buf2[i]]
      /\ cnt2' = n /\ left' = left - n
      /\ text' = IF left' = 0 THEN <<>> ELSE text
      /\ prog' = IF left' = 0 /\ prog = "send" THEN "menu" ELSE prog
      /\ UNCHANGED <<list, reads, own1, heard>>
  BY DEF SendOut, fwVars
<1>2. /\ Len(text) \in Nat /\ left \in Nat /\ left <= Len(text)
      /\ cnt2 \in 0 .. BufSize /\ BufSize \in Nat
      /\ \A i \in 1 .. Len(text) : text[i] \in Bytes
  BY TextFacts, BulkAssumption DEF Device
<1>3. n \in 0 .. BufSize /\ n <= left /\ n \in Nat
  BY <1>2
<1>4. \A i \in 1 .. BufSize : i <= n => at + i \in 1 .. Len(text)
  BY <1>2, <1>3
<1> HIDE DEF n, at
<1>5. buf2' \in [1 .. BufSize -> Bytes]
  BY <1>1, <1>2, <1>4 DEF Device
<1>6. text' \in Texts \cup {<<>>} /\ left' \in 0 .. Len(text')
  <2>1. left' \in 0 .. Len(text) /\ Len(<<>>) = 0
    BY <1>1, <1>2, <1>3
  <2> QED
    BY <1>1, <2>1 DEF Program
<1> QED
  BY <1>1, <1>3, <1>5, <1>6 DEF Program, Device

LEMMA InKeeps ==
    ASSUME Program, Device, SendIn
    PROVE  Program' /\ Device'
<1>1. /\ reads # <<>> /\ reads' = Tail(reads) /\ own1' = FALSE
      /\ prog' = IF Head(reads) = "mine" THEN "again" ELSE prog
      /\ UNCHANGED <<list, text, left, cnt2, buf2, heard>>
  BY DEF SendIn, Served, HasWork, fwVars
<1>2. reads' \in Seq({"mine", "nobody"}) /\ Len(reads') = Len(reads) - 1 /\ Len(reads) \in Nat
  BY <1>1, HeadTailProperties, LenProperties DEF Program
<1>3. Len(reads') <= MaxReads
  BY <1>2, BulkAssumption DEF Program
<1> QED
  BY <1>1, <1>2, <1>3 DEF Program, Device

LEMMA BulkTypeInit == BulkInit => BulkTypes
<1> SUFFICES ASSUME BulkInit PROVE BulkTypes
  OBVIOUS
<1>1. Program
  <2>1. list = <<>> /\ reads = <<>> /\ text = <<>> /\ left = 0 /\ prog = "off"
    BY DEF BulkInit
  <2>2. Len(reads) <= MaxReads /\ left \in 0 .. Len(text) /\ IsInjective(list)
    BY <2>1, BulkAssumption DEF IsInjective
  <2> QED
    BY <2>1, <2>2 DEF Program
<1>2. Device
  <2>1. own1 = TRUE /\ cnt2 = 0 /\ buf2 = Zeros /\ heard = Zeros
    BY DEF BulkInit
  <2>2. Zeros \in [1 .. BufSize -> Bytes]
    BY BulkAssumption DEF Zeros
  <2>3. cnt2 \in 0 .. BufSize
    BY <2>1, BulkAssumption
  <2> QED
    BY <2>1, <2>2, <2>3 DEF Device
<1>3. Loop
  BY DEF BulkInit, Loop
<1> QED
  BY <1>1, <1>2, <1>3 DEF BulkTypes

LEMMA BulkTypeStep == BulkTypes /\ [BulkNext]_bulkVars => BulkTypes'
<1> SUFFICES ASSUME BulkTypes, [BulkNext]_bulkVars PROVE BulkTypes'
  OBVIOUS
<1>1. CASE UNCHANGED bulkVars
  BY <1>1 DEF bulkVars, hostVars, devVars, fwVars, padVars, BulkTypes, Program, Device, Loop
<1>2. CASE Start \/ Kill \/ ReadFirst \/ ReadAgain \/ \E t \in Texts : SendText(t)
  <2>1. UNCHANGED <<devVars, fwVars, padVars, crowded>>
    BY <1>2 DEF Start, Kill, ReadFirst, ReadAgain, LinkRead, SendText
  <2>2. Device' /\ Loop'
    BY <2>1 DEF BulkTypes, Device, Loop, devVars, fwVars, padVars
  <2> QED
    BY <1>2, <2>2, ProgramKeeps DEF BulkTypes
<1>3. CASE SendOut \/ SendIn
  <2>1. /\ UNCHANGED <<fwVars, padVars>>
        /\ crowded' = (crowded \/ Len(pending') >= QueueSize)
    BY <1>3 DEF SendOut, SendIn, Notified
  <2>2. crowded' \in BOOLEAN
    BY <2>1
  <2>3. Loop'
    BY <2>1, <2>2 DEF BulkTypes, Loop, fwVars, padVars
  <2> QED
    BY <1>3, <2>3, OutKeeps, InKeeps DEF BulkTypes
<1>4. CASE FwPoll \/ FwFetch \/ WaitPress \/ TakeKey
  <2>1. UNCHANGED <<hostVars, devVars, heard, crowded, pad>>
    BY <1>4 DEF FwPoll, FwFetch, WaitPress, TakeKey, fwVars, padVars
  <2>2. /\ fpc' \in {fpc, "press", "copy", "main", "take", "release"}
        /\ key' \in {key, pad}
    BY <1>4 DEF FwPoll, FwFetch, WaitPress, TakeKey, fwVars, padVars
  <2>3. taken' = taken \/ taken' = (pad # Up)
    BY <1>4 DEF FwPoll, FwFetch, WaitPress, TakeKey, fwVars, padVars
  <2>4. taken' \in BOOLEAN
    BY <2>3 DEF BulkTypes, Loop
  <2>5. Program' /\ Device'
    BY <2>1 DEF BulkTypes, Program, Device, hostVars, devVars
  <2>6. Loop'
    BY <2>1, <2>2, <2>4 DEF BulkTypes, Loop
  <2> QED
    BY <2>5, <2>6 DEF BulkTypes
<1>5. CASE SendKey \/ CopyOut \/ ArmOut \/ Press \/ Release
  <2>1. UNCHANGED <<hostVars, crowded, buf2>>
    BY <1>5 DEF SendKey, CopyOut, ArmOut, Press, Release, devVars
  <2>2. /\ own1' = own1 \/ own1' = TRUE
        /\ cnt2' \in {cnt2, BufSize} /\ heard' \in {heard, buf2}
    BY <1>5 DEF SendKey, CopyOut, ArmOut, Press, Release, devVars, fwVars
  <2>3. /\ fpc' \in {fpc, "main", "arm"} /\ key' \in {key, Up}
        /\ pad' \in {pad, "down", Up}
    BY <1>5 DEF SendKey, CopyOut, ArmOut, Press, Release, fwVars, padVars
  <2>4. taken' = taken \/ taken' = FALSE
    BY <1>5 DEF SendKey, CopyOut, ArmOut, Press, Release, fwVars, padVars
  <2>5. own1' \in BOOLEAN
    BY <2>2 DEF BulkTypes, Device
  <2>6. taken' \in BOOLEAN
    BY <2>4 DEF BulkTypes, Loop
  <2>7. cnt2' \in 0 .. BufSize
    BY <2>2, BulkAssumption DEF BulkTypes, Device
  <2>8. Program'
    BY <2>1 DEF BulkTypes, Program, hostVars
  <2>9. Device'
    BY <2>1, <2>2, <2>5, <2>7 DEF BulkTypes, Device
  <2>10. Loop'
    BY <2>1, <2>3, <2>6 DEF BulkTypes, Loop
  <2> QED
    BY <2>8, <2>9, <2>10 DEF BulkTypes
<1> QED
  BY <1>1, <1>2, <1>3, <1>4, <1>5 DEF BulkNext

\* Types, for any texts and any sizes: the room that the device writes back in
\* the descriptor stays within its buffer, and no endpoint is opened twice.
THEOREM BulkTypeCorrect == BulkSpec => []BulkTypeOK
<1>1. TypeOK /\ BulkTypes => BulkTypeOK
  BY DEF BulkTypes, Program, Device, Loop, BulkTypeOK
<1>2. BulkSpec => []TypeOK
  BY BulkImplementsRing, EpQueueTypeCorrect, PTL
<1> QED
  BY <1>1, <1>2, BulkTypeInit, BulkTypeStep, PTL DEF BulkSpec

-----------------------------------------------------------------------------
(***************************************************************************)
(* What the firmware hears.  Until the ring has been full, an event fetched *)
(* is the oldest one there is: RoundInv says where each event leads.       *)
(***************************************************************************)
Uncrowded == ~crowded => Len(pending) < QueueSize

\* What is in the buffer has been heard, is being copied, or its event waits.
Announced == ~crowded => \/ heard = buf2
                         \/ fpc = "copy"
                         \/ \E i \in 1 .. Len(pending) : pending[i] = BulkOut

RoundInv == Uncrowded /\ EndpointPassedRound /\ Announced

\* A step that leaves the ring and the firmware's place alone.
LEMMA RoundStill ==
    ASSUME RoundInv,
           UNCHANGED <<pending, crowded, own1, heard, buf2>>,
           AsksKey' <=> AsksKey, fpc = "copy" => fpc' = "copy"
    PROVE  RoundInv'
BY DEF RoundInv, Uncrowded, EndpointPassedRound, InEvents, Announced

\* A packet puts the event of its endpoint behind all others.
LEMMA PutFacts ==
    ASSUME TypeOK, NEW e \in Endpoints, Notified(e), ~crowded'
    PROVE  /\ ~crowded /\ Len(pending') < QueueSize
           /\ Len(pending) \in Nat /\ Len(pending') = Len(pending) + 1
           /\ \A i \in 1 .. Len(pending) : pending'[i] = pending[i]
           /\ pending'[Len(pending) + 1] = e
<1>1. /\ crowded' = (crowded \/ Len(pending') >= QueueSize)
      /\ pending' = Append(pending, e)
  BY DEF Notified, NotifyEp
<1>2. /\ pending \in Seq(Endpoints) /\ Len(pending) \in Nat /\ QueueSize \in Nat
      /\ Len(pending') = Len(pending) + 1
      /\ \A i \in 1 .. Len(pending) : pending'[i] = pending[i]
      /\ pending'[Len(pending) + 1] = e
  BY <1>1, RingFacts, AppendProperties
<1>3. ~crowded /\ ~(Len(pending') >= QueueSize)
  BY <1>1
<1> QED
  BY <1>2, <1>3

LEMMA OutRound ==
    ASSUME TypeOK, RoundInv, SendOut
    PROVE  RoundInv'
<1> SUFFICES ASSUME ~crowded'
             PROVE  /\ Len(pending') < QueueSize
                    /\ EndpointPassedRound' /\ Announced'
  BY DEF RoundInv, Uncrowded, EndpointPassedRound, Announced
<1>1. Notified(BulkOut) /\ UNCHANGED <<own1, fpc>> /\ BulkOut \in Endpoints /\ BulkOut # BulkIn
  BY BulkAssumption DEF SendOut, fwVars
<1>2. /\ ~crowded /\ Len(pending') < QueueSize
      /\ Len(pending) \in Nat /\ Len(pending') = Len(pending) + 1
      /\ \A i \in 1 .. Len(pending) : pending'[i] = pending[i]
      /\ pending'[Len(pending) + 1] = BulkOut
  BY <1>1, PutFacts
<1>3. InEvents' = InEvents
  BY <1>1, <1>2 DEF InEvents
<1>4. EndpointPassedRound'
  BY <1>1, <1>2, <1>3 DEF RoundInv, EndpointPassedRound, AsksKey
<1>5. Announced'
  <2>1. Len(pending) + 1 \in 1 .. Len(pending')
    BY <1>2
  <2> QED
    BY <1>2, <2>1 DEF Announced
<1> QED
  BY <1>2, <1>4, <1>5

LEMMA InRound ==
    ASSUME TypeOK, RoundInv, SendIn
    PROVE  RoundInv'
<1> SUFFICES ASSUME ~crowded'
             PROVE  /\ Len(pending') < QueueSize
                    /\ EndpointPassedRound' /\ Announced'
  BY DEF RoundInv, Uncrowded, EndpointPassedRound, Announced
<1>1. /\ Notified(BulkIn) /\ own1 /\ own1' = FALSE /\ UNCHANGED <<fpc, heard, buf2>>
      /\ BulkIn \in Endpoints
  BY BulkAssumption DEF SendIn, fwVars
<1>2. /\ ~crowded /\ Len(pending') < QueueSize
      /\ Len(pending) \in Nat /\ Len(pending') = Len(pending) + 1
      /\ \A i \in 1 .. Len(pending) : pending'[i] = pending[i]
      /\ pending'[Len(pending) + 1] = BulkIn
  BY <1>1, PutFacts
<1>3. InEvents = {} /\ ~AsksKey
  BY <1>1, <1>2 DEF RoundInv, EndpointPassedRound
<1>4. InEvents' = {Len(pending) + 1}
  BY <1>2, <1>3 DEF InEvents
<1>5. EndpointPassedRound'
  BY <1>1, <1>3, <1>4 DEF EndpointPassedRound, AsksKey
<1>6. Announced'
  <2>1. (\E i \in 1 .. Len(pending) : pending[i] = BulkOut)
        => \E i \in 1 .. Len(pending') : pending'[i] = BulkOut
    BY <1>2
  <2> QED
    BY <1>1, <1>2, <2>1 DEF RoundInv, Announced
<1> QED
  BY <1>2, <1>5, <1>6

\* An event is handed to the branch of its endpoint.
LEMMA FetchRound ==
    ASSUME IInv, RoundInv, FwFetch
    PROVE  RoundInv'
<1>1. /\ fpc = "main" /\ Fetch
      /\ fpc' = CASE fetched' = BulkIn -> "press"
                  [] fetched' = BulkOut -> "copy"
                  [] OTHER -> "main"
      /\ UNCHANGED <<crowded, own1, heard, buf2>>
  BY DEF FwFetch, devVars
<1> SUFFICES ASSUME ~crowded
             PROVE  /\ Len(pending') < QueueSize
                    /\ EndpointPassedRound' /\ Announced'
  BY <1>1 DEF RoundInv, Uncrowded, EndpointPassedRound, Announced
<1>2. /\ QueueSize \in Nat /\ Len(pending) < QueueSize
      /\ Len(pending) \in Nat /\ Len(pending) # 0
      /\ fetched' = pending[1]
      /\ Len(pending') = Len(pending) - 1
      /\ \A i \in 1 .. Len(pending') : pending'[i] = pending[i + 1]
  <2>1. QueueSize \in Nat /\ Len(pending) \in Nat /\ Len(pending) < QueueSize
    BY RingFacts DEF RoundInv, Uncrowded, IInv
  <2>2. Len(pending) <= QueueSize
    BY <2>1
  <2> QED
    BY <1>1, <2>1, <2>2, FetchOldest
<1>3. /\ ~AsksKey
      /\ (own1 /\ InEvents = {}) \/ (~own1 /\ \E i \in InEvents : InEvents = {i})
  BY <1>1 DEF RoundInv, EndpointPassedRound, AsksKey
<1>4. 1 \in 1 .. Len(pending)
  BY <1>2
<1>5. EndpointPassedRound'
  <2>1. CASE fetched' = BulkIn
    <3>1. 1 \in InEvents
      BY <1>2, <1>4, <2>1 DEF InEvents
    <3>2. ~own1 /\ InEvents = {1}
      BY <1>3, <3>1
    <3>3. InEvents' = {}
      <4> SUFFICES ASSUME NEW i \in 1 .. Len(pending'), pending'[i] = BulkIn PROVE FALSE
        BY DEF InEvents
      <4>1. i + 1 \in 1 .. Len(pending) /\ i + 1 # 1
        BY <1>2
      <4>2. i + 1 \in InEvents
        BY <1>2, <4>1 DEF InEvents
      <4> QED
        BY <3>2, <4>1, <4>2
    <3>4. fpc' = "press" /\ own1' = own1
      BY <1>1, <2>1, BulkAssumption
    <3>5. AsksKey'
      BY <3>4 DEF AsksKey
    <3> QED
      BY <3>2, <3>3, <3>4, <3>5 DEF EndpointPassedRound
  <2>2. CASE fetched' # BulkIn
    <3>1. fpc' \in {"copy", "main"}
      BY <1>1, <2>2
    <3>2. \A i : i \in InEvents' <=> i \in 1 .. Len(pending') /\ i + 1 \in InEvents
      <4>1. \A i \in 1 .. Len(pending') : i + 1 \in 1 .. Len(pending)
        BY <1>2
      <4> QED
        BY <1>2, <4>1 DEF InEvents
    <3>3. CASE own1 /\ InEvents = {}
      BY <1>1, <3>1, <3>2, <3>3 DEF EndpointPassedRound, AsksKey
    <3>4. ASSUME ~own1, NEW i \in InEvents, InEvents = {i} PROVE EndpointPassedRound'
      <4>1. i # 1 /\ i \in 1 .. Len(pending)
        BY <1>2, <2>2, <3>4 DEF InEvents
      <4>2. i - 1 \in 1 .. Len(pending') /\ i - 1 + 1 = i
        BY <1>2, <4>1
      <4>3. \A j \in 1 .. Len(pending') : j + 1 = i => j = i - 1
        BY <1>2, <4>1
      <4>4. InEvents' = {i - 1}
        BY <3>2, <3>4, <4>2, <4>3
      <4> QED
        BY <1>1, <3>1, <3>4, <4>4 DEF EndpointPassedRound, AsksKey
    <3> QED
      BY <1>3, <3>3, <3>4
  <2> QED
    BY <2>1, <2>2
<1>6. Announced'
  <2>1. fpc # "copy"
    BY <1>1
  <2>2. CASE heard = buf2
    BY <1>1, <2>2 DEF Announced
  <2>3. ASSUME NEW i \in 1 .. Len(pending), pending[i] = BulkOut PROVE Announced'
    <3>1. CASE i = 1
      BY <1>1, <1>2, <2>3, <3>1, BulkAssumption DEF Announced
    <3>2. CASE i # 1
      <4>1. i - 1 \in 1 .. Len(pending') /\ i - 1 + 1 = i
        BY <1>2, <3>2
      <4> QED
        BY <1>2, <2>3, <4>1 DEF Announced
    <3> QED
      BY <3>1, <3>2
  <2> QED
    BY <2>1, <2>2, <2>3 DEF RoundInv, Announced
<1> QED
  BY <1>2, <1>5, <1>6

LEMMA RoundInit == BulkInit => RoundInv
<1> SUFFICES ASSUME BulkInit PROVE RoundInv
  OBVIOUS
<1>1. pending = <<>> /\ Len(pending) = 0 /\ own1 /\ fpc = "main" /\ heard = buf2
  BY DEF BulkInit, Init
<1>2. InEvents = {} /\ ~AsksKey /\ 0 < QueueSize
  BY <1>1, QueueSizeAssumption DEF InEvents, AsksKey
<1> QED
  BY <1>1, <1>2 DEF RoundInv, Uncrowded, EndpointPassedRound, Announced

LEMMA RoundStep == IInv /\ BulkTypes /\ RoundInv /\ [BulkNext]_bulkVars => RoundInv'
<1> SUFFICES ASSUME IInv, BulkTypes, RoundInv, [BulkNext]_bulkVars PROVE RoundInv'
  OBVIOUS
<1>0. TypeOK
  BY DEF IInv
<1>1. CASE UNCHANGED bulkVars \/ Start \/ Kill \/ ReadFirst \/ ReadAgain \/ \E t \in Texts : SendText(t)
  <2>1. UNCHANGED <<pending, crowded, own1, heard, buf2, fpc>>
    BY <1>1 DEF bulkVars, Start, Kill, ReadFirst, ReadAgain, LinkRead, SendText, vars, devVars, fwVars
  <2> QED
    BY <2>1, RoundStill DEF AsksKey
<1>2. CASE SendOut \/ SendIn
  BY <1>0, <1>2, OutRound, InRound
<1>3. CASE FwFetch
  BY <1>3, FetchRound
<1>4. CASE FwPoll \/ WaitPress \/ TakeKey \/ Press \/ Release
  <2>1. /\ UNCHANGED <<pending, crowded, own1, heard, buf2>>
        /\ fpc' = fpc \/ (fpc \in {"press", "take"} /\ fpc' \in {"take", "release"})
    BY <1>4 DEF FwPoll, Poll, WaitPress, TakeKey, Press, Release, vars, devVars, fwVars
  <2> QED
    BY <2>1, RoundStill DEF AsksKey
<1>5. CASE SendKey
  <2>1. /\ UNCHANGED <<pending, crowded, heard, buf2>>
        /\ fpc = "release" /\ fpc' = "main" /\ own1' = TRUE
    BY <1>5 DEF SendKey, vars
  <2>2. EndpointPassedRound'
    BY <2>1 DEF RoundInv, EndpointPassedRound, InEvents, AsksKey
  <2> QED
    BY <2>1, <2>2 DEF RoundInv, Uncrowded, Announced
<1>6. CASE CopyOut
  <2>1. /\ UNCHANGED <<pending, crowded, own1, buf2>>
        /\ fpc = "copy" /\ fpc' = "arm" /\ heard' = buf2
    BY <1>6 DEF CopyOut, vars, devVars
  <2>2. EndpointPassedRound'
    BY <2>1 DEF RoundInv, EndpointPassedRound, InEvents, AsksKey
  <2> QED
    BY <2>1, <2>2 DEF RoundInv, Uncrowded, Announced
<1>7. CASE ArmOut
  <2>1. /\ UNCHANGED <<pending, crowded, own1, buf2, heard>>
        /\ fpc = "arm" /\ fpc' = "main"
    BY <1>7 DEF ArmOut, vars
  <2> QED
    BY <2>1, RoundStill DEF AsksKey
<1> QED
  BY <1>1, <1>2, <1>3, <1>4, <1>5, <1>6, <1>7 DEF BulkNext

LEMMA RoundInvariant == BulkSpec => []RoundInv
<1>1. BulkSpec => []IInv
  BY BulkImplementsRing, RingInvariant, PTL
<1> QED
  BY <1>1, RoundInit, RoundStep, BulkTypeInit, BulkTypeStep, PTL DEF BulkSpec

\* Endpoint 1 goes round between the device, the ring and the firmware and is
\* never in two places nor lost, until the ring has been full.
THEOREM EndpointGoesRound == BulkSpec => []EndpointPassedRound
<1>1. RoundInv => EndpointPassedRound
  BY DEF RoundInv
<1> QED
  BY <1>1, RoundInvariant, PTL

\* When the firmware has no event left and waits for none, it has printed what
\* the buffer of endpoint 2 holds: the descriptor that stays with the device
\* while its buffer is copied costs no text, until the ring has been full.
THEOREM QuietHasHeard == BulkSpec => []QuietMeansHeard
<1>1. RoundInv => QuietMeansHeard
  BY DEF RoundInv, Announced, QuietMeansHeard
<1> QED
  BY <1>1, RoundInvariant, PTL

-----------------------------------------------------------------------------
(***************************************************************************)
(* The keys.                                                               *)
(***************************************************************************)
\* A key that was reported is the one the firmware waits for to be released.
KeyInv == taken => fpc = "release" /\ pad = key /\ pad # Up

LEMMA KeyStep == BulkTypes /\ KeyInv /\ [BulkNext]_bulkVars => KeyInv'
<1> SUFFICES ASSUME BulkTypes, KeyInv, [BulkNext]_bulkVars, taken' PROVE KeyInv'
  BY DEF KeyInv
<1>1. CASE UNCHANGED <<fpc, key, pad, taken>>
  BY <1>1 DEF KeyInv
<1>2. CASE TakeKey
  BY <1>2 DEF TakeKey, KeyInv
<1>3. CASE Press \/ Release
  BY <1>3 DEF Press, Release
<1>4. CASE SendKey
  BY <1>4 DEF SendKey, padVars, KeyInv
<1>5. CASE FwFetch \/ WaitPress \/ CopyOut \/ ArmOut
  BY <1>5 DEF FwFetch, WaitPress, CopyOut, ArmOut, padVars, KeyInv
<1>6. CASE UNCHANGED bulkVars
  BY <1>1, <1>6 DEF bulkVars, fwVars, padVars
<1>7. CASE \/ Start \/ Kill \/ ReadFirst \/ ReadAgain \/ \E t \in Texts : SendText(t)
           \/ SendOut \/ SendIn \/ FwPoll
  BY <1>1, <1>7 DEF Start, Kill, ReadFirst, ReadAgain, LinkRead, SendText, SendOut, SendIn, FwPoll,
                    fwVars, padVars
<1> QED
  BY <1>2, <1>3, <1>4, <1>5, <1>6, <1>7 DEF BulkNext

\* However long a key is held and however many events come meanwhile, the
\* firmware reports it once.
THEOREM KeyIsTakenOnce == BulkSpec => KeyTakenOnce
<1>1. BulkInit => KeyInv
  BY DEF BulkInit, KeyInv
<1>2. KeyInv /\ [BulkNext]_bulkVars => [TakeKey /\ pad # Up => ~taken]_bulkVars
  BY DEF KeyInv, TakeKey
<1> QED
  BY <1>1, <1>2, KeyStep, BulkTypeInit, BulkTypeStep, PTL DEF BulkSpec, KeyTakenOnce
=============================================================================
