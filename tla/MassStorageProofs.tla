-------------------------- MODULE MassStorageProofs -------------------------
(***************************************************************************)
(* Theorems about the storage exercise, for any list of devices, any block *)
(* length and any number of runs.                                          *)
(*                                                                         *)
(* The device answers in the order asked; the program never asks whose     *)
(* answer it has got.  AnswersInv says why it is its own even so: what     *)
(* earlier runs have left is refused for its length, or INQUIRY takes it.  *)
(* From then on the run is in step with the device (InStep), or it meets a *)
(* status block where it expects data, and gives up (StatusFirst).         *)
(***************************************************************************)
EXTENDS MassStorage, FiniteSetTheorems, SequenceTheorems, TLAPS

Transferring == fpc \in {"cbw", "data", "csw"}

\* Every data block is followed by its status, and no status by another, but
\* where a WRITE that was refused had its data sent all the same.
QueueShape ==
    /\ \A i \in 1 .. Len(queue) :
          /\ queue[i].csw => queue[i].size = CswLength
          /\ ~queue[i].csw => /\ i + 1 \in 1 .. Len(queue) /\ queue[i + 1].csw
                              /\ queue[i].size = 0 => ~queue[i + 1].good
    /\ \A i \in 1 .. Len(queue) - 1 :
          queue[i].csw /\ queue[i + 1].csw =>
              /\ i = 1 /\ ~queue[2].good
              /\ ~(fpc = "csw" /\ command = 1) /\ ~(Transferring /\ command = 2)

WriteAwaited ==
    expects => /\ queue = <<>>
               /\ fpc = "cbw" => command = 1
               /\ fpc = "data" => command = 5
               /\ fpc # "csw"

Prepared == fpc \in {"find", "configure", "lun"} => command = 1

\* INQUIRY: the answer to it is last, behind at most three messages.
IsInquiry(msg) == ~msg.csw /\ msg.size \in {0, 36}
AnsweredLast(n) == \/ Len(queue) <= n
                   \/ Len(queue) <= n + 2 /\ IsInquiry(queue[Len(queue) - 1])
OnInquiry ==
    command = 1 => /\ fpc = "data" => AnsweredLast(3)
                   /\ fpc = "csw" => AnsweredLast(2)

MyData(msg, c) == msg.mine /\ msg.of = c /\ ~msg.csw
MyCsw(msg, c) == msg.mine /\ msg.of = c /\ msg.csw

\* REQUEST SENSE: what is first is no answer to an earlier one.
OnSense ==
    command = 2 =>
        /\ fpc = "cbw" => queue = <<>> \/ queue[1].csw \/ IsInquiry(queue[1])
        /\ fpc = "data" =>
              \/ queue = <<>> \/ queue[1].csw \/ IsInquiry(queue[1])
              \/ Len(queue) = 2 /\ MyData(queue[1], command) /\ MyCsw(queue[2], command)
        /\ fpc = "csw" =>
              \/ queue = <<>> \/ ~queue[1].csw \/ ~queue[1].good
              \/ Len(queue) = 1 /\ took /\ MyCsw(queue[1], command)

\* Afterwards the run is in step with the device, or READ CAPACITY meets a status.
InStep ==
    /\ 2 .. command - 1 \subseteq own
    /\ fpc = "cbw" => queue = <<>>
    /\ fpc = "data" /\ command # 5 =>
          queue = <<>> \/ (Len(queue) = 2 /\ MyData(queue[1], command) /\ MyCsw(queue[2], command))
    /\ fpc = "data" /\ command = 5 =>
          queue = <<>> \/ (Len(queue) = 1 /\ queue[1].csw /\ ~queue[1].good)
    /\ fpc = "csw" /\ command # 5 => queue = <<>> \/ (Len(queue) = 1 /\ took /\ MyCsw(queue[1], command))
StatusFirst == command = 3 /\ fpc \in {"cbw", "data"} /\ queue # <<>> /\ queue[1].csw
OnTheRest == Transferring /\ command >= 3 => InStep \/ StatusFirst

AnswersInv == QueueShape /\ WriteAwaited /\ Prepared /\ OnInquiry /\ OnSense /\ OnTheRest

-----------------------------------------------------------------------------
\* find_device ends with a handle or the run does.
HandleSet == fpc \in {"configure", "lun", "cbw", "data", "csw", "destroy"} => handle # 0

\* A run without faults: where the answers are, and what they say.
GoodData(msg, c) == MyData(msg, c) /\ msg.size = DataLength(c)
GoodCsw(msg) == msg.csw /\ msg.good /\ msg.size = CswLength
HasTwo == bus[handle].last >= 1

FaultlessPlace ==
    /\ fpc \in {"find", "configure", "lun", "cbw"} =>
          queue = <<>> /\ ~expects /\ ~halted /\ ~written
    /\ fpc = "data" /\ command # 5 =>
          /\ Len(queue) = 2 /\ GoodData(queue[1], command) /\ GoodCsw(queue[2])
          /\ ~expects /\ ~halted /\ ~written
    /\ fpc = "data" /\ command = 5 =>
          queue = <<>> /\ expects /\ ~halted /\ ~written /\ HasTwo
    /\ fpc = "csw" =>
          /\ Len(queue) = 1 /\ GoodCsw(queue[1]) /\ ~expects /\ ~halted
          /\ IF command = 5 THEN written /\ HasTwo ELSE ~written
    /\ fpc \in {"destroy", "exited"} /\ handle # 0 => (written <=> HasTwo)
FaultlessGeometry ==
    Transferring /\ (command > 3 \/ (command = 3 /\ fpc = "csw")) =>
        geometry = [mlba |-> bus[handle].last, blen |-> BlockLength]

FaultlessInv == Prepared /\ (faultless => FaultlessPlace /\ FaultlessGeometry)

-----------------------------------------------------------------------------
\* What find_device opens, and who holds what when.
Mass == {i \in 1 .. Len(bus) : bus[i].class # "other"}

LeavesInv ==
    /\ heap # {} => fpc \in {"data", "csw"}
    /\ claimed => fpc \in {"lun", "cbw", "data", "csw", "destroy"}
    /\ opened \subseteq Mass /\ (handle # 0 => handle \in Mass)
    /\ handle = 0 => opened = {}
    /\ fpc = "exited" => handle \notin opened

-----------------------------------------------------------------------------
(***************************************************************************)
(* Sizes, and the queue of the device as a sequence.                       *)
(***************************************************************************)
LEMMA FlashSizes ==
    /\ DataLength(1) = 36 /\ DataLength(2) = 18 /\ DataLength(3) = 8
    /\ DataLength(4) = BlockLength /\ DataLength(5) = BlockLength
    /\ BlockLength \in Nat \ {0} /\ MaxUnread \in Nat /\ MaxRuns \in Nat
    /\ 0 \in Lbas
    /\ \A b \in Buses : b \in Seq([class : {"storage", "per interface", "other"}, last : Lbas])
<1>1. DataLength(1) = 36 /\ DataLength(2) = 18 /\ DataLength(3) = 8
  BY DEF DataLength
<1>2. DataLength(4) = BlockLength /\ DataLength(5) = BlockLength
  BY DEF DataLength
<1> QED
  BY <1>1, <1>2, MassStorageAssumption DEF MassStorageAssumption

LEMMA BlockLengths == BlockLength \in Nat \ {0} /\ MaxUnread \in Nat /\ MaxRuns \in Nat
BY MassStorageAssumption DEF MassStorageAssumption

LEMMA LengthIsNat == ASSUME NEW c \in 1 .. 5 PROVE DataLength(c) \in Nat \ {0}
<1>1. CASE c \in {1, 2, 3}
  <2>1. DataLength(c) \in {36, 18, 8}
    BY ONLY <1>1, FlashSizes
  <2> QED
    BY ONLY <2>1
<1>2. CASE c \in {4, 5}
  <2>1. DataLength(c) = BlockLength
    BY ONLY <1>2, FlashSizes
  <2> QED
    BY ONLY <2>1, BlockLengths
<1> QED
  BY <1>1, <1>2

LEMMA SizeIsNat == \A m \in Messages : m.size \in Nat /\ m.good \in BOOLEAN /\ m.csw \in BOOLEAN
BY BlockLengths DEF Messages, CswLength

\* What the device sends.
LEMMA AnswersTyped ==
  ASSUME NEW c \in 1 .. 5, NEW size \in {0, 36, 18, 8, BlockLength}, NEW good \in BOOLEAN
  PROVE  /\ Data(c, size) \in Messages /\ Csw(c, good) \in Messages
         /\ Data(c, size).size = size /\ ~Data(c, size).csw
         /\ Data(c, size).mine /\ Data(c, size).of = c /\ Data(c, size).good
         /\ Csw(c, good).size = CswLength /\ Csw(c, good).csw
         /\ Csw(c, good).mine /\ Csw(c, good).of = c /\ Csw(c, good).good = good
         /\ [Csw(c, good) EXCEPT !.mine = FALSE] \in Messages
         /\ [Csw(c, good) EXCEPT !.mine = FALSE].size = CswLength
         /\ [Csw(c, good) EXCEPT !.mine = FALSE].csw
         /\ [Csw(c, good) EXCEPT !.mine = FALSE].good = good
BY DEF Data, Csw, Messages, CswLength

\* A queue, without its first message and with more at its end.
LEMMA QueueOf ==
  ASSUME NEW q \in Seq(Messages)
  PROVE  /\ Len(q) \in Nat /\ (q = <<>> <=> Len(q) = 0)
         /\ \A i \in 1 .. Len(q) : q[i] \in Messages
<1>1. Len(q) \in Nat /\ (q = <<>> <=> Len(q) = 0)
  BY EmptySeq, LenProperties
<1> QED
  BY <1>1, ElementOfSeq

LEMMA QueueTail ==
  ASSUME NEW q \in Seq(Messages), q # <<>>
  PROVE  /\ Head(q) = q[1] /\ q[1] \in Messages
         /\ Tail(q) \in Seq(Messages) /\ Len(Tail(q)) = Len(q) - 1
         /\ \A i \in 1 .. Len(q) - 1 : Tail(q)[i] = q[i + 1]
<1>1. Len(q) \in Nat /\ Len(q) # 0
  BY QueueOf
<1>2. /\ Tail(q) \in Seq(Messages) /\ Len(Tail(q)) = Len(q) - 1
      /\ \A i \in 1 .. Len(Tail(q)) : Tail(q)[i] = q[i + 1]
      /\ Head(q) = q[1]
  BY HeadTailProperties
<1>3. q[1] \in Messages
  BY <1>1, QueueOf
<1> QED
  BY <1>1, <1>2, <1>3

LEMMA QueueAppend ==
  ASSUME NEW q \in Seq(Messages), NEW a \in Messages
  PROVE  /\ Append(q, a) \in Seq(Messages) /\ Len(Append(q, a)) = Len(q) + 1
         /\ Append(q, a)[Len(q) + 1] = a
         /\ \A i \in 1 .. Len(q) : Append(q, a)[i] = q[i]
         /\ q \o <<a>> = Append(q, a)
BY AppendProperties, AppendIsConcat

LEMMA QueueMore ==
  ASSUME NEW q \in Seq(Messages), NEW a \in Messages, NEW b \in Messages
  PROVE  /\ q \o <<a, b>> \in Seq(Messages) /\ Len(q \o <<a, b>>) = Len(q) + 2
         /\ (q \o <<a, b>>)[Len(q) + 1] = a /\ (q \o <<a, b>>)[Len(q) + 2] = b
         /\ \A i \in 1 .. Len(q) : (q \o <<a, b>>)[i] = q[i]
<1>1. Len(q) \in Nat
  BY QueueOf
<1>2. <<a, b>> \in Seq(Messages) /\ Len(<<a, b>>) = 2
  OBVIOUS
<1>3. /\ q \o <<a, b>> \in Seq(Messages) /\ Len(q \o <<a, b>>) = Len(q) + 2
      /\ \A i \in 1 .. Len(q) + 2 :
            (q \o <<a, b>>)[i] = IF i <= Len(q) THEN q[i] ELSE <<a, b>>[i - Len(q)]
  BY ONLY <1>2, q \in Seq(Messages), ConcatProperties
<1>4. (q \o <<a, b>>)[Len(q) + 1] = a
  BY <1>1, <1>3
<1>5. (q \o <<a, b>>)[Len(q) + 2] = b
  BY <1>1, <1>3
<1>6. \A i \in 1 .. Len(q) : (q \o <<a, b>>)[i] = q[i]
  BY <1>1, <1>3
<1> QED
  BY <1>3, <1>4, <1>5, <1>6

-----------------------------------------------------------------------------
(***************************************************************************)
(* What the steps do, with the queue as a list of places.                  *)
(***************************************************************************)
LEMMA StartDoes ==
  ASSUME FlashTypeOK, Start
  PROVE  /\ fpc \in {"off", "exited"} /\ fpc' = "find" /\ runs' \in 0 .. MaxRuns
         /\ at' = 1 /\ opened' = {} /\ handle' = 0 /\ claimed' = FALSE /\ heap' = {}
         /\ command' = 1 /\ own' = {}
         /\ queue' \in Seq(Messages) /\ Len(queue') = Len(queue)
         /\ \A i \in 1 .. Len(queue) : /\ queue'[i].csw = queue[i].csw
                                      /\ queue'[i].size = queue[i].size
                                      /\ queue'[i].good = queue[i].good
         /\ UNCHANGED <<bus, geometry, expects, halted>>
<1>1. queue \in Seq(Messages) /\ Len(queue) \in Nat /\ DOMAIN queue = 1 .. Len(queue)
  BY QueueOf, LenProperties DEF FlashTypeOK
<1>2. queue' = [i \in 1 .. Len(queue) |-> [queue[i] EXCEPT !.mine = FALSE]]
  BY <1>1 DEF Start
<1>3. \A i \in 1 .. Len(queue) : queue[i] \in Messages
  BY <1>1, QueueOf
<1>4. \A m \in Messages : /\ [m EXCEPT !.mine = FALSE] \in Messages
                          /\ [m EXCEPT !.mine = FALSE].csw = m.csw
                          /\ [m EXCEPT !.mine = FALSE].size = m.size
                          /\ [m EXCEPT !.mine = FALSE].good = m.good
  BY DEF Messages
<1>5. \A i \in 1 .. Len(queue) : /\ queue'[i] \in Messages
                                /\ queue'[i].csw = queue[i].csw
                                /\ queue'[i].size = queue[i].size
                                /\ queue'[i].good = queue[i].good
  BY <1>2, <1>3, <1>4
<1>6. queue' \in Seq(Messages) /\ Len(queue') = Len(queue)
  <2>1. queue' \in Seq(Messages)
    BY <1>1, <1>2, <1>3, <1>4, IsASeq
  <2>2. DOMAIN queue' = 1 .. Len(queue)
    BY <1>2
  <2> QED
    BY <1>1, <2>1, <2>2, LenProperties
<1>7. runs' \in 0 .. MaxRuns
  <2>1. runs \in 0 .. MaxRuns /\ runs < MaxRuns /\ runs' = runs + 1 /\ MaxRuns \in Nat
    BY FlashSizes DEF Start, FlashTypeOK
  <2> QED
    BY ONLY <2>1
<1> QED
  BY <1>5, <1>6, <1>7 DEF Start

\* What a command block makes of the device: nothing, the answers to it, or the
\* status of the WRITE for whose data it was taken.
LEMMA SendCbwDoes ==
  ASSUME FlashTypeOK, SendCbw
  PROVE  /\ fpc = "cbw" /\ InRange /\ ~halted /\ Len(queue) <= MaxUnread
         /\ fpc' = "data" /\ took' = FALSE
         /\ heap' \subseteq {"rec_data", "data_to_send"}
         /\ queue' \in Seq(Messages) /\ expects' \in BOOLEAN /\ halted' \in BOOLEAN
         /\ faultless' \in BOOLEAN /\ (faultless' => faultless)
         /\ \A i \in 1 .. Len(queue) : queue'[i] = queue[i]
         /\ \/ /\ expects /\ expects' = FALSE /\ halted' = halted
               /\ Len(queue') = Len(queue) + 1
               /\ queue'[Len(queue) + 1].csw /\ ~queue'[Len(queue) + 1].good
               /\ queue'[Len(queue) + 1].size = CswLength
            \/ /\ ~expects /\ queue' = queue /\ ~faultless' /\ expects' = expects
            \/ /\ ~expects /\ command = 5 /\ expects' = TRUE /\ queue' = queue /\ halted' = halted
            \/ /\ ~expects /\ command = 5 /\ ~faultless' /\ expects' = expects
               /\ Len(queue') = Len(queue) + 1
               /\ queue'[Len(queue) + 1].csw /\ ~queue'[Len(queue) + 1].good
               /\ queue'[Len(queue) + 1].size = CswLength
            \/ /\ ~expects /\ command # 5 /\ expects' = expects /\ halted' = halted
               /\ Len(queue') = Len(queue) + 2
               /\ MyData(queue'[Len(queue) + 1], command) /\ MyCsw(queue'[Len(queue) + 2], command)
               /\ queue'[Len(queue) + 2].size = CswLength
               /\ \/ /\ queue'[Len(queue) + 1].size = DataLength(command)
                     /\ queue'[Len(queue) + 2].good
                  \/ /\ queue'[Len(queue) + 1].size = 0 /\ ~queue'[Len(queue) + 2].good
                     /\ ~faultless'
         /\ UNCHANGED <<bus, runs, at, opened, handle, claimed, command, geometry, own, written>>
<1>1. /\ fpc = "cbw" /\ InRange /\ ~halted /\ Len(queue) <= MaxUnread
      /\ fpc' = "data" /\ took' = FALSE /\ DeviceGetsCbw
      /\ UNCHANGED <<bus, runs, at, opened, handle, claimed, command, geometry, own, written>>
  BY DEF SendCbw
<1>2. heap' \subseteq {"rec_data", "data_to_send"}
  <2>1. heap \subseteq {"rec_data", "data_to_send"} /\ command \in 1 .. 5
    BY DEF FlashTypeOK
  <2>2. heap' = CASE command = 4 -> {"rec_data"} [] command = 5 -> {"data_to_send"}
                  [] OTHER -> heap
    BY DEF SendCbw
  <2>3. CASE command = 4
    BY ONLY <2>2, <2>3
  <2>4. CASE command = 5
    BY ONLY <2>2, <2>4
  <2>5. CASE command # 4 /\ command # 5
    BY ONLY <2>1, <2>2, <2>5
  <2> QED
    BY <2>3, <2>4, <2>5
<1>3. /\ queue \in Seq(Messages) /\ command \in 1 .. 5 /\ command' = command
      /\ expects \in BOOLEAN /\ halted \in BOOLEAN /\ faultless \in BOOLEAN
  BY <1>1 DEF FlashTypeOK
<1>4. DataLength(command) \in {0, 36, 18, 8, BlockLength}
  <2>1. command = 1 \/ command = 2 \/ command = 3 \/ command = 4 \/ command = 5
    BY ONLY <1>3
  <2> QED
    BY ONLY <2>1, FlashSizes
<1> DEFINE late == [Csw(5, FALSE) EXCEPT !.mine = FALSE]
           good == Data(command, DataLength(command))
           bad == Data(command, 0)
           passed == Csw(command, TRUE)
           failed == Csw(command, FALSE)
           refused == Csw(5, FALSE)
<1>5. /\ late \in Messages /\ late.csw /\ ~late.good /\ late.size = CswLength
      /\ refused \in Messages /\ refused.csw /\ ~refused.good /\ refused.size = CswLength
  <2>1. 5 \in 1 .. 5 /\ FALSE \in BOOLEAN /\ 0 \in {0, 36, 18, 8, BlockLength}
    OBVIOUS
  <2> QED
    BY <2>1, AnswersTyped
<1>6. /\ good \in Messages /\ MyData(good, command) /\ good.size = DataLength(command)
      /\ bad \in Messages /\ MyData(bad, command) /\ bad.size = 0
      /\ passed \in Messages /\ MyCsw(passed, command) /\ passed.good /\ passed.size = CswLength
      /\ failed \in Messages /\ MyCsw(failed, command) /\ ~failed.good /\ failed.size = CswLength
  <2>1. 0 \in {0, 36, 18, 8, BlockLength} /\ TRUE \in BOOLEAN /\ FALSE \in BOOLEAN
    OBVIOUS
  <2>2. good \in Messages /\ MyData(good, command) /\ good.size = DataLength(command)
    <3>1. PICK size \in {0, 36, 18, 8, BlockLength} : size = DataLength(command)
      BY <1>4
    <3>2. Data(command, size) \in Messages /\ MyData(Data(command, size), command) /\ Data(command, size).size = size
      BY ONLY <1>3, size \in {0, 36, 18, 8, BlockLength} DEF MyData, Data, Messages
    <3> QED
      BY ONLY <3>1, <3>2
  <2>3. bad \in Messages /\ MyData(bad, command) /\ bad.size = 0
    BY <1>3, <2>1, AnswersTyped DEF MyData
  <2>4. passed \in Messages /\ MyCsw(passed, command) /\ passed.good /\ passed.size = CswLength
    BY <1>3, <2>1, AnswersTyped DEF MyCsw
  <2>5. failed \in Messages /\ MyCsw(failed, command) /\ ~failed.good /\ failed.size = CswLength
    BY <1>3, <2>1, AnswersTyped DEF MyCsw
  <2> QED
    BY <2>2, <2>3, <2>4, <2>5
<1> HIDE DEF late, good, bad, passed, failed, refused
<1>7. CASE expects
  <2>1. queue' = Append(queue, late) /\ expects' = FALSE /\ halted' = halted
        /\ faultless' = faultless
    BY <1>1, <1>7 DEF DeviceGetsCbw, late
  <2>2. /\ queue' \in Seq(Messages) /\ Len(queue') = Len(queue) + 1
        /\ queue'[Len(queue) + 1] = late
        /\ \A i \in 1 .. Len(queue) : queue'[i] = queue[i]
    BY ONLY <1>3, <1>5, <2>1, QueueAppend
  <2> QED
    BY ONLY <1>1, <1>2, <1>3, <1>5, <1>7, <2>1, <2>2
<1>8. CASE ~expects
  <2>1. CASE command = 5 /\ expects' = TRUE /\ queue' = queue /\ UNCHANGED <<halted, faultless>>
    BY ONLY <1>1, <1>2, <1>3, <1>8, <2>1
  <2>2. CASE command # 5 /\ queue' = queue \o <<good, passed>>
             /\ UNCHANGED <<expects, halted, faultless>>
    <3>1. /\ queue' \in Seq(Messages) /\ Len(queue') = Len(queue) + 2
          /\ queue'[Len(queue) + 1] = good /\ queue'[Len(queue) + 2] = passed
          /\ \A i \in 1 .. Len(queue) : queue'[i] = queue[i]
      BY ONLY <1>3, <1>6, <2>2, QueueMore
    <3>2. /\ MyData(queue'[Len(queue) + 1], command) /\ MyCsw(queue'[Len(queue) + 2], command)
          /\ queue'[Len(queue) + 1].size = DataLength(command)
          /\ queue'[Len(queue) + 2].good /\ queue'[Len(queue) + 2].size = CswLength
      BY ONLY <1>6, <3>1
    <3> QED
      BY ONLY <1>1, <1>2, <1>3, <1>8, <2>2, <3>1, <3>2
  <2>3. CASE command = 5 /\ queue' = queue \o <<refused>> /\ faultless' = FALSE
             /\ UNCHANGED <<expects, halted>>
    <3>1. /\ queue' \in Seq(Messages) /\ Len(queue') = Len(queue) + 1
          /\ queue'[Len(queue) + 1] = refused
          /\ \A i \in 1 .. Len(queue) : queue'[i] = queue[i]
      BY ONLY <1>3, <1>5, <2>3, QueueAppend
    <3> QED
      BY ONLY <1>1, <1>2, <1>3, <1>5, <1>8, <2>3, <3>1
  <2>4. CASE command # 5 /\ queue' = queue \o <<bad, failed>> /\ faultless' = FALSE
             /\ UNCHANGED <<expects, halted>>
    <3>1. /\ queue' \in Seq(Messages) /\ Len(queue') = Len(queue) + 2
          /\ queue'[Len(queue) + 1] = bad /\ queue'[Len(queue) + 2] = failed
          /\ \A i \in 1 .. Len(queue) : queue'[i] = queue[i]
      BY ONLY <1>3, <1>6, <2>4, QueueMore
    <3>2. /\ MyData(queue'[Len(queue) + 1], command) /\ MyCsw(queue'[Len(queue) + 2], command)
          /\ queue'[Len(queue) + 1].size = 0
          /\ ~queue'[Len(queue) + 2].good /\ queue'[Len(queue) + 2].size = CswLength
      BY ONLY <1>6, <3>1
    <3> QED
      BY ONLY <1>1, <1>2, <1>3, <1>8, <2>4, <3>1, <3>2
  <2>5. CASE halted' \in BOOLEAN /\ faultless' = FALSE /\ UNCHANGED <<queue, expects>>
    BY ONLY <1>1, <1>2, <1>3, <1>8, <2>5
  <2> QED
    BY <1>1, <1>8, <2>1, <2>2, <2>3, <2>4, <2>5 DEF DeviceGetsCbw, good, bad, passed, failed, refused
<1> QED
  BY <1>7, <1>8

LEMMA SendDataDoes ==
  ASSUME FlashTypeOK, SendData
  PROVE  /\ fpc = "data" /\ command = 5 /\ ~halted /\ Len(queue) <= MaxUnread /\ fpc' = "csw"
         /\ queue' \in Seq(Messages) /\ Len(queue') = Len(queue) + 1
         /\ \A i \in 1 .. Len(queue) : queue'[i] = queue[i]
         /\ queue'[Len(queue) + 1].csw /\ queue'[Len(queue) + 1].size = CswLength
         /\ expects' = FALSE /\ faultless' \in BOOLEAN /\ written' = expects
         /\ ~expects => ~queue'[Len(queue) + 1].good
         /\ faultless' => faultless /\ expects /\ queue'[Len(queue) + 1].good
         /\ UNCHANGED <<bus, runs, at, opened, handle, claimed, heap, command, geometry>>
         /\ UNCHANGED <<halted, took, own>>
<1>1. /\ fpc = "data" /\ command = 5 /\ ~halted /\ Len(queue) <= MaxUnread /\ fpc' = "csw"
      /\ DeviceGetsData
      /\ UNCHANGED <<bus, runs, at, opened, handle, claimed, heap, command, geometry>>
      /\ UNCHANGED <<halted, took, own>>
  BY DEF SendData
<1>2. PICK good \in IF expects THEN BOOLEAN ELSE {FALSE} :
         /\ queue' = Append(queue, Csw(5, good))
         /\ faultless' = (faultless /\ good)
         /\ written' = expects /\ expects' = FALSE
  BY <1>1 DEF DeviceGetsData
<1>3. good \in BOOLEAN /\ (~expects => ~good)
  BY <1>2
<1> DEFINE answer == Csw(5, good)
<1>4. answer \in Messages /\ answer.csw /\ answer.size = CswLength /\ answer.good = good
  BY ONLY <1>3 DEF Csw, Messages, CswLength
<1>5. queue' = Append(queue, answer)
  BY <1>2
<1> HIDE DEF answer
<1>6. /\ queue' \in Seq(Messages) /\ Len(queue') = Len(queue) + 1
      /\ \A i \in 1 .. Len(queue) : queue'[i] = queue[i]
      /\ queue'[Len(queue) + 1] = answer
  <2>1. queue \in Seq(Messages)
    BY DEF FlashTypeOK
  <2> QED
    BY ONLY <1>4, <1>5, <2>1, QueueAppend
<1>7. faultless' \in BOOLEAN
  BY ONLY <1>2
<1>8. faultless' => faultless /\ expects /\ good
  BY ONLY <1>2, <1>3
<1> QED
  BY ONLY <1>1, <1>2, <1>3, <1>4, <1>6, <1>7, <1>8

\* What is first in the queue is read, and is or is not too long for the buffer.
LEMMA ReceiveDataDoes ==
  ASSUME FlashTypeOK, handle # 0, ReceiveData
  PROVE  /\ fpc = "data" /\ command # 5 /\ ~halted /\ queue # <<>>
         /\ queue' \in Seq(Messages) /\ Len(queue') = Len(queue) - 1
         /\ \A i \in 1 .. Len(queue) - 1 : queue'[i] = queue[i + 1]
         /\ \/ /\ queue[1].size > Room
               /\ fpc' = "destroy" /\ heap' = {} /\ UNCHANGED <<command, geometry, took>>
            \/ /\ queue[1].size <= Room
               /\ fpc' = "csw" /\ UNCHANGED <<command, heap>>
               /\ took' \in BOOLEAN /\ (took' <=> MyData(queue[1], command))
               /\ geometry' \in Geometries /\ (command # 3 => geometry' = geometry)
               /\ command = 3 /\ MyData(queue[1], command) /\ queue[1].size = 8 =>
                     geometry' = [mlba |-> bus[handle].last, blen |-> BlockLength]
         /\ UNCHANGED <<bus, runs, at, opened, handle, claimed, expects, halted>>
         /\ UNCHANGED <<own, faultless, written>>
<1> DEFINE msg == Head(queue)
           whole == command = 3 /\ msg.of = 3 /\ ~msg.csw /\ msg.size = 8
           right == [mlba |-> bus[handle].last, blen |-> BlockLength]
<1>1. /\ fpc = "data" /\ command # 5 /\ ~halted /\ queue # <<>> /\ queue' = Tail(queue)
      /\ UNCHANGED <<bus, runs, at, opened, handle, claimed, expects, halted>>
      /\ UNCHANGED <<own, faultless, written>>
  BY DEF ReceiveData
<1>2. /\ queue' \in Seq(Messages) /\ Len(queue') = Len(queue) - 1
      /\ \A i \in 1 .. Len(queue) - 1 : queue'[i] = queue[i + 1]
      /\ msg = queue[1] /\ msg \in Messages
  <2>1. queue \in Seq(Messages)
    BY DEF FlashTypeOK
  <2> QED
    BY ONLY <1>1, <2>1, QueueTail
<1>3. \/ msg.size > Room /\ CommandFails /\ UNCHANGED took
      \/ /\ ~(msg.size > Room)
         /\ fpc' = "csw" /\ took' = (msg.mine /\ msg.of = command /\ ~msg.csw)
         /\ geometry' \in CASE command # 3 -> {geometry}
                            [] whole -> {right}
                            [] OTHER -> Geometries
         /\ UNCHANGED <<heap, command>>
  BY DEF ReceiveData
<1>4. right \in Geometries
  <2>1. bus \in Buses /\ handle \in 0 .. Len(bus) /\ handle # 0
    BY DEF FlashTypeOK
  <2>2. bus \in Seq([class : {"storage", "per interface", "other"}, last : Lbas])
    BY ONLY <2>1, FlashSizes
  <2>3. bus[handle].last \in Lbas
    <3>1. Len(bus) \in Nat
      BY ONLY <2>2, LenProperties
    <3>2. handle \in 1 .. Len(bus)
      BY ONLY <2>1, <3>1
    <3>3. bus[handle] \in [class : {"storage", "per interface", "other"}, last : Lbas]
      BY ONLY <2>2, <3>2, ElementOfSeq
    <3> QED
      BY ONLY <3>3
  <2> QED
    BY ONLY <2>3 DEF Geometries
<1> HIDE DEF msg, whole, right
<1>5. CASE msg.size > Room /\ CommandFails /\ UNCHANGED took
  BY ONLY <1>1, <1>2, <1>5 DEF CommandFails
<1>6. ASSUME ~(msg.size > Room), fpc' = "csw", took' = (msg.mine /\ msg.of = command /\ ~msg.csw),
             geometry' \in CASE command # 3 -> {geometry}
                            [] whole -> {right}
                            [] OTHER -> Geometries,
             UNCHANGED <<heap, command>>
      PROVE  /\ msg.size <= Room /\ took' \in BOOLEAN /\ (took' <=> MyData(msg, command))
             /\ geometry' \in Geometries /\ (command # 3 => geometry' = geometry)
             /\ command = 3 /\ MyData(msg, command) /\ msg.size = 8 => geometry' = right
  <2>1. took' \in BOOLEAN /\ (took' <=> MyData(msg, command))
    BY ONLY <1>6 DEF MyData
  <2>2. msg.size <= Room
    <3>1. msg.size \in Nat
      BY ONLY <1>2, SizeIsNat
    <3>2. command \in 1 .. 5 /\ geometry \in Geometries
      BY DEF FlashTypeOK
    <3>3. geometry.blen \in Nat
      BY ONLY <3>2, BlockLengths DEF Geometries
    <3>4. command = 1 \/ command = 2 \/ command = 3 \/ command = 4 \/ command = 5
      BY ONLY <3>2
    <3>5. CASE command = 4
      <4>1. Room = geometry.blen
        BY ONLY <3>5 DEF Room
      <4> QED
        BY ONLY <1>6, <3>1, <3>3, <4>1
    <3>6. CASE command # 4
      <4>1. Room = DataLength(command)
        BY ONLY <3>6 DEF Room
      <4>2. DataLength(command) \in Nat
        BY ONLY <3>2, LengthIsNat
      <4> QED
        BY ONLY <1>6, <3>1, <4>1, <4>2
    <3> QED
      BY ONLY <3>5, <3>6
  <2>3. whole => command = 3
    BY DEF whole
  <2>4. CASE command # 3
    <3>1. geometry \in Geometries
      BY DEF FlashTypeOK
    <3> QED
      BY ONLY <1>6, <2>1, <2>2, <2>3, <2>4, <3>1
  <2>5. CASE whole
    BY ONLY <1>4, <1>6, <2>1, <2>2, <2>3, <2>5
  <2>6. CASE command = 3 /\ ~whole
    <3>1. geometry' \in Geometries
      BY ONLY <1>6, <2>6
    <3>2. ~(MyData(msg, command) /\ msg.size = 8)
      BY <2>6 DEF whole, MyData
    <3> QED
      BY ONLY <2>1, <2>2, <2>6, <3>1, <3>2
  <2> QED
    BY <2>4, <2>5, <2>6
<1> QED
  BY <1>1, <1>2, <1>3, <1>5, <1>6 DEF right

\* What is first in the queue is taken for a status, and is or is not one.
Passes(msg) == IF msg.csw THEN msg.good ELSE msg.size = 0
CswFits(msg) == msg.csw => msg.size = CswLength

LEMMA ReceiveCswDoes ==
  ASSUME FlashTypeOK, ReceiveCsw
  PROVE  /\ fpc = "csw" /\ ~halted /\ queue # <<>>
         /\ queue' \in Seq(Messages) /\ Len(queue') = Len(queue) - 1
         /\ \A i \in 1 .. Len(queue) - 1 : queue'[i] = queue[i + 1]
         /\ heap' = {} /\ geometry' = geometry
         /\ \/ /\ CswFits(queue[1]) => ~(queue[1].csw /\ queue[1].good)
               /\ fpc' = "destroy" /\ UNCHANGED <<command, own>>
            \/ /\ CswFits(queue[1]) => Passes(queue[1])
               /\ own' \in SUBSET (1 .. 5) /\ own \subseteq own'
               /\ MyCsw(queue[1], command) /\ took => command \in own'
               /\ command = 5 => fpc' = "destroy" /\ command' = command
               /\ command # 5 => fpc' = "cbw" /\ command' = command + 1
         /\ UNCHANGED <<bus, runs, at, opened, handle, claimed, expects, halted>>
         /\ UNCHANGED <<took, faultless, written>>
<1> DEFINE msg == Head(queue)
<1>1. /\ fpc = "csw" /\ ~halted /\ queue # <<>> /\ queue' = Tail(queue)
      /\ UNCHANGED <<bus, runs, at, opened, handle, claimed, expects, halted>>
      /\ UNCHANGED <<took, faultless, written>>
  BY DEF ReceiveCsw
<1>2. /\ queue' \in Seq(Messages) /\ Len(queue') = Len(queue) - 1
      /\ \A i \in 1 .. Len(queue) - 1 : queue'[i] = queue[i + 1]
      /\ msg = queue[1] /\ msg \in Messages
  <2>1. queue \in Seq(Messages)
    BY DEF FlashTypeOK
  <2> QED
    BY ONLY <1>1, <2>1, QueueTail
<1>3. PICK ok \in BOOLEAN :
         /\ CheckCsw(msg, ok)
         /\ IF ~ok THEN CommandFails /\ UNCHANGED own
            ELSE /\ own' = IF msg.mine /\ msg.of = command /\ took THEN own \cup {command} ELSE own
                 /\ heap' = {} /\ CommandEnds /\ UNCHANGED geometry
  BY DEF ReceiveCsw
<1>4. CswFits(msg) => (ok => Passes(msg)) /\ (~ok => ~(msg.csw /\ msg.good))
  <2> SUFFICES ASSUME CswFits(msg) PROVE (ok => Passes(msg)) /\ (~ok => ~(msg.csw /\ msg.good))
    OBVIOUS
  <2>1. msg.size \in Nat /\ msg.good \in BOOLEAN /\ msg.csw \in BOOLEAN
    BY ONLY <1>2, SizeIsNat
  <2>2. ok \in CASE msg.size > CswLength -> {FALSE}
                 [] msg.csw -> {msg.good}
                 [] msg.size = 0 -> BOOLEAN
                 [] OTHER -> {FALSE}
    BY <1>3 DEF CheckCsw
  <2>3. msg.csw => msg.size = CswLength
    BY DEF CswFits
  <2> HIDE DEF msg
  <2>4. CASE msg.size > CswLength
    <3>1. ~msg.csw /\ msg.size # 0
      BY ONLY <2>1, <2>3, <2>4 DEF CswLength
    <3>2. ok = FALSE
      BY ONLY <2>2, <2>4, <3>1
    <3> QED
      BY ONLY <3>1, <3>2
  <2>5. CASE msg.csw
    <3>1. ~(msg.size > CswLength) /\ msg.size # 0
      BY ONLY <2>3, <2>5 DEF CswLength
    <3>2. ok = msg.good
      BY ONLY <2>2, <2>5, <3>1
    <3> QED
      BY ONLY <2>5, <3>2 DEF Passes
  <2>6. CASE msg.size = 0
    <3>1. ~msg.csw
      BY ONLY <2>3, <2>6 DEF CswLength
    <3> QED
      BY ONLY <2>6, <3>1 DEF Passes
  <2>7. CASE ~(msg.size > CswLength) /\ ~msg.csw /\ msg.size # 0
    <3>1. ok = FALSE
      BY ONLY <2>2, <2>7
    <3> QED
      BY ONLY <2>7, <3>1
  <2> QED
    BY ONLY <2>4, <2>5, <2>6, <2>7
<1>5. own \subseteq 1 .. 5 /\ command \in 1 .. 5
  BY DEF FlashTypeOK
<1> HIDE DEF msg
<1>6. CASE ~ok
  <2>1. fpc' = "destroy" /\ heap' = {} /\ UNCHANGED <<command, geometry, own>>
    BY <1>3, <1>6 DEF CommandFails
  <2> QED
    BY ONLY <1>1, <1>2, <1>4, <1>6, <2>1
<1>7. CASE ok
  <2>1. /\ own' = IF msg.mine /\ msg.of = command /\ took THEN own \cup {command} ELSE own
        /\ heap' = {} /\ geometry' = geometry /\ CommandEnds
    BY <1>3, <1>7
  <2>2. /\ command = 5 => fpc' = "destroy" /\ command' = command
        /\ command # 5 => fpc' = "cbw" /\ command' = command + 1
    BY ONLY <2>1 DEF CommandEnds
  <2>3. own' \in SUBSET (1 .. 5) /\ own \subseteq own' /\ (MyCsw(msg, command) /\ took => command \in own')
    BY ONLY <1>5, <2>1 DEF MyCsw
  <2> QED
    BY ONLY <1>1, <1>2, <1>4, <1>7, <2>1, <2>2, <2>3
<1> QED
  BY <1>6, <1>7

-----------------------------------------------------------------------------
(***************************************************************************)
(* Types.                                                                  *)
(***************************************************************************)
Typed == FlashTypeOK /\ HandleSet

LEMMA TypedStep == Typed /\ [FlashNext]_flashVars => Typed'
<1> SUFFICES ASSUME Typed, [FlashNext]_flashVars PROVE Typed'
  OBVIOUS
<1>a. FlashTypeOK /\ HandleSet
  BY DEF Typed
<1>b. queue \in Seq(Messages) /\ Len(queue) \in Nat /\ MaxUnread \in Nat /\ bus \in Buses /\ Len(bus) \in Nat
  <2>1. queue \in Seq(Messages) /\ bus \in Buses
    BY <1>a DEF FlashTypeOK
  <2>2. bus \in Seq([class : {"storage", "per interface", "other"}, last : Lbas])
    BY ONLY <2>1, FlashSizes
  <2> QED
    BY ONLY <2>1, <2>2, BlockLengths, LenProperties
<1>1. CASE UNCHANGED flashVars
  BY <1>1, <1>a DEF Typed, HandleSet, FlashTypeOK, flashVars, flashProgram, flashDevice, flashHistory
<1>2. CASE Start
  <2>1. /\ took' = FALSE /\ written' = FALSE /\ faultless' \in BOOLEAN
    BY <1>2 DEF Start
  <2>2. /\ fpc' = "find" /\ runs' \in 0 .. MaxRuns
        /\ at' = 1 /\ opened' = {} /\ handle' = 0 /\ claimed' = FALSE /\ heap' = {}
        /\ command' = 1 /\ own' = {}
        /\ queue' \in Seq(Messages) /\ Len(queue') = Len(queue)
        /\ UNCHANGED <<bus, geometry, expects, halted>>
    BY ONLY <1>2, <1>a, StartDoes
  <2>3. Len(queue') <= MaxUnread + 2 /\ at' \in 1 .. Len(bus) + 1 /\ handle' \in 0 .. Len(bus)
    BY ONLY <1>a, <1>b, <2>2 DEF FlashTypeOK
  <2>4. claimed' \in BOOLEAN /\ took' \in BOOLEAN /\ written' \in BOOLEAN
    BY ONLY <2>1, <2>2
  <2>5. expects' \in BOOLEAN /\ halted' \in BOOLEAN /\ geometry' \in Geometries /\ bus' \in Buses
    BY ONLY <1>a, <2>2 DEF FlashTypeOK
  <2>6. at' \in 1 .. Len(bus') + 1 /\ handle' \in 0 .. Len(bus')
    BY ONLY <2>2, <2>3
  <2>7. FlashTypeOK'
    BY ONLY <2>1, <2>2, <2>3, <2>4, <2>5, <2>6 DEF FlashTypeOK
  <2> QED
    BY ONLY <2>2, <2>7 DEF Typed, HandleSet
<1>3. CASE Kill
  BY <1>3, <1>a DEF Kill, Typed, HandleSet, FlashTypeOK, flashDevice, flashHistory
<1>4. CASE DeviceReset
  <2>1. queue' = <<>> /\ expects' = FALSE /\ halted' = FALSE /\ UNCHANGED flashProgram /\ UNCHANGED flashHistory
    BY <1>4 DEF DeviceReset
  <2>2. queue' \in Seq(Messages) /\ Len(queue') = 0
    BY ONLY <2>1, EmptySeq
  <2>3. Len(queue') <= MaxUnread + 2
    BY ONLY <1>b, <2>2
  <2> QED
    BY ONLY <1>a, <2>1, <2>2, <2>3 DEF Typed, HandleSet, FlashTypeOK, flashProgram, flashHistory
<1>5. CASE FindDevice
  <2>1. /\ fpc = "find" /\ at <= Len(bus) /\ fpc' \in {"find", "configure"}
        /\ at' \in {at, at + 1} /\ handle' \in {handle, at} /\ opened' \subseteq opened \cup {at}
        /\ fpc' = "configure" => handle' = at
        /\ UNCHANGED <<bus, runs, claimed, heap, command, geometry, flashDevice, took, own, written>>
    BY <1>5 DEF FindDevice
  <2>2. faultless' \in BOOLEAN
    <3>1. faultless \in BOOLEAN
      BY <1>a DEF FlashTypeOK
    <3> QED
      BY <1>5, <3>1 DEF FindDevice
  <2>3. at \in 1 .. Len(bus) /\ at' \in 1 .. Len(bus) + 1
    BY <1>a, <1>b, <2>1 DEF FlashTypeOK
  <2>4. handle' \in 0 .. Len(bus) /\ opened' \subseteq 1 .. Len(bus) /\ (fpc' = "configure" => handle' # 0)
    BY <1>a, <1>b, <2>1, <2>3 DEF FlashTypeOK
  <2> QED
    BY ONLY <1>a, <2>1, <2>2, <2>3, <2>4 DEF Typed, HandleSet, FlashTypeOK, flashDevice
<1>6. CASE FindEnds
  BY <1>6, <1>a DEF FindEnds, Typed, HandleSet, FlashTypeOK, flashDevice, flashHistory
<1>7. CASE Configure
  <2>1. /\ fpc = "configure" /\ claimed' \in BOOLEAN /\ fpc' \in {"lun", "destroy"}
        /\ UNCHANGED <<bus, runs, at, opened, handle, heap, command, geometry>>
        /\ UNCHANGED <<flashDevice, took, own, written>>
    BY <1>7 DEF Configure
  <2>2. faultless' \in BOOLEAN
    BY <1>7 DEF Configure
  <2> QED
    BY ONLY <1>a, <2>1, <2>2 DEF Typed, HandleSet, FlashTypeOK, flashDevice
<1>8. CASE GetMaxLun
  BY <1>8, <1>a DEF GetMaxLun, Typed, HandleSet, FlashTypeOK, flashDevice, flashHistory
<1>9. CASE OutOfRange
  BY <1>9, <1>a DEF OutOfRange, CommandFails, Typed, HandleSet, FlashTypeOK, flashDevice, flashHistory
<1>10. CASE SendCbw
  <2>1. /\ fpc = "cbw" /\ Len(queue) <= MaxUnread /\ fpc' = "data" /\ took' = FALSE
        /\ heap' \subseteq {"rec_data", "data_to_send"}
        /\ queue' \in Seq(Messages) /\ expects' \in BOOLEAN /\ halted' \in BOOLEAN
        /\ faultless' \in BOOLEAN
        /\ queue' = queue \/ Len(queue') = Len(queue) + 1 \/ Len(queue') = Len(queue) + 2
        /\ UNCHANGED <<bus, runs, at, opened, handle, claimed, command, geometry, own, written>>
    BY ONLY <1>10, <1>a, SendCbwDoes
  <2>2. Len(queue') <= MaxUnread + 2
    BY ONLY <1>b, <2>1
  <2> QED
    BY ONLY <1>a, <2>1, <2>2 DEF Typed, HandleSet, FlashTypeOK
<1>11. CASE ReceiveData
  <2>0. fpc = "data" /\ handle # 0
    BY <1>11, <1>a DEF ReceiveData, HandleSet
  <2>1. /\ queue' \in Seq(Messages) /\ Len(queue') = Len(queue) - 1 /\ fpc' \in {"destroy", "csw"}
        /\ heap' = {} \/ heap' = heap
        /\ command' = command
        /\ UNCHANGED <<bus, runs, at, opened, handle, claimed, expects, halted>>
        /\ UNCHANGED <<own, faultless, written>>
    BY ONLY <1>11, <1>a, <2>0, ReceiveDataDoes
  <2>2. geometry' = geometry \/ geometry' \in Geometries
    BY ONLY <1>11, <1>a, <2>0, ReceiveDataDoes
  <2>3. took' = took \/ took' \in BOOLEAN
    BY ONLY <1>11, <1>a, <2>0, ReceiveDataDoes
  <2>4. took' \in BOOLEAN /\ geometry' \in Geometries /\ Len(queue') <= MaxUnread + 2
    BY ONLY <1>a, <1>b, <2>1, <2>2, <2>3 DEF FlashTypeOK
  <2> QED
    BY ONLY <1>a, <2>0, <2>1, <2>4 DEF Typed, HandleSet, FlashTypeOK
<1>12. CASE SendData
  <2>1. /\ fpc = "data" /\ Len(queue) <= MaxUnread /\ fpc' = "csw"
        /\ queue' \in Seq(Messages) /\ Len(queue') = Len(queue) + 1
        /\ expects' = FALSE /\ faultless' \in BOOLEAN /\ written' = expects
        /\ UNCHANGED <<bus, runs, at, opened, handle, claimed, heap, command, geometry>>
        /\ UNCHANGED <<halted, took, own>>
    BY ONLY <1>12, <1>a, SendDataDoes
  <2>2. Len(queue') <= MaxUnread + 2
    BY ONLY <1>b, <2>1
  <2> QED
    BY ONLY <1>a, <2>1, <2>2 DEF Typed, HandleSet, FlashTypeOK
<1>13. CASE ReceiveCsw
  <2>1. /\ fpc = "csw" /\ queue' \in Seq(Messages) /\ Len(queue') = Len(queue) - 1
        /\ heap' = {} /\ geometry' = geometry /\ fpc' \in {"destroy", "cbw"}
        /\ own' = own \/ own' \in SUBSET (1 .. 5)
        /\ command' = command \/ (command # 5 /\ command' = command + 1)
        /\ UNCHANGED <<bus, runs, at, opened, handle, claimed, expects, halted>>
        /\ UNCHANGED <<took, faultless, written>>
    BY ONLY <1>13, <1>a, ReceiveCswDoes
  <2>2. command' \in 1 .. 5 /\ own' \subseteq 1 .. 5
    <3>1. command \in 1 .. 5 /\ own \subseteq 1 .. 5
      BY <1>a DEF FlashTypeOK
    <3>2. command' = command \/ (command # 5 /\ command' = command + 1)
      BY ONLY <2>1
    <3>3. own' = own \/ own' \in SUBSET (1 .. 5)
      BY ONLY <2>1
    <3>4. command' \in 1 .. 5
      BY ONLY <3>1, <3>2
    <3>5. own' \subseteq 1 .. 5
      BY ONLY <3>1, <3>3
    <3> QED
      BY ONLY <3>4, <3>5
  <2>3. Len(queue') <= MaxUnread + 2
    BY ONLY <1>a, <1>b, <2>1 DEF FlashTypeOK
  <2> QED
    BY ONLY <1>a, <2>1, <2>2, <2>3 DEF Typed, HandleSet, FlashTypeOK
<1>14. CASE TransferFails
  BY <1>14, <1>a DEF TransferFails, CommandFails, Typed, HandleSet, FlashTypeOK, flashDevice
<1>15. CASE DestroyDevice
  BY <1>15, <1>a DEF DestroyDevice, Typed, HandleSet, FlashTypeOK, flashDevice, flashHistory
<1> QED
  BY <1>1, <1>2, <1>3, <1>4, <1>5, <1>6, <1>7, <1>8, <1>9, <1>10, <1>11, <1>12, <1>13, <1>14, <1>15
     DEF FlashNext

LEMMA TypedInit == FlashInit => Typed
<1> SUFFICES ASSUME FlashInit PROVE Typed
  OBVIOUS
<1>1. bus \in Buses /\ bus \in Seq([class : {"storage", "per interface", "other"}, last : Lbas])
  BY FlashSizes DEF FlashInit
<1>2. Len(bus) \in Nat /\ MaxRuns \in Nat /\ MaxUnread \in Nat /\ <<>> \in Seq(Messages) /\ Len(<<>>) = 0
  BY ONLY <1>1, LenProperties, EmptySeq, BlockLengths
<1>3. [mlba |-> 0, blen |-> 0] \in Geometries
  BY FlashSizes DEF Geometries
<1> QED
  <2>1. /\ 1 \in 1 .. Len(bus) + 1 /\ 0 \in 0 .. Len(bus) /\ 0 \in 0 .. MaxRuns
        /\ 0 <= MaxUnread + 2 /\ 1 \in 1 .. 5
    BY ONLY <1>2
  <2> QED
    BY <1>1, <1>2, <1>3, <2>1 DEF FlashInit, Typed, FlashTypeOK, HandleSet

-----------------------------------------------------------------------------
(***************************************************************************)
(* Whose answers a run takes.                                              *)
(***************************************************************************)
LEMMA QueueNow ==
  ASSUME Typed
  PROVE  /\ queue \in Seq(Messages) /\ Len(queue) \in Nat /\ (queue = <<>> <=> Len(queue) = 0)
         /\ \A i \in 1 .. Len(queue) : queue[i] \in Messages
         /\ command \in 1 .. 5 /\ FlashTypeOK
         /\ (fpc \in {"cbw", "data", "csw"} => handle # 0)
<1>1. FlashTypeOK /\ HandleSet
  BY DEF Typed
<1>2. queue \in Seq(Messages) /\ command \in 1 .. 5
  BY <1>1 DEF FlashTypeOK
<1> QED
  BY <1>1, <1>2, QueueOf DEF HandleSet

\* Steps that leave the device alone and end up outside of a transfer.
LEMMA AnswersOutside ==
  ASSUME AnswersInv, UNCHANGED <<queue, expects, command>>, ~Transferring',
         fpc' \in {"find", "configure", "lun"} => fpc \in {"find", "configure", "lun"}
  PROVE  AnswersInv'
<1>1. fpc' # "cbw" /\ fpc' # "data" /\ fpc' # "csw"
  BY DEF Transferring
<1>2. QueueShape'
  BY <1>1 DEF AnswersInv, QueueShape, Transferring
<1>3. WriteAwaited' /\ Prepared' /\ OnTheRest'
  BY <1>1 DEF AnswersInv, WriteAwaited, Prepared, OnTheRest, Transferring
<1>4. OnInquiry' /\ OnSense'
  BY <1>1 DEF OnInquiry, OnSense
<1> QED
  BY <1>2, <1>3, <1>4 DEF AnswersInv

LEMMA AnswersStart ==
  ASSUME Typed, AnswersInv, Start
  PROVE  AnswersInv'
<1>1. /\ fpc' = "find" /\ command' = 1
      /\ queue' \in Seq(Messages) /\ Len(queue') = Len(queue) /\ expects' = expects
      /\ \A i \in 1 .. Len(queue) : /\ queue'[i].csw = queue[i].csw
                                   /\ queue'[i].size = queue[i].size
                                   /\ queue'[i].good = queue[i].good
  BY StartDoes DEF Typed
<1>2. Len(queue) \in Nat /\ (queue = <<>> => queue' = <<>>)
  BY ONLY <1>1, Typed, QueueNow, QueueOf
<1>3. QueueShape'
  <2>1. QueueShape
    BY DEF AnswersInv
  <2>2. \A i \in 1 .. Len(queue) :
          /\ queue'[i].csw => queue'[i].size = CswLength
          /\ ~queue'[i].csw => /\ i + 1 \in 1 .. Len(queue) /\ queue'[i + 1].csw
                               /\ queue'[i].size = 0 => ~queue'[i + 1].good
    BY ONLY <1>1, <2>1 DEF QueueShape
  <2>3. \A i \in 1 .. Len(queue) - 1 :
          queue'[i].csw /\ queue'[i + 1].csw => i = 1 /\ ~queue'[2].good
    <3> SUFFICES ASSUME NEW i \in 1 .. Len(queue) - 1, queue'[i].csw, queue'[i + 1].csw
                 PROVE  i = 1 /\ ~queue'[2].good
      OBVIOUS
    <3>1. i \in 1 .. Len(queue) /\ i + 1 \in 1 .. Len(queue)
      BY ONLY <1>2, i \in 1 .. Len(queue) - 1
    <3>2. i = 1 /\ ~queue[2].good
      BY ONLY <1>1, <2>1, <3>1, i \in 1 .. Len(queue) - 1, queue'[i].csw, queue'[i + 1].csw DEF QueueShape
    <3> QED
      BY ONLY <1>1, <3>1, <3>2
  <2> QED
    BY ONLY <1>1, <2>2, <2>3 DEF QueueShape, Transferring
<1>4. WriteAwaited' /\ Prepared' /\ OnInquiry' /\ OnSense' /\ OnTheRest'
  BY <1>1, <1>2 DEF AnswersInv, WriteAwaited, Prepared, OnInquiry, OnSense, OnTheRest, Transferring
<1> QED
  BY <1>3, <1>4 DEF AnswersInv

\* Without its first message no two statuses are left together.
LEMMA ShapeOfTail ==
  ASSUME Typed, QueueShape, Len(queue') = Len(queue) - 1,
         \A i \in 1 .. Len(queue) - 1 : queue'[i] = queue[i + 1]
  PROVE  QueueShape'
<1>1. Len(queue) \in Nat
  BY QueueNow
<1>2. \A i \in 1 .. Len(queue') : i + 1 \in 1 .. Len(queue) /\ queue'[i] = queue[i + 1]
  BY <1>1
<1>3. \A i \in 1 .. Len(queue') :
          /\ queue'[i].csw => queue'[i].size = CswLength
          /\ ~queue'[i].csw => /\ i + 1 \in 1 .. Len(queue') /\ queue'[i + 1].csw
                               /\ queue'[i].size = 0 => ~queue'[i + 1].good
  <2> SUFFICES ASSUME NEW i \in 1 .. Len(queue')
               PROVE  /\ queue'[i].csw => queue'[i].size = CswLength
                      /\ ~queue'[i].csw => /\ i + 1 \in 1 .. Len(queue') /\ queue'[i + 1].csw
                                           /\ queue'[i].size = 0 => ~queue'[i + 1].good
    OBVIOUS
  <2>1. i + 1 \in 1 .. Len(queue) /\ queue'[i] = queue[i + 1]
    BY ONLY <1>2, i \in 1 .. Len(queue')
  <2>2. /\ queue[i + 1].csw => queue[i + 1].size = CswLength
        /\ ~queue[i + 1].csw => /\ i + 1 + 1 \in 1 .. Len(queue) /\ queue[i + 1 + 1].csw
                                /\ queue[i + 1].size = 0 => ~queue[i + 1 + 1].good
    BY ONLY <2>1, QueueShape DEF QueueShape
  <2>3. i + 1 + 1 \in 1 .. Len(queue) => i + 1 \in 1 .. Len(queue')
    BY ONLY <1>1, i \in 1 .. Len(queue'), Len(queue') = Len(queue) - 1
  <2>4. i + 1 \in 1 .. Len(queue') => queue'[i + 1] = queue[i + 1 + 1]
    BY ONLY <1>2
  <2> QED
    BY ONLY <2>1, <2>2, <2>3, <2>4
<1>4. \A i \in 1 .. Len(queue') - 1 : ~(queue'[i].csw /\ queue'[i + 1].csw)
  <2> SUFFICES ASSUME NEW i \in 1 .. Len(queue') - 1, queue'[i].csw, queue'[i + 1].csw
               PROVE  FALSE
    OBVIOUS
  <2>1. /\ i + 1 \in 1 .. Len(queue) - 1 /\ i + 1 # 1
        /\ i \in 1 .. Len(queue') /\ i + 1 \in 1 .. Len(queue')
    BY <1>1
  <2>2. queue[i + 1].csw /\ queue[i + 1 + 1].csw
    BY ONLY <1>2, <2>1, queue'[i].csw, queue'[i + 1].csw
  <2> QED
    BY ONLY <2>1, <2>2, QueueShape DEF QueueShape
<1> QED
  BY ONLY <1>3, <1>4 DEF QueueShape

\* The queue after a command block: what was there, and answers to it.
LEMMA ShapeWithAnswers ==
  ASSUME Typed, QueueShape, NEW n, n = Len(queue), Len(queue') = n + 2,
         \A i \in 1 .. n : queue'[i] = queue[i],
         ~queue'[n + 1].csw, queue'[n + 2].csw, queue'[n + 2].size = CswLength,
         queue'[n + 1].size = 0 => ~queue'[n + 2].good,
         fpc = "cbw", fpc' = "data", command' = command
  PROVE  QueueShape'
<1>1. n \in Nat /\ command \in 1 .. 5
  BY QueueNow
<1>2. ASSUME NEW i \in 1 .. n + 2
      PROVE  /\ queue'[i].csw => queue'[i].size = CswLength
             /\ ~queue'[i].csw => /\ i + 1 \in 1 .. n + 2 /\ queue'[i + 1].csw
                                  /\ queue'[i].size = 0 => ~queue'[i + 1].good
  <2>1. CASE i = n + 1
    BY <1>1, <2>1
  <2>2. CASE i = n + 2
    BY <1>1, <2>2
  <2>3. CASE i \in 1 .. n
    <3>1. /\ queue'[i] = queue[i] /\ (i + 1 \in 1 .. n => queue'[i + 1] = queue[i + 1])
          /\ i + 1 \in 1 .. n => i + 1 \in 1 .. n + 2
      BY <1>1, <2>3
    <3>2. /\ queue[i].csw => queue[i].size = CswLength
          /\ ~queue[i].csw => /\ i + 1 \in 1 .. n /\ queue[i + 1].csw
                              /\ queue[i].size = 0 => ~queue[i + 1].good
      BY ONLY <2>3, QueueShape, n = Len(queue) DEF QueueShape
    <3> QED
      BY ONLY <3>1, <3>2
  <2>4. i = n + 1 \/ i = n + 2 \/ i \in 1 .. n
    BY ONLY <1>1, i \in 1 .. n + 2
  <2> QED
    BY ONLY <2>1, <2>2, <2>3, <2>4
<1>3. ASSUME NEW i \in 1 .. Len(queue') - 1, queue'[i].csw, queue'[i + 1].csw
      PROVE  i = 1 /\ ~queue'[2].good /\ command' # 2
  <2>1. i # n + 1
    BY ONLY <1>3, ~queue'[n + 1].csw
  <2>2. i + 1 # n + 1
    BY ONLY <1>3, ~queue'[n + 1].csw
  <2>3. i \in 1 .. n - 1 /\ i \in 1 .. n /\ i + 1 \in 1 .. n
    BY ONLY <1>1, <2>1, <2>2, i \in 1 .. Len(queue') - 1, Len(queue') = n + 2
  <2>4. queue[i].csw /\ queue[i + 1].csw
    BY <1>3, <2>3
  <2>5. i = 1 /\ ~queue[2].good /\ command # 2
    BY ONLY <2>3, <2>4, QueueShape, n = Len(queue), fpc = "cbw" DEF QueueShape, Transferring
  <2>6. queue'[2] = queue[2]
    BY <2>3, <2>5
  <2> QED
    BY <2>5, <2>6
<1>4. ~(fpc' = "csw" /\ command' = 1)
  OBVIOUS
<1>5. \A i \in 1 .. Len(queue') :
         /\ queue'[i].csw => queue'[i].size = CswLength
         /\ ~queue'[i].csw => /\ i + 1 \in 1 .. Len(queue') /\ queue'[i + 1].csw
                              /\ queue'[i].size = 0 => ~queue'[i + 1].good
  BY ONLY <1>2, Len(queue') = n + 2
<1> QED
  BY ONLY <1>3, <1>4, <1>5, fpc' = "data" DEF QueueShape

\* The queue with one more status: behind nothing, or behind a refusal.
LEMMA ShapeWithStatus ==
  ASSUME Typed, Len(queue') = Len(queue) + 1,
         \A i \in 1 .. Len(queue) : queue'[i] = queue[i],
         queue'[Len(queue) + 1].csw, queue'[Len(queue) + 1].size = CswLength,
         queue = <<>> \/ (/\ Len(queue) = 1 /\ queue[1].csw /\ queue[1].size = CswLength
                         /\ ~queue'[Len(queue) + 1].good /\ command' = 5)
  PROVE  QueueShape'
<1>1. CASE queue = <<>>
  <2>1. Len(queue) = 0 /\ Len(queue') = 1 /\ queue'[1].csw /\ queue'[1].size = CswLength
    BY <1>1, QueueNow
  <2> QED
    BY ONLY <2>1 DEF QueueShape
<1>2. CASE queue # <<>>
  <2>1. /\ Len(queue') = 2 /\ queue'[1].csw /\ queue'[2].csw /\ ~queue'[2].good
        /\ queue'[1].size = CswLength /\ queue'[2].size = CswLength /\ command' = 5
    BY <1>2
  <2> QED
    BY ONLY <2>1 DEF QueueShape
<1> QED
  BY <1>1, <1>2

LEMMA AnswersSendCbw ==
  ASSUME MaxUnread <= 3, Typed, AnswersInv, SendCbw
  PROVE  AnswersInv'
<1> DEFINE n == Len(queue)
<1>1. /\ fpc = "cbw" /\ Len(queue) <= MaxUnread /\ fpc' = "data"
      /\ queue' \in Seq(Messages)
      /\ \A i \in 1 .. Len(queue) : queue'[i] = queue[i]
      /\ command' = command /\ own' = own
  BY ONLY SendCbw, Typed, SendCbwDoes DEF Typed
<1>2. /\ queue \in Seq(Messages) /\ n \in Nat /\ (queue = <<>> <=> n = 0)
      /\ command \in 1 .. 5 /\ n <= 3
  BY <1>1, QueueNow, BlockLengths
<1>3. /\ expects => queue = <<>> /\ command = 1
      /\ command = 2 => queue = <<>> \/ queue[1].csw \/ IsInquiry(queue[1])
      /\ command >= 3 => \/ 2 .. command - 1 \subseteq own /\ queue = <<>>
                         \/ command = 3 /\ queue # <<>> /\ queue[1].csw
  BY <1>1 DEF AnswersInv, WriteAwaited, OnSense, OnTheRest, InStep, StatusFirst, Transferring
<1>4. queue # <<>> => queue' # <<>> /\ queue'[1] = queue[1]
  <2> SUFFICES ASSUME queue # <<>> PROVE queue' # <<>> /\ queue'[1] = queue[1]
    OBVIOUS
  <2>1. 1 \in 1 .. n
    BY <1>2
  <2>2. queue'[1] = queue[1]
    BY <1>1, <2>1
  <2>3. Len(queue') >= n
    <3>1. Len(queue') = n \/ Len(queue') = n + 1 \/ Len(queue') = n + 2
      BY ONLY SendCbw, Typed, SendCbwDoes DEF Typed
    <3> QED
      BY ONLY <1>2, <3>1
  <2>4. Len(queue') # 0
    BY <1>2, <2>1, <2>3
  <2>5. queue' # <<>>
    BY ONLY <1>1, <2>4, QueueOf
  <2> QED
    BY <2>2, <2>5
\* Which parts are to be shown: the rest of the queue speaks for itself.
<1>5. ASSUME QueueShape', expects' => queue' = <<>> /\ command = 5,
             command = 1 => AnsweredLast(3)',
             queue = <<>> /\ command \in 2 .. 4 =>
                \/ queue' = <<>>
                \/ Len(queue') = 2 /\ MyData(queue'[1], command) /\ MyCsw(queue'[2], command),
             command = 5 => queue' = <<>> \/ (Len(queue') = 1 /\ queue'[1].csw /\ ~queue'[1].good)
      PROVE  AnswersInv'
  <2>2. WriteAwaited' /\ Prepared'
    BY <1>1, <1>5 DEF WriteAwaited, Prepared
  <2>3. OnInquiry'
    BY <1>1, <1>5 DEF OnInquiry
  <2>4. OnSense'
    <3> SUFFICES ASSUME command = 2
                 PROVE  \/ queue' = <<>> \/ queue'[1].csw \/ IsInquiry(queue'[1])
                        \/ Len(queue') = 2 /\ MyData(queue'[1], command) /\ MyCsw(queue'[2], command)
      BY <1>1 DEF OnSense
    <3>1. CASE queue = <<>>
      <4>1. command \in 2 .. 4
        OBVIOUS
      <4> QED
        BY <1>5, <3>1, <4>1
    <3>2. CASE queue # <<>>
      BY <1>3, <1>4, <3>2
    <3> QED
      BY <3>1, <3>2
  <2>5. OnTheRest'
    <3> SUFFICES ASSUME command >= 3 PROVE InStep' \/ StatusFirst'
      BY <1>1 DEF OnTheRest
    <3>1. CASE 2 .. command - 1 \subseteq own /\ queue = <<>>
      <4>1. command # 5 => \/ queue' = <<>>
                           \/ Len(queue') = 2 /\ MyData(queue'[1], command) /\ MyCsw(queue'[2], command)
        <5>1. command # 5 => command \in 2 .. 4
          BY <1>2
        <5> QED
          BY ONLY <1>5, <3>1, <5>1
      <4> QED
        BY <1>1, <1>5, <3>1, <4>1 DEF InStep
    <3>2. CASE command = 3 /\ queue # <<>> /\ queue[1].csw
      BY <1>1, <1>4, <3>2 DEF StatusFirst
    <3> QED
      BY <1>3, <3>1, <3>2
  <2> QED
    BY <1>5, <2>2, <2>3, <2>4, <2>5 DEF AnswersInv
<1>6. QueueShape
  BY DEF AnswersInv
<1>7. CASE queue' = queue /\ (expects' => command = 5 /\ expects') /\ ~expects
  <2>1. QueueShape'
    BY <1>1, <1>6, <1>7 DEF QueueShape, Transferring
  <2>2. expects' => queue' = <<>> /\ command = 5
    BY <1>3, <1>7
  <2>3. command = 5 => queue' = <<>>
    BY <1>3, <1>7
  <2>4. AnsweredLast(3)'
    BY <1>2, <1>7 DEF AnsweredLast
  <2> QED
    BY <1>5, <1>7, <2>1, <2>2, <2>3, <2>4
<1>8. CASE /\ expects' = FALSE /\ (expects \/ command = 5)
           /\ Len(queue') = n + 1
           /\ queue'[n + 1].csw /\ ~queue'[n + 1].good /\ queue'[n + 1].size = CswLength
  <2>1. queue = <<>> /\ n = 0 /\ command \in {1, 5}
    BY <1>2, <1>3, <1>8
  <2>2. QueueShape'
    BY <1>1, <1>8, <2>1, ShapeWithStatus
  <2>3. AnsweredLast(3)'
    BY <1>8, <2>1 DEF AnsweredLast
  <2> QED
    BY <1>5, <1>8, <2>1, <2>2, <2>3
<1>9. CASE /\ command # 5 /\ ~expects /\ expects' = expects
           /\ Len(queue') = n + 2
           /\ MyData(queue'[n + 1], command) /\ MyCsw(queue'[n + 2], command) /\ queue'[n + 2].size = CswLength
           /\ \/ queue'[n + 1].size = DataLength(command)
              \/ queue'[n + 1].size = 0 /\ ~queue'[n + 2].good
  <2>1. ~queue'[n + 1].csw /\ queue'[n + 2].csw
    BY <1>9 DEF MyData, MyCsw
  <2>2. queue'[n + 1].size = 0 => ~queue'[n + 2].good
    <3>1. \A c \in 1 .. 5 : DataLength(c) # 0
      BY LengthIsNat
    <3> QED
      BY <1>2, <1>9, <3>1
  <2>3. QueueShape'
    BY <1>1, <1>2, <1>6, <1>9, <2>1, <2>2, ShapeWithAnswers
  <2>4. command = 1 => AnsweredLast(3)'
    <3> SUFFICES ASSUME command = 1 PROVE AnsweredLast(3)'
      OBVIOUS
    <3>1. Len(queue') - 1 = n + 1 /\ Len(queue') <= 3 + 2
      BY <1>2, <1>9
    <3>2. IsInquiry(queue'[n + 1])
      BY <1>9, <2>1, FlashSizes DEF IsInquiry
    <3> QED
      BY ONLY <3>1, <3>2 DEF AnsweredLast
  <2>5. queue = <<>> => Len(queue') = 2 /\ MyData(queue'[1], command) /\ MyCsw(queue'[2], command)
    BY <1>2, <1>9
  <2> QED
    BY <1>5, <1>9, <2>3, <2>4, <2>5
<1> QED
  <2>1. \/ /\ expects /\ expects' = FALSE
           /\ Len(queue') = Len(queue) + 1
           /\ queue'[Len(queue) + 1].csw /\ ~queue'[Len(queue) + 1].good
           /\ queue'[Len(queue) + 1].size = CswLength
        \/ ~expects /\ queue' = queue /\ expects' = expects
        \/ ~expects /\ command = 5 /\ expects' = TRUE /\ queue' = queue
        \/ /\ ~expects /\ command = 5 /\ expects' = expects
           /\ Len(queue') = Len(queue) + 1
           /\ queue'[Len(queue) + 1].csw /\ ~queue'[Len(queue) + 1].good
           /\ queue'[Len(queue) + 1].size = CswLength
        \/ /\ ~expects /\ command # 5 /\ expects' = expects
           /\ Len(queue') = Len(queue) + 2
           /\ MyData(queue'[Len(queue) + 1], command) /\ MyCsw(queue'[Len(queue) + 2], command)
           /\ queue'[Len(queue) + 2].size = CswLength
           /\ \/ queue'[Len(queue) + 1].size = DataLength(command)
              \/ queue'[Len(queue) + 1].size = 0 /\ ~queue'[Len(queue) + 2].good
    BY ONLY SendCbw, Typed, SendCbwDoes DEF Typed
  <2>2. expects \in BOOLEAN
    BY DEF Typed, FlashTypeOK
  <2> QED
    BY <1>7, <1>8, <1>9, <2>1, <2>2

LEMMA AnswersSendData ==
  ASSUME Typed, AnswersInv, SendData
  PROVE  AnswersInv'
<1>1. /\ fpc = "data" /\ command = 5 /\ fpc' = "csw" /\ command' = 5
      /\ Len(queue') = Len(queue) + 1
      /\ \A i \in 1 .. Len(queue) : queue'[i] = queue[i]
      /\ queue'[Len(queue) + 1].csw /\ queue'[Len(queue) + 1].size = CswLength
      /\ expects' = FALSE /\ own' = own
      /\ ~expects => ~queue'[Len(queue) + 1].good
  <2>1. FlashTypeOK
    BY DEF Typed
  <2> QED
    BY ONLY SendData, <2>1, SendDataDoes
<1>2. /\ InStep
      /\ expects => queue = <<>>
  BY <1>1 DEF AnswersInv, WriteAwaited, OnTheRest, StatusFirst, Transferring
<1>3. queue = <<>> \/ (Len(queue) = 1 /\ queue[1].csw /\ queue[1].size = CswLength)
  BY <1>1, <1>2 DEF InStep, AnswersInv, QueueShape
<1>4. QueueShape'
  <2>1. CASE queue = <<>>
    BY ONLY <1>1, <2>1, Typed, ShapeWithStatus
  <2>2. CASE queue # <<>>
    <3>1. ~queue'[Len(queue) + 1].good
      BY <1>1, <1>2, <2>2
    <3> QED
      BY ONLY <1>1, <1>3, <2>2, <3>1, Typed, ShapeWithStatus
  <2> QED
    BY <2>1, <2>2
<1>5. WriteAwaited' /\ Prepared' /\ OnInquiry' /\ OnSense'
  BY <1>1 DEF WriteAwaited, Prepared, OnInquiry, OnSense
<1>6. OnTheRest'
  BY <1>1, <1>2 DEF OnTheRest, InStep
<1> QED
  BY <1>4, <1>5, <1>6 DEF AnswersInv

\* A message that is too long for the buffer ends the run.
LEMMA AnswersReceiveData ==
  ASSUME Typed, AnswersInv, ReceiveData
  PROVE  AnswersInv'
<1>1. /\ queue \in Seq(Messages) /\ Len(queue) \in Nat /\ (queue = <<>> <=> Len(queue) = 0)
      /\ \A i \in 1 .. Len(queue) : queue[i] \in Messages
      /\ command \in 1 .. 5 /\ FlashTypeOK /\ handle # 0
  BY QueueNow DEF ReceiveData
<1>2. /\ fpc = "data" /\ command # 5 /\ queue # <<>>
      /\ queue' \in Seq(Messages) /\ Len(queue') = Len(queue) - 1
      /\ \A i \in 1 .. Len(queue) - 1 : queue'[i] = queue[i + 1]
      /\ command' = command /\ own' = own /\ expects' = expects
  BY ONLY ReceiveData, <1>1, ReceiveDataDoes
<1>3. \/ queue[1].size > Room /\ fpc' = "destroy"
      \/ queue[1].size <= Room /\ fpc' = "csw" /\ (took' <=> MyData(queue[1], command))
  BY ONLY ReceiveData, <1>1, ReceiveDataDoes
<1>4. /\ 1 \in 1 .. Len(queue) /\ (queue' = <<>> <=> Len(queue) = 1)
      /\ Len(queue) # 1 => 2 \in 1 .. Len(queue) /\ queue'[1] = queue[2]
  <2>1. queue' = <<>> <=> Len(queue') = 0
    BY ONLY <1>2, QueueOf
  <2> QED
    BY ONLY <1>1, <1>2, <2>1
<1>5. QueueShape /\ QueueShape'
  <2>1. QueueShape
    BY DEF AnswersInv
  <2> QED
    BY ONLY <1>2, <2>1, Typed, ShapeOfTail
<1>6. ~expects
  BY <1>2 DEF AnswersInv, WriteAwaited
<1>7. CASE fpc' = "destroy"
  BY <1>2, <1>5, <1>6, <1>7 DEF AnswersInv, WriteAwaited, Prepared, OnInquiry, OnSense, OnTheRest,
                                Transferring
<1>8. CASE fpc' = "csw"
  <2>1. /\ queue[1].csw => queue[1].size = 13
        /\ ~queue[1].csw => /\ Len(queue) # 1 /\ queue[2].csw
                            /\ queue[1].size = 0 => ~queue[2].good
        /\ Len(queue) # 1 /\ command = 2 => ~(queue[1].csw /\ queue[2].csw)
    <3>1. /\ queue[1].csw => queue[1].size = CswLength
          /\ ~queue[1].csw => /\ 1 + 1 \in 1 .. Len(queue) /\ queue[1 + 1].csw
                              /\ queue[1].size = 0 => ~queue[1 + 1].good
      BY ONLY <1>4, <1>5 DEF QueueShape
    <3>2. Len(queue) # 1 /\ command = 2 => ~(queue[1].csw /\ queue[1 + 1].csw)
      <4>1. Len(queue) # 1 => 1 \in 1 .. Len(queue) - 1
        BY ONLY <1>1, <1>4
      <4> QED
        BY ONLY <1>2, <1>5, <4>1 DEF QueueShape, Transferring
    <3>3. 1 + 1 \in 1 .. Len(queue) => Len(queue) # 1
      BY ONLY <1>1
    <3> QED
      BY ONLY <3>1, <3>2, <3>3 DEF CswLength
  <2>2. /\ command = 2 => Room = 18
        /\ command = 3 => Room = 8
    <3>1. command # 4 => Room = DataLength(command)
      BY DEF Room
    <3>2. DataLength(2) = 18 /\ DataLength(3) = 8
      BY FlashSizes
    <3>3. CASE command = 2
      BY ONLY <3>1, <3>2, <3>3
    <3>4. CASE command = 3
      BY ONLY <3>1, <3>2, <3>4
    <3> QED
      BY ONLY <3>3, <3>4
  <2>3. queue[1].size <= Room
    BY <1>3, <1>8
  <2>4. WriteAwaited' /\ Prepared'
    BY <1>2, <1>6, <1>8 DEF WriteAwaited, Prepared
  <2>5. OnInquiry'
    <3> SUFFICES ASSUME command = 1 PROVE AnsweredLast(2)'
      BY <1>2, <1>8 DEF OnInquiry
    <3>1. AnsweredLast(3)
      BY <1>2 DEF AnswersInv, OnInquiry
    <3>2. CASE Len(queue) <= 3
      <4>1. Len(queue') <= 2
        BY ONLY <1>1, <1>2, <3>2
      <4> QED
        BY ONLY <4>1 DEF AnsweredLast
    <3>3. CASE Len(queue) > 3 /\ Len(queue) <= 5 /\ IsInquiry(queue[Len(queue) - 1])
      <4>1. Len(queue') <= 2 + 2 /\ Len(queue') - 1 \in 1 .. Len(queue) - 1
            /\ Len(queue') - 1 + 1 = Len(queue) - 1
        BY ONLY <1>1, <1>2, <3>3
      <4>2. queue'[Len(queue') - 1] = queue[Len(queue) - 1]
        BY ONLY <1>2, <4>1
      <4> QED
        BY ONLY <3>3, <4>1, <4>2 DEF AnsweredLast
    <3>4. Len(queue) <= 3 \/ Len(queue) > 3
      BY ONLY <1>1
    <3> QED
      BY <3>1, <3>2, <3>3, <3>4 DEF AnsweredLast
  <2>6. OnSense'
    <3> SUFFICES ASSUME command = 2
                 PROVE  \/ queue' = <<>> \/ ~queue'[1].csw \/ ~queue'[1].good
                        \/ Len(queue') = 1 /\ took' /\ MyCsw(queue'[1], command)
      BY <1>2, <1>8 DEF OnSense
    <3>1. \/ queue[1].csw \/ IsInquiry(queue[1])
          \/ Len(queue) = 2 /\ MyData(queue[1], command) /\ MyCsw(queue[2], command)
      BY <1>2 DEF AnswersInv, OnSense
    <3>2. CASE queue[1].csw
      BY <1>4, <2>1, <3>2
    <3>3. CASE IsInquiry(queue[1])
      <4>1. queue[1].size = 0 /\ ~queue[1].csw
        BY <2>2, <2>3, <3>3 DEF IsInquiry
      <4> QED
        BY <1>4, <2>1, <4>1
    <3>4. CASE Len(queue) = 2 /\ MyData(queue[1], command) /\ MyCsw(queue[2], command)
      <4>1. took'
        BY <1>3, <1>8, <3>4
      <4>2. Len(queue') = 1 /\ queue'[1] = queue[2]
        BY <1>2, <1>4, <3>4
      <4> QED
        BY <3>4, <4>1, <4>2
    <3> QED
      BY <3>1, <3>2, <3>3, <3>4
  <2>7. OnTheRest'
    <3> SUFFICES ASSUME command >= 3 PROVE InStep'
      BY <1>2 DEF OnTheRest
    <3>1. InStep
      <4>1. ~StatusFirst
        BY <2>1, <2>2, <2>3 DEF StatusFirst
      <4> QED
        BY <1>2, <4>1 DEF AnswersInv, OnTheRest, Transferring
    <3>2. Len(queue) = 2 /\ MyData(queue[1], command) /\ MyCsw(queue[2], command)
      BY <1>2, <3>1 DEF InStep
    <3>3. took'
      BY <1>3, <1>8, <3>2
    <3>4. Len(queue') = 1 /\ queue'[1] = queue[2]
      BY <1>2, <1>4, <3>2
    <3>5. 2 .. command' - 1 \subseteq own'
      BY <1>2, <3>1 DEF InStep
    <3> QED
      BY <1>2, <1>8, <3>2, <3>3, <3>4, <3>5 DEF InStep
  <2> QED
    BY <1>5, <2>4, <2>5, <2>6, <2>7 DEF AnswersInv
<1> QED
  BY <1>3, <1>7, <1>8

LEMMA AnswersReceiveCsw ==
  ASSUME Typed, AnswersInv, ReceiveCsw
  PROVE  AnswersInv'
<1>1. /\ queue \in Seq(Messages) /\ Len(queue) \in Nat /\ (queue = <<>> <=> Len(queue) = 0)
      /\ command \in 1 .. 5 /\ FlashTypeOK
  BY QueueNow
<1>2. /\ fpc = "csw" /\ queue # <<>>
      /\ queue' \in Seq(Messages) /\ Len(queue') = Len(queue) - 1
      /\ \A i \in 1 .. Len(queue) - 1 : queue'[i] = queue[i + 1]
      /\ expects' = expects
  BY ONLY ReceiveCsw, <1>1, ReceiveCswDoes
<1>3. \/ fpc' = "destroy" /\ command' = command
      \/ /\ CswFits(queue[1]) => Passes(queue[1])
         /\ own \subseteq own' /\ (MyCsw(queue[1], command) /\ took => command \in own')
         /\ command # 5 /\ fpc' = "cbw" /\ command' = command + 1
  <2>1. \/ fpc' = "destroy" /\ UNCHANGED <<command, own>>
        \/ /\ CswFits(queue[1]) => Passes(queue[1])
           /\ own \subseteq own' /\ (MyCsw(queue[1], command) /\ took => command \in own')
           /\ command = 5 => fpc' = "destroy" /\ command' = command
           /\ command # 5 => fpc' = "cbw" /\ command' = command + 1
    BY ONLY ReceiveCsw, <1>1, ReceiveCswDoes
  <2> QED
    BY ONLY <2>1
<1>4. /\ 1 \in 1 .. Len(queue) /\ (queue' = <<>> <=> Len(queue) = 1)
      /\ Len(queue) # 1 => 2 \in 1 .. Len(queue) /\ queue'[1] = queue[2]
  <2>1. queue' = <<>> <=> Len(queue') = 0
    BY ONLY <1>2, QueueOf
  <2> QED
    BY ONLY <1>1, <1>2, <2>1
<1>5. QueueShape /\ QueueShape'
  <2>1. QueueShape
    BY DEF AnswersInv
  <2> QED
    BY ONLY <1>2, <2>1, Typed, ShapeOfTail
<1>6. ~expects
  BY <1>2 DEF AnswersInv, WriteAwaited
<1>7. CASE fpc' = "destroy"
  BY <1>2, <1>5, <1>6, <1>7 DEF AnswersInv, WriteAwaited, Prepared, OnInquiry, OnSense, OnTheRest,
                                Transferring
<1>8. CASE /\ CswFits(queue[1]) => Passes(queue[1])
           /\ own \subseteq own' /\ (MyCsw(queue[1], command) /\ took => command \in own')
           /\ command # 5 /\ fpc' = "cbw" /\ command' = command + 1
  <2>1. Passes(queue[1])
    BY <1>4, <1>5, <1>8 DEF QueueShape, CswFits
  <2>2. ~queue[1].csw => Len(queue) # 1 /\ queue[2].csw
    <3>1. ~queue[1].csw => 1 + 1 \in 1 .. Len(queue) /\ queue[1 + 1].csw
      BY ONLY <1>4, <1>5 DEF QueueShape
    <3> QED
      BY ONLY <1>1, <3>1
  <2>3. WriteAwaited' /\ Prepared' /\ OnInquiry'
    <3>1. command' # 1
      BY ONLY <1>1, <1>8
    <3> QED
      BY ONLY <1>2, <1>6, <1>8, <3>1 DEF WriteAwaited, Prepared, OnInquiry
  <2>4. OnSense'
    <3> SUFFICES ASSUME command = 1, Len(queue) # 1, ~queue[2].csw
                 PROVE  IsInquiry(queue[2])
      <4>1. command' = 2 => command = 1
        BY ONLY <1>1, <1>8
      <4> QED
        BY <1>4, <1>8, <4>1 DEF OnSense
    <3>1. AnsweredLast(2)
      BY <1>2 DEF AnswersInv, OnInquiry
    <3>2. 2 + 1 \in 1 .. Len(queue) /\ queue[2 + 1].csw
      BY ONLY <1>4, <1>5, Len(queue) # 1, ~queue[2].csw DEF QueueShape
    <3>3. CASE Len(queue) = 3
      <4>1. IsInquiry(queue[Len(queue) - 1]) /\ Len(queue) - 1 = 2
        BY <3>1, <3>3 DEF AnsweredLast
      <4> QED
        BY <4>1
    <3>4. CASE Len(queue) = 4
      <4>1. IsInquiry(queue[Len(queue) - 1]) /\ Len(queue) - 1 = 2 + 1
        BY <3>1, <3>4 DEF AnsweredLast
      <4> QED
        BY <3>2, <4>1 DEF IsInquiry
    <3>5. Len(queue) = 3 \/ Len(queue) = 4
      <4>1. Len(queue) <= 4
        BY ONLY <1>1, <3>1 DEF AnsweredLast
      <4>2. 2 + 1 \in 1 .. Len(queue)
        BY ONLY <3>2
      <4>3. Len(queue) \in Nat
        BY <1>1
      <4>4. \A n \in Nat : n <= 4 /\ 2 + 1 \in 1 .. n => n = 3 \/ n = 4
        OBVIOUS
      <4> QED
        BY ONLY <4>1, <4>2, <4>3, <4>4
    <3> QED
      BY <3>3, <3>4, <3>5
  <2>5. OnTheRest'
    <3>1. CASE command = 2
      <4>1. \/ ~queue[1].csw \/ ~queue[1].good
            \/ Len(queue) = 1 /\ took /\ MyCsw(queue[1], command)
        BY <1>2, <3>1 DEF AnswersInv, OnSense
      <4>2. CASE ~queue[1].csw
        <5>1. queue' # <<>> /\ queue'[1].csw
          BY <1>4, <2>2, <4>2
        <5> QED
          BY <1>8, <3>1, <5>1 DEF OnTheRest, StatusFirst
      <4>3. CASE Len(queue) = 1 /\ took /\ MyCsw(queue[1], command)
        <5>1. queue' = <<>> /\ 2 \in own' /\ command' = 3
          BY <1>4, <1>8, <3>1, <4>3
        <5>2. 2 .. command' - 1 \subseteq own'
          BY ONLY <5>1
        <5> QED
          BY ONLY <1>8, <5>1, <5>2 DEF OnTheRest, InStep
      <4>4. ~(queue[1].csw /\ ~queue[1].good)
        BY <2>1 DEF Passes
      <4> QED
        BY <4>1, <4>2, <4>3, <4>4
    <3>2. CASE command >= 3
      <4>1. InStep
        BY <1>2, <3>2 DEF AnswersInv, OnTheRest, StatusFirst, Transferring
      <4>2. Len(queue) = 1 /\ took /\ MyCsw(queue[1], command) /\ 2 .. command - 1 \subseteq own
        BY <1>2, <1>8, <4>1 DEF InStep
      <4>3. queue' = <<>> /\ command \in own' /\ own \subseteq own'
        BY <1>4, <1>8, <4>2
      <4>4. 2 .. command' - 1 \subseteq own'
        <5>1. command' - 1 = command /\ \A c \in 2 .. command : c = command \/ c \in 2 .. command - 1
          BY ONLY <1>1, <1>8
        <5> QED
          BY ONLY <4>2, <4>3, <5>1
      <4> QED
        BY ONLY <1>8, <4>3, <4>4 DEF OnTheRest, InStep
    <3>3. CASE command = 1
      BY <1>8, <3>3 DEF OnTheRest
    <3>4. command = 1 \/ command = 2 \/ command >= 3
      BY ONLY <1>1
    <3> QED
      BY <3>1, <3>2, <3>3, <3>4
  <2> QED
    BY <1>5, <2>3, <2>4, <2>5 DEF AnswersInv
<1> QED
  BY <1>3, <1>7, <1>8

LEMMA AnswersStep ==
  ASSUME MaxUnread <= 3, Typed, AnswersInv, [FlashNext]_flashVars
  PROVE  AnswersInv'
<1>1. CASE UNCHANGED flashVars
  <2>1. UNCHANGED <<queue, expects, command, fpc, own, took>>
    BY <1>1 DEF flashVars, flashProgram, flashDevice, flashHistory
  <2> QED
    BY <2>1 DEF AnswersInv, QueueShape, WriteAwaited, Prepared, OnInquiry, AnsweredLast, OnSense,
                OnTheRest, InStep, StatusFirst, Transferring
<1>2. CASE Kill \/ FindDevice \/ FindEnds \/ Configure \/ OutOfRange \/ TransferFails \/ DestroyDevice
  <2>1. UNCHANGED <<queue, expects, command>>
    BY <1>2 DEF Kill, FindDevice, FindEnds, Configure, OutOfRange, TransferFails, DestroyDevice,
                CommandFails, flashDevice
  <2>2. fpc' \in {"off", "find", "configure", "lun", "destroy", "exited"}
    BY <1>2 DEF Kill, FindDevice, FindEnds, Configure, OutOfRange, TransferFails, DestroyDevice,
                CommandFails
  <2>3. fpc' \in {"find", "configure", "lun"} => fpc \in {"find", "configure", "lun"}
    BY <1>2 DEF Kill, FindDevice, FindEnds, Configure, OutOfRange, TransferFails, DestroyDevice,
                CommandFails
  <2>4. ~Transferring'
    BY <2>2 DEF Transferring
  <2> QED
    BY ONLY <2>1, <2>3, <2>4, AnswersInv, AnswersOutside
<1>3. CASE DeviceReset
  <2>1. queue' = <<>> /\ expects' = FALSE /\ fpc' = fpc /\ command' = command
        /\ fpc \in {"off", "exited"} /\ Len(queue') = 0
    BY <1>3 DEF DeviceReset, flashProgram
  <2> QED
    BY <2>1 DEF AnswersInv, QueueShape, WriteAwaited, Prepared, OnInquiry, OnSense, OnTheRest,
                Transferring
<1>4. CASE GetMaxLun
  <2>1. fpc = "lun" /\ fpc' = "cbw" /\ UNCHANGED <<queue, expects, command>>
    BY <1>4 DEF GetMaxLun, flashDevice
  <2>2. command = 1
    BY <2>1 DEF AnswersInv, Prepared
  <2>3. QueueShape'
    BY <2>1, <2>2 DEF AnswersInv, QueueShape, Transferring
  <2> QED
    BY <2>1, <2>2, <2>3 DEF AnswersInv, WriteAwaited, Prepared, OnInquiry, OnSense, OnTheRest
<1> QED
  BY <1>1, <1>2, <1>3, <1>4, AnswersStart, AnswersSendCbw, AnswersSendData, AnswersReceiveData,
     AnswersReceiveCsw DEF FlashNext

\* Whatever runs before this one have left in the device, or make it take for
\* data: the block that is written is chosen by the device's answers to this
\* run's REQUEST SENSE, READ CAPACITY and READ, although no tag is compared.
\* With room for a fourth unread answer it may be otherwise: a command that the
\* device takes on top of the answers to two others finds old status blocks.
THEOREM WritesOnOwnAnswers ==
  ASSUME MaxUnread <= 3
  PROVE  FlashSpec => []OverwritesOnOwnAnswers
<1>1. FlashInit => AnswersInv
  <2> SUFFICES ASSUME FlashInit PROVE AnswersInv
    OBVIOUS
  <2>1. queue = <<>> /\ expects = FALSE /\ fpc = "off" /\ Len(queue) = 0
    BY DEF FlashInit
  <2> QED
    BY <2>1 DEF AnswersInv, QueueShape, WriteAwaited, Prepared, OnInquiry, OnSense, OnTheRest,
                Transferring
<1>2. Typed /\ AnswersInv => OverwritesOnOwnAnswers
  BY DEF AnswersInv, OnTheRest, InStep, StatusFirst, Transferring, OverwritesOnOwnAnswers
<1> QED
  BY <1>1, <1>2, TypedInit, TypedStep, AnswersStep, PTL DEF FlashSpec

-----------------------------------------------------------------------------
(***************************************************************************)
(* A run that meets no fault.                                              *)
(***************************************************************************)
LEMMA LastIsInt ==
  ASSUME Typed, handle # 0
  PROVE  bus[handle].last \in Int
<1>1. bus \in Buses /\ handle \in 0 .. Len(bus)
  BY DEF Typed, FlashTypeOK
<1>2. bus \in Seq([class : {"storage", "per interface", "other"}, last : Lbas])
  BY ONLY <1>1, FlashSizes
<1>3. Len(bus) \in Nat
  BY ONLY <1>2, LenProperties
<1>4. handle \in 1 .. Len(bus)
  BY ONLY <1>1, <1>3, handle # 0
<1>5. bus[handle] \in [class : {"storage", "per interface", "other"}, last : Lbas]
  BY ONLY <1>2, <1>4, ElementOfSeq
<1>6. Lbas \subseteq Nat
  BY MassStorageAssumption DEF MassStorageAssumption
<1>7. bus[handle].last \in Lbas
  BY ONLY <1>5
<1>8. bus[handle].last \in Nat
  BY ONLY <1>6, <1>7
<1> QED
  BY ONLY <1>8

LEMMA FaultlessSendCbw ==
  ASSUME Typed, FaultlessInv, SendCbw, faultless'
  PROVE  FaultlessPlace' /\ FaultlessGeometry'
<1>1. /\ fpc = "cbw" /\ InRange /\ ~halted /\ fpc' = "data" /\ queue' \in Seq(Messages)
      /\ (faultless' => faultless)
      /\ UNCHANGED <<bus, handle, command, geometry, written>>
  BY ONLY SendCbw, Typed, SendCbwDoes DEF Typed
<1>2. /\ queue = <<>> /\ ~expects /\ ~written /\ FaultlessGeometry
  BY <1>1 DEF FaultlessInv, FaultlessPlace
<1>3. Len(queue) = 0 /\ command \in 1 .. 5 /\ handle # 0
  BY <1>1, <1>2, QueueNow
<1>4. \/ command = 5 /\ expects' = TRUE /\ queue' = queue /\ halted' = halted
      \/ /\ command # 5 /\ expects' = expects /\ halted' = halted
         /\ Len(queue') = Len(queue) + 2
         /\ MyData(queue'[Len(queue) + 1], command) /\ MyCsw(queue'[Len(queue) + 2], command)
         /\ queue'[Len(queue) + 2].size = CswLength
         /\ queue'[Len(queue) + 1].size = DataLength(command)
         /\ queue'[Len(queue) + 2].good
  BY ONLY <1>2, SendCbw, Typed, faultless', SendCbwDoes DEF Typed
<1>5. FaultlessGeometry'
  BY <1>1, <1>2 DEF FaultlessGeometry, Transferring
<1>6. CASE command = 5
  <2>1. expects' /\ queue' = <<>> /\ halted' = halted
    BY <1>2, <1>4, <1>6
  <2>2. HasTwo
    <3>1. geometry = [mlba |-> bus[handle].last, blen |-> BlockLength]
      BY <1>1, <1>2, <1>6 DEF FaultlessGeometry, Transferring
    <3>2. 1 <= geometry.mlba
      BY <1>1, <1>6 DEF InRange
    <3>3. bus[handle].last \in Int
      BY <1>3, LastIsInt
    <3> QED
      BY ONLY <3>1, <3>2, <3>3 DEF HasTwo
  <2> QED
    BY ONLY <1>1, <1>2, <1>5, <1>6, <2>1, <2>2 DEF FaultlessPlace, HasTwo
<1>7. CASE command # 5
  <2>1. /\ expects' = expects /\ halted' = halted /\ Len(queue') = 2
        /\ MyData(queue'[1], command) /\ MyCsw(queue'[2], command)
        /\ queue'[2].size = CswLength /\ queue'[1].size = DataLength(command) /\ queue'[2].good
    BY <1>3, <1>4, <1>7
  <2>2. GoodData(queue'[1], command) /\ GoodCsw(queue'[2])
    BY <2>1 DEF GoodData, GoodCsw, MyCsw
  <2>3. FaultlessPlace'
    BY ONLY <1>1, <1>2, <1>7, <2>1, <2>2 DEF FaultlessPlace
  <2> QED
    BY <1>5, <2>3
<1> QED
  BY <1>6, <1>7

LEMMA FaultlessReceiveData ==
  ASSUME Typed, FaultlessInv, ReceiveData, faultless'
  PROVE  FaultlessPlace' /\ FaultlessGeometry'
<1>1. FlashTypeOK /\ handle # 0 /\ command \in 1 .. 5
  BY QueueNow DEF ReceiveData
<1>2. /\ fpc = "data" /\ command # 5 /\ ~halted
      /\ Len(queue') = Len(queue) - 1
      /\ \A i \in 1 .. Len(queue) - 1 : queue'[i] = queue[i + 1]
      /\ UNCHANGED <<bus, handle, command, expects, halted, faultless, written>>
  BY ONLY ReceiveData, <1>1, ReceiveDataDoes
<1>3. /\ Len(queue) = 2 /\ GoodData(queue[1], command) /\ GoodCsw(queue[2])
      /\ ~expects /\ ~written /\ FaultlessGeometry
  BY <1>2 DEF FaultlessInv, FaultlessPlace
<1>4. MyData(queue[1], command) /\ queue[1].size = DataLength(command) /\ Room = DataLength(command)
  <2>1. Room = DataLength(command)
    <3>1. CASE command = 4
      <4>1. geometry = [mlba |-> bus[handle].last, blen |-> BlockLength]
        BY <1>2, <1>3, <3>1 DEF FaultlessGeometry, Transferring
      <4>2. Room = geometry.blen
        BY <3>1 DEF Room
      <4> QED
        BY <3>1, <4>1, <4>2, FlashSizes
    <3>2. CASE command # 4
      BY <3>2 DEF Room
    <3> QED
      BY <3>1, <3>2
  <2> QED
    BY <1>3, <2>1 DEF GoodData
<1>5. ~(queue[1].size > Room)
  <2>1. DataLength(command) \in Nat
    BY <1>1, LengthIsNat
  <2> QED
    BY ONLY <1>4, <2>1
<1>6. /\ fpc' = "csw"
      /\ command # 3 => geometry' = geometry
      /\ command = 3 /\ MyData(queue[1], command) /\ queue[1].size = 8 =>
            geometry' = [mlba |-> bus[handle].last, blen |-> BlockLength]
  BY ONLY ReceiveData, <1>1, <1>5, ReceiveDataDoes
<1>7. Len(queue') = 1 /\ queue'[1] = queue[2]
  BY <1>2, <1>3
<1>8. FaultlessPlace'
  BY ONLY <1>2, <1>3, <1>6, <1>7 DEF FaultlessPlace
<1>9. FaultlessGeometry'
  <2>1. CASE command = 3
    <3>1. queue[1].size = 8
      BY <1>4, <2>1, FlashSizes
    <3> QED
      BY <1>2, <1>4, <1>6, <2>1, <3>1 DEF FaultlessGeometry
  <2>2. CASE command # 3
    BY <1>2, <1>3, <1>6, <2>2 DEF FaultlessGeometry, Transferring
  <2> QED
    BY <2>1, <2>2
<1> QED
  BY <1>8, <1>9

LEMMA FaultlessSendData ==
  ASSUME Typed, FaultlessInv, SendData, faultless'
  PROVE  FaultlessPlace' /\ FaultlessGeometry'
<1>1. /\ fpc = "data" /\ command = 5 /\ ~halted /\ fpc' = "csw"
      /\ Len(queue') = Len(queue) + 1
      /\ queue'[Len(queue) + 1].csw /\ queue'[Len(queue) + 1].size = CswLength
      /\ expects' = FALSE /\ written' = expects
      /\ faultless' => faultless /\ expects /\ queue'[Len(queue) + 1].good
      /\ UNCHANGED <<bus, handle, command, geometry, halted>>
  <2>1. FlashTypeOK
    BY DEF Typed
  <2> QED
    BY ONLY SendData, <2>1, SendDataDoes
<1>2. queue = <<>> /\ expects /\ HasTwo /\ FaultlessGeometry
  BY <1>1 DEF FaultlessInv, FaultlessPlace
<1>3. Len(queue) = 0
  BY <1>2, QueueNow
<1>4. Len(queue') = 1 /\ GoodCsw(queue'[1]) /\ written'
  BY <1>1, <1>2, <1>3 DEF GoodCsw
<1>5. FaultlessPlace'
  BY ONLY <1>1, <1>2, <1>4 DEF FaultlessPlace, HasTwo
<1>6. FaultlessGeometry'
  BY <1>1, <1>2 DEF FaultlessGeometry, Transferring
<1> QED
  BY <1>5, <1>6

LEMMA FaultlessReceiveCsw ==
  ASSUME Typed, FaultlessInv, ReceiveCsw, faultless'
  PROVE  FaultlessPlace' /\ FaultlessGeometry'
<1>1. FlashTypeOK /\ command \in 1 .. 5
  BY QueueNow
<1>2. /\ fpc = "csw" /\ ~halted /\ queue' \in Seq(Messages) /\ Len(queue') = Len(queue) - 1
      /\ geometry' = geometry
      /\ UNCHANGED <<bus, handle, expects, halted, faultless, written>>
  BY ONLY ReceiveCsw, <1>1, ReceiveCswDoes
<1>3. /\ Len(queue) = 1 /\ GoodCsw(queue[1]) /\ ~expects /\ FaultlessGeometry
      /\ IF command = 5 THEN written /\ HasTwo ELSE ~written
  BY <1>2 DEF FaultlessInv, FaultlessPlace
<1>4. CswFits(queue[1]) /\ queue[1].csw /\ queue[1].good
  BY <1>3 DEF GoodCsw, CswFits
<1>5. /\ command = 5 => fpc' = "destroy" /\ command' = command
      /\ command # 5 => fpc' = "cbw" /\ command' = command + 1
  BY ONLY ReceiveCsw, <1>1, <1>4, ReceiveCswDoes
<1>6. queue' = <<>>
  BY <1>2, <1>3, QueueOf
<1>7. FaultlessPlace'
  <2>1. CASE command = 5
    BY ONLY <1>2, <1>3, <1>5, <2>1 DEF FaultlessPlace, HasTwo
  <2>2. CASE command # 5
    BY ONLY <1>2, <1>3, <1>5, <1>6, <2>2 DEF FaultlessPlace
  <2> QED
    BY <2>1, <2>2
<1>8. FaultlessGeometry'
  <2>1. Transferring' => command' = command + 1 /\ fpc' = "cbw"
    BY <1>5 DEF Transferring
  <2>2. command + 1 > 3 \/ command + 1 = 3 => command > 3 \/ command = 3 \/ command + 1 = 3
    BY ONLY <1>1
  <2> QED
    BY <1>2, <1>3, <2>1, <2>2 DEF FaultlessGeometry, Transferring
<1> QED
  BY <1>7, <1>8

LEMMA FaultlessStep ==
  ASSUME Typed, FaultlessInv, [FlashNext]_flashVars
  PROVE  FaultlessInv'
<1>a. faultless => FaultlessPlace /\ FaultlessGeometry
  BY DEF FaultlessInv
<1>b. Prepared'
  <2>1. Prepared
    BY DEF FaultlessInv
  <2> QED
    BY <2>1 DEF Prepared, FlashNext, flashVars, flashProgram, Start, Kill, DeviceReset, FindDevice,
                FindEnds, Configure, GetMaxLun, OutOfRange, SendCbw, ReceiveData, SendData, ReceiveCsw,
                TransferFails, DestroyDevice, CommandFails, CommandEnds
<1>c. SUFFICES ASSUME faultless' PROVE FaultlessPlace' /\ FaultlessGeometry'
  BY <1>b DEF FaultlessInv
<1>1. CASE UNCHANGED flashVars
  <2>1. UNCHANGED <<bus, fpc, handle, command, geometry, queue, expects, halted, faultless, written>>
    BY <1>1 DEF flashVars, flashProgram, flashDevice, flashHistory
  <2> QED
    BY <1>a, <1>c, <2>1 DEF FaultlessPlace, FaultlessGeometry, HasTwo, Transferring
<1>2. CASE Start
  <2>1. /\ queue = <<>> /\ ~expects /\ ~halted /\ written' = FALSE
    BY <1>2, <1>c DEF Start
  <2>2. /\ fpc' = "find" /\ queue' \in Seq(Messages) /\ Len(queue') = Len(queue)
        /\ UNCHANGED <<expects, halted>>
    BY ONLY <1>2, Typed, StartDoes DEF Typed
  <2>3. queue' = <<>>
    BY <2>1, <2>2, QueueOf, QueueNow
  <2> QED
    BY <2>1, <2>2, <2>3 DEF FaultlessPlace, FaultlessGeometry, Transferring
<1>3. CASE Kill
  BY <1>3 DEF Kill, FaultlessPlace, FaultlessGeometry, Transferring
<1>4. CASE DeviceReset
  <2>1. /\ fpc \in {"off", "exited"} /\ fpc' = fpc
        /\ UNCHANGED <<bus, handle, faultless, written>>
    BY <1>4 DEF DeviceReset, flashProgram, flashHistory
  <2> QED
    BY <1>a, <1>c, <2>1 DEF FaultlessPlace, FaultlessGeometry, HasTwo, Transferring
<1>5. CASE FindDevice \/ Configure
  <2>1. /\ fpc \in {"find", "configure"} /\ fpc' \in {"find", "configure", "lun", "destroy"}
        /\ UNCHANGED <<queue, expects, halted, written>>
    BY <1>5 DEF FindDevice, Configure, flashDevice
  <2>2. faultless /\ fpc' # "destroy"
    BY <1>5, <1>c DEF FindDevice, Configure
  <2> QED
    BY <1>a, <2>1, <2>2 DEF FaultlessPlace, FaultlessGeometry, Transferring
<1>6. CASE FindEnds
  <2>1. /\ fpc = "find" /\ fpc' \in {"exited", "configure"} /\ (fpc' = "exited" => handle' = 0)
        /\ UNCHANGED <<queue, expects, halted, written, faultless>>
    BY <1>6 DEF FindEnds, flashDevice, flashHistory
  <2> QED
    BY <1>a, <1>c, <2>1 DEF FaultlessPlace, FaultlessGeometry, Transferring
<1>7. CASE GetMaxLun
  <2>1. /\ fpc = "lun" /\ fpc' = "cbw" /\ command' = command
        /\ UNCHANGED <<queue, expects, halted, written, faultless>>
    BY <1>7 DEF GetMaxLun, flashDevice, flashHistory
  <2>2. command' = 1
    BY <2>1 DEF FaultlessInv, Prepared
  <2> QED
    BY <1>a, <1>c, <2>1, <2>2 DEF FaultlessPlace, FaultlessGeometry
<1>8. CASE OutOfRange
  <2>1. /\ fpc = "cbw" /\ command = 5 /\ ~(1 <= geometry.mlba) /\ fpc' = "destroy"
        /\ UNCHANGED <<bus, handle, written, faultless>>
    BY <1>8 DEF OutOfRange, InRange, CommandFails, flashHistory
  <2>2. geometry = [mlba |-> bus[handle].last, blen |-> BlockLength] /\ ~written
    BY <1>a, <1>c, <2>1 DEF FaultlessPlace, FaultlessGeometry, Transferring
  <2>3. bus[handle].last \in Int
    BY <2>1, QueueNow, LastIsInt
  <2>4. ~HasTwo
    BY ONLY <2>1, <2>2, <2>3 DEF HasTwo
  <2> QED
    BY ONLY <2>1, <2>2, <2>4 DEF FaultlessPlace, FaultlessGeometry, HasTwo, Transferring
<1>9. CASE DestroyDevice
  <2>1. /\ fpc = "destroy" /\ fpc' = "exited" /\ UNCHANGED <<bus, handle, written, faultless>>
    BY <1>9 DEF DestroyDevice, flashHistory
  <2> QED
    BY <1>a, <1>c, <2>1 DEF FaultlessPlace, FaultlessGeometry, HasTwo, Transferring
<1>10. ~TransferFails
  BY <1>c DEF TransferFails
<1> QED
  BY <1>1, <1>2, <1>3, <1>4, <1>5, <1>6, <1>7, <1>8, <1>9, <1>10, <1>c, FaultlessSendCbw,
     FaultlessReceiveData, FaultlessSendData, FaultlessReceiveCsw DEF FlashNext

\* A run whose transfers all succeed writes a block unless the disk is too
\* small, however many devices are plugged in and whatever they are.
THEOREM FaultlessWrites == FlashSpec => []FaultlessRunWrites
<1>1. FlashInit => FaultlessInv
  BY DEF FlashInit, FaultlessInv, Prepared, FaultlessPlace, FaultlessGeometry, Transferring
<1>2. FaultlessInv => FaultlessRunWrites
  BY DEF FaultlessInv, FaultlessPlace, HasTwo, FaultlessRunWrites
<1> QED
  BY <1>1, <1>2, TypedInit, TypedStep, FaultlessStep, PTL DEF FlashSpec

-----------------------------------------------------------------------------
(***************************************************************************)
(* What a run leaves behind.                                               *)
(***************************************************************************)
LEMMA OnlyDevice ==
  ASSUME Typed, Cardinality(Mass) <= 1, handle \in Mass
  PROVE  Mass = {handle}
<1>1. IsFiniteSet(Mass)
  <2>1. Len(bus) \in Nat
    <3>1. bus \in Buses
      BY DEF Typed, FlashTypeOK
    <3>2. bus \in Seq([class : {"storage", "per interface", "other"}, last : Lbas])
      BY ONLY <3>1, FlashSizes
    <3> QED
      BY ONLY <3>2, LenProperties
  <2>2. IsFiniteSet(1 .. Len(bus))
    BY <2>1, FS_Interval
  <2>3. Mass \subseteq 1 .. Len(bus)
    BY DEF Mass
  <2> QED
    BY ONLY <2>2, <2>3, FS_Subset
<1>2. IsFiniteSet(Mass \ {handle}) /\ Cardinality(Mass \ {handle}) = Cardinality(Mass) - 1
  BY ONLY <1>1, handle \in Mass, FS_RemoveElement
<1>3. Cardinality(Mass) \in Nat /\ Cardinality(Mass \ {handle}) \in Nat
  BY ONLY <1>1, <1>2, FS_CardinalityType
<1>4. Cardinality(Mass \ {handle}) = 0
  BY ONLY <1>2, <1>3, Cardinality(Mass) <= 1
<1>5. Mass \ {handle} = {}
  BY ONLY <1>2, <1>4, FS_EmptySet
<1> QED
  BY ONLY <1>5, handle \in Mass

LEMMA LeavesStep ==
  ASSUME Typed, LeavesInv, [FlashNext]_flashVars
  PROVE  LeavesInv'
<1>a. /\ heap # {} => fpc \in {"data", "csw"}
      /\ claimed => fpc \in {"lun", "cbw", "data", "csw", "destroy"}
      /\ opened \subseteq Mass /\ (handle # 0 => handle \in Mass)
      /\ handle = 0 => opened = {}
      /\ fpc = "exited" => handle \notin opened
      /\ FlashTypeOK
  BY DEF LeavesInv, Typed
<1>b. bus' = bus => Mass' = Mass
  BY DEF Mass
<1>1. CASE UNCHANGED flashVars \/ DeviceReset
  <2>1. UNCHANGED <<bus, fpc, opened, handle, claimed, heap>>
    BY <1>1 DEF flashVars, DeviceReset, flashProgram
  <2> QED
    BY ONLY <1>a, <1>b, <2>1 DEF LeavesInv
<1>2. CASE Start
  <2>1. /\ fpc' = "find" /\ opened' = {} /\ handle' = 0 /\ claimed' = FALSE /\ heap' = {}
    BY <1>2 DEF Start
  <2> QED
    BY ONLY <2>1 DEF LeavesInv
<1>3. CASE Kill
  <2>1. /\ fpc' = "off" /\ opened' = {} /\ claimed' = FALSE /\ heap' = {} /\ UNCHANGED <<bus, handle>>
    BY <1>3 DEF Kill
  <2> QED
    BY ONLY <1>a, <1>b, <2>1 DEF LeavesInv
<1>4. CASE FindDevice
  <2>1. /\ fpc = "find" /\ fpc' \in {"find", "configure"} /\ UNCHANGED <<bus, heap, claimed>>
        /\ at <= Len(bus) /\ at \in Nat /\ at # 0
        /\ \/ bus[at].class # "other" /\ opened' = opened \cup {at} /\ handle' = at
           \/ UNCHANGED <<opened, handle>>
    BY <1>4, <1>a DEF FindDevice, FlashTypeOK
  <2>2. CASE bus[at].class # "other" /\ opened' = opened \cup {at} /\ handle' = at
    <3>1. at \in Mass
      <4>1. at \in 1 .. Len(bus)
        BY <1>a, <2>1 DEF FlashTypeOK
      <4> QED
        BY <2>2, <4>1 DEF Mass
    <3> QED
      BY ONLY <1>a, <1>b, <2>1, <2>2, <3>1 DEF LeavesInv
  <2>3. CASE UNCHANGED <<opened, handle>>
    BY ONLY <1>a, <1>b, <2>1, <2>3 DEF LeavesInv
  <2> QED
    BY <2>1, <2>2, <2>3
<1>5. CASE FindEnds
  <2>1. /\ fpc = "find" /\ fpc' = IF handle = 0 THEN "exited" ELSE "configure"
        /\ UNCHANGED <<bus, opened, handle, claimed, heap>>
    BY <1>5 DEF FindEnds
  <2> QED
    BY ONLY <1>a, <1>b, <2>1 DEF LeavesInv
<1>6. CASE Configure
  <2>1. /\ fpc = "configure" /\ fpc' = IF claimed' THEN "lun" ELSE "destroy"
        /\ UNCHANGED <<bus, opened, handle, heap>>
    BY <1>6 DEF Configure
  <2> QED
    BY ONLY <1>a, <1>b, <2>1 DEF LeavesInv
<1>7. CASE GetMaxLun
  <2>1. fpc = "lun" /\ fpc' = "cbw" /\ UNCHANGED <<bus, opened, handle, claimed, heap>>
    BY <1>7 DEF GetMaxLun
  <2> QED
    BY ONLY <1>a, <1>b, <2>1 DEF LeavesInv
<1>8. CASE OutOfRange \/ TransferFails
  <2>1. /\ fpc \in {"cbw", "data", "csw"} /\ fpc' = "destroy" /\ heap' = {}
        /\ UNCHANGED <<bus, opened, handle, claimed>>
    BY <1>8 DEF OutOfRange, TransferFails, CommandFails
  <2> QED
    BY ONLY <1>a, <1>b, <2>1 DEF LeavesInv
<1>9. CASE SendCbw \/ SendData
  <2>1. /\ fpc \in {"cbw", "data"} /\ fpc' \in {"data", "csw"}
        /\ UNCHANGED <<bus, opened, handle, claimed>>
    BY <1>9 DEF SendCbw, SendData
  <2> QED
    BY ONLY <1>a, <1>b, <2>1 DEF LeavesInv
<1>10. CASE ReceiveData
  <2>1. /\ fpc = "data" /\ (fpc' = "csw" \/ (fpc' = "destroy" /\ heap' = {}))
        /\ UNCHANGED <<bus, opened, handle, claimed>>
    BY <1>10 DEF ReceiveData, CommandFails
  <2> QED
    BY ONLY <1>a, <1>b, <2>1 DEF LeavesInv
<1>11. CASE ReceiveCsw
  <2>1. /\ fpc = "csw" /\ fpc' \in {"destroy", "cbw"} /\ heap' = {}
        /\ UNCHANGED <<bus, opened, handle, claimed>>
    BY <1>11 DEF ReceiveCsw, CommandFails, CommandEnds
  <2> QED
    BY ONLY <1>a, <1>b, <2>1 DEF LeavesInv
<1>12. CASE DestroyDevice
  <2>1. /\ fpc = "destroy" /\ fpc' = "exited" /\ claimed' = FALSE /\ opened' = opened \ {handle}
        /\ UNCHANGED <<bus, handle, heap>>
    BY <1>12 DEF DestroyDevice
  <2> QED
    BY ONLY <1>a, <1>b, <2>1 DEF LeavesInv
<1> QED
  BY <1>1, <1>2, <1>3, <1>4, <1>5, <1>6, <1>7, <1>8, <1>9, <1>10, <1>11, <1>12 DEF FlashNext

\* However a run ends that is not killed, it has freed its blocks; and closed
\* every device it opened and given up the interface, if there is one to open.
THEOREM FlashLeavesAllFree == FlashSpec => []FlashLeavesNothing
<1>1. FlashInit => LeavesInv
  BY DEF FlashInit, LeavesInv
<1>2. ASSUME Typed, LeavesInv, fpc = "exited", Cardinality(Mass) <= 1 PROVE opened = {}
  <2>1. handle # 0 => Mass = {handle}
    BY <1>2, OnlyDevice DEF LeavesInv
  <2> QED
    BY <1>2, <2>1 DEF LeavesInv
<1>3. Typed /\ LeavesInv => FlashLeavesNothing
  BY <1>2 DEF LeavesInv, Mass, FlashLeavesNothing
<1> QED
  BY <1>1, <1>3, TypedInit, TypedStep, LeavesStep, PTL DEF FlashSpec
=============================================================================
