---------------------------- MODULE MassStorage ----------------------------
(***************************************************************************)
(* The mass storage exercise: it looks for a storage device, asks it       *)
(* INQUIRY, REQUEST SENSE, READ CAPACITY and READ(10) of the first block,  *)
(* and overwrites the second block.  A command is a command block (CBW), a *)
(* data stage and a status block (CSW), three bulk transfers with one      *)
(* second each; nothing compares the tag, the residue or the length of     *)
(* what comes back, and nothing clears a halted endpoint.                  *)
(*                                                                         *)
(* The device is external: it answers in the order asked, in full or with  *)
(* a bad status, halts its endpoint, or says nothing, and what was not     *)
(* read waits for the next run.  A run may be killed at any step.          *)
(***************************************************************************)
EXTENDS Integers, Sequences, FiniteSets, SequencesExt

CONSTANTS Buses,          \* device lists: sequences of [class, last]
          BlockLength,    \* bytes of a block
          Lbas,           \* addresses of blocks: 0 .. 2^w - 1
          MaxRuns,        \* how often the program is started
          MaxUnread       \* messages that wait in the device, at most

ASSUME MassStorageAssumption ==
    /\ BlockLength \in Nat \ {0} /\ MaxRuns \in Nat /\ MaxUnread \in Nat
    /\ 0 \in Lbas /\ Lbas \subseteq Nat /\ \E w \in 1 .. 32 : Lbas = 0 .. 2^w - 1
    /\ \A b \in Buses : b \in Seq([class : {"storage", "per interface", "other"}, last : Lbas])

Commands == <<"INQUIRY", "REQUEST SENSE", "READ CAPACITY", "READ", "WRITE">>
CswLength == 13

VARIABLES
    bus, runs,               \* what is plugged in; runs started
    fpc, at,                 \* program counter; place in the device list
    opened, handle,          \* devices open; device_handle (0: NULL)
    claimed, heap,           \* interface claimed; blocks allocated
    command, geometry,       \* index in Commands; TReadCapacityData
    queue, expects, halted,  \* the device: messages, WRITE data awaited, endpoint halted
    took, own, faultless, written   \* history of the run

flashProgram == <<bus, runs, fpc, at, opened, handle, claimed, heap, command, geometry>>
flashDevice == <<queue, expects, halted>>
flashHistory == <<took, own, faultless, written>>
flashVars == <<flashProgram, flashDevice, flashHistory>>

Geometries == [mlba : Lbas, blen : {0, BlockLength}]
Messages == [size : {0, 36, 18, 8, BlockLength, CswLength}, csw : BOOLEAN,
             good : BOOLEAN, of : 1 .. 5, mine : BOOLEAN]

FlashTypeOK ==
    /\ bus \in Buses /\ runs \in 0 .. MaxRuns
    /\ fpc \in {"off", "find", "configure", "lun", "cbw", "data", "csw", "destroy", "exited"}
    /\ at \in 1 .. Len(bus) + 1
    /\ opened \subseteq 1 .. Len(bus) /\ handle \in 0 .. Len(bus)
    /\ claimed \in BOOLEAN /\ heap \subseteq {"rec_data", "data_to_send"}
    /\ command \in 1 .. 5 /\ geometry \in Geometries
    /\ queue \in Seq(Messages) /\ Len(queue) <= MaxUnread + 2
    /\ expects \in BOOLEAN /\ halted \in BOOLEAN
    /\ took \in BOOLEAN /\ own \subseteq 1 .. 5
    /\ faultless \in BOOLEAN /\ written \in BOOLEAN

FlashInit ==
    /\ bus \in Buses /\ runs = 0 /\ fpc = "off" /\ at = 1
    /\ opened = {} /\ handle = 0 /\ claimed = FALSE /\ heap = {}
    /\ command = 1 /\ geometry = [mlba |-> 0, blen |-> 0]
    /\ queue = <<>> /\ expects = FALSE /\ halted = FALSE
    /\ took = FALSE /\ own = {} /\ faultless = TRUE /\ written = FALSE

-----------------------------------------------------------------------------
(***************************************************************************)
(* Finding the device.                                                     *)
(***************************************************************************)
Start ==
    /\ fpc \in {"off", "exited"} /\ runs < MaxRuns
    /\ runs' = runs + 1 /\ fpc' = "find" /\ at' = 1
    /\ opened' = {} /\ handle' = 0 /\ claimed' = FALSE /\ heap' = {}
    /\ command' = 1 /\ took' = FALSE /\ own' = {} /\ written' = FALSE
    /\ queue' = [i \in DOMAIN queue |-> [queue[i] EXCEPT !.mine = FALSE]]
    /\ faultless' = (queue = <<>> /\ ~expects /\ ~halted)
    /\ UNCHANGED <<bus, geometry, expects, halted>>

\* A device whose class is in its descriptor ends the search once it is open;
\* one whose class is in its interface does not, and the next takes its handle.
FindDevice ==
    /\ fpc = "find" /\ at <= Len(bus)
    /\ \/ /\ bus[at].class # "other"
          /\ opened' = opened \cup {at} /\ handle' = at
          /\ IF bus[at].class = "storage"
             THEN fpc' = "configure" /\ UNCHANGED at
             ELSE at' = at + 1 /\ UNCHANGED fpc
          /\ UNCHANGED faultless
       \/ /\ at' = at + 1                 \* another device, or it cannot be opened
          /\ faultless' = (faultless /\ bus[at].class = "other")
          /\ UNCHANGED <<opened, handle, fpc>>
    /\ UNCHANGED <<bus, runs, claimed, heap, command, geometry, flashDevice, took, own, written>>

FindEnds ==
    /\ fpc = "find" /\ at > Len(bus)
    /\ fpc' = IF handle = 0 THEN "exited" ELSE "configure"
    /\ UNCHANGED <<bus, runs, at, opened, handle, claimed, heap, command, geometry>>
    /\ UNCHANGED <<flashDevice, flashHistory>>

Configure ==
    /\ fpc = "configure"
    /\ claimed' \in BOOLEAN
    /\ fpc' = IF claimed' THEN "lun" ELSE "destroy"
    /\ faultless' = (faultless /\ claimed')
    /\ UNCHANGED <<bus, runs, at, opened, handle, heap, command, geometry>>
    /\ UNCHANGED <<flashDevice, took, own, written>>

\* The endpoints and GET MAX LUN are printed, whatever comes back.
GetMaxLun ==
    /\ fpc = "lun" /\ fpc' = "cbw"
    /\ UNCHANGED <<bus, runs, at, opened, handle, claimed, heap, command, geometry>>
    /\ UNCHANGED <<flashDevice, flashHistory>>

-----------------------------------------------------------------------------
(***************************************************************************)
(* The device.                                                             *)
(***************************************************************************)
DataLength(c) == CASE c = 1 -> 36 [] c = 2 -> 18 [] c = 3 -> 8 [] OTHER -> BlockLength
Data(c, size) == [size |-> size, csw |-> FALSE, good |-> TRUE, of |-> c, mine |-> TRUE]
Csw(c, good) == [size |-> CswLength, csw |-> TRUE, good |-> good, of |-> c, mine |-> TRUE]

\* A CBW reaches a device that still waits for data as that data, cut short.
DeviceGetsCbw ==
    IF expects
    THEN /\ queue' = Append(queue, [Csw(5, FALSE) EXCEPT !.mine = FALSE])
         /\ expects' = FALSE /\ UNCHANGED <<halted, faultless>>
    ELSE \/ /\ IF command = 5 THEN expects' = TRUE /\ UNCHANGED queue
               ELSE /\ queue' = queue \o <<Data(command, DataLength(command)), Csw(command, TRUE)>>
                    /\ UNCHANGED expects
            /\ UNCHANGED <<halted, faultless>>
         \/ /\ queue' = queue \o (IF command = 5 THEN <<Csw(5, FALSE)>>
                                  ELSE <<Data(command, 0), Csw(command, FALSE)>>)
            /\ faultless' = FALSE /\ UNCHANGED <<expects, halted>>
         \/ /\ halted' \in BOOLEAN        \* or it says nothing
            /\ faultless' = FALSE /\ UNCHANGED <<queue, expects>>

DeviceGetsData ==
    \E good \in IF expects THEN BOOLEAN ELSE {FALSE} :
        /\ queue' = Append(queue, Csw(5, good))
        /\ faultless' = (faultless /\ good)
        /\ written' = expects /\ expects' = FALSE

\* Unplugged and plugged in again, or reset by the kernel's own driver.
DeviceReset ==
    /\ fpc \in {"off", "exited"} /\ (queue # <<>> \/ expects \/ halted)
    /\ queue' = <<>> /\ expects' = FALSE /\ halted' = FALSE
    /\ UNCHANGED <<flashProgram, flashHistory>>

-----------------------------------------------------------------------------
(***************************************************************************)
(* The transfers of a command.                                             *)
(***************************************************************************)
CommandFails_KeepsBlock == fpc' = "destroy" /\ UNCHANGED <<heap, command, geometry>>

CommandFails ==
    /\ fpc' = "destroy" /\ heap' = {} /\ UNCHANGED <<command, geometry>>

InRange_NotTheLast == command = 5 => 1 < geometry.mlba

\* Blocks 0 (read_data) and 1 (write) must be among those the device said it has.
InRange == command = 5 => 1 <= geometry.mlba

OutOfRange ==
    /\ fpc = "cbw" /\ ~InRange
    /\ CommandFails
    /\ UNCHANGED <<bus, runs, at, opened, handle, claimed, flashDevice, flashHistory>>

\* send_cbw; read_data allocates its block after it, main that of write before.
SendCbw ==
    /\ fpc = "cbw" /\ InRange
    /\ ~halted /\ Len(queue) <= MaxUnread
    /\ DeviceGetsCbw
    /\ fpc' = "data" /\ took' = FALSE
    /\ heap' = CASE command = 4 -> {"rec_data"} [] command = 5 -> {"data_to_send"}
                 [] OTHER -> heap
    /\ UNCHANGED <<bus, runs, at, opened, handle, claimed, command, geometry, own, written>>

Room_OneForAll == BlockLength

\* The buffer of the data stage.
Room == IF command = 4 THEN geometry.blen ELSE DataLength(command)

\* receive_data: less than asked for is as good, more is an error.
ReceiveData ==
    /\ fpc = "data" /\ command # 5 /\ ~halted /\ queue # <<>>
    /\ LET msg == Head(queue)
           whole == command = 3 /\ msg.of = 3 /\ ~msg.csw /\ msg.size = 8
       IN  IF msg.size > Room THEN CommandFails /\ UNCHANGED took
           ELSE /\ fpc' = "csw" /\ took' = (msg.mine /\ msg.of = command /\ ~msg.csw)
                /\ geometry' \in CASE command # 3 -> {geometry}
                                   [] whole -> {[mlba |-> bus[handle].last, blen |-> BlockLength]}
                                   [] OTHER -> Geometries
                /\ UNCHANGED <<heap, command>>
    /\ queue' = Tail(queue)
    /\ UNCHANGED <<bus, runs, at, opened, handle, claimed, expects, halted>>
    /\ UNCHANGED <<own, faultless, written>>

SendData ==
    /\ fpc = "data" /\ command = 5 /\ ~halted /\ Len(queue) <= MaxUnread
    /\ DeviceGetsData
    /\ fpc' = "csw"
    /\ UNCHANGED <<bus, runs, at, opened, handle, claimed, heap, command, geometry>>
    /\ UNCHANGED <<halted, took, own>>

\* check_csw: status and signature of what came; of a message of no bytes the
\* structure on the stack is what it was.
CheckCsw(msg, ok) ==
    ok \in CASE msg.size > CswLength -> {FALSE}
             [] msg.csw -> {msg.good}
             [] msg.size = 0 -> BOOLEAN
             [] OTHER -> {FALSE}

CommandEnds_Another == fpc' = "cbw" /\ command' = command + 1

CommandEnds == IF command = 5 THEN fpc' = "destroy" /\ UNCHANGED command
               ELSE fpc' = "cbw" /\ command' = command + 1

ReceiveCsw ==
    /\ fpc = "csw" /\ ~halted /\ queue # <<>>
    /\ LET msg == Head(queue)
       IN  \E ok \in BOOLEAN :
             /\ CheckCsw(msg, ok)
             /\ IF ~ok THEN CommandFails /\ UNCHANGED own
                ELSE /\ own' = IF msg.mine /\ msg.of = command /\ took
                               THEN own \cup {command} ELSE own
                     /\ heap' = {} /\ CommandEnds /\ UNCHANGED geometry
    /\ queue' = Tail(queue)
    /\ UNCHANGED <<bus, runs, at, opened, handle, claimed, expects, halted>>
    /\ UNCHANGED <<took, faultless, written>>

\* The second is over, or the endpoint is halted.
TransferFails ==
    /\ fpc \in {"cbw", "data", "csw"}
    /\ CommandFails
    /\ faultless' = FALSE
    /\ UNCHANGED <<bus, runs, at, opened, handle, claimed, flashDevice, took, own, written>>

DestroyDevice ==
    /\ fpc = "destroy"
    /\ claimed' = FALSE /\ opened' = opened \ {handle} /\ fpc' = "exited"
    /\ UNCHANGED <<bus, runs, at, handle, heap, command, geometry, flashDevice, flashHistory>>

Kill ==
    /\ fpc \notin {"off", "exited"}
    /\ fpc' = "off" /\ opened' = {} /\ claimed' = FALSE /\ heap' = {}
    /\ UNCHANGED <<bus, runs, at, handle, command, geometry, flashDevice, flashHistory>>

FlashNext == \/ Start \/ Kill \/ DeviceReset
             \/ FindDevice \/ FindEnds \/ Configure \/ GetMaxLun \/ OutOfRange \/ SendCbw
             \/ ReceiveData \/ SendData \/ ReceiveCsw \/ TransferFails \/ DestroyDevice

FlashSpec == FlashInit /\ [][FlashNext]_flashVars

-----------------------------------------------------------------------------
(***************************************************************************)
(* What the program promises.                                              *)
(***************************************************************************)

\* No status block is matched with its command, and a killed run may leave
\* answers behind.  Only that to INQUIRY is ever taken for one of this run: a
\* block is overwritten on the capacity, and after the read, that the device
\* answered in this very run, since leftovers have a length that gives them away.
\* So it is as long as no more than three messages wait in the device.
OverwritesOnOwnAnswers ==
    command = 5 /\ fpc \in {"data", "csw"} => 2 .. 4 \subseteq own

\* A run that meets no fault overwrites the block of any device that has two.
FaultlessRunWrites ==
    fpc = "exited" /\ faultless /\ handle # 0 => (written <=> bus[handle].last >= 1)

\* A run that ends by itself has freed its blocks and closed the device, with
\* one storage device plugged in: of several, all but one may stay open.
FlashLeavesNothing ==
    fpc = "exited" =>
        /\ heap = {} /\ ~claimed /\ handle \notin opened
        /\ Cardinality({i \in 1 .. Len(bus) : bus[i].class # "other"}) <= 1 => opened = {}
=============================================================================
