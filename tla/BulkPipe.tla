------------------------------ MODULE BulkPipe ------------------------------
(***************************************************************************)
(* The bulk endpoints, end to end: the program of the host                 *)
(* (pic_usbdev_pc_side_sw/main.c), the transfers it has linked (hcd.c),    *)
(* the buffer descriptors of endpoint 1 IN and 2 OUT (usb_lib_usbip.c),    *)
(* the event ring (EpQueue), the firmware's main loop (main.c) and the     *)
(* keys of the board.                                                      *)
(*                                                                         *)
(* It starts when the firmware has answered SET_CONFIGURATION: both        *)
(* descriptors are armed, with size 0.  The driver is what HcdSched shows  *)
(* of it: it serves the endpoint opened first that has work, over and over *)
(* if the device refuses.  An attempt that is refused changes nothing and  *)
(* is left out.  A text is a sequence of characters; the program writes    *)
(* the decimal digits of a counter, here any of Texts.                     *)
(*                                                                         *)
(* The firmware copies and arms in steps of its own, the packets fall in   *)
(* between.  Copies of single bytes are below this grain.                  *)
(***************************************************************************)
EXTENDS EpQueue, SequencesExt

CONSTANTS BulkIn, BulkOut,  \* ENDPOINT_IN, ENDPOINT_OUT: codes in the ring
          Bytes,            \* what a byte of a buffer may be
          Texts,            \* what send_data may write
          Blank,            \* a byte of a buffer nothing was written to
          BufSize,          \* EP2_OUT_BUF_SIZE
          MaxReads          \* most reads linked, those of dead programs included

ASSUME BulkAssumption == /\ {BulkIn, BulkOut} \subseteq Endpoints
                         /\ BulkIn # BulkOut /\ ZeroCode \notin {BulkIn, BulkOut}
                         /\ Texts \subseteq Seq(Bytes) /\ Blank \in Bytes
                         /\ BufSize \in Nat /\ MaxReads \in Nat
                         /\ \A t \in Texts : Len(t) \in 1 .. BufSize

VARIABLES prog,        \* the program: not running, in its menu, in or between transfers
          list,        \* endpoints in the order of their first transfer
          reads,       \* transfers linked on endpoint 1: who waits for each
          text, left,  \* the transfer linked on endpoint 2, and its bytes left
          own1,        \* endpoint 1 is armed (UOWN)
          cnt2, buf2,  \* the descriptor of endpoint 2, which stays armed
          fpc, key,    \* firmware in process_ep_transfer or waiting for a key
          heard,       \* buf_to_receive, as it was last printed
          pad, taken,  \* the key that is down, and whether it was reported (ghost)
          crowded       \* ghost: the ring has been full

hostVars == <<prog, list, reads, text, left>>
devVars == <<own1, cnt2, buf2>>
fwVars == <<fpc, key, heard>>
padVars == <<pad, taken>>
bulkVars == <<vars, hostVars, devVars, fwVars, padVars, crowded>>

Up == "up"          \* no key is down: get_touchpad_key returns 0

BulkTypeOK ==
    /\ TypeOK
    /\ prog \in {"off", "menu", "read", "again", "send"}
    /\ list \in Seq({BulkIn, BulkOut}) /\ IsInjective(list)
    /\ reads \in Seq({"mine", "nobody"}) /\ Len(reads) <= MaxReads
    /\ text \in Texts \cup {<<>>} /\ left \in 0 .. Len(text)
    /\ own1 \in BOOLEAN
    /\ cnt2 \in 0 .. BufSize /\ buf2 \in [1 .. BufSize -> Bytes]
    /\ fpc \in {"main", "press", "take", "release", "copy", "arm"}
    /\ key \in {Up, "down"} /\ heard \in [1 .. BufSize -> Bytes]
    /\ pad \in {Up, "down"} /\ taken \in BOOLEAN /\ crowded \in BOOLEAN

Zeros == [i \in 1 .. BufSize |-> Blank]

BulkInit == /\ Init
            /\ prog = "off" /\ list = <<>> /\ reads = <<>>
            /\ text = <<>> /\ left = 0
            /\ own1 = TRUE
            /\ cnt2 = 0 /\ buf2 = Zeros
            /\ fpc = "main" /\ key = Up /\ heard = Zeros
            /\ pad = Up /\ taken = FALSE /\ crowded = FALSE

-----------------------------------------------------------------------------
(***************************************************************************)
(* The program of the host.  Ctrl-C ends it; what it had linked stays: the *)
(* server drops requests to unlink.                                        *)
(***************************************************************************)
Opened(e) == IF e \in Range(list) THEN list ELSE Append(list, e)

LinkRead == /\ Len(reads) < MaxReads
            /\ reads' = Append(reads, "mine")
            /\ list' = Opened(BulkIn)
            /\ prog' = "read"
            /\ UNCHANGED <<vars, text, left, devVars, fwVars, padVars, crowded>>

\* read_data: one transfer whose data is thrown away, then one after the other.
ReadFirst == prog = "menu" /\ LinkRead
ReadAgain == prog = "again" /\ LinkRead

SendText(t) == /\ prog = "menu" /\ left = 0
               /\ text' = t /\ left' = Len(t)
               /\ list' = Opened(BulkOut)
               /\ prog' = "send"
               /\ UNCHANGED <<vars, reads, devVars, fwVars, padVars, crowded>>

Start == /\ prog = "off"
         /\ prog' = "menu"
         /\ UNCHANGED <<vars, list, reads, text, left, devVars, fwVars, padVars, crowded>>

Kill == /\ prog # "off"
        /\ prog' = "off"
        /\ reads' = [i \in DOMAIN reads |-> "nobody"]
        /\ UNCHANGED <<vars, list, text, left, devVars, fwVars, padVars, crowded>>

-----------------------------------------------------------------------------
(***************************************************************************)
(* Packets: hcd_gtd_send and __usb_transfer.                               *)
(***************************************************************************)
HasWork(e) == IF e = BulkIn THEN reads # <<>> ELSE left > 0
Served(e) == HasWork(e) /\ (HasWork(list[1]) => e = list[1])

Notified(e) == /\ NotifyEp(e)
               /\ crowded' = (crowded \/ Len(pending') >= QueueSize)

\* The device takes as much as the descriptor has room for, and leaves that
\* number there: the room for the next packet.  UOWN stays set.
SendOut == LET n == IF cnt2 < left THEN cnt2 ELSE left
               at == Len(text) - left IN
           /\ Served(BulkOut)
           /\ buf2' = [i \in 1 .. BufSize |-> IF i <= n THEN text[at + i] ELSE buf2[i]]
           /\ cnt2' = n
           /\ left' = left - n
           /\ text' = IF left' = 0 THEN <<>> ELSE text
           /\ prog' = IF left' = 0 /\ prog = "send" THEN "menu" ELSE prog
           /\ Notified(BulkOut)
           /\ UNCHANGED <<list, reads, own1, fwVars, padVars>>

SendIn_KeepsOwn == /\ Served(BulkIn) /\ own1
                   /\ reads' = Tail(reads)
                   /\ prog' = IF Head(reads) = "mine" THEN "again" ELSE prog
                   /\ Notified(BulkIn)
                   /\ UNCHANGED <<list, text, left, devVars, fwVars, padVars>>

\* One byte or none is a short packet: it ends the transfer.
SendIn == /\ Served(BulkIn) /\ own1
          /\ own1' = FALSE
          /\ reads' = Tail(reads)
          /\ prog' = IF Head(reads) = "mine" THEN "again" ELSE prog
          /\ Notified(BulkIn)
          /\ UNCHANGED <<list, text, left, cnt2, buf2, fwVars, padVars>>

-----------------------------------------------------------------------------
(***************************************************************************)
(* The firmware.                                                           *)
(***************************************************************************)
FwPoll == /\ fpc = "main"
          /\ Poll
          /\ UNCHANGED <<hostVars, devVars, fwVars, padVars, crowded>>

FwFetch == /\ fpc = "main"
           /\ Fetch
           /\ fpc' = CASE fetched' = BulkIn -> "press"
                       [] fetched' = BulkOut -> "copy"
                       [] OTHER -> "main"
           /\ UNCHANGED <<hostVars, devVars, key, heard, padVars, crowded>>

\* while (get_touchpad_key() == 0);
WaitPress == /\ fpc = "press" /\ pad # Up
             /\ fpc' = "take"
             /\ UNCHANGED <<vars, hostVars, devVars, key, heard, padVars, crowded>>

\* The key is read again: it may be up by now.
TakeKey == /\ fpc = "take"
           /\ key' = pad
           /\ taken' = (pad # Up)
           /\ fpc' = "release"
           /\ UNCHANGED <<vars, hostVars, devVars, heard, pad, crowded>>

SendKey_NoDebounce == /\ fpc = "release"
                      /\ own1' = TRUE /\ key' = Up
                      /\ fpc' = "main"
                      /\ UNCHANGED <<vars, hostVars, cnt2, buf2, heard, padVars, crowded>>

\* while (get_touchpad_key() == key); and endpoint 1 is armed with the key.
SendKey == /\ fpc = "release" /\ pad # key
           /\ own1' = TRUE /\ key' = Up
           /\ fpc' = "main"
           /\ UNCHANGED <<vars, hostVars, cnt2, buf2, heard, padVars, crowded>>

\* The whole buffer is copied, however little came.
CopyOut == /\ fpc = "copy"
           /\ heard' = buf2
           /\ fpc' = "arm"
           /\ UNCHANGED <<vars, hostVars, devVars, key, padVars, crowded>>

ArmOut_SameSize == /\ fpc = "arm"
                   /\ fpc' = "main"
                   /\ UNCHANGED <<vars, hostVars, devVars, key, heard, padVars, crowded>>

ArmOut == /\ fpc = "arm"
          /\ cnt2' = BufSize
          /\ fpc' = "main"
          /\ UNCHANGED <<vars, hostVars, own1, buf2, key, heard, padVars, crowded>>

\* The keys of the board.
Press == /\ pad = Up
         /\ pad' = "down" /\ taken' = FALSE
         /\ UNCHANGED <<vars, hostVars, devVars, fwVars, crowded>>

Release == /\ pad # Up
           /\ pad' = Up /\ taken' = FALSE
           /\ UNCHANGED <<vars, hostVars, devVars, fwVars, crowded>>

-----------------------------------------------------------------------------
BulkNext == \/ Start \/ Kill \/ ReadFirst \/ ReadAgain \/ \E t \in Texts : SendText(t)
            \/ SendOut \/ SendIn
            \/ FwPoll \/ FwFetch \/ WaitPress \/ TakeKey \/ SendKey \/ CopyOut \/ ArmOut
            \/ Press \/ Release

BulkSpec == BulkInit /\ [][BulkNext]_bulkVars

\* The HCD thread and the firmware run; keys are pressed for ever, and for long
\* enough to be noticed now and then.
FairBulkSpec == /\ BulkSpec
                /\ WF_bulkVars(SendOut) /\ WF_bulkVars(SendIn)
                /\ WF_bulkVars(FwPoll) /\ WF_bulkVars(FwFetch)
                /\ WF_bulkVars(TakeKey) /\ WF_bulkVars(CopyOut) /\ WF_bulkVars(ArmOut)
                /\ SF_bulkVars(WaitPress) /\ SF_bulkVars(SendKey)
                /\ WF_bulkVars(Press) /\ WF_bulkVars(Release)

-----------------------------------------------------------------------------
(***************************************************************************)
(* Properties                                                              *)
(***************************************************************************)
\* Endpoint 1 is passed round: it is armed, or one event says that its packet
\* was read, or the firmware waits for the key to arm it with; never two of
\* these, and never none.  Without it the endpoint is dead for good, or a key
\* overwrites the one before.  (An overflow of the ring breaks it.)
InEvents == {i \in 1 .. Len(pending) : pending[i] = BulkIn}
AsksKey == fpc \in {"press", "take", "release"}
EndpointPassedRound ==
    ~crowded => \/ own1 /\ InEvents = {} /\ ~AsksKey
                \/ ~own1 /\ (\E i \in InEvents : InEvents = {i}) /\ ~AsksKey
                \/ ~own1 /\ InEvents = {} /\ AsksKey

\* When the firmware has nothing left to do, what it printed last is what the
\* buffer holds: no packet is overlooked, though the descriptor stays with the
\* device while the firmware copies.
QuietMeansHeard == ~crowded /\ pending = <<>> /\ fpc = "main" => heard = buf2

\* A key is reported at most once however long it is held, although the
\* firmware reads the keypad three times per report with packets in between.
KeyTakenOnce == [][TakeKey /\ pad # Up => ~taken]_bulkVars

\* A text is taken in the end, even the first, for which the descriptor has
\* no room until the firmware has handled one of the empty packets that the
\* refused attempts leave in the ring, and even behind the read of a program
\* that was killed.
TextsAreTaken == []~crowded => (prog = "send" ~> prog # "send")
=============================================================================
