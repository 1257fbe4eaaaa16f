------------------------------ MODULE UrbSync ------------------------------
(***************************************************************************)
(* Who waits for whom: the locks, conditions and sockets between the       *)
(* threads that run transfers (system_loop and accept_loop, through        *)
(* sys_urb_submit) and the HCD thread that completes them                  *)
(* (hcd_process_done_list, urb_done).                                      *)
(*                                                                         *)
(* A control transfer waits for each of its stages with a URB on its own   *)
(* stack, initialised anew for every stage; a bulk URB is answered and     *)
(* freed by the HCD thread.  That thread holds the lock of hcd_t from the  *)
(* moment it takes a completion to the end of the handler, the answer on   *)
(* the socket included; the accept thread holds the lock of sys_t while it *)
(* sends the device list.  A section that cannot block is one step, its    *)
(* lock implicit.                                                          *)
(***************************************************************************)
EXTENDS Naturals

CONSTANTS Sys, Accept,     \* the two threads
          Bulk,            \* addresses of bulk URBs
          SocketSize,      \* answers the client has not read before send blocks
          MaxTransfers     \* what each thread starts, at most

ASSUME UrbSyncAssumption == /\ Sys # Accept /\ {Sys, Accept} \cap Bulk = {}
                            /\ SocketSize \in Nat \ {0} /\ MaxTransfers \in Nat

Threads == {Sys, Accept}

VARIABLES tpc, stage, started,  \* thread: program counter, stage, transfers started
          alive, done,          \* thread: its stack URB is initialised; its done flag
          linked,               \* who the driver has a TD of: threads and bulk URBs
          used,                 \* bulk URBs on the URB list
          hpc, work,            \* HCD thread: program counter, what it completes
          held,                 \* lock of hcd_t held by the HCD thread
          unread                \* answers in the socket

threadVars == <<tpc, stage, started, alive, done>>
vars == <<threadVars, linked, used, hpc, work, held, unread>>

UrbTypeOK ==
    /\ tpc \in [Threads -> {"idle", "register", "init", "link", "wait", "destroy",
                            "answer", "list", "free"}]
    /\ stage \in [Threads -> {"SETUP", "DATA", "STATUS"}]
    /\ started \in [Threads -> 0 .. MaxTransfers]
    /\ alive \in [Threads -> BOOLEAN] /\ done \in [Threads -> BOOLEAN]
    /\ linked \subseteq Threads \cup used /\ used \subseteq Bulk
    /\ hpc \in {"idle", "mark", "signal", "answer", "free"}
    /\ work \in Threads \cup Bulk
    /\ held \in BOOLEAN /\ unread \in 0 .. SocketSize

Init == /\ tpc = [t \in Threads |-> "idle"]
        /\ stage = [t \in Threads |-> "SETUP"]
        /\ started = [t \in Threads |-> 0]
        /\ alive = [t \in Threads |-> FALSE] /\ done = [t \in Threads |-> FALSE]
        /\ linked = {} /\ used = {}
        /\ hpc = "idle" /\ work = Sys /\ held = FALSE
        /\ unread = 0

SysLocked == tpc[Accept] = "list"

Goto(t, from, to) == tpc[t] = from /\ tpc' = [tpc EXCEPT ![t] = to]
StartsOne(t) == started[t] < MaxTransfers /\ started' = [started EXCEPT ![t] = @ + 1]
HcdUnchanged == UNCHANGED <<hpc, work, held>>

-----------------------------------------------------------------------------
(***************************************************************************)
(* sys_urb_submit of a control transfer.                                   *)
(***************************************************************************)
Start(t) == /\ Goto(t, "idle", "register")
            /\ StartsOne(t)
            /\ UNCHANGED <<stage, alive, done, linked, used, unread>> /\ HcdUnchanged

\* The URB of the transfer is put on the list.
Register(t) == /\ Goto(t, "register", "init")
               /\ ~SysLocked
               /\ stage' = [stage EXCEPT ![t] = "SETUP"]
               /\ UNCHANGED <<started, alive, done, linked, used, unread>> /\ HcdUnchanged

InitStage(t) == /\ Goto(t, "init", "link")
                /\ alive' = [alive EXCEPT ![t] = TRUE]
                /\ done' = [done EXCEPT ![t] = FALSE]
                /\ UNCHANGED <<stage, started, linked, used, unread>> /\ HcdUnchanged

LinkStage(t) == /\ Goto(t, "link", "wait")
                /\ ~held
                /\ linked' = linked \cup {t}
                /\ UNCHANGED <<stage, started, alive, done, used, unread>> /\ HcdUnchanged

WaitStage_GivesUp(t) ==
    /\ Goto(t, "wait", "destroy")
    /\ UNCHANGED <<stage, started, alive, done, linked, used, unread>> /\ HcdUnchanged

\* urb_wait: pthread_cond_timedwait never returns less than 0, so that its
\* time-out only looks at done again, whoever signals or not.
WaitStage(t) == /\ Goto(t, "wait", "destroy")
                /\ done[t]
                /\ UNCHANGED <<stage, started, alive, done, linked, used, unread>> /\ HcdUnchanged

\* urb_destroy of the stack URB, and on: a DATA stage if the request has one.
\* After the last stage, urb_done of the transfer's own URB.
DestroyStage(t) ==
    /\ tpc[t] = "destroy"
    /\ alive' = [alive EXCEPT ![t] = FALSE]
    /\ IF stage[t] = "STATUS"
       THEN /\ tpc' = [tpc EXCEPT ![t] = IF t = Accept THEN "answer" ELSE "free"]
            /\ UNCHANGED stage
       ELSE /\ tpc' = [tpc EXCEPT ![t] = "init"]
            /\ \E s \in {"DATA", "STATUS"} : s # stage[t] /\ stage' = [stage EXCEPT ![t] = s]
    /\ UNCHANGED <<started, done, linked, used, unread>> /\ HcdUnchanged

\* on_urb_complete in the accept thread: nothing is locked.
AnswerControl == /\ Goto(Accept, "answer", "free")
                 /\ unread < SocketSize
                 /\ unread' = unread + 1
                 /\ UNCHANGED <<stage, started, alive, done, linked, used>> /\ HcdUnchanged

\* urb_free, sys_urb_unlink.
FreeControl(t) == /\ Goto(t, "free", "idle")
                  /\ ~SysLocked
                  /\ UNCHANGED <<stage, started, alive, done, linked, used, unread>> /\ HcdUnchanged

-----------------------------------------------------------------------------
(***************************************************************************)
(* The rest of the accept thread: bulk transfers, and the device list.     *)
(***************************************************************************)
SubmitBulk(u) == /\ tpc[Accept] = "idle" /\ u \notin used
                 /\ StartsOne(Accept)
                 /\ ~held
                 /\ used' = used \cup {u}
                 /\ linked' = linked \cup {u}
                 /\ UNCHANGED <<tpc, stage, alive, done, unread>> /\ HcdUnchanged

\* The lock of sys_t is taken, and kept until the list is sent.
LockList == /\ Goto(Accept, "idle", "list")
            /\ StartsOne(Accept)
            /\ UNCHANGED <<stage, alive, done, linked, used, unread>> /\ HcdUnchanged

SendList_LocksDriver ==
            /\ Goto(Accept, "list", "idle")
            /\ ~held
            /\ unread < SocketSize
            /\ unread' = unread + 1
            /\ UNCHANGED <<stage, started, alive, done, linked, used>> /\ HcdUnchanged

SendList == /\ Goto(Accept, "list", "idle")
            /\ unread < SocketSize
            /\ unread' = unread + 1
            /\ UNCHANGED <<stage, started, alive, done, linked, used>> /\ HcdUnchanged

-----------------------------------------------------------------------------
(***************************************************************************)
(* The HCD thread: a TD that is through, and its URB.                      *)
(***************************************************************************)
Complete_Unlocks(w) == /\ hpc = "idle" /\ w \in linked
                       /\ linked' = linked \ {w}
                       /\ hpc' = "mark" /\ work' = w /\ held' = FALSE
                       /\ UNCHANGED <<threadVars, used, unread>>

Complete_KeepsTd(w) == /\ hpc = "idle" /\ w \in linked
                       /\ hpc' = "mark" /\ work' = w /\ held' = TRUE
                       /\ UNCHANGED <<threadVars, linked, used, unread>>

Complete(w) == /\ hpc = "idle" /\ w \in linked
               /\ linked' = linked \ {w}
               /\ hpc' = "mark" /\ work' = w /\ held' = TRUE
               /\ UNCHANGED <<threadVars, used, unread>>

\* urb_done: done under the lock of the URB ...
Mark == /\ hpc = "mark"
        /\ done' = [t \in Threads |-> done[t] \/ work = t]
        /\ hpc' = "signal"
        /\ UNCHANGED <<tpc, stage, started, alive, linked, used, work, held, unread>>

\* ... the condition after it: the waiter may have gone on.  The URB of a stage
\* has no handler.
Signal == /\ hpc = "signal"
          /\ hpc' = IF work \in Threads THEN "idle" ELSE "answer"
          /\ held' = (held /\ work \notin Threads)
          /\ UNCHANGED <<threadVars, linked, used, work, unread>>

AnswerBulk == /\ hpc = "answer"
              /\ unread < SocketSize
              /\ unread' = unread + 1
              /\ hpc' = "free"
              /\ UNCHANGED <<threadVars, linked, used, work, held>>

\* urb_free takes the lock of sys_t inside that of hcd_t.
FreeBulk == /\ hpc = "free"
            /\ ~SysLocked
            /\ used' = used \ {work}
            /\ hpc' = "idle" /\ held' = FALSE
            /\ UNCHANGED <<threadVars, linked, work, unread>>

\* The client (external).
Read == /\ unread > 0
        /\ unread' = unread - 1
        /\ UNCHANGED <<threadVars, linked, used>> /\ HcdUnchanged

-----------------------------------------------------------------------------
Control(t) == \/ Register(t) \/ InitStage(t) \/ LinkStage(t) \/ WaitStage(t)
              \/ DestroyStage(t) \/ FreeControl(t)
Answers == AnswerControl \/ SendList
Hcd == Mark \/ Signal \/ AnswerBulk \/ FreeBulk \/ \E w \in Threads \cup Bulk : Complete(w)

Next == \/ \E t \in Threads : Start(t) \/ Control(t)
        \/ Answers \/ LockList \/ \E u \in Bulk : SubmitBulk(u)
        \/ Hcd \/ Read

Spec == Init /\ [][Next]_vars

\* All threads run and mutexes are handed on; the kernel's client reads its
\* socket in a thread of its own; and the device sees every transfer through.
FairSpec == /\ Spec
            /\ \A t \in Threads : SF_vars(Control(t))
            /\ WF_vars(Answers) /\ WF_vars(Hcd) /\ WF_vars(Read)

-----------------------------------------------------------------------------
(***************************************************************************)
(* Properties                                                              *)
(***************************************************************************)
\* The driver never has the descriptor of a stage whose URB and buffer are no
\* longer there: urb_wait does not come back before the stage is over, whatever
\* its time-out.
TdHasUrb == \A t \in Threads :
                t \in linked \/ (hpc = "mark" /\ work = t) => alive[t] /\ ~done[t]

\* The signal of a stage may come when its waiter has gone on and destroyed the
\* condition or initialised it again, but never when the next stage is linked:
\* the link waits for the lock under which the signal is sent.
SignalBeforeNextLink == \A t \in Threads : hpc = "signal" /\ work = t => t \notin linked

\* Neither a thread nor a bulk transfer waits for ever.
\* Every thread comes back to where it takes its next request: nothing that
\* is waited for, mutex, condition or socket, waits in turn for the waiter, as
\* long as the client reads what it is sent.
ThreadsComeBack == \A t \in Threads : tpc[t] # "idle" ~> tpc[t] = "idle"

\* A bulk transfer that was linked is answered and freed.
BulkIsFreed == \A u \in Bulk : u \in used ~> u \notin used

NobodyWaitsForEver == ThreadsComeBack /\ BulkIsFreed
=============================================================================
