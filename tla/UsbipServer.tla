---------------------------- MODULE UsbipServer ----------------------------
(***************************************************************************)
(* The USB/IP server: the accept thread and its socket (usbip.c), the URBs *)
(* it registers with sys.c, and the completions that the HCD thread        *)
(* delivers.  The host controller is HcdService: bulk transfers of one     *)
(* endpoint complete in link order, those of different endpoints in any.   *)
(*                                                                         *)
(* The accept thread serves one connection at a time and closes its socket *)
(* before it accepts the next, which therefore gets the same descriptor:   *)
(* on_urb_complete, which holds the descriptor only, writes to whatever    *)
(* connection is open by then.                                             *)
(*                                                                         *)
(* A scenario says how the clients use the server.  A client is patient if *)
(* it connects when the system thread is done with the device, and closes  *)
(* its connection only when all is answered.                               *)
(***************************************************************************)
EXTENDS UrbList, FiniteSets

CONSTANTS Eps,          \* bulk endpoints
          Control,      \* a request for a control transfer; others name an endpoint
          MaxRequests,  \* most requests per connection
          Scenarios

\* What clients ask for, how many requests they make and leave unanswered, how
\* many connect, and what the system thread sends after the device list.
Scenario == [asks : SUBSET (Eps \cup {Control}), requests : 0 .. MaxRequests,
             window : Nat, connections : Nat, sysTransfers : Nat, patient : BOOLEAN]

ASSUME NumberAssumption == MaxRequests \in Nat /\ Control \notin Eps
ASSUME ScenarioAssumption == Scenarios \subseteq Scenario

VARIABLES use,                      \* the scenario: it never changes
          ready, sysLeft, sysUrb,   \* system thread: dev_ready, what is left, its URB
          srv, cur,                 \* accept thread, and the control URB it runs
          conn, open, rst,          \* connection, client end open, TCP reset received
          inbox,                    \* messages the server has not read
          reply, made, waiting,     \* client: its first message's reply, requests made, unanswered
          urb, linked,              \* URBs in use, and the bulk ones per endpoint
          strays,                   \* ghost: connections given another one's reply
          dead                      \* how the process ended, if it did

sysVars == <<use, ready, sysLeft, sysUrb>>
clientVars == <<reply, made, waiting>>
connVars == <<conn, open, rst>>
vars == <<listVars, sysVars, srv, cur, connVars, inbox, clientVars, urb, linked,
          strays, dead>>

Free == [conn |-> 0, seq |-> 0]
Firsts == {"IMPORT", "OTHERBUS", "DEVLIST"}
Message == [kind : Firsts \cup {"SUBMIT", "UNLINK"}, what : Eps \cup {Control},
            seq : 0 .. MaxRequests]

TypeOK == /\ ListTypeOK
          /\ ready \in BOOLEAN /\ sysLeft \in 0 .. use.sysTransfers
          /\ sysUrb \in Urbs \cup {NoUrb} /\ cur \in Urbs \cup {NoUrb}
          /\ srv \in {"accept", "recv", "control"}
          /\ conn \in 0 .. use.connections /\ open \in BOOLEAN /\ rst \in BOOLEAN
          /\ inbox \in Seq(Message)
          /\ reply \in {"none", "import", "refused", "list"} /\ made \in 0 .. MaxRequests
          /\ waiting \subseteq 1 .. MaxRequests /\ Cardinality(waiting) <= use.window
          /\ urb \in [Urbs -> [conn : 0 .. use.connections, seq : 0 .. MaxRequests]]
          /\ linked \in [Eps -> Seq(Urbs)]
          /\ strays \subseteq 1 .. use.connections
          /\ dead \in {"no", "null", "exit", "pipe"}

Init == /\ ListInit
        /\ use \in Scenarios
        /\ ready = FALSE /\ sysLeft = use.sysTransfers /\ sysUrb = NoUrb
        /\ srv = "accept" /\ cur = NoUrb
        /\ conn = 0 /\ open = FALSE /\ rst = FALSE
        /\ inbox = <<>>
        /\ reply = "none" /\ made = 0 /\ waiting = {}
        /\ urb = [u \in Urbs |-> Free]
        /\ linked = [e \in Eps |-> <<>>]
        /\ strays = {}
        /\ dead = "no"

Alive == dead = "no"

Registered(u) == u \in Range(listed)

\* The process ends.
Crash(why) == /\ dead' = why
              /\ UNCHANGED <<listVars, sysVars, srv, cur, connVars, inbox, clientVars,
                             urb, linked, strays>>

-----------------------------------------------------------------------------
(***************************************************************************)
(* The system thread, from the device list on.  What it sent before found  *)
(* the list empty and left it so.                                          *)
(***************************************************************************)
Publish == /\ Alive
           /\ ~ready
           /\ ready' = TRUE
           /\ UNCHANGED <<listVars, use, sysLeft, sysUrb, srv, cur, connVars, inbox,
                          clientVars, urb, linked, strays, dead>>

\* Mutant: the enumeration loop is not left after the last request.
SysSubmitAgain(u) == /\ Alive
                     /\ ready /\ sysUrb = NoUrb
                     /\ ~Registered(u)
                     /\ Register(u)
                     /\ sysUrb' = u
                     /\ sysLeft' = sysLeft - 1
                     /\ UNCHANGED <<use, ready, srv, cur, connVars, inbox, clientVars, urb,
                                    linked, strays, dead>>

SysSubmit(u) == /\ Alive
                /\ ready /\ sysLeft > 0 /\ sysUrb = NoUrb
                /\ ~Registered(u)
                /\ Register(u)
                /\ sysUrb' = u
                /\ sysLeft' = sysLeft - 1
                /\ UNCHANGED <<use, ready, srv, cur, connVars, inbox, clientVars, urb, linked,
                               strays, dead>>

SysDone == /\ Alive
           /\ sysUrb # NoUrb
           /\ IF FollowsNull(sysUrb) THEN Crash("null")
              ELSE /\ Unregister(sysUrb)
                   /\ sysUrb' = NoUrb
                   /\ UNCHANGED <<use, ready, sysLeft, srv, cur, connVars, inbox, clientVars,
                                  urb, linked, strays, dead>>

-----------------------------------------------------------------------------
(***************************************************************************)
(* The client (external): usbip attach, a program on libusb, usbip detach. *)
(***************************************************************************)
Connect == /\ Alive
           /\ srv = "accept" /\ conn < use.connections
           /\ use.patient => ready /\ sysLeft = 0 /\ sysUrb = NoUrb
           /\ srv' = "recv"
           /\ conn' = conn + 1 /\ open' = TRUE /\ rst' = FALSE
           /\ \E first \in Firsts : inbox' = <<[kind |-> first, what |-> Control, seq |-> 0]>>
           /\ reply' = "none" /\ made' = 0 /\ waiting' = {}
           /\ UNCHANGED <<listVars, sysVars, cur, urb, linked, strays, dead>>

Ask(what) == /\ Alive
             /\ open /\ reply = "import"
             /\ made < use.requests /\ Cardinality(waiting) < use.window
             /\ made' = made + 1
             /\ waiting' = waiting \cup {made + 1}
             /\ inbox' = Append(inbox, [kind |-> "SUBMIT", what |-> what, seq |-> made + 1])
             /\ UNCHANGED <<listVars, sysVars, srv, cur, connVars, reply, urb, linked,
                            strays, dead>>

\* A request that timed out: the kernel asks for it to be unlinked.
TimeOut(s) == /\ Alive
              /\ open /\ ~use.patient /\ s \in waiting
              /\ waiting' = waiting \ {s}
              /\ inbox' = Append(inbox, [kind |-> "UNLINK", what |-> Control, seq |-> s])
              /\ UNCHANGED <<listVars, sysVars, srv, cur, connVars, reply, made, urb,
                             linked, strays, dead>>

Close == /\ Alive
         /\ open
         /\ use.patient => reply # "none" /\ waiting = {}
         /\ open' = FALSE
         /\ UNCHANGED <<listVars, sysVars, srv, cur, conn, rst, inbox, clientVars, urb,
                        linked, strays, dead>>

-----------------------------------------------------------------------------
(***************************************************************************)
(* The accept thread.                                                      *)
(***************************************************************************)
Received(kind) == srv = "recv" /\ ~rst /\ inbox # <<>> /\ Head(inbox).kind = kind

\* The busid is compared with that of the device list, which may not be there;
\* then the answer is copied from it.
RecvImport == \E busid \in {"IMPORT", "OTHERBUS"} :
    /\ Alive
    /\ Received(busid)
    /\ IF ~ready THEN Crash("null")
       ELSE /\ reply' = IF busid = "IMPORT" THEN "import" ELSE "refused"
            /\ inbox' = Tail(inbox)
            /\ UNCHANGED <<listVars, sysVars, srv, cur, connVars, made, waiting, urb,
                           linked, strays, dead>>

\* The device list as it is: while it is not there, no byte is sent.
RecvDevlist == /\ Alive
               /\ Received("DEVLIST")
               /\ reply' = IF ready THEN "list" ELSE reply
               /\ inbox' = Tail(inbox)
               /\ UNCHANGED <<listVars, sysVars, srv, cur, connVars, made, waiting, urb,
                              linked, strays, dead>>

\* urb_create, urb_set_done_handler and sys_urb_submit.  A control transfer
\* keeps the accept thread until it is over.
RecvSubmit(u) ==
    LET m == Head(inbox) IN
    /\ Alive
    /\ Received("SUBMIT")
    /\ ~Registered(u)
    /\ Register(u)
    /\ urb' = [urb EXCEPT ![u] = [conn |-> conn, seq |-> m.seq]]
    /\ inbox' = Tail(inbox)
    /\ IF m.what = Control
       THEN srv' = "control" /\ cur' = u /\ UNCHANGED linked
       ELSE /\ linked' = [linked EXCEPT ![m.what] = Append(@, u)]
            /\ UNCHANGED <<srv, cur>>
    /\ UNCHANGED <<sysVars, connVars, clientVars, strays, dead>>

\* Mutant: the command is left in the socket, as an unknown one is.
RecvUnlink_Left == /\ Alive
                   /\ Received("UNLINK")
                   /\ UNCHANGED vars

\* Command 2 is read as if it were an answer to a request, and dropped.
RecvUnlink == /\ Alive
              /\ Received("UNLINK")
              /\ inbox' = Tail(inbox)
              /\ UNCHANGED <<listVars, sysVars, srv, cur, connVars, clientVars, urb,
                             linked, strays, dead>>

\* recv returns 0, or fails when the connection was reset.
RecvEnd == /\ Alive
           /\ srv = "recv"
           /\ IF rst THEN Crash("exit")
              ELSE /\ ~open /\ inbox = <<>>
                   /\ srv' = "accept"
                   /\ UNCHANGED <<listVars, sysVars, cur, connVars, inbox, clientVars,
                                  urb, linked, strays, dead>>

-----------------------------------------------------------------------------
(***************************************************************************)
(* on_urb_complete: send on the descriptor, then urb_free.                 *)
(***************************************************************************)
\* The peer may have closed its end: the first send gets a reset, the next a
\* SIGPIPE.
Answer(u) ==
    IF srv = "accept" THEN UNCHANGED <<waiting, strays, rst, dead>>  \* closed: an error
    ELSE IF ~open
    THEN /\ IF rst THEN dead' = "pipe" /\ UNCHANGED rst
                   ELSE rst' = TRUE /\ UNCHANGED dead
         /\ UNCHANGED <<waiting, strays>>
    ELSE /\ IF urb[u].conn = conn
            THEN waiting' = waiting \ {urb[u].seq} /\ UNCHANGED strays
            ELSE strays' = strays \cup {conn} /\ UNCHANGED waiting
         /\ UNCHANGED <<rst, dead>>

\* Mutant: no answer is sent.
FinishSilently(u) == /\ Unregister(u)
                     /\ urb' = [urb EXCEPT ![u] = Free]
                     /\ UNCHANGED <<sysVars, connVars, inbox, clientVars, strays, dead>>

\* A URB is answered and freed.
Finish(u) == /\ Answer(u)
             /\ Unregister(u)
             /\ urb' = [urb EXCEPT ![u] = Free]
             /\ UNCHANGED <<sysVars, conn, open, inbox, reply, made>>

ControlDone == /\ Alive
               /\ srv = "control"
               /\ IF FollowsNull(cur) THEN Crash("null")
                  ELSE /\ Finish(cur)
                       /\ srv' = "recv" /\ cur' = NoUrb
                       /\ UNCHANGED linked

\* In the HCD thread, for the oldest transfer of an endpoint.
BulkDone(e) == /\ Alive
               /\ linked[e] # <<>>
               /\ IF FollowsNull(Head(linked[e])) THEN Crash("null")
                  ELSE /\ Finish(Head(linked[e]))
                       /\ linked' = [linked EXCEPT ![e] = Tail(@)]
                       /\ UNCHANGED <<srv, cur>>

-----------------------------------------------------------------------------
System == Publish \/ SysDone \/ \E u \in Urbs : SysSubmit(u)
Client == Connect \/ Close \/ (\E r \in use.asks : Ask(r)) \/ \E s \in 1 .. MaxRequests : TimeOut(s)
Server == RecvImport \/ RecvDevlist \/ RecvUnlink \/ RecvEnd \/ ControlDone \/ \E u \in Urbs : RecvSubmit(u)

Next == System \/ Client \/ Server \/ \E e \in Eps : BulkDone(e)

Spec == Init /\ [][Next]_vars

\* The threads run, and the device completes what is linked sooner or later.
FairSpec == /\ Spec
            /\ WF_vars(System)
            /\ WF_vars(Server)
            /\ \A e \in Eps : WF_vars(BulkDone(e))

-----------------------------------------------------------------------------
(***************************************************************************)
(* Properties                                                              *)
(***************************************************************************)

\* The URB list never makes sys_urb_unlink follow a null pointer, whatever
\* order the transfers of several endpoints and threads complete in.
NoNullFollowed == dead # "null"

\* Patient clients that use one endpoint do not bring the process down: no
\* null pointer is followed, in the URB list or in a device list that is not
\* there yet, and no answer is sent to a client that has gone.  And none gets the
\* answer to a request of the client before it: the socket descriptor that
\* on_urb_complete has kept is still that of the asker.
PatientClientsAreServed == use.patient => Alive /\ strays = {}

\* Each message of a patient client is answered, the first of its connection
\* and its requests, unless it goes away: there comes a moment when nothing of
\* the few it sends is outstanding.
RequestsAnswered == use.patient => (open ~> (reply # "none" /\ waiting = {}) \/ ~open)

\* A connection that the client closes is closed by the server and the next one
\* accepted, whatever it left unread, unlinked or outstanding: no message of
\* the kernel's driver stays in the socket for good.
NextIsAccepted == ~open ~> srv = "accept" \/ ~Alive

=============================================================================
