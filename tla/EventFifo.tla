----------------------------- MODULE EventFifo -----------------------------
(***************************************************************************)
(* What the firmware is promised by is_transfer_done() and                 *)
(* get_trn_status(): a queue of endpoint codes.  Every packet the device   *)
(* acknowledges puts the code of its endpoint at the back; the main loop   *)
(* asks whether there is one, and takes the oldest.  Nothing is lost,      *)
(* invented or reordered, and asking gives the exact answer.               *)
(***************************************************************************)
EXTENDS Naturals, Sequences

CONSTANTS Endpoints,       \* endpoint codes, direction bit included
          MaxOutstanding   \* most events put and not yet taken

VARIABLES pending,   \* codes put and not yet taken, oldest first
          mpc,       \* the main loop is about to "poll" or to "get"
          fetched    \* what the last get_trn_status() returned

vars == <<pending, mpc, fetched>>

Init == /\ pending = <<>>
        /\ mpc = "poll"
        /\ fetched \in Endpoints

Put(ep) == /\ Len(pending) < MaxOutstanding
           /\ pending' = Append(pending, ep)
           /\ UNCHANGED <<mpc, fetched>>

Ask == /\ mpc = "poll"
       /\ mpc' = IF pending # <<>> THEN "get" ELSE "poll"
       /\ UNCHANGED <<pending, fetched>>

Take == /\ mpc = "get"
        /\ pending # <<>>
        /\ fetched' = Head(pending)
        /\ pending' = Tail(pending)
        /\ mpc' = "poll"

Next == Ask \/ Take \/ \E ep \in Endpoints : Put(ep)

Spec == Init /\ [][Next]_vars
FairSpec == Spec /\ WF_vars(Ask) /\ WF_vars(Take)
=============================================================================
