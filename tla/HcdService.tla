----------------------------- MODULE HcdService -----------------------------
(***************************************************************************)
(* What the host controller driver owes to those who link transfers to it, *)
(* seen from hcd_gtd_link and urb_done.  Bulk transfers of one endpoint    *)
(* are completed in the order they were linked; a thread that runs a       *)
(* control stage has at most one in flight and is told about that one.     *)
(* Nothing is completed twice, or without having been linked.              *)
(***************************************************************************)
EXTENDS Naturals, Sequences, Functions

CONSTANTS Clients,   \* threads that run control transfers
          BlkEps,    \* bulk endpoints
          Tds,       \* transfer descriptors, reused after completion
          NoTd

VARIABLES outstanding,   \* per bulk endpoint: linked and not completed
          awaited        \* per client: the control stage it waits for

vars == <<outstanding, awaited>>

InUse(t) == \/ \E e \in BlkEps : t \in Range(outstanding[e])
            \/ \E c \in Clients : awaited[c] = t

Init == /\ outstanding = [e \in BlkEps |-> <<>>]
        /\ awaited = [c \in Clients |-> NoTd]

SubmitBulk(e, t) == /\ ~InUse(t)
                    /\ outstanding' = [outstanding EXCEPT ![e] = Append(@, t)]
                    /\ UNCHANGED awaited

CompleteBulk(e) == /\ outstanding[e] # <<>>
                   /\ outstanding' = [outstanding EXCEPT ![e] = Tail(@)]
                   /\ UNCHANGED awaited

SubmitControl(c, t) == /\ awaited[c] = NoTd
                       /\ ~InUse(t)
                       /\ awaited' = [awaited EXCEPT ![c] = t]
                       /\ UNCHANGED outstanding

CompleteControl(c) == /\ awaited[c] # NoTd
                      /\ awaited' = [awaited EXCEPT ![c] = NoTd]
                      /\ UNCHANGED outstanding

Next == \/ \E e \in BlkEps : CompleteBulk(e) \/ \E t \in Tds : SubmitBulk(e, t)
        \/ \E c \in Clients : CompleteControl(c) \/ \E t \in Tds : SubmitControl(c, t)

Spec == Init /\ [][Next]_vars
=============================================================================
