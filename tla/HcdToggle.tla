----------------------------- MODULE HcdToggle -----------------------------
(***************************************************************************)
(* The data toggle of bulk endpoints, as the device would have to see it:  *)
(* HcdSched with two history variables.  acks is the parity of the packets *)
(* ACKed on an endpoint, so the type of the next one if types alternate;   *)
(* torn says that a transfer has failed after an odd number of them, when  *)
(* hcd_gtd_send retires the TD without storing its toggle in the EPD.      *)
(***************************************************************************)
EXTENDS HcdSched

VARIABLES acks, torn

toggleVars == <<vars, acks, torn>>

Acked(e) == \E rlen \in 0 .. MaxLen : SendAck(e, rlen)
Failed(e) == (SendErr(e) \/ SendStall(e)) /\ queue'[e] # queue[e]

ToggleInit == /\ Init
              /\ acks = [e \in BlkEps |-> 0]
              /\ torn = [e \in BlkEps |-> FALSE]

ToggleNext ==
    /\ Next
    /\ acks' = [e \in BlkEps |-> IF Acked(e) THEN 1 - acks[e] ELSE acks[e]]
    /\ torn' = [e \in BlkEps |->
                  \/ torn[e]
                  \/ Failed(e) /\ Toggle(e, Head(queue[e])) # carry[e]]

ToggleSpec == ToggleInit /\ [][ToggleNext]_toggleVars

AlternatesOn(e) == queue[e] # <<>> => Toggle(e, Head(queue[e])) = acks[e]

\* The firmware's main.c asks for packet types that alternate on an endpoint.
\* They do, across transfers, short packets, NAKs and retries, on every endpoint
\* where no transfer has failed half-way: the type the HCD is about to use is the
\* one after the last ACKed.
TogglesAlternateUnlessTorn == \A e \in BlkEps : torn[e] \/ AlternatesOn(e)
=============================================================================
