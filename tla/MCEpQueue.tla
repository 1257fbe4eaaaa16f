----------------------------- MODULE MCEpQueue -----------------------------
(* Small rings for TLC: codes 0x00 and 0x80 of endpoint 0, 0x02 of a bulk   *)
(* OUT endpoint.                                                            *)
EXTENDS EpQueue
CONSTANTS ep0out, ep0in, ep2out
MCEndpoints == {ep0out, ep0in, ep2out}
=============================================================================
