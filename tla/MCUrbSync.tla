----------------------------- MODULE MCUrbSync -----------------------------
(* UrbSync for TLC: a socket with room for one answer.                      *)
EXTENDS UrbSync
CONSTANTS u1, u2
MCBulk == {u1, u2}
=============================================================================
