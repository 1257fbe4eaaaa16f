----------------------------- MODULE MCBulkPipe -----------------------------
(* BulkPipe for TLC: texts of one and two characters, a ring of three.      *)
EXTENDS BulkPipe
CONSTANTS ep0out, a
MCEndpoints == {ep0out, BulkIn, BulkOut}
MCBytes == {a, Blank}
MCTexts == {<<a>>, <<a, a>>}
=============================================================================
