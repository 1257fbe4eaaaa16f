--------------------------- MODULE MCUsbipServer ---------------------------
(* Scenarios of UsbipServer, with one bulk endpoint each way.               *)
EXTENDS UsbipServer
CONSTANTS bulkIn, bulkOut
BothEps == {bulkIn, bulkOut}
Asking(what, requests, window) ==
    [asks |-> what, requests |-> requests, window |-> window, connections |-> 2,
     sysTransfers |-> 1, patient |-> FALSE]
Patient(s) == [s EXCEPT !.patient = TRUE]
Once(s) == [s EXCEPT !.connections = 1]
Anyhow == Once(Asking(BothEps \cup {Control}, 2, 2))
Reconnecting == Asking({bulkIn, Control}, 1, 1)
Pipelined == Patient([Asking({bulkIn}, 4, 3) EXCEPT !.sysTransfers = 2])
TwoEndpoints == Patient(Once(Asking(BothEps, 2, 2)))
Supported == {Anyhow, Reconnecting, Pipelined}
LastOfTwo == {TwoEndpoints}
=============================================================================
