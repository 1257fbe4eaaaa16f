--------------------------- MODULE MCControlPipe ---------------------------
(* Scripts of ControlPipe: the enumeration of sys.c, and what the USB/IP    *)
(* client of the accept thread asks for.                                    *)
EXTENDS ControlPipe
CONSTANTS sysThread, acceptThread
T(kind, addr, len) == [kind |-> kind, addr |-> addr, len |-> len]
\* system_loop, lines 94 to 117; then SET_CONFIGURATION and SET_INTERFACE.
Enumeration == << T("RESET", 0, 0), T("GET", 0, 18), T("GET", 0, 9),
                  T("RESET", 0, 0), T("GET", 0, 18), T("ADDR", 0, 0),
                  T("GET", 1, 18), T("GET", 1, 9), T("GET", 1, 32) >>
Configure == << T("CONF", 1, 0) >>
Interface == << T("OTHER", 1, 0) >>
Both == {sysThread, acceptThread}
SysRuns(s) == [c \in Both |-> IF c = sysThread THEN s ELSE <<>>]
ToConfigured == [script |-> SysRuns(Enumeration \o Configure), timely |-> TRUE]
ToInterface == [script |-> SysRuns(Enumeration \o Configure \o Interface), timely |-> TRUE]
\* The enumeration as far as SET_ADDRESS, at any speed: the second reset is what
\* keeps the two reads before it from running into it.
ToAddress == [script |-> SysRuns(SubSeq(Enumeration, 1, 6)), timely |-> FALSE]
\* A short enumeration, and a request of the accept thread's client, at any speed.
WithClient ==
    [script |-> [c \in Both |->
                    IF c = sysThread
                    THEN << T("RESET", 0, 0), T("GET", 0, 18), T("ADDR", 0, 0) >> \o Configure
                    ELSE << T("GET", 1, 18) >>],
     timely |-> FALSE]
Supported == {ToConfigured, ToAddress, WithClient}
LastRequest == {ToInterface}
\* What the theorems assume of scripts holds of those of the program.
ASSUME OrderlyAssumption ==
    /\ ToConfigured.timely /\ OneOrderly(ToConfigured.script)
    /\ \A s \in Supported : OneAtZero(s.script)
=============================================================================
