------------------------------- MODULE Mouse -------------------------------
(***************************************************************************)
(* The mouse exercise: find the device by its ids, open and claim it, and  *)
(* print its reports until SIGINT.  Every early return releases by hand    *)
(* what was obtained up to there.  A transfer has no time limit, and the   *)
(* handler of SIGINT only clears a flag: libusb resumes the wait.          *)
(***************************************************************************)
EXTENDS Naturals, Sequences

CONSTANTS Plugged      \* device lists: sequences of "mouse" and "other"

ASSUME MouseAssumption == \A l \in Plugged : l \in Seq({"mouse", "other"})

Resources == {"context", "list", "config", "handle", "interface"}

VARIABLES devices, mpc,       \* the device list; program counter
          seen, devdscr, found,  \* find_dev: devices read, descriptor, found_device
          obtained, released, \* resources obtained; how often each was released
          keepRunning,
          plugged, pending    \* the mouse is there; it has a report

mouseVars == <<devices, mpc, seen, devdscr, found, obtained, released, keepRunning,
               plugged, pending>>

MouseTypeOK ==
    /\ devices \in Plugged
    /\ mpc \in {"off", "find", "descriptor", "config", "open", "claim", "loop", "transfer",
                "release", "exited", "undefined"}
    /\ seen \in 0 .. Len(devices) /\ found \in 0 .. Len(devices)
    /\ devdscr \in {"none", "mouse", "other"}
    /\ obtained \subseteq Resources /\ released \in [Resources -> 0 .. 1]
    /\ keepRunning \in BOOLEAN /\ plugged \in BOOLEAN /\ pending \in BOOLEAN

MouseInit ==
    /\ devices \in Plugged /\ mpc = "off"
    /\ seen = 0 /\ devdscr = "none" /\ found = 0
    /\ obtained = {} /\ released = [r \in Resources |-> 0]
    /\ keepRunning = TRUE /\ plugged = TRUE /\ pending = FALSE

AllElse == UNCHANGED <<devices, seen, devdscr, found, keepRunning, plugged, pending>>

Obtain(rs) == obtained' = obtained \cup rs /\ UNCHANGED released

\* The handler of an error, or of the end, releases rs and returns.
Return(rs) == /\ released' = [r \in Resources |-> released[r] + IF r \in rs THEN 1 ELSE 0]
              /\ mpc' = "exited" /\ UNCHANGED obtained

\* One call of libusb: it succeeds and obtains rs, or the program returns.
Call(from, to, rs, onError) ==
    /\ mpc = from
    /\ \/ Obtain(rs) /\ mpc' = to
       \/ Return(onError)
    /\ AllElse

-----------------------------------------------------------------------------
MouseStart ==
    /\ mpc = "off" /\ mpc' = "find"
    /\ Obtain({"context", "list"}) /\ AllElse

\* find_dev does not look at the result: if a descriptor cannot be read, the
\* one read before it is compared again.  The last match is taken.
Matches(d) == d = "mouse"

FindDev ==
    /\ mpc = "find" /\ seen < Len(devices)
    /\ seen' = seen + 1
    /\ devdscr' \in {devices[seen + 1], devdscr}
    /\ found' = IF Matches(devdscr') THEN seen + 1 ELSE found
    /\ UNCHANGED <<devices, mpc, obtained, released, keepRunning, plugged, pending>>

Found ==
    /\ mpc = "find" /\ seen = Len(devices)
    /\ IF found = 0 THEN Return({"context", "list"})
       ELSE mpc' = "descriptor" /\ UNCHANGED <<obtained, released>>
    /\ AllElse

GetDescriptor == Call("descriptor", "config", {}, {"context", "list"})

\* If this fails, the configuration that is freed was never set.
GetConfig ==
    /\ mpc = "config"
    /\ \/ Obtain({"config"}) /\ mpc' = "open"
       \/ mpc' = "undefined" /\ UNCHANGED <<obtained, released>>
       \/ Return({"context", "list"})
    /\ AllElse

OpenFailure == {"context", "list", "config"}
Open == Call("open", "claim", {"handle"}, OpenFailure)
ClaimFailure_LeavesOpen == {"context", "list", "config"}

ClaimFailure == {"context", "list", "config", "handle"}
Claim == Call("claim", "loop", {"interface"}, ClaimFailure)

-----------------------------------------------------------------------------
IntHandler == /\ mpc \notin {"off", "exited", "undefined"} /\ keepRunning
              /\ keepRunning' = FALSE
              /\ UNCHANGED <<devices, mpc, seen, devdscr, found, obtained, released,
                             plugged, pending>>

\* while ( keepRunning )
GoesOn == keepRunning

\* Stdin is never read, so feof never holds.
Loop == /\ mpc = "loop"
        /\ mpc' = IF GoesOn THEN "transfer" ELSE "release"
        /\ UNCHANGED <<obtained, released>> /\ AllElse

\* libusb_interrupt_transfer returns a report, or an error once the mouse is gone.
Transfer == /\ mpc = "transfer" /\ (pending \/ ~plugged)
            /\ mpc' = "loop" /\ pending' = FALSE
            /\ UNCHANGED <<devices, seen, devdscr, found, obtained, released, keepRunning, plugged>>

\* Releasing the interface may fail: the rest is released all the same.
Finally == {"context", "list", "config", "handle"}
Release == /\ mpc = "release"
           /\ \/ Return(Finally \cup {"interface"})
              \/ Return(Finally)
           /\ AllElse

Report == /\ plugged /\ ~pending /\ mpc # "off" /\ pending' = TRUE
          /\ UNCHANGED <<devices, mpc, seen, devdscr, found, obtained, released, keepRunning, plugged>>
Unplug == /\ plugged /\ mpc # "off" /\ plugged' = FALSE /\ pending' = FALSE
          /\ UNCHANGED <<devices, mpc, seen, devdscr, found, obtained, released, keepRunning>>

MouseNext == \/ IntHandler \/ Report \/ Unplug
             \/ MouseStart \/ FindDev \/ Found \/ GetDescriptor \/ GetConfig \/ Open \/ Claim
             \/ Loop \/ Transfer \/ Release

MouseSpec == MouseInit /\ [][MouseNext]_mouseVars

-----------------------------------------------------------------------------
\* Each of the seven ways out releases what was obtained, once, and nothing
\* else; only closing the handle makes up for an interface that stays claimed.
MouseReleasesAll ==
    mpc = "exited" =>
        /\ \A r \in Resources \ {"interface"} : released[r] = IF r \in obtained THEN 1 ELSE 0
        /\ released["interface"] = 1 => "interface" \in obtained
=============================================================================
