------------------------------- MODULE Ports -------------------------------
(***************************************************************************)
(* The two PCI exercises: one lists the functions of all devices, the other *)
(* finds a serial controller, measures its BAR 0, moves it and puts it     *)
(* back.  Both reach the configuration registers through a pair of ports,  *)
(* one for the address and one for the value, shared by the whole machine: *)
(* an access is two instructions, and nothing keeps another program from   *)
(* setting the address between them.                                       *)
(***************************************************************************)
EXTENDS Naturals, FiniteSets

CONSTANTS Slots,          \* bus and device numbers
          LastFunction,   \* of a device; the loops end before it
          Cards           \* what is plugged in: functions to what they are

Functions == Slots \X (0 .. LastFunction)

ASSUME PortsAssumption ==
    /\ Slots \subseteq Nat /\ IsFiniteSet(Slots) /\ Slots # {} /\ LastFunction \in Nat \ {0}
    /\ Cards \subseteq [Functions -> {"controller", "other", "absent"}]

Nowhere == <<"nowhere">>   \* 0xffffffff + 0x10 is 0xf: no configuration cycle
End == <<"end">>           \* of the functions; get_cfgbase returns 0xffffffff

VARIABLES
    cards, bar,               \* the functions; BAR 0 of the controller
    address,                  \* the PCI address port
    lpc, lat, listed,         \* lister: place in an access, function, functions printed
    step, half, mat, base,    \* mapper: step, place in an access, function, what it found
    barVal, outs,             \* bar0_val; the I/O ports it wrote to
    undisturbed               \* history: the programs did not overlap, none was killed

listerVars == <<lpc, lat, listed>>
mapperVars == <<step, half, mat, base, barVal, outs>>
portVars == <<cards, bar, address, listerVars, mapperVars, undisturbed>>

Before(f, g) == f[1] < g[1] \/ (f[1] = g[1] /\ f[2] < g[2])
First(fs) == IF fs = {} THEN End ELSE CHOOSE f \in fs : \A g \in fs \ {f} : Before(f, g)

\* for ( func_num = 0; func_num < 7; func_num ++ )
Scanned == {f \in Functions : f[2] < LastFunction}
NextFunction(f) == First({g \in Scanned : Before(f, g)})

PortsTypeOK ==
    /\ cards \in Cards
    /\ bar \in {"given", "mask", "0x2000", "controller", "other"}
    /\ address \in (Functions \X {"id", "bar"}) \cup {Nowhere}
    /\ lpc \in {"off", "index", "data", "end"} /\ lat \in Functions \cup {End}
    /\ listed \subseteq Functions
    /\ step \in 0 .. 9 /\ half \in {"index", "data"}
    /\ mat \in Functions \cup {End} /\ base \in Functions \cup {End}
    /\ barVal \in {"given", "mask", "0x2000", "controller", "other", "ones"}
    /\ outs \subseteq {"its port", "port 3", "another"}
    /\ undisturbed \in BOOLEAN

PortsInit ==
    /\ cards \in Cards /\ bar = "given" /\ address = Nowhere
    /\ lpc = "off" /\ lat = End /\ listed = {}
    /\ step = 0 /\ half = "index" /\ mat = End /\ base = End
    /\ barVal = "ones" /\ outs = {} /\ undisturbed = TRUE

\* The value at the address, all ones where nothing answers.
DataPort == IF address = Nowhere THEN "ones"
            ELSE IF address[2] = "bar" THEN bar
            ELSE IF cards[address[1]] = "absent" THEN "ones" ELSE cards[address[1]]

\* Identifications cannot be written; of all ones, a BAR keeps those of its size.
WriteData(val) ==
    bar' = IF address = Nowhere \/ address[2] = "id" THEN bar
           ELSE IF val = "ones" THEN "mask" ELSE val

-----------------------------------------------------------------------------
(***************************************************************************)
(* The lister: print_all_pci_ids.                                          *)
(***************************************************************************)
ListerUp == lpc \in {"index", "data"}
MapperUp == step \in 1 .. 8

ListStart ==
    /\ lpc \in {"off", "end"}
    /\ lpc' = "index" /\ lat' = First(Scanned) /\ listed' = {}
    /\ undisturbed' = (undisturbed /\ ~MapperUp)
    /\ UNCHANGED <<cards, bar, address, mapperVars>>

ListIndex ==
    /\ lpc = "index" /\ lpc' = "data" /\ address' = <<lat, "id">>
    /\ UNCHANGED <<cards, bar, lat, listed, mapperVars, undisturbed>>

ListData ==
    /\ lpc = "data"
    /\ listed' = IF DataPort = "ones" THEN listed ELSE listed \cup {lat}
    /\ lat' = NextFunction(lat) /\ lpc' = IF lat' = End THEN "end" ELSE "index"
    /\ UNCHANGED <<cards, bar, address, mapperVars, undisturbed>>

-----------------------------------------------------------------------------
(***************************************************************************)
(* The mapper.  Its steps: 1 search, 2 read the BAR, 3 write a byte to the *)
(* scratch register, 4 write all ones, 5 read the size, 6 write 0x2000,    *)
(* 7 write the byte again, 8 write back what was read.  Whether the search *)
(* found anything is not asked.                                            *)
(***************************************************************************)
MapStart ==
    /\ step \in {0, 9}
    /\ step' = 1 /\ half' = "index" /\ mat' = First(Scanned) /\ base' = End
    /\ barVal' = "ones" /\ outs' = {}
    /\ undisturbed' = (undisturbed /\ ~ListerUp)
    /\ UNCHANGED <<cards, bar, address, listerVars>>

BarAddress == IF base = End THEN Nowhere ELSE <<base, "bar">>

MapIndex ==
    /\ step \in {1, 2, 4, 5, 6, 8} /\ half = "index" /\ half' = "data"
    /\ address' = IF step = 1 THEN <<mat, "id">> ELSE BarAddress
    /\ UNCHANGED <<cards, bar, listerVars, step, mat, base, barVal, outs, undisturbed>>

MapSearch ==
    /\ step = 1 /\ half = "data" /\ half' = "index"
    /\ IF DataPort = "controller" THEN base' = mat /\ UNCHANGED mat
       ELSE mat' = NextFunction(mat) /\ UNCHANGED base
    /\ step' = IF base' # End \/ mat' = End THEN 2 ELSE 1
    /\ UNCHANGED <<cards, bar, address, listerVars, barVal, outs, undisturbed>>

MapRead ==
    /\ step \in {2, 5} /\ half = "data" /\ half' = "index" /\ step' = step + 1
    /\ barVal' = IF step = 2 THEN DataPort ELSE barVal
    /\ UNCHANGED <<cards, bar, address, listerVars, mat, base, outs, undisturbed>>

\* test_scratchreg_write: all ones, rounded down and increased by 7, is port 3.
MapScratch ==
    /\ step \in {3, 7} /\ step' = step + 1
    /\ outs' = outs \cup {CASE barVal = "given" -> "its port" [] barVal = "ones" -> "port 3"
                            [] OTHER -> "another"}
    /\ UNCHANGED <<cards, bar, address, listerVars, half, mat, base, barVal, undisturbed>>

Restores_WhatIsThere == bar

Restores == barVal

MapWrite ==
    /\ step \in {4, 6, 8} /\ half = "data" /\ half' = "index" /\ step' = step + 1
    /\ WriteData(CASE step = 4 -> "ones" [] step = 6 -> "0x2000" [] step = 8 -> Restores)
    /\ UNCHANGED <<cards, address, listerVars, mat, base, barVal, outs, undisturbed>>

KillMapper ==
    /\ MapperUp /\ step' = 0 /\ half' = "index" /\ undisturbed' = FALSE
    /\ UNCHANGED <<cards, bar, address, listerVars, mat, base, barVal, outs>>

PortsNext == ListStart \/ ListIndex \/ ListData \/ MapStart \/ MapIndex \/ MapSearch
             \/ MapRead \/ MapScratch \/ MapWrite \/ KillMapper

PortsSpec == PortsInit /\ [][PortsNext]_portVars

-----------------------------------------------------------------------------
Present(fs) == {f \in fs : cards[f] # "absent"}
Controllers == {f \in Functions : cards[f] = "controller"}

\* A program that nobody disturbs, run to its end.  The list is of the functions
\* there are, the last of each device aside, and the search finds the controller
\* that the list shows first.  The mapper leaves the BAR where the firmware put it,
\* and its bytes go to the controller's ports, if there is a controller: without
\* one a byte goes to port 3.
UndisturbedAccess ==
    undisturbed =>
        /\ lpc = "end" => listed = {f \in Present(Functions) : f[2] < LastFunction}
        /\ ~MapperUp => bar = "given"
        /\ step \in 2 .. 9 =>
              /\ base = First({f \in Controllers : f[2] < LastFunction})
              /\ outs \subseteq IF base = End THEN {"port 3"} ELSE {"its port"}
=============================================================================
