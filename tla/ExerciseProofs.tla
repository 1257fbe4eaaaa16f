--------------------------- MODULE ExerciseProofs ---------------------------
(***************************************************************************)
(* Theorems about the exercises, of which one runs: the mouse, the two     *)
(* programs at the PCI ports, and the character device with the programs   *)
(* that use it.  Those about the storage device are in MassStorageProofs.  *)
(***************************************************************************)
EXTENDS MCExercises, MassStorageProofs, WellFoundedInduction

-----------------------------------------------------------------------------
(***************************************************************************)
(* The mouse: what main has obtained at each place, and what it has        *)
(* released when it returns.                                               *)
(***************************************************************************)
\* What the program has obtained when it is at pc, of a run that goes on.
Obtained(pc) ==
    CASE pc \in {"find", "descriptor", "config"} -> {"context", "list"}
      [] pc = "open" -> {"context", "list", "config"}
      [] pc = "claim" -> {"context", "list", "config", "handle"}
      [] pc \in {"loop", "transfer", "release"} -> Resources
      [] OTHER -> {}

\* Until a return everything obtained is still held; after it, once released.
MouseInv ==
    /\ MouseTypeOK /\ MouseReleasesAll
    /\ mpc \notin {"exited", "undefined"} => obtained = Obtained(mpc)
    /\ mpc # "exited" => released = [r \in Resources |-> 0]

LEMMA ObtainedAt ==
  /\ Obtained("off") = {}
  /\ \A pc \in {"find", "descriptor", "config"} : Obtained(pc) = {"context", "list"}
  /\ Obtained("open") = {"context", "list", "config"}
  /\ Obtained("claim") = {"context", "list", "config", "handle"}
  /\ \A pc \in {"loop", "transfer", "release"} : Obtained(pc) = Resources
BY DEF Obtained

\* A return that releases what the program holds, but for the interface perhaps.
LEMMA MouseReturn ==
  ASSUME MouseInv, NEW rs, Return(rs), AllElse, mpc \notin {"exited", "undefined"},
         rs \subseteq obtained, obtained \ rs \subseteq {"interface"}
  PROVE  MouseInv'
<1>1. obtained \subseteq Resources /\ released = [r \in Resources |-> 0]
  BY DEF MouseInv, MouseTypeOK
<1>2. /\ released' = [r \in Resources |-> IF r \in rs THEN 1 ELSE 0]
      /\ obtained' = obtained /\ mpc' = "exited"
  BY <1>1 DEF Return
<1>3. released' \in [Resources -> 0 .. 1]
  BY <1>2
<1>4. MouseTypeOK'
  BY <1>2, <1>3 DEF MouseInv, MouseTypeOK, AllElse
<1>5. MouseReleasesAll'
  BY <1>1, <1>2 DEF MouseReleasesAll, Resources
<1> QED
  BY <1>2, <1>4, <1>5 DEF MouseInv

\* A step that obtains rs, or nothing, on the way to another place.
LEMMA MouseObtain ==
  ASSUME MouseInv, NEW rs, NEW pc, Obtain(rs), AllElse, mpc' = pc,
         mpc \notin {"exited", "undefined"},
         pc \in {"find", "descriptor", "config", "open", "claim", "loop", "transfer", "release"},
         Obtained(pc) = obtained \cup rs
  PROVE  MouseInv'
<1>1. Obtained(pc) \subseteq Resources
  BY ObtainedAt DEF Resources
<1>2. released' = [r \in Resources |-> 0] /\ obtained' = Obtained(pc)
  BY DEF MouseInv, Obtain
<1>3. MouseTypeOK'
  BY <1>1, <1>2 DEF MouseInv, MouseTypeOK, AllElse
<1> QED
  BY <1>2, <1>3 DEF MouseInv, MouseReleasesAll

LEMMA MouseBegin ==
  MouseInit => MouseInv
<1> SUFFICES ASSUME MouseInit PROVE MouseInv
  OBVIOUS
<1>1. MouseTypeOK
  <2>1. devices \in Plugged /\ devices \in Seq({"mouse", "other"})
    BY MouseAssumption DEF MouseInit, MouseAssumption
  <2>2. 0 \in 0 .. Len(devices)
    BY ONLY <2>1, LenProperties
  <2>3. released \in [Resources -> 0 .. 1]
    BY DEF MouseInit
  <2> QED
    BY <2>1, <2>2, <2>3 DEF MouseInit, MouseTypeOK
<1> QED
  BY <1>1, ObtainedAt DEF MouseInit, MouseInv, MouseReleasesAll

LEMMA MouseStep == MouseInv /\ [MouseNext]_mouseVars => MouseInv'
<1> SUFFICES ASSUME MouseInv, [MouseNext]_mouseVars PROVE MouseInv'
  OBVIOUS
<1> USE ObtainedAt
<1>1. CASE MouseStart
  <2>1. Obtain({"context", "list"}) /\ AllElse /\ mpc = "off" /\ mpc' = "find"
    BY <1>1 DEF MouseStart
  <2>2. obtained = {}
    BY <2>1 DEF MouseInv
  <2> QED
    BY <2>1, <2>2, MouseObtain
<1>2. CASE FindDev
  <2>1. /\ seen' \in 0 .. Len(devices) /\ found' \in 0 .. Len(devices)
        /\ devdscr' \in {"none", "mouse", "other"}
    <3>1. devices \in Seq({"mouse", "other"}) /\ seen \in 0 .. Len(devices)
      BY MouseAssumption DEF MouseInv, MouseTypeOK, MouseAssumption
    <3>2. seen + 1 \in 1 .. Len(devices) /\ devices[seen + 1] \in {"mouse", "other"}
      BY <1>2, <3>1 DEF FindDev
    <3> QED
      BY <1>2, <3>1, <3>2 DEF FindDev, MouseInv, MouseTypeOK
  <2>2. MouseTypeOK'
    BY <1>2, <2>1 DEF FindDev, MouseInv, MouseTypeOK
  <2> QED
    BY <1>2, <2>2 DEF FindDev, MouseInv, MouseReleasesAll
<1>3. CASE Found
  <2>1. mpc = "find" /\ AllElse /\ obtained = {"context", "list"}
    BY <1>3 DEF Found, MouseInv
  <2>2. CASE found = 0
    BY <1>3, <2>1, <2>2, MouseReturn DEF Found
  <2>3. CASE found # 0
    BY <1>3, <2>1, <2>3, MouseObtain DEF Found, Obtain
  <2> QED
    BY <2>2, <2>3
<1>4. CASE GetDescriptor
  <2>1. mpc = "descriptor" /\ AllElse /\ obtained = {"context", "list"}
    BY <1>4 DEF GetDescriptor, Call, MouseInv
  <2>2. CASE Obtain({}) /\ mpc' = "config"
    BY <2>1, <2>2, MouseObtain
  <2>3. CASE Return({"context", "list"})
    BY <2>1, <2>3, MouseReturn
  <2> QED
    BY <1>4, <2>2, <2>3 DEF GetDescriptor, Call
<1>5. CASE GetConfig
  <2>1. mpc = "config" /\ AllElse /\ obtained = {"context", "list"}
    BY <1>5 DEF GetConfig, MouseInv
  <2>2. CASE Obtain({"config"}) /\ mpc' = "open"
    BY <2>1, <2>2, MouseObtain
  <2>3. CASE Return({"context", "list"})
    BY <2>1, <2>3, MouseReturn
  <2>4. CASE mpc' = "undefined" /\ UNCHANGED <<obtained, released>>
    <3>1. MouseTypeOK'
      BY <2>1, <2>4 DEF MouseInv, MouseTypeOK, AllElse
    <3> QED
      BY <2>1, <2>4, <3>1 DEF MouseInv, MouseReleasesAll
  <2> QED
    BY <1>5, <2>2, <2>3, <2>4 DEF GetConfig
<1>6. CASE Open
  <2>1. mpc = "open" /\ AllElse /\ obtained = OpenFailure
    BY <1>6 DEF Open, Call, MouseInv, OpenFailure
  <2>2. CASE Obtain({"handle"}) /\ mpc' = "claim"
    BY <2>1, <2>2, MouseObtain DEF OpenFailure
  <2>3. CASE Return(OpenFailure)
    BY <2>1, <2>3, MouseReturn
  <2> QED
    BY <1>6, <2>2, <2>3 DEF Open, Call
<1>7. CASE Claim
  <2>1. mpc = "claim" /\ AllElse /\ obtained = ClaimFailure
    BY <1>7 DEF Claim, Call, MouseInv, ClaimFailure
  <2>2. CASE Obtain({"interface"}) /\ mpc' = "loop"
    BY <2>1, <2>2, MouseObtain DEF ClaimFailure, Resources
  <2>3. CASE Return(ClaimFailure)
    BY <2>1, <2>3, MouseReturn
  <2> QED
    BY <1>7, <2>2, <2>3 DEF Claim, Call
<1>8. CASE Loop
  <2>1. mpc = "loop" /\ AllElse /\ obtained = Resources /\ Obtain({})
    BY <1>8 DEF Loop, MouseInv, Obtain
  <2> QED
    BY <1>8, <2>1, MouseObtain DEF Loop
<1>9. CASE Transfer
  <2>1. MouseTypeOK'
    BY <1>9 DEF Transfer, MouseInv, MouseTypeOK
  <2> QED
    BY <1>9, <2>1 DEF Transfer, MouseInv, MouseReleasesAll
<1>10. CASE Release
  <2>1. mpc = "release" /\ AllElse /\ obtained = Resources
    BY <1>10 DEF Release, MouseInv
  <2>2. CASE Return(Finally \cup {"interface"})
    BY <2>1, <2>2, MouseReturn DEF Finally, Resources
  <2>3. CASE Return(Finally)
    BY <2>1, <2>3, MouseReturn DEF Finally, Resources
  <2> QED
    BY <1>10, <2>2, <2>3 DEF Release
<1>11. CASE IntHandler \/ Report \/ Unplug
  <2>1. UNCHANGED <<devices, mpc, seen, devdscr, found, obtained, released>>
    BY <1>11 DEF IntHandler, Report, Unplug
  <2>2. keepRunning' \in BOOLEAN
    BY <1>11 DEF IntHandler, Report, Unplug, MouseInv, MouseTypeOK
  <2>3. plugged' \in BOOLEAN /\ pending' \in BOOLEAN
    BY <1>11 DEF IntHandler, Report, Unplug, MouseInv, MouseTypeOK
  <2>4. MouseTypeOK'
    BY <2>1, <2>2, <2>3 DEF MouseInv, MouseTypeOK
  <2> QED
    BY <2>1, <2>4 DEF MouseInv, MouseReleasesAll
<1>12. CASE UNCHANGED mouseVars
  BY <1>12 DEF mouseVars, MouseInv, MouseTypeOK, MouseReleasesAll
<1> QED
  BY <1>1, <1>2, <1>3, <1>4, <1>5, <1>6, <1>7, <1>8, <1>9, <1>10, <1>11, <1>12 DEF MouseNext

\* Whatever libusb answers and wherever the mouse is unplugged or the program
\* interrupted: each way out of main releases what was obtained, once.
THEOREM MouseReleasesEverything == MouseSpec => [](MouseTypeOK /\ MouseReleasesAll)
<1>1. MouseInv => MouseTypeOK /\ MouseReleasesAll
  BY DEF MouseInv
<1> QED
  BY <1>1, MouseBegin, MouseStep, PTL DEF MouseSpec

-----------------------------------------------------------------------------
(***************************************************************************)
(* The PCI ports: two programs, each of which selects an address and then  *)
(* reads or writes, and loops that visit the functions in order.           *)
(***************************************************************************)
\* The order in which the loops visit functions.
LEMMA BeforeOrder ==
  ASSUME NEW f \in Functions, NEW g \in Functions, NEW h \in Functions
  PROVE  /\ ~Before(f, f)
         /\ f # g => Before(f, g) \/ Before(g, f)
         /\ ~(Before(f, g) /\ Before(g, f))
         /\ Before(f, g) /\ Before(g, h) => Before(f, h)
<1>1. /\ f = <<f[1], f[2]>> /\ g = <<g[1], g[2]>> /\ h = <<h[1], h[2]>>
      /\ f[1] \in Nat /\ g[1] \in Nat /\ h[1] \in Nat
      /\ f[2] \in Nat /\ g[2] \in Nat /\ h[2] \in Nat
  <2>1. Slots \subseteq Nat /\ 0 .. LastFunction \subseteq Nat
    BY PortsAssumption DEF PortsAssumption
  <2>2. \A x \in Functions : x = <<x[1], x[2]>> /\ x[1] \in Slots /\ x[2] \in 0 .. LastFunction
    BY DEF Functions
  <2> QED
    BY ONLY <2>1, <2>2, f \in Functions, g \in Functions, h \in Functions
<1>2. f[1] = g[1] /\ f[2] = g[2] => f = g
  BY ONLY <1>1
<1>3. f # g => Before(f, g) \/ Before(g, f)
  BY ONLY <1>1, <1>2 DEF Before
<1>4. ~Before(f, f) /\ ~(Before(f, g) /\ Before(g, f))
  BY ONLY <1>1 DEF Before
<1>5. Before(f, g) /\ Before(g, h) => Before(f, h)
  BY ONLY <1>1 DEF Before
<1> QED
  BY <1>3, <1>4, <1>5

LEMMA FunctionsFinite == IsFiniteSet(Functions)
<1>1. IsFiniteSet(0 .. LastFunction) /\ IsFiniteSet(Slots)
  BY PortsAssumption, FS_Interval DEF PortsAssumption
<1> QED
  BY <1>1, FS_Product DEF Functions

\* A set of functions that is not empty has a first: of the sets of those up to
\* a function of it, one is smallest.
LEMMA FirstIs ==
  ASSUME NEW fs, fs \subseteq Functions, fs # {}
  PROVE  First(fs) \in fs /\ \A g \in fs : g # First(fs) => Before(First(fs), g)
<1> DEFINE UpTo(f) == {g \in fs : g = f \/ Before(g, f)}
           T == {UpTo(f) : f \in fs}
<1>1. IsFiniteSet(fs)
  BY FunctionsFinite, FS_Subset
<1>2. IsWellFoundedOn(StrictSubsetOrdering(fs), SUBSET fs)
  BY <1>1, FS_StrictSubsetOrderingWellFounded, FS_FiniteSubsetsOfFinite
<1>3. T \subseteq SUBSET fs /\ T # {}
  OBVIOUS
<1>4. PICK x \in T : \A y \in T : <<y, x>> \notin StrictSubsetOrdering(fs)
  BY ONLY <1>2, <1>3, WFMin
<1>5. PICK f \in fs : x = UpTo(f)
  BY ONLY <1>4
<1>6. ASSUME NEW g \in fs, g # f PROVE Before(f, g)
  <2>1. SUFFICES ASSUME Before(g, f) PROVE FALSE
    BY <1>6, BeforeOrder
  <2>2. UpTo(g) \subseteq UpTo(f) /\ f \in UpTo(f) /\ f \notin UpTo(g)
    BY <1>6, <2>1, BeforeOrder
  <2>3. UpTo(g) \in T /\ UpTo(g) # x /\ UpTo(g) \subseteq x
    BY <1>5, <2>2
  <2>4. <<UpTo(g), x>> \in StrictSubsetOrdering(fs)
    BY ONLY <1>3, <2>3, x \in T DEF StrictSubsetOrdering
  <2> QED
    BY ONLY <1>4, <2>3, <2>4
<1>7. First(fs) = CHOOSE h \in fs : \A g \in fs \ {h} : Before(h, g)
  BY DEF First
<1> QED
  BY ONLY <1>6, <1>7

\* So a loop goes from a function to the next, and ends after the last.
LEMMA NextIs ==
  ASSUME NEW f \in Scanned
  PROVE  /\ NextFunction(f) = End => \A g \in Scanned : g = f \/ Before(g, f)
         /\ NextFunction(f) # End =>
               /\ NextFunction(f) \in Scanned /\ Before(f, NextFunction(f))
               /\ \A g \in Scanned : Before(g, NextFunction(f)) <=> g = f \/ Before(g, f)
<1> DEFINE later == {g \in Scanned : Before(f, g)}
<1>1. later \subseteq Functions /\ Scanned \subseteq Functions /\ f \in Functions
  BY DEF Scanned
<1>2. NextFunction(f) = First(later)
  BY DEF NextFunction
<1>3. End \notin Functions
  <2>1. DOMAIN End = 1 .. 1 /\ 2 \notin 1 .. 1
    BY DEF End
  <2>2. \A g \in Functions : 2 \in DOMAIN g
    BY DEF Functions
  <2> QED
    BY ONLY <2>1, <2>2
<1>4. CASE later = {}
  BY <1>1, <1>2, <1>4, BeforeOrder DEF First
<1>5. CASE later # {}
  <2>1. First(later) \in later /\ \A g \in later : g # First(later) => Before(First(later), g)
    BY <1>1, <1>5, FirstIs
  <2> QED
    BY <1>1, <1>2, <1>3, <2>1, BeforeOrder
<1> QED
  BY <1>4, <1>5

LEMMA FirstUnique ==
  ASSUME NEW fs, fs \subseteq Functions, NEW f \in fs,
         \A g \in fs : g # f => Before(f, g)
  PROVE  First(fs) = f
<1>1. First(fs) \in fs /\ (First(fs) # f => Before(First(fs), f))
  BY FirstIs
<1> QED
  BY <1>1, BeforeOrder

-----------------------------------------------------------------------------
(***************************************************************************)
(* The inductive invariant of the PCI programs.                            *)
(***************************************************************************)
ToFind == {f \in Scanned : cards[f] = "controller"}

\* A loop stands at a function that it visits.
LoopsInside == /\ ListerUp => lat \in Scanned
               /\ step = 1 => mat \in Scanned

\* What the lister has printed so far, and the address it has set.
ListerRight ==
    /\ ListerUp => listed = {f \in Present(Scanned) : Before(f, lat)}
    /\ lpc = "data" => address = <<lat, "id">>
    /\ lpc = "end" => listed = Present(Scanned)

\* What the mapper has found so far, the address it has set, what is in the BAR.
MapperRight ==
    /\ step = 1 => base = End /\ \A f \in Scanned : Before(f, mat) => cards[f] # "controller"
    /\ step \in 2 .. 9 => base = First(ToFind)
    /\ half = "data" => /\ step \in {1, 2, 4, 5, 6, 8}
                        /\ address = IF step = 1 THEN <<mat, "id">> ELSE BarAddress
    /\ step \notin 5 .. 8 \/ base = End => bar = "given"
    /\ step \in 3 .. 9 => barVal = IF base = End THEN "ones" ELSE "given"
    /\ outs \subseteq IF step = 1 THEN {} ELSE IF base = End THEN {"port 3"} ELSE {"its port"}

PortsInv == /\ PortsTypeOK /\ LoopsInside
            /\ undisturbed => ListerRight /\ MapperRight /\ ~(ListerUp /\ MapperUp)

LEMMA PortsFacts ==
  /\ Scanned \subseteq Functions /\ Scanned # {} /\ ToFind \subseteq Functions
  /\ End \notin Functions
  /\ Nowhere \notin Functions \X {"id", "bar"}
<1>1. Scanned # {}
  <2>1. PICK s \in Slots : TRUE
    BY PortsAssumption DEF PortsAssumption
  <2>2. <<s, 0>> \in Functions /\ <<s, 0>>[2] < LastFunction
    BY <2>1, PortsAssumption DEF Functions, PortsAssumption
  <2> QED
    BY <2>2 DEF Scanned
<1>2. End \notin Functions
  <2>1. DOMAIN End = 1 .. 1 /\ 2 \notin 1 .. 1
    BY DEF End
  <2>2. \A g \in Functions : 2 \in DOMAIN g
    BY DEF Functions
  <2> QED
    BY ONLY <2>1, <2>2
<1>3. Nowhere \notin Functions \X {"id", "bar"}
  <2>1. DOMAIN Nowhere = 1 .. 1 /\ 2 \notin 1 .. 1
    BY DEF Nowhere
  <2>2. \A g \in Functions \X {"id", "bar"} : 2 \in DOMAIN g
    OBVIOUS
  <2> QED
    BY ONLY <2>1, <2>2
<1> QED
  BY <1>1, <1>2, <1>3 DEF Scanned, ToFind

\* What a read finds at an address.
LEMMA PortReads ==
  ASSUME PortsTypeOK
  PROVE  /\ DataPort \in {"given", "mask", "0x2000", "controller", "other", "ones"}
         /\ address = Nowhere => DataPort = "ones"
<1>1. cards \in [Functions -> {"controller", "other", "absent"}]
  BY PortsAssumption DEF PortsTypeOK, PortsAssumption
<1>2. address # Nowhere => address[1] \in Functions
  BY DEF PortsTypeOK
<1>3. bar \in {"given", "mask", "0x2000", "controller", "other"}
  BY DEF PortsTypeOK
<1> QED
  BY ONLY <1>1, <1>2, <1>3 DEF DataPort

LEMMA PortReadsFunction ==
  ASSUME PortsTypeOK, NEW f \in Functions
  PROVE  /\ address = <<f, "bar">> => DataPort = bar
         /\ address = <<f, "id">> =>
               DataPort = IF cards[f] = "absent" THEN "ones" ELSE cards[f]
         /\ cards[f] \in {"controller", "other", "absent"}
<1>1. cards[f] \in {"controller", "other", "absent"}
  BY PortsAssumption DEF PortsTypeOK, PortsAssumption
<1>2. <<f, "bar">> # Nowhere /\ <<f, "id">> # Nowhere
  BY PortsFacts
<1>3. <<f, "bar">>[2] = "bar" /\ <<f, "id">>[2] = "id" /\ <<f, "id">>[1] = f
  OBVIOUS
<1> QED
  BY ONLY <1>1, <1>2, <1>3 DEF DataPort

LEMMA PortsBegin == PortsInit => PortsInv
<1> SUFFICES ASSUME PortsInit PROVE PortsInv
  OBVIOUS
<1>1. PortsTypeOK
  BY DEF PortsInit, PortsTypeOK
<1> QED
  BY <1>1 DEF PortsInit, PortsInv, LoopsInside, ListerRight, MapperRight, ListerUp, MapperUp

\* The steps of the lister.
LEMMA ListerStep == PortsInv /\ (ListStart \/ ListIndex \/ ListData) => PortsInv'
<1> SUFFICES ASSUME PortsInv, ListStart \/ ListIndex \/ ListData PROVE PortsInv'
  OBVIOUS
<1>0. UNCHANGED <<cards, bar, mapperVars>>
  BY DEF ListStart, ListIndex, ListData
<1>a. MapperRight /\ ~MapperUp /\ UNCHANGED bar => MapperRight'
  <2> SUFFICES ASSUME MapperRight, ~MapperUp, UNCHANGED bar PROVE MapperRight'
    OBVIOUS
  <2>1. UNCHANGED <<cards, bar, step, half, mat, base, barVal, outs>>
    BY <1>0 DEF mapperVars
  <2>2. step \in {0, 9} /\ half # "data"
    <3>1. step \in 0 .. 9
      BY DEF PortsInv, PortsTypeOK
    <3>2. step \in {0, 9}
      BY ONLY <3>1, ~MapperUp DEF MapperUp
    <3>3. half = "data" => step \in {1, 2, 4, 5, 6, 8}
      BY ONLY MapperRight DEF MapperRight
    <3> QED
      BY ONLY <3>2, <3>3
  <2>3. ToFind' = ToFind
    BY <2>1 DEF ToFind
  <2> QED
    BY <2>1, <2>2, <2>3 DEF MapperRight
<1>1. CASE ListStart
  <2>1. First(Scanned) \in Scanned /\ \A g \in Scanned : ~Before(g, First(Scanned))
    <3>1. First(Scanned) \in Scanned
          /\ \A g \in Scanned : g # First(Scanned) => Before(First(Scanned), g)
      BY PortsFacts, FirstIs
    <3> QED
      BY <3>1, PortsFacts, BeforeOrder
  <2>2. /\ lpc' = "index" /\ lat' = First(Scanned) /\ listed' = {} /\ ~ListerUp
        /\ undisturbed' = (undisturbed /\ ~MapperUp) /\ UNCHANGED address
    BY <1>1 DEF ListStart, ListerUp
  <2>3. PortsTypeOK'
    BY <1>0, <2>1, <2>2, PortsFacts DEF PortsInv, PortsTypeOK, mapperVars
  <2>4. LoopsInside'
    BY <1>0, <2>1, <2>2 DEF PortsInv, LoopsInside, mapperVars
  <2>5. {f \in Present(Scanned)' : Before(f, lat')} = {}
    BY <2>1, <2>2 DEF Present
  <2>6. ListerRight'
    BY <2>2, <2>5 DEF ListerRight, ListerUp
  <2>7. undisturbed' => MapperRight' /\ ~MapperUp'
    BY <1>0, <1>a, <2>2 DEF PortsInv, MapperUp, mapperVars
  <2> QED
    BY <2>3, <2>4, <2>6, <2>7 DEF PortsInv
<1>2. CASE ListIndex
  <2>1. /\ lpc = "index" /\ lpc' = "data" /\ address' = <<lat, "id">> /\ ListerUp
        /\ UNCHANGED <<lat, listed, undisturbed>>
    BY <1>2 DEF ListIndex, ListerUp
  <2>2. lat \in Scanned
    BY <2>1 DEF PortsInv, LoopsInside
  <2>3. PortsTypeOK'
    <3>1. address' \in (Functions \X {"id", "bar"}) \cup {Nowhere}
      BY <2>1, <2>2, PortsFacts
    <3> QED
      BY <1>0, <2>1, <3>1 DEF PortsInv, PortsTypeOK, mapperVars
  <2>4. LoopsInside'
    BY <1>0, <2>1, <2>2 DEF PortsInv, LoopsInside, mapperVars
  <2>5. undisturbed => ListerRight'
    BY <1>0, <2>1 DEF PortsInv, ListerRight, ListerUp, Present
  <2>6. undisturbed => MapperRight' /\ ~MapperUp'
    BY <1>0, <1>a, <2>1 DEF PortsInv, MapperUp, mapperVars
  <2> QED
    BY <2>1, <2>3, <2>4, <2>5, <2>6 DEF PortsInv
<1>3. CASE ListData
  <2>1. /\ lpc = "data" /\ ListerUp /\ lat' = NextFunction(lat)
        /\ lpc' = IF lat' = End THEN "end" ELSE "index"
        /\ listed' = IF DataPort = "ones" THEN listed ELSE listed \cup {lat}
        /\ UNCHANGED <<address, undisturbed>>
    BY <1>3 DEF ListData, ListerUp
  <2>2. lat \in Scanned /\ lat \in Functions
    BY <2>1, PortsFacts DEF PortsInv, LoopsInside
  <2>3. /\ lat' = End => \A g \in Scanned : g = lat \/ Before(g, lat)
        /\ lat' # End => /\ lat' \in Scanned
                         /\ \A g \in Scanned : Before(g, lat') <=> g = lat \/ Before(g, lat)
    BY <2>1, <2>2, NextIs
  <2>4. PortsTypeOK'
    <3>1. PortsTypeOK /\ UNCHANGED <<cards, bar, address, step, half, mat, base, barVal, outs, undisturbed>>
      BY <1>0, <2>1 DEF PortsInv, mapperVars
    <3>2. /\ lat' \in Functions \cup {End} /\ lpc' \in {"off", "index", "data", "end"}
          /\ listed' \subseteq Functions
      BY ONLY <2>1, <2>2, <2>3, <3>1, PortsFacts DEF PortsTypeOK
    <3>3. /\ cards' \in Cards /\ bar' \in {"given", "mask", "0x2000", "controller", "other"}
          /\ address' \in (Functions \X {"id", "bar"}) \cup {Nowhere}
          /\ undisturbed' \in BOOLEAN
      BY ONLY <3>1 DEF PortsTypeOK
    <3>4. /\ step' \in 0 .. 9 /\ half' \in {"index", "data"}
          /\ mat' \in Functions \cup {End} /\ base' \in Functions \cup {End}
          /\ barVal' \in {"given", "mask", "0x2000", "controller", "other", "ones"}
          /\ outs' \subseteq {"its port", "port 3", "another"}
      BY ONLY <3>1 DEF PortsTypeOK
    <3> QED
      BY ONLY <3>2, <3>3, <3>4 DEF PortsTypeOK
  <2>5. LoopsInside'
    BY <1>0, <2>1, <2>3 DEF PortsInv, LoopsInside, mapperVars, ListerUp
  <2>6. ASSUME undisturbed PROVE ListerRight'
    <3>1. address = <<lat, "id">> /\ listed = {f \in Present(Scanned) : Before(f, lat)}
      BY <2>1, <2>6 DEF PortsInv, ListerRight
    <3>2. listed' = {f \in Present(Scanned) : f = lat \/ Before(f, lat)}
      <4>1. DataPort = "ones" <=> cards[lat] = "absent"
        <5>1. PortsTypeOK /\ lat \in Functions /\ address = <<lat, "id">>
          BY <2>2, <3>1 DEF PortsInv
        <5>2. /\ DataPort = IF cards[lat] = "absent" THEN "ones" ELSE cards[lat]
              /\ cards[lat] \in {"controller", "other", "absent"}
          BY ONLY <5>1, PortReadsFunction
        <5> QED
          BY ONLY <5>2
      <4> QED
        BY <2>1, <2>2, <3>1, <4>1 DEF Present
    <3>3. Present(Scanned)' = Present(Scanned)
      BY <1>0 DEF Present
    <3>4. CASE lat' = End
      BY <2>1, <2>3, <3>2, <3>3, <3>4 DEF ListerRight, ListerUp, Present
    <3>5. CASE lat' # End
      <4>1. listed' = {f \in Present(Scanned)' : Before(f, lat')}
        BY <2>3, <3>2, <3>3, <3>5 DEF Present
      <4> QED
        BY <2>1, <3>5, <4>1 DEF ListerRight, ListerUp
    <3> QED
      BY <3>4, <3>5
  <2>7. undisturbed => MapperRight' /\ ~MapperUp'
    BY <1>0, <1>a, <2>1 DEF PortsInv, MapperUp, mapperVars
  <2> QED
    BY <2>1, <2>4, <2>5, <2>6, <2>7 DEF PortsInv
<1> QED
  BY <1>1, <1>2, <1>3

\* A step of the mapper leaves a lister that is not up as it is.
LEMMA ListerSame ==
  ASSUME PortsInv, undisturbed => ~ListerUp, UNCHANGED <<cards, listerVars>>
  PROVE  /\ undisturbed => ListerRight' /\ ~ListerUp'
         /\ ListerUp' => lat' \in Scanned
<1>1. undisturbed => ListerRight' /\ ~ListerUp'
  BY DEF PortsInv, ListerRight, ListerUp, listerVars, Present
<1>2. ListerUp' => lat' \in Scanned
  BY DEF PortsInv, LoopsInside, ListerUp, listerVars
<1> QED
  BY <1>1, <1>2

LEMMA MapStartStep == PortsInv /\ MapStart => PortsInv'
<1> SUFFICES ASSUME PortsInv, MapStart PROVE PortsInv'
  OBVIOUS
<1>1. /\ step \in {0, 9} /\ step' = 1 /\ half' = "index" /\ mat' = First(Scanned)
      /\ base' = End /\ barVal' = "ones" /\ outs' = {}
      /\ undisturbed' = (undisturbed /\ ~ListerUp)
      /\ UNCHANGED <<cards, bar, address, listerVars>>
  BY DEF MapStart
<1>2. First(Scanned) \in Scanned
      /\ \A g \in Scanned : g # First(Scanned) => Before(First(Scanned), g)
  BY PortsFacts, FirstIs
<1>3. \A g \in Scanned : ~Before(g, First(Scanned))
  BY <1>2, PortsFacts, BeforeOrder
<1>4. PortsTypeOK'
  <2>1. undisturbed' \in BOOLEAN
    BY <1>1
  <2>2. step' \in 0 .. 9 /\ mat' \in Functions \cup {End}
    BY <1>1, <1>2, PortsFacts
  <2> QED
    BY <1>1, <2>1, <2>2 DEF PortsInv, PortsTypeOK, listerVars
<1>5. LoopsInside'
  BY <1>1, <1>2 DEF PortsInv, LoopsInside, ListerUp, listerVars
<1>6. undisturbed' => MapperRight'
  <2>1. step \notin 5 .. 8
    BY ONLY <1>1
  <2>2. undisturbed => bar = "given"
    BY <2>1 DEF PortsInv, MapperRight
  <2>3. step' \notin 2 .. 9
    BY ONLY <1>1
  <2>4. step' \notin 3 .. 9 /\ step' = 1
    BY ONLY <1>1
  <2>5. \A f \in Scanned : ~Before(f, mat')
    BY <1>1, <1>3
  <2> QED
    BY ONLY <1>1, <2>2, <2>3, <2>4, <2>5 DEF MapperRight
<1>7. undisturbed' => ListerRight' /\ ~ListerUp'
  BY <1>1 DEF PortsInv, ListerRight, ListerUp, listerVars, Present
<1> QED
  BY <1>4, <1>5, <1>6, <1>7 DEF PortsInv

\* What a step inside a run of the mapper owes.
LEMMA MapperOwes ==
  ASSUME PortsInv, step \in 1 .. 8, UNCHANGED <<cards, listerVars, undisturbed>>,
         PortsTypeOK', step' = 1 => mat' \in Scanned,
         undisturbed /\ MapperRight => MapperRight'
  PROVE  PortsInv'
<1>1. undisturbed => ~ListerUp
  BY DEF PortsInv, MapperUp
<1>2. /\ undisturbed => ListerRight' /\ ~ListerUp'
      /\ ListerUp' => lat' \in Scanned
  BY <1>1, ListerSame
<1> QED
  BY <1>2 DEF PortsInv, LoopsInside

LEMMA MapIndexStep == PortsInv /\ MapIndex => PortsInv'
<1> SUFFICES ASSUME PortsInv, MapIndex PROVE PortsInv'
  OBVIOUS
<1>1. /\ step \in {1, 2, 4, 5, 6, 8} /\ half' = "data"
      /\ address' = IF step = 1 THEN <<mat, "id">> ELSE BarAddress
      /\ UNCHANGED <<cards, bar, listerVars, step, mat, base, barVal, outs, undisturbed>>
  BY DEF MapIndex
<1>2. step = 1 => mat \in Scanned /\ mat \in Functions
  BY PortsFacts DEF PortsInv, LoopsInside
<1>3. address' \in (Functions \X {"id", "bar"}) \cup {Nowhere}
  <2>1. base \in Functions \cup {End}
    BY DEF PortsInv, PortsTypeOK
  <2>2. BarAddress \in (Functions \X {"id", "bar"}) \cup {Nowhere}
    BY <2>1 DEF BarAddress
  <2> QED
    BY <1>1, <1>2, <2>2
<1>4. PortsTypeOK'
  <2>1. PortsTypeOK /\ UNCHANGED <<cards, bar, lpc, lat, listed, step, mat, base, barVal, outs, undisturbed>>
    BY <1>1 DEF PortsInv, listerVars
  <2>2. /\ cards' \in Cards /\ bar' \in {"given", "mask", "0x2000", "controller", "other"}
        /\ lpc' \in {"off", "index", "data", "end"} /\ lat' \in Functions \cup {End}
        /\ listed' \subseteq Functions
    BY ONLY <2>1 DEF PortsTypeOK
  <2>3. /\ step' \in 0 .. 9 /\ mat' \in Functions \cup {End} /\ base' \in Functions \cup {End}
        /\ barVal' \in {"given", "mask", "0x2000", "controller", "other", "ones"}
        /\ outs' \subseteq {"its port", "port 3", "another"} /\ undisturbed' \in BOOLEAN
    BY ONLY <2>1 DEF PortsTypeOK
  <2> QED
    BY ONLY <1>1, <1>3, <2>2, <2>3 DEF PortsTypeOK
<1>5. MapperRight => MapperRight'
  <2>1. ToFind' = ToFind /\ BarAddress' = BarAddress
    BY <1>1 DEF ToFind, BarAddress
  <2> QED
    BY <1>1, <2>1 DEF MapperRight
<1>6. step \in 1 .. 8
  BY <1>1
<1> QED
  BY <1>1, <1>2, <1>4, <1>5, <1>6, MapperOwes

LEMMA MapSearchStep == PortsInv /\ MapSearch => PortsInv'
<1> SUFFICES ASSUME PortsInv, MapSearch PROVE PortsInv'
  OBVIOUS
<1>1. /\ step = 1 /\ half = "data" /\ half' = "index"
      /\ IF DataPort = "controller" THEN base' = mat /\ mat' = mat
         ELSE mat' = NextFunction(mat) /\ base' = base
      /\ step' = IF base' # End \/ mat' = End THEN 2 ELSE 1
      /\ UNCHANGED <<cards, bar, address, listerVars, barVal, outs, undisturbed>>
  BY DEF MapSearch
<1>2. mat \in Scanned /\ mat \in Functions /\ mat # End
  BY <1>1, PortsFacts DEF PortsInv, LoopsInside
<1>3. LET next == NextFunction(mat) IN
      /\ next = End => \A g \in Scanned : g = mat \/ Before(g, mat)
      /\ next # End => /\ next \in Scanned /\ next \in Functions
                       /\ \A g \in Scanned : Before(g, next) <=> g = mat \/ Before(g, mat)
  BY <1>2, PortsFacts, NextIs
<1>4. PortsTypeOK'
  <2>1. mat' \in Functions \cup {End} /\ base' \in Functions \cup {End}
    BY <1>1, <1>2, <1>3 DEF PortsInv, PortsTypeOK
  <2>2. step' \in 0 .. 9
    BY <1>1
  <2> QED
    BY <1>1, <2>1, <2>2 DEF PortsInv, PortsTypeOK, listerVars
<1>5. step' = 1 => mat' \in Scanned
  BY <1>1, <1>2, <1>3
<1>6. ASSUME undisturbed, MapperRight PROVE MapperRight'
  <2>1. /\ base = End /\ address = <<mat, "id">> /\ bar = "given" /\ outs = {}
        /\ \A f \in Scanned : Before(f, mat) => cards[f] # "controller"
    BY <1>1, <1>6 DEF MapperRight
  <2>2. DataPort = "controller" <=> cards[mat] = "controller"
    <3>1. PortsTypeOK /\ mat \in Functions /\ address = <<mat, "id">>
      BY <1>2, <2>1 DEF PortsInv
    <3>2. /\ DataPort = IF cards[mat] = "absent" THEN "ones" ELSE cards[mat]
          /\ cards[mat] \in {"controller", "other", "absent"}
      BY ONLY <3>1, PortReadsFunction
    <3> QED
      BY ONLY <3>2
  <2>3. ToFind' = ToFind
    BY <1>1 DEF ToFind
  <2>4. CASE DataPort = "controller"
    <3>1. mat \in ToFind
      BY <1>2, <2>2, <2>4 DEF ToFind
    <3>2. \A g \in ToFind : g # mat => Before(mat, g)
      BY <1>2, <2>1, PortsFacts, BeforeOrder DEF ToFind
    <3>3. First(ToFind) = mat
      BY <3>1, <3>2, PortsFacts, FirstUnique
    <3>4. step' = 2 /\ base' = mat /\ base' # End
      BY <1>1, <1>2, <2>4
    <3> QED
      BY <1>1, <2>1, <2>3, <3>3, <3>4 DEF MapperRight
  <2>5. CASE DataPort # "controller" /\ NextFunction(mat) = End
    <3>1. ToFind = {}
      BY <1>3, <2>1, <2>2, <2>5 DEF ToFind
    <3>2. First(ToFind) = End
      BY <3>1 DEF First
    <3>3. step' = 2 /\ base' = End
      BY <1>1, <2>1, <2>5
    <3> QED
      BY <1>1, <2>1, <2>3, <3>2, <3>3 DEF MapperRight
  <2>6. CASE DataPort # "controller" /\ NextFunction(mat) # End
    <3>1. step' = 1 /\ base' = End /\ mat' = NextFunction(mat)
      BY <1>1, <2>1, <2>6
    <3>2. \A f \in Scanned : Before(f, mat') => cards'[f] # "controller"
      BY <1>1, <1>3, <2>1, <2>2, <2>6, <3>1
    <3> QED
      BY <1>1, <2>1, <3>1, <3>2 DEF MapperRight
  <2> QED
    BY <2>4, <2>5, <2>6
<1>7. step \in 1 .. 8
  BY <1>1
<1> QED
  BY <1>1, <1>4, <1>5, <1>6, <1>7, MapperOwes

\* With a function found the mapper addresses its BAR, without one nothing.
LEMMA BarAddressed ==
  ASSUME PortsInv, MapperRight, half = "data", step # 1
  PROVE  /\ base # End => base \in Functions /\ address = <<base, "bar">>
         /\ base = End => address = Nowhere
<1>1. address = BarAddress
  BY DEF MapperRight
<1>2. base \in Functions \cup {End}
  BY DEF PortsInv, PortsTypeOK
<1> QED
  BY ONLY <1>1, <1>2 DEF BarAddress

LEMMA MapReadStep == PortsInv /\ MapRead => PortsInv'
<1> SUFFICES ASSUME PortsInv, MapRead PROVE PortsInv'
  OBVIOUS
<1>1. /\ step \in {2, 5} /\ half = "data" /\ half' = "index" /\ step' = step + 1
      /\ barVal' = IF step = 2 THEN DataPort ELSE barVal
      /\ UNCHANGED <<cards, bar, address, listerVars, mat, base, outs, undisturbed>>
  BY DEF MapRead
<1>2. step' \in 0 .. 9 /\ step' # 1 /\ step \in 1 .. 8 /\ step # 1
  BY ONLY <1>1
<1>3. PortsTypeOK'
  <2>1. barVal' \in {"given", "mask", "0x2000", "controller", "other", "ones"}
    BY <1>1, PortReads DEF PortsInv, PortsTypeOK
  <2> QED
    BY <1>1, <1>2, <2>1 DEF PortsInv, PortsTypeOK, listerVars
<1>4. ASSUME undisturbed, MapperRight PROVE MapperRight'
  <2>1. ToFind' = ToFind
    BY <1>1 DEF ToFind
  <2>2. barVal' = IF base = End THEN "ones" ELSE "given"
    <3>1. CASE step = 2
      <4>1. bar = "given"
        <5>1. step \notin 5 .. 8
          BY ONLY <3>1
        <5> QED
          BY ONLY <1>4, <5>1 DEF MapperRight
      <4>2. CASE base # End
        <5>1. PortsTypeOK /\ base \in Functions /\ address = <<base, "bar">>
          BY <1>1, <1>2, <1>4, <4>2, BarAddressed DEF PortsInv
        <5>2. DataPort = bar
          BY ONLY <5>1, PortReadsFunction
        <5> QED
          BY <1>1, <3>1, <4>1, <4>2, <5>2
      <4>3. CASE base = End
        <5>1. address = Nowhere
          BY <1>1, <1>2, <1>4, <4>3, BarAddressed
        <5> QED
          BY <1>1, <3>1, <4>3, <5>1, PortReads DEF PortsInv
      <4> QED
        BY <4>2, <4>3
    <3>2. CASE step = 5
      <4>1. step \in 3 .. 9 /\ barVal' = barVal
        BY ONLY <1>1, <3>2
      <4> QED
        BY ONLY <1>4, <4>1 DEF MapperRight
    <3> QED
      BY <1>1, <3>1, <3>2
  <2>3. /\ step \in 2 .. 9 /\ step' \in 2 .. 9
        /\ step' \in 5 .. 8 <=> step = 5
    BY ONLY <1>1
  <2>4. base' = First(ToFind') /\ (step' \notin 5 .. 8 \/ base' = End => bar' = "given")
    <3>1. step \notin 5 .. 8 => bar = "given"
      BY <1>4 DEF MapperRight
    <3>2. step' \notin 5 .. 8 => step \notin 5 .. 8
      BY ONLY <1>1
    <3> QED
      BY <1>1, <1>4, <2>1, <2>3, <3>1, <3>2 DEF MapperRight
  <2>5. outs' \subseteq IF base' = End THEN {"port 3"} ELSE {"its port"}
    BY <1>1, <1>2, <1>4 DEF MapperRight
  <2> QED
    BY <1>1, <1>2, <2>2, <2>4, <2>5 DEF MapperRight
<1> QED
  BY <1>1, <1>2, <1>3, <1>4, MapperOwes

\* What the mapper leaves alone keeps its type.
LEMMA MapperTypes ==
  ASSUME PortsInv, UNCHANGED <<cards, bar, address, listerVars, mat, base, barVal>>,
         step' \in 0 .. 9, half' \in {"index", "data"},
         outs' \subseteq {"its port", "port 3", "another"}, undisturbed' \in BOOLEAN
  PROVE  PortsTypeOK'
<1>1. UNCHANGED <<cards, bar, address, lpc, lat, listed, mat, base, barVal>>
  BY DEF listerVars
<1>2. PortsTypeOK
  BY DEF PortsInv
<1>3. /\ address' \in (Functions \X {"id", "bar"}) \cup {Nowhere}
      /\ cards' \in Cards /\ listed' \subseteq Functions
  BY ONLY <1>1, <1>2 DEF PortsTypeOK
<1>4. /\ bar' \in {"given", "mask", "0x2000", "controller", "other"}
      /\ lpc' \in {"off", "index", "data", "end"} /\ lat' \in Functions \cup {End}
      /\ mat' \in Functions \cup {End} /\ base' \in Functions \cup {End}
      /\ barVal' \in {"given", "mask", "0x2000", "controller", "other", "ones"}
  BY ONLY <1>1, <1>2 DEF PortsTypeOK
<1> QED
  BY ONLY <1>3, <1>4, step' \in 0 .. 9, half' \in {"index", "data"},
     outs' \subseteq {"its port", "port 3", "another"}, undisturbed' \in BOOLEAN DEF PortsTypeOK

LEMMA MapScratchStep == PortsInv /\ MapScratch => PortsInv'
<1> SUFFICES ASSUME PortsInv, MapScratch PROVE PortsInv'
  OBVIOUS
<1> DEFINE port == CASE barVal = "given" -> "its port" [] barVal = "ones" -> "port 3"
                     [] OTHER -> "another"
<1>1. /\ step \in {3, 7} /\ step' = step + 1 /\ outs' = outs \cup {port}
      /\ UNCHANGED <<cards, bar, address, listerVars, half, mat, base, barVal, undisturbed>>
  BY Zenon DEF MapScratch
<1>2. step' \in 0 .. 9 /\ step' # 1 /\ step \in 1 .. 8 /\ step # 1
  <2>1. step \in {3, 7} /\ step' = step + 1
    BY ONLY <1>1
  <2> QED
    BY ONLY <2>1
<1>3. /\ port \in {"its port", "port 3", "another"}
      /\ barVal = "given" => port = "its port"
      /\ barVal = "ones" => port = "port 3"
  <2>1. CASE barVal = "given"
    BY <2>1
  <2>2. CASE barVal = "ones"
    BY <2>2
  <2>3. CASE barVal # "given" /\ barVal # "ones"
    BY <2>3
  <2> QED
    BY <2>1, <2>2, <2>3
<1> HIDE DEF port
<1>4. PortsTypeOK'
  <2>1. outs' \subseteq {"its port", "port 3", "another"}
    BY <1>1, <1>3 DEF PortsInv, PortsTypeOK
  <2>2. half' \in {"index", "data"} /\ undisturbed' \in BOOLEAN
    BY <1>1 DEF PortsInv, PortsTypeOK
  <2> QED
    BY ONLY <1>1, <1>2, <2>1, <2>2, PortsInv, MapperTypes
<1>5. ASSUME undisturbed, MapperRight PROVE MapperRight'
  <2>1. ToFind' = ToFind
    BY <1>1 DEF ToFind
  <2>2. half # "data"
    <3>1. half = "data" => step \in {1, 2, 4, 5, 6, 8}
      BY <1>5 DEF MapperRight
    <3> QED
      BY ONLY <1>1, <3>1
  <2>3. barVal = IF base = End THEN "ones" ELSE "given"
    <3>1. step \in 3 .. 9
      BY ONLY <1>1
    <3> QED
      BY <1>5, <3>1 DEF MapperRight
  <2>4. base' = First(ToFind') /\ (step' \notin 5 .. 8 \/ base' = End => bar' = "given")
    <3>1. /\ step \in 2 .. 9
          /\ step' \notin 5 .. 8 => step \notin 5 .. 8
      BY ONLY <1>1
    <3> QED
      BY <1>1, <1>5, <2>1, <3>1 DEF MapperRight
  <2>5. outs' \subseteq IF base' = End THEN {"port 3"} ELSE {"its port"}
    <3>1. outs \subseteq IF base = End THEN {"port 3"} ELSE {"its port"}
      BY <1>2, <1>5 DEF MapperRight
    <3> QED
      BY <1>1, <1>3, <2>3, <3>1
  <2> QED
    BY <1>1, <1>2, <2>2, <2>3, <2>4, <2>5 DEF MapperRight
<1> QED
  BY <1>1, <1>2, <1>4, <1>5, MapperOwes

LEMMA MapWriteStep == PortsInv /\ MapWrite => PortsInv'
<1> SUFFICES ASSUME PortsInv, MapWrite PROVE PortsInv'
  OBVIOUS
<1> DEFINE val == CASE step = 4 -> "ones" [] step = 6 -> "0x2000" [] step = 8 -> Restores
<1>1. /\ step \in {4, 6, 8} /\ half = "data" /\ half' = "index" /\ step' = step + 1
      /\ bar' = IF address = Nowhere \/ address[2] = "id" THEN bar
                ELSE IF val = "ones" THEN "mask" ELSE val
      /\ UNCHANGED <<cards, address, listerVars, mat, base, barVal, outs, undisturbed>>
  BY DEF MapWrite, WriteData
<1>2. step' \in 0 .. 9 /\ step' # 1 /\ step \in 1 .. 8 /\ step # 1
  BY ONLY <1>1
<1>3. /\ step = 4 => val = "ones"
      /\ step = 6 => val = "0x2000"
      /\ step = 8 => val = barVal
  BY DEF Restores
<1> HIDE DEF val
<1>4. PortsTypeOK'
  <2>1. bar' \in {"given", "mask", "0x2000", "controller", "other"}
    <3>1. /\ bar \in {"given", "mask", "0x2000", "controller", "other"}
          /\ barVal \in {"given", "mask", "0x2000", "controller", "other", "ones"}
      BY DEF PortsInv, PortsTypeOK
    <3> QED
      BY ONLY <1>1, <1>3, <3>1
  <2> QED
    BY <1>1, <1>2, <2>1 DEF PortsInv, PortsTypeOK, listerVars
<1>5. ASSUME undisturbed, MapperRight PROVE MapperRight'
  <2>1. ToFind' = ToFind
    BY <1>1 DEF ToFind
  <2>2. barVal' = IF step' \in 3 .. 9 THEN IF base' = End THEN "ones" ELSE "given" ELSE barVal
    <3>1. step \in 3 .. 9
      BY ONLY <1>1
    <3> QED
      BY <1>1, <1>5, <3>1 DEF MapperRight
  <2>3. base' = First(ToFind')
    <3>1. step \in 2 .. 9
      BY ONLY <1>1
    <3> QED
      BY <1>1, <1>5, <2>1, <3>1 DEF MapperRight
  <2>4. step' \notin 5 .. 8 \/ base' = End => bar' = "given"
    <3>1. CASE base = End
      <4>1. address = Nowhere /\ bar = "given"
        <5>1. address = Nowhere
          BY <1>1, <1>2, <1>5, <3>1, BarAddressed
        <5> QED
          BY <1>5, <3>1, <5>1 DEF MapperRight
      <4> QED
        BY <1>1, <4>1
    <3>2. CASE base # End
      <4>1. base \in Functions /\ address = <<base, "bar">>
        BY <1>1, <1>2, <1>5, <3>2, BarAddressed
      <4>2. address # Nowhere /\ address[2] # "id"
        BY <4>1, PortsFacts
      <4>3. step = 8 => barVal = "given"
        <5>1. step = 8 => step \in 3 .. 9
          OBVIOUS
        <5> QED
          BY ONLY <1>5, <3>2, <5>1 DEF MapperRight
      <4>4. step = 8 => bar' = "given"
        BY ONLY <1>1, <1>3, <4>2, <4>3
      <4>5. step' \notin 5 .. 8 => step = 8
        BY ONLY <1>1
      <4> QED
        BY <1>1, <3>2, <4>4, <4>5
    <3> QED
      BY <3>1, <3>2
  <2>5. outs' \subseteq IF base' = End THEN {"port 3"} ELSE {"its port"}
    BY <1>1, <1>2, <1>5 DEF MapperRight
  <2>6. half' # "data"
    BY <1>1
  <2> QED
    BY ONLY <1>2, <2>2, <2>3, <2>4, <2>5, <2>6 DEF MapperRight
<1> QED
  BY <1>1, <1>2, <1>4, <1>5, MapperOwes

LEMMA KillMapperStep == PortsInv /\ KillMapper => PortsInv'
<1> SUFFICES ASSUME PortsInv, KillMapper PROVE PortsInv'
  OBVIOUS
<1>1. /\ step' = 0 /\ half' = "index" /\ undisturbed' = FALSE
      /\ UNCHANGED <<cards, bar, address, listerVars, mat, base, barVal, outs>>
  BY DEF KillMapper
<1>2. PortsTypeOK'
  <2>1. step' \in 0 .. 9 /\ half' \in {"index", "data"}
    BY ONLY <1>1
  <2>2. undisturbed' \in BOOLEAN
    BY ONLY <1>1
  <2>3. outs' \subseteq {"its port", "port 3", "another"}
    BY <1>1 DEF PortsInv, PortsTypeOK
  <2> QED
    BY ONLY <1>1, <2>1, <2>2, <2>3, PortsInv, MapperTypes
<1>3. LoopsInside'
  BY <1>1 DEF PortsInv, LoopsInside, ListerUp, listerVars
<1> QED
  BY <1>1, <1>2, <1>3 DEF PortsInv

LEMMA PortsStep == PortsInv /\ [PortsNext]_portVars => PortsInv'
<1>1. PortsInv /\ UNCHANGED portVars => PortsInv'
  <2> SUFFICES ASSUME PortsInv, UNCHANGED portVars PROVE PortsInv'
    OBVIOUS
  <2>1. UNCHANGED <<cards, bar, address, lpc, lat, listed, step, half, mat, base, barVal, outs,
                    undisturbed>>
    BY DEF portVars, listerVars, mapperVars
  <2>2. /\ Present(Scanned)' = Present(Scanned) /\ ToFind' = ToFind /\ BarAddress' = BarAddress
        /\ ListerUp' = ListerUp /\ MapperUp' = MapperUp
    BY <2>1 DEF Present, ToFind, BarAddress, ListerUp, MapperUp
  <2>3. PortsTypeOK' /\ LoopsInside'
    <3>1. /\ step' \in 0 .. 9 /\ half' \in {"index", "data"} /\ undisturbed' \in BOOLEAN
          /\ outs' \subseteq {"its port", "port 3", "another"}
      BY <2>1 DEF PortsInv, PortsTypeOK
    <3>2. PortsTypeOK'
      BY ONLY <2>1, <3>1, PortsInv, MapperTypes DEF listerVars
    <3>3. LoopsInside'
      BY <2>1, <2>2 DEF PortsInv, LoopsInside
    <3> QED
      BY <3>2, <3>3
  <2>4. ListerRight => ListerRight'
    BY <2>1, <2>2 DEF ListerRight, Present
  <2>5. MapperRight => MapperRight'
    BY <2>1, <2>2 DEF MapperRight
  <2> QED
    BY <2>1, <2>2, <2>3, <2>4, <2>5 DEF PortsInv
<1> QED
  BY <1>1, ListerStep, MapStartStep, MapIndexStep, MapSearchStep, MapReadStep, MapScratchStep,
     MapWriteStep, KillMapperStep DEF PortsNext

\* Two programs at the address and data ports of the PCI bridge, whatever is
\* plugged in where: a program that nobody disturbs lists what there is, finds
\* the first controller, and leaves its BAR as the firmware had set it.
THEOREM UndisturbedIsRight == PortsSpec => []UndisturbedAccess
<1>1. PortsInv => UndisturbedAccess
  <2> SUFFICES ASSUME PortsInv, undisturbed
      PROVE  /\ lpc = "end" => listed = {f \in Present(Functions) : f[2] < LastFunction}
             /\ ~MapperUp => bar = "given"
             /\ step \in 2 .. 9 =>
                   /\ base = First({f \in Controllers : f[2] < LastFunction})
                   /\ outs \subseteq IF base = End THEN {"port 3"} ELSE {"its port"}
    BY DEF UndisturbedAccess
  <2>1. ListerRight /\ MapperRight
    BY DEF PortsInv
  <2>2. Present(Scanned) = {f \in Present(Functions) : f[2] < LastFunction}
    BY DEF Present, Scanned
  <2>3. ToFind = {f \in Controllers : f[2] < LastFunction}
    BY DEF ToFind, Controllers, Scanned
  <2>4. ~MapperUp => step \notin 5 .. 8
    BY DEF MapperUp
  <2>5. step \in 2 .. 9 => step # 1
    OBVIOUS
  <2> QED
    BY <2>1, <2>2, <2>3, <2>4, <2>5 DEF ListerRight, MapperRight
<1> QED
  BY <1>1, PortsBegin, PortsStep, PTL DEF PortsSpec

LEMMA PortsTypes == PortsSpec => []PortsTypeOK
<1>1. PortsInv => PortsTypeOK
  BY DEF PortsInv
<1> QED
  BY <1>1, PortsBegin, PortsStep, PTL DEF PortsSpec

-----------------------------------------------------------------------------
(***************************************************************************)
(* The character device: what the two global settings of the driver do to  *)
(* texts, and what loading and unloading leave behind, for any number of   *)
(* programs and of loads.                                                  *)
(***************************************************************************)
\* The settings a program means to have when it is at place i of its script.
Meant(i) == IF i \in {4, 5} THEN Shout ELSE IF i \in {8, 9} THEN Secret ELSE Off
TextAt == {1, 2, 4, 6, 8}

LEMMA ScriptOps ==
  /\ Len(Script) = 9
  /\ \A i \in 1 .. 9 : Script[i].op = "text" <=> i \in TextAt
  /\ \A i \in 1 .. 9 : Script[i].op = "ioctl" <=> i \in {3, 5, 7, 9}
  /\ \A i \in TextAt : Script[i].want = Meant(i)
  /\ Script[3].field = "cap" /\ Script[3].value = TRUE
  /\ Script[5].field = "cap" /\ Script[5].value = FALSE
  /\ Script[7].field = "cipher" /\ Script[7].value = TRUE
  /\ Script[9].field = "cipher" /\ Script[9].value = FALSE
<1>1. /\ Len(Script) = 9
      /\ Script[1] = Text(Off) /\ Script[2] = Text(Off) /\ Script[3] = Ioctl("cap", TRUE)
      /\ Script[4] = Text(Shout) /\ Script[5] = Ioctl("cap", FALSE) /\ Script[6] = Text(Off)
      /\ Script[7] = Ioctl("cipher", TRUE) /\ Script[8] = Text(Secret)
      /\ Script[9] = Ioctl("cipher", FALSE)
  BY DEF Script
<1>2. /\ Script[3].field = "cap" /\ Script[3].value = TRUE
      /\ Script[5].field = "cap" /\ Script[5].value = FALSE
      /\ Script[7].field = "cipher" /\ Script[7].value = TRUE
      /\ Script[9].field = "cipher" /\ Script[9].value = FALSE
  BY ONLY <1>1 DEF Ioctl
<1>3. \A i \in 1 .. 9 : i = 1 \/ i = 2 \/ i = 3 \/ i = 4 \/ i = 5 \/ i = 6 \/ i = 7 \/ i = 8 \/ i = 9
  OBVIOUS
<1>4. /\ Script[1].op = "text" /\ Script[2].op = "text" /\ Script[3].op = "ioctl"
      /\ Script[4].op = "text" /\ Script[5].op = "ioctl" /\ Script[6].op = "text"
      /\ Script[7].op = "ioctl" /\ Script[8].op = "text" /\ Script[9].op = "ioctl"
  BY ONLY <1>1 DEF Text, Ioctl
<1>5. \A i \in 1 .. 9 : /\ Script[i].op = "text" <=> i \in TextAt
                        /\ Script[i].op = "ioctl" <=> i \in {3, 5, 7, 9}
  BY ONLY <1>3, <1>4 DEF TextAt
<1>6. /\ Script[1].want = Off /\ Script[2].want = Off /\ Script[4].want = Shout
      /\ Script[6].want = Off /\ Script[8].want = Secret
  BY ONLY <1>1 DEF Text
<1>7. \A i \in TextAt : Script[i].want = Meant(i)
  BY ONLY <1>6 DEF TextAt, Meant
<1> QED
  BY <1>1, <1>2, <1>5, <1>7

-----------------------------------------------------------------------------
(***************************************************************************)
(* The inductive invariant of the character device.                        *)
(***************************************************************************)
ClosedIsIdle == \A a \in Apps : /\ apc[a] = 0 <=> file[a] = 0
                                /\ apc[a] = 0 => got[a] = {}
                                /\ taken[a] # {} => apc[a] \in TextAt

\* A setting that is on has been set by a program that will set it off.
SettingHasOwner ==
    ~killed => /\ settings.cap => \E a \in Apps : apc[a] \in {4, 5}
               /\ settings.cipher => \E a \in Apps : apc[a] \in {8, 9}

\* Who was alone when it opened the device, and is, finds its own settings.
AloneSeesItsOwn ==
    \A a \in Apps : alone[a] /\ apc[a] # 0 =>
        /\ ~killed
        /\ \A b \in Apps \ {a} : apc[b] = 0
        /\ Resident(file[a]) => /\ settings = Meant(apc[a])
                                /\ \A v \in taken[a] : v = Meant(apc[a]).cap
        /\ got[a] # {} => apc[a] - 1 \in TextAt /\ got[a] = {Meant(apc[a] - 1)}

LoadCounted == module # "out" => load # 0

\* What is registered, by where loading and unloading are.
Registered ==
    ~failed =>
        /\ chrdevs \subseteq {load}
        /\ module \in {"out", "register"} => chrdevs = {}
        /\ module \in {"out", "register", "create class", "unregister"} => ~class
        /\ module \notin {"in", "destroy device"} => ~device
        /\ \A a \in Apps : file[a] # 0 =>
              file[a] = load /\ module \in {"create class", "create device", "in"}

MppInv == MppTypeOK /\ ClosedIsIdle /\ SettingHasOwner /\ AloneSeesItsOwn
          /\ LoadCounted /\ Registered

LEMMA LoadRange ==
  ASSUME MppInv
  PROVE  /\ load \in Nat /\ load <= MaxLoads /\ chrdevs \subseteq 1 .. load
         /\ file \in [Apps -> 0 .. load]
<1>1. load \in 0 .. MaxLoads /\ chrdevs \subseteq 1 .. load /\ file \in [Apps -> 0 .. load]
  BY Zenon DEF MppInv, MppTypeOK
<1> QED
  BY ONLY <1>1, MppAssumption DEF MppAssumption

LEMMA MppInitInv == MppInit => MppInv
<1> SUFFICES ASSUME MppInit PROVE MppInv
  OBVIOUS
<1>1. MppTypeOK
  <2>1. settings \in Settings /\ 0 \in 0 .. MaxLoads /\ 0 \in 0 .. Len(Script) + 1
    BY MppAssumption, ScriptOps DEF MppInit, Settings, Off, MppAssumption
  <2>2. /\ apc \in [Apps -> 0 .. Len(Script) + 1] /\ file \in [Apps -> 0 .. load]
        /\ taken \in [Apps -> SUBSET BOOLEAN] /\ got \in [Apps -> SUBSET Settings]
        /\ alone \in [Apps -> BOOLEAN]
    BY <2>1 DEF MppInit
  <2>3. chrdevs \subseteq 1 .. load /\ load \in 0 .. MaxLoads
    BY <2>1 DEF MppInit
  <2> QED
    BY <2>1, <2>2, <2>3 DEF MppInit, MppTypeOK
<1>2. ClosedIsIdle /\ AloneSeesItsOwn /\ LoadCounted /\ Registered
  BY DEF MppInit, ClosedIsIdle, AloneSeesItsOwn, LoadCounted, Registered
<1>3. SettingHasOwner
  BY DEF MppInit, SettingHasOwner, Off
<1> QED
  BY <1>1, <1>2, <1>3 DEF MppInv

\* Loading and unloading, once begun, leaves the settings and the programs alone.
LEMMA ProgramsUndisturbed ==
  ASSUME MppInv, UNCHANGED <<load, settings, appVars, killed>>, module = "out" => module' = "out"
  PROVE  ClosedIsIdle' /\ SettingHasOwner' /\ AloneSeesItsOwn'
BY DEF MppInv, ClosedIsIdle, SettingHasOwner, AloneSeesItsOwn, Resident, appVars

LEMMA InsmodStep ==
  ASSUME MppInv, Insmod
  PROVE  MppInv'
<1>1. MppTypeOK'
  <2>1. Off \in Settings /\ load + 1 \in 0 .. MaxLoads /\ chrdevs \subseteq 1 .. load + 1
    BY MppAssumption DEF MppInv, MppTypeOK, Insmod, Settings, Off, MppAssumption
  <2>2. file \in [Apps -> 0 .. load + 1]
    <3>1. load \in Nat /\ file \in [Apps -> 0 .. load]
      BY LoadRange
    <3>2. 0 .. load \subseteq 0 .. load + 1
      BY <3>1
    <3> QED
      BY ONLY <3>1, <3>2
  <2>3. module' \in {"out", "register", "create class", "create device", "in",
                     "destroy device", "destroy class", "unregister"}
    BY DEF Insmod
  <2>4. load' \in 0 .. MaxLoads /\ chrdevs' \subseteq 1 .. load' /\ settings' \in Settings
    BY <2>1 DEF Insmod
  <2>5. /\ class' \in BOOLEAN /\ device' \in BOOLEAN /\ failed' \in BOOLEAN /\ killed' \in BOOLEAN
    BY DEF MppInv, MppTypeOK, Insmod
  <2>6. /\ apc' \in [Apps -> 0 .. Len(Script) + 1] /\ file' \in [Apps -> 0 .. load']
        /\ taken' \in [Apps -> SUBSET BOOLEAN] /\ got' \in [Apps -> SUBSET Settings]
        /\ alone' \in [Apps -> BOOLEAN]
    BY <2>2 DEF MppInv, MppTypeOK, Insmod, appVars
  <2> QED
    BY <2>3, <2>4, <2>5, <2>6 DEF MppTypeOK
<1>2. ClosedIsIdle' /\ SettingHasOwner'
  BY DEF MppInv, ClosedIsIdle, SettingHasOwner, Insmod, appVars, Off
<1>3. ASSUME NEW a \in Apps PROVE ~Resident(file[a])'
  BY MppAssumption DEF MppInv, MppTypeOK, Insmod, Resident, appVars, MppAssumption
<1>4. AloneSeesItsOwn'
  BY <1>3 DEF MppInv, AloneSeesItsOwn, Insmod, appVars
<1>5. LoadCounted' /\ Registered'
  BY MppAssumption DEF MppInv, MppTypeOK, LoadCounted, Registered, Insmod, appVars, MppAssumption
<1> QED
  BY <1>1, <1>2, <1>4, <1>5 DEF MppInv

LEMMA LoaderStep ==
  ASSUME MppInv, \/ RegisterChrdev \/ CreateClass \/ CreateDevice
                 \/ Rmmod \/ DestroyDeviceNode \/ DestroyClass \/ UnregisterChrdev
  PROVE  MppInv'
<1>1. UNCHANGED <<load, settings, appVars, killed>> /\ module # "out"
  BY DEF RegisterChrdev, CreateClass, CreateDevice, Rmmod, DestroyDeviceNode, DestroyClass,
         UnregisterChrdev
<1>2. ClosedIsIdle' /\ SettingHasOwner' /\ AloneSeesItsOwn'
  BY <1>1, ProgramsUndisturbed
<1>3. LoadCounted'
  BY <1>1 DEF MppInv, LoadCounted
<1>4. MppTypeOK'
  <2>1. load \in Nat \ {0}
    <3>1. load # 0
      BY <1>1 DEF MppInv, LoadCounted
    <3> QED
      BY ONLY <3>1, LoadRange, MppInv
  <2>2. chrdevs' \subseteq 1 .. load
    <3>1. chrdevs' \subseteq chrdevs \cup {load}
      BY DEF RegisterChrdev, CreateClass, CreateDevice, Rmmod, DestroyDeviceNode, DestroyClass,
             UnregisterChrdev, Unregistered
    <3>2. load \in 1 .. load
      BY <2>1
    <3>3. chrdevs \subseteq 1 .. load
      BY LoadRange
    <3> QED
      BY ONLY <3>1, <3>2, <3>3
  <2>3. module' \in {"out", "register", "create class", "create device", "in",
                     "destroy device", "destroy class", "unregister"}
    BY DEF RegisterChrdev, CreateClass, CreateDevice, Rmmod, DestroyDeviceNode, DestroyClass,
           UnregisterChrdev
  <2>4. class' \in BOOLEAN /\ device' \in BOOLEAN /\ failed' \in BOOLEAN
    <3>1. /\ class' \in {class, TRUE, FALSE} /\ device' \in {device, TRUE, FALSE}
          /\ failed' \in {failed, TRUE}
      BY Zenon DEF RegisterChrdev, CreateClass, CreateDevice, Rmmod, DestroyDeviceNode,
             DestroyClass, UnregisterChrdev
    <3> QED
      BY <3>1 DEF MppInv, MppTypeOK
  <2> QED
    BY <1>1, <2>2, <2>3, <2>4 DEF MppInv, MppTypeOK, appVars
<1>5. Registered'
  <2> SUFFICES ASSUME ~failed' PROVE Registered'
    BY DEF Registered
  <2>1. ~failed
    BY DEF RegisterChrdev, CreateClass, CreateDevice, Rmmod, DestroyDeviceNode, DestroyClass,
           UnregisterChrdev
  <2> USE <1>1, <2>1 DEF MppInv, Registered, appVars
  <2>2. CASE RegisterChrdev
    BY <2>2 DEF RegisterChrdev
  <2>3. CASE CreateClass
    BY <2>3 DEF CreateClass
  <2>4. CASE CreateDevice
    BY <2>4 DEF CreateDevice
  <2>5. CASE Rmmod
    BY <2>5 DEF Rmmod, IsOpen
  <2>6. CASE DestroyDeviceNode
    BY <2>6 DEF DestroyDeviceNode
  <2>7. CASE DestroyClass
    BY <2>7 DEF DestroyClass
  <2>8. CASE UnregisterChrdev
    BY <2>8 DEF UnregisterChrdev, Unregistered
  <2> QED
    BY <2>2, <2>3, <2>4, <2>5, <2>6, <2>7, <2>8
<1> QED
  BY <1>2, <1>3, <1>4, <1>5 DEF MppInv

-----------------------------------------------------------------------------
(***************************************************************************)
(* The steps of a program that uses the character device.                  *)
(***************************************************************************)
LEMMA AppRange ==
  ASSUME MppInv
  PROVE  /\ settings \in Settings
         /\ apc \in [Apps -> 0 .. 10] /\ file \in [Apps -> 0 .. load]
         /\ taken \in [Apps -> SUBSET BOOLEAN] /\ got \in [Apps -> SUBSET Settings]
         /\ alone \in [Apps -> BOOLEAN] /\ killed \in BOOLEAN
<1>1. /\ settings \in Settings
      /\ apc \in [Apps -> 0 .. Len(Script) + 1] /\ file \in [Apps -> 0 .. load]
      /\ taken \in [Apps -> SUBSET BOOLEAN] /\ got \in [Apps -> SUBSET Settings]
      /\ alone \in [Apps -> BOOLEAN] /\ killed \in BOOLEAN
  BY Zenon DEF MppInv, MppTypeOK
<1>2. Len(Script) + 1 = 10
  BY ScriptOps
<1> QED
  BY ONLY <1>1, <1>2, Zenon

\* What an ioctl of the script does to the settings.
LEMMA SetToOps ==
  ASSUME settings \in Settings, NEW i \in {3, 5, 7, 9}
  PROVE  LET s == SetTo(Script[i].field, Script[i].value)
         IN  /\ s \in Settings
             /\ s.cap => settings.cap \/ i = 3
             /\ s.cipher => settings.cipher \/ i = 7
             /\ i = 5 => ~s.cap
             /\ i = 9 => ~s.cipher
             /\ settings = Meant(i) => s = Meant(i + 1)
<1> DEFINE s == SetTo(Script[i].field, Script[i].value)
<1> HIDE DEF s
<1> SUFFICES /\ s \in Settings
             /\ s.cap => settings.cap \/ i = 3
             /\ s.cipher => settings.cipher \/ i = 7
             /\ i = 5 => ~s.cap
             /\ i = 9 => ~s.cipher
             /\ settings = Meant(i) => s = Meant(i + 1)
  BY DEF s
<1>1. CASE i = 3
  <2>1. s = [settings EXCEPT !.cap = TRUE]
    BY <1>1, ScriptOps DEF SetTo, s
  <2>2. Meant(i) = Off /\ Meant(i + 1) = Shout
    BY ONLY <1>1 DEF Meant
  <2>3. /\ s \in Settings /\ s.cap = TRUE /\ s.cipher = settings.cipher
    BY ONLY <2>1, settings \in Settings DEF Settings
  <2>4. settings = Off => s = Shout
    BY ONLY <2>1 DEF Off, Shout, Secret
  <2> QED
    BY ONLY <1>1, <2>2, <2>3, <2>4
<1>2. CASE i = 5
  <2>1. s = [settings EXCEPT !.cap = FALSE]
    BY <1>2, ScriptOps DEF SetTo, s
  <2>2. Meant(i) = Shout /\ Meant(i + 1) = Off
    BY ONLY <1>2 DEF Meant
  <2>3. /\ s \in Settings /\ s.cap = FALSE /\ s.cipher = settings.cipher
    BY ONLY <2>1, settings \in Settings DEF Settings
  <2>4. settings = Shout => s = Off
    BY ONLY <2>1 DEF Off, Shout, Secret
  <2> QED
    BY ONLY <1>2, <2>2, <2>3, <2>4
<1>3. CASE i = 7
  <2>1. s = [settings EXCEPT !.cipher = TRUE]
    BY <1>3, ScriptOps DEF SetTo, s
  <2>2. Meant(i) = Off /\ Meant(i + 1) = Secret
    BY ONLY <1>3 DEF Meant
  <2>3. /\ s \in Settings /\ s.cipher = TRUE /\ s.cap = settings.cap
    BY ONLY <2>1, settings \in Settings DEF Settings
  <2>4. settings = Off => s = Secret
    BY ONLY <2>1 DEF Off, Shout, Secret
  <2> QED
    BY ONLY <1>3, <2>2, <2>3, <2>4
<1>4. CASE i = 9
  <2>1. s = [settings EXCEPT !.cipher = FALSE]
    BY <1>4, ScriptOps DEF SetTo, s
  <2>2. Meant(i) = Secret /\ Meant(i + 1) = Off
    BY ONLY <1>4 DEF Meant
  <2>3. /\ s \in Settings /\ s.cipher = FALSE /\ s.cap = settings.cap
    BY ONLY <2>1, settings \in Settings DEF Settings
  <2>4. settings = Secret => s = Off
    BY ONLY <2>1 DEF Off, Shout, Secret
  <2> QED
    BY ONLY <1>4, <2>2, <2>3, <2>4
<1> QED
  BY <1>1, <1>2, <1>3, <1>4

\* Where a program is when it is at a text, or at an ioctl.
LEMMA AtOps ==
  ASSUME MppInv, NEW a \in Apps
  PROVE  /\ AtText(a) => apc[a] \in TextAt
         /\ apc[a] \in 1 .. Len(Script) /\ Now(a).op = "ioctl" => apc[a] \in {3, 5, 7, 9}
<1>1. apc[a] \in 1 .. 9 => /\ Script[apc[a]].op = "text" <=> apc[a] \in TextAt
                           /\ Script[apc[a]].op = "ioctl" <=> apc[a] \in {3, 5, 7, 9}
  BY ONLY ScriptOps
<1>2. Len(Script) = 9
  BY ONLY ScriptOps
<1> QED
  BY ONLY <1>1, <1>2 DEF AtText, Now

\* A step of a program registers nothing, and opens nothing but what is registered.
LEMMA KernelKept ==
  ASSUME MppInv, KernelSame,
         \A a \in Apps : \/ file'[a] = file[a] \/ file'[a] = 0
                         \/ /\ file'[a] \in chrdevs
                            /\ module \notin {"destroy device", "destroy class", "unregister"}
  PROVE  LoadCounted' /\ Registered'
<1>1. module \in {"out", "register", "create class", "create device", "in",
                  "destroy device", "destroy class", "unregister"}
  BY Zenon DEF MppInv, MppTypeOK
<1>2. UNCHANGED <<module, load, chrdevs, class, device, failed>>
  BY DEF KernelSame, kernelVars
<1>3. LoadCounted /\ Registered
  BY DEF MppInv
<1>4. LoadCounted'
  BY ONLY <1>2, <1>3 DEF LoadCounted
<1>5. Registered'
  <2> SUFFICES ASSUME ~failed PROVE Registered'
    BY <1>2 DEF Registered
  <2>1. /\ chrdevs \subseteq {load}
        /\ module \in {"out", "register"} => chrdevs = {}
        /\ \A a \in Apps : file[a] # 0 =>
              file[a] = load /\ module \in {"create class", "create device", "in"}
    BY <1>3 DEF Registered
  <2>2. ASSUME NEW a \in Apps, file'[a] # 0
        PROVE  file'[a] = load /\ module \in {"create class", "create device", "in"}
    BY ONLY <1>1, <2>1, <2>2,
         \A b \in Apps : \/ file'[b] = file[b] \/ file'[b] = 0
                         \/ /\ file'[b] \in chrdevs
                            /\ module \notin {"destroy device", "destroy class", "unregister"}
  <2> QED
    BY ONLY <1>2, <1>3, <2>2 DEF Registered
<1> QED
  BY <1>4, <1>5

LEMMA ProgramTypes ==
  ASSUME MppInv, KernelSame, settings' \in Settings, killed' \in BOOLEAN,
         apc' \in [Apps -> 0 .. 10], file' \in [Apps -> 0 .. load],
         taken' \in [Apps -> SUBSET BOOLEAN], got' \in [Apps -> SUBSET Settings],
         alone' \in [Apps -> BOOLEAN]
  PROVE  MppTypeOK'
<1>1. Len(Script) + 1 = 10
  BY ScriptOps
<1>2. UNCHANGED <<module, load, chrdevs, class, device, failed>>
  BY DEF KernelSame, kernelVars
<1>3. apc' \in [Apps -> 0 .. Len(Script) + 1]
  BY ONLY <1>1, apc' \in [Apps -> 0 .. 10]
<1> QED
  BY <1>2, <1>3, Zenon DEF MppInv, MppTypeOK

LEMMA OpenStep ==
  ASSUME MppInv, NEW a \in Apps, NEW l \in 1 .. MaxLoads, OpenMpp(a, l)
  PROVE  MppInv'
<1>1. /\ file[a] = 0 /\ apc[a] = 0 /\ l \in chrdevs /\ l \in 1 .. load
      /\ apc' = [apc EXCEPT ![a] = 1] /\ file' = [file EXCEPT ![a] = l]
      /\ UNCHANGED <<settings, taken, got, killed>> /\ KernelSame
  BY LoadRange DEF OpenMpp, IsOpen, MppInv, ClosedIsIdle
<1>0. /\ alone' = [b \in Apps |-> b = a /\ ~killed /\ \A c \in Apps \ {a} : file[c] = 0]
      /\ module \notin {"destroy device", "destroy class", "unregister"}
  BY DEF OpenMpp, IsOpen
<1>2. MppTypeOK'
  <2>1. apc' \in [Apps -> 0 .. 10]
    BY ONLY <1>1, AppRange, MppInv
  <2>2. file' \in [Apps -> 0 .. load]
    BY ONLY <1>1, AppRange, LoadRange, MppInv
  <2>3. alone' \in [Apps -> BOOLEAN]
    BY ONLY <1>0, Zenon
  <2> QED
    BY <1>1, <2>1, <2>2, <2>3, AppRange, ProgramTypes
<1>3. ClosedIsIdle'
  BY <1>1, AppRange DEF MppInv, ClosedIsIdle, TextAt
<1>4. SettingHasOwner'
  BY <1>1, AppRange DEF MppInv, SettingHasOwner
<1>5. AloneSeesItsOwn'
  <2> SUFFICES ASSUME NEW b \in Apps, (alone[b] /\ apc[b] # 0)'
               PROVE  (/\ ~killed
                       /\ \A c \in Apps \ {b} : apc[c] = 0
                       /\ Resident(file[b]) => /\ settings = Meant(apc[b])
                                               /\ \A v \in taken[b] : v = Meant(apc[b]).cap
                       /\ got[b] # {} => apc[b] - 1 \in TextAt /\ got[b] = {Meant(apc[b] - 1)})'
    BY DEF AloneSeesItsOwn
  <2>1. b = a /\ ~killed /\ \A c \in Apps \ {a} : file[c] = 0
    BY <1>0
  <2>2. \A c \in Apps : apc[c] = 0
    BY <1>1, <2>1 DEF MppInv, ClosedIsIdle
  <2>3. ~settings.cap /\ ~settings.cipher
    BY <2>1, <2>2 DEF MppInv, SettingHasOwner
  <2>4. settings = Off
    BY ONLY <2>3, AppRange, MppInv DEF Settings, Off
  <2>5. got[a] = {} /\ taken[a] = {} /\ apc'[a] = 1
    BY <1>1, AppRange DEF MppInv, ClosedIsIdle, TextAt
  <2>6. Meant(1) = Off
    BY DEF Meant
  <2> QED
    BY ONLY <1>1, <2>1, <2>2, <2>4, <2>5, <2>6, AppRange, MppInv
<1>6. LoadCounted' /\ Registered'
  BY <1>0, <1>1, AppRange, KernelKept
<1> QED
  BY <1>2, <1>3, <1>4, <1>5, <1>6 DEF MppInv

LEMMA TakeCapitalStep ==
  ASSUME MppInv, NEW a \in Apps, TakeCapital(a)
  PROVE  MppInv'
<1>1. /\ apc[a] \in TextAt /\ taken[a] = {} /\ Resident(file[a])
      /\ taken' = [taken EXCEPT ![a] = {settings.cap}]
      /\ UNCHANGED <<settings, apc, file, got, alone, killed>> /\ KernelSame
      /\ UNCHANGED <<module, load>>
  BY AtOps DEF TakeCapital, KernelSame, kernelVars
<1>2. MppTypeOK'
  <2>1. settings.cap \in BOOLEAN
    BY ONLY AppRange, MppInv DEF Settings
  <2>2. taken' \in [Apps -> SUBSET BOOLEAN]
    BY ONLY <1>1, <2>1, AppRange, MppInv
  <2> QED
    BY <1>1, <2>2, AppRange, ProgramTypes
<1>3. ClosedIsIdle' /\ SettingHasOwner'
  BY <1>1, AppRange DEF MppInv, ClosedIsIdle, SettingHasOwner
<1>4. AloneSeesItsOwn'
  BY <1>1, AppRange DEF MppInv, AloneSeesItsOwn, Resident
<1>5. LoadCounted' /\ Registered'
  BY <1>1, KernelKept
<1> QED
  BY <1>2, <1>3, <1>4, <1>5 DEF MppInv

LEMMA TakeCipherStep ==
  ASSUME MppInv, NEW a \in Apps, TakeCipher(a)
  PROVE  MppInv'
<1> DEFINE Treated == {s \in Settings : s.cap \in taken[a] /\ s.cipher = settings.cipher}
<1>1. /\ apc[a] \in TextAt /\ taken[a] # {} /\ Resident(file[a])
      /\ got' = [got EXCEPT ![a] = Treated] /\ taken' = [taken EXCEPT ![a] = {}]
      /\ apc' = [apc EXCEPT ![a] = apc[a] + 1]
      /\ UNCHANGED <<settings, file, alone, killed>> /\ KernelSame
      /\ UNCHANGED <<module, load>>
  BY AtOps DEF TakeCipher, KernelSame, kernelVars, Advance
<1>2. MppTypeOK'
  <2>1. apc' \in [Apps -> 0 .. 10]
    BY ONLY <1>1, AppRange, MppInv DEF TextAt
  <2>2. taken' \in [Apps -> SUBSET BOOLEAN]
    BY ONLY <1>1, AppRange, MppInv
  <2>3. Treated \in SUBSET Settings
    OBVIOUS
  <2>4. got' \in [Apps -> SUBSET Settings]
    BY ONLY <1>1, <2>3, AppRange, MppInv
  <2> QED
    BY <1>1, <2>1, <2>2, <2>4, AppRange, ProgramTypes
<1> HIDE DEF Treated
<1>3. ClosedIsIdle'
  BY <1>1, AppRange DEF MppInv, ClosedIsIdle, TextAt
<1>4. SettingHasOwner'
  <2>1. \A b \in Apps : /\ apc[b] \in {4, 5} => apc'[b] \in {4, 5}
                        /\ apc[b] \in {8, 9} => apc'[b] \in {8, 9}
    BY ONLY <1>1, AppRange, MppInv DEF TextAt
  <2> QED
    BY <1>1, <2>1 DEF MppInv, SettingHasOwner
<1>5. AloneSeesItsOwn'
  <2>1. ASSUME alone[a]
        PROVE  /\ settings = Meant(apc[a]) /\ settings = Meant(apc[a] + 1)
               /\ Treated = {Meant(apc[a])}
    <3>1. settings = Meant(apc[a]) /\ \A v \in taken[a] : v = Meant(apc[a]).cap
      BY <1>1, <2>1 DEF MppInv, AloneSeesItsOwn, TextAt
    <3>2. Meant(apc[a] + 1) = Meant(apc[a])
      BY <1>1 DEF TextAt, Meant
    <3>3. taken[a] = {settings.cap}
      BY ONLY <1>1, <3>1
    <3>4. \A s \in Settings : s.cap = settings.cap /\ s.cipher = settings.cipher => s = settings
      BY ONLY AppRange, MppInv DEF Settings
    <3>5. Treated = {settings}
      BY ONLY <3>3, <3>4, AppRange, MppInv DEF Treated
    <3> QED
      BY ONLY <3>1, <3>2, <3>5
  <2>2. ASSUME NEW b \in Apps, alone[b], apc'[b] # 0
        PROVE  /\ ~killed
               /\ \A c \in Apps \ {b} : apc'[c] = 0
    BY <1>1, <2>2, AppRange DEF MppInv, AloneSeesItsOwn, TextAt
  <2>3. ASSUME NEW b \in Apps, alone[b], apc'[b] # 0
        PROVE  /\ Resident(file[b])' => /\ settings = Meant(apc'[b])
                                        /\ \A v \in taken'[b] : v = Meant(apc'[b]).cap
               /\ got'[b] # {} => apc'[b] - 1 \in TextAt /\ got'[b] = {Meant(apc'[b] - 1)}
    <3>1. b = a
      BY <1>1, <2>2, <2>3, AppRange DEF TextAt
    <3>2. apc'[a] = apc[a] + 1 /\ apc'[a] - 1 = apc[a] /\ taken'[a] = {} /\ got'[a] = Treated
      BY ONLY <1>1, AppRange, MppInv
    <3> QED
      BY <1>1, <2>1, <2>3, <3>1, <3>2
  <2> QED
    BY <1>1, <2>2, <2>3 DEF AloneSeesItsOwn
<1>6. LoadCounted' /\ Registered'
  BY <1>1, KernelKept
<1> QED
  BY <1>2, <1>3, <1>4, <1>5, <1>6 DEF MppInv

LEMMA MppIoctlStep ==
  ASSUME MppInv, NEW a \in Apps, MppIoctl(a)
  PROVE  MppInv'
<1> DEFINE i == apc[a]
<1>1. /\ i \in {3, 5, 7, 9} /\ Resident(file[a])
      /\ got' = [got EXCEPT ![a] = {}] /\ apc' = [apc EXCEPT ![a] = apc[a] + 1]
      /\ UNCHANGED <<file, taken, alone, killed>> /\ KernelSame
      /\ UNCHANGED <<module, load>>
  BY AtOps DEF MppIoctl, KernelSame, kernelVars, Advance
<1>2. /\ settings' \in Settings
      /\ settings'.cap => settings.cap \/ i = 3
      /\ settings'.cipher => settings.cipher \/ i = 7
      /\ i = 5 => ~settings'.cap
      /\ i = 9 => ~settings'.cipher
      /\ settings = Meant(i) => settings' = Meant(i + 1)
  <2>1. settings' = SetTo(Script[i].field, Script[i].value)
    BY DEF MppIoctl, Now
  <2>2. settings \in Settings
    BY AppRange
  <2> QED
    BY ONLY <1>1, <2>1, <2>2, SetToOps
<1>3. MppTypeOK'
  <2>1. apc' \in [Apps -> 0 .. 10]
    BY ONLY <1>1, AppRange, MppInv
  <2>2. got' \in [Apps -> SUBSET Settings]
    BY ONLY <1>1, AppRange, MppInv
  <2> QED
    BY <1>1, <1>2, <2>1, <2>2, AppRange, ProgramTypes
<1>4. apc'[a] = i + 1 /\ taken[a] = {} /\ got'[a] = {}
  BY <1>1, AppRange DEF MppInv, ClosedIsIdle, TextAt
<1>5. ClosedIsIdle'
  BY <1>1, <1>4, AppRange DEF MppInv, ClosedIsIdle, TextAt
<1>6. SettingHasOwner'
  <2> SUFFICES ASSUME ~killed
               PROVE  /\ settings'.cap => \E b \in Apps : apc'[b] \in {4, 5}
                      /\ settings'.cipher => \E b \in Apps : apc'[b] \in {8, 9}
    BY <1>1 DEF SettingHasOwner
  <2>1. \A b \in Apps \ {a} : apc'[b] = apc[b]
    BY ONLY <1>1, AppRange, MppInv
  <2>2. /\ settings.cap => \E b \in Apps : apc[b] \in {4, 5}
        /\ settings.cipher => \E b \in Apps : apc[b] \in {8, 9}
    BY DEF MppInv, SettingHasOwner
  <2>3. ASSUME settings'.cap PROVE \E b \in Apps : apc'[b] \in {4, 5}
    <3>1. CASE i = 3
      BY <1>4, <3>1
    <3>2. CASE i # 3
      <4>1. PICK b \in Apps : apc[b] \in {4, 5}
        BY <1>2, <2>2, <2>3, <3>2
      <4>2. b # a
        BY <1>1, <1>2, <2>3, <4>1
      <4> QED
        BY ONLY <2>1, <4>1, <4>2
    <3> QED
      BY <3>1, <3>2
  <2>4. ASSUME settings'.cipher PROVE \E b \in Apps : apc'[b] \in {8, 9}
    <3>1. CASE i = 7
      BY <1>4, <3>1
    <3>2. CASE i # 7
      <4>1. PICK b \in Apps : apc[b] \in {8, 9}
        BY <1>2, <2>2, <2>4, <3>2
      <4>2. b # a
        BY <1>1, <1>2, <2>4, <4>1
      <4> QED
        BY ONLY <2>1, <4>1, <4>2
    <3> QED
      BY <3>1, <3>2
  <2> QED
    BY <2>3, <2>4
<1>7. AloneSeesItsOwn'
  <2>1. ASSUME NEW b \in Apps, alone[b], apc'[b] # 0
        PROVE  /\ ~killed /\ b = a
               /\ \A c \in Apps \ {b} : apc'[c] = 0
    BY <1>1, <1>4, <2>1, AppRange DEF MppInv, AloneSeesItsOwn
  <2>2. ASSUME alone[a] PROVE settings' = Meant(apc'[a])
    <3>1. settings = Meant(i)
      BY <1>1, <2>2 DEF MppInv, AloneSeesItsOwn
    <3> QED
      BY ONLY <1>2, <1>4, <3>1
  <2> QED
    BY <1>1, <1>4, <2>1, <2>2 DEF AloneSeesItsOwn
<1>8. LoadCounted' /\ Registered'
  BY <1>1, KernelKept
<1> QED
  BY <1>3, <1>5, <1>6, <1>7, <1>8 DEF MppInv

\* A program that closes its file is past its script; one that is killed may be
\* the one that set what is on, and says so.
LEMMA LeaveStep ==
  ASSUME MppInv, NEW a \in Apps, CloseMpp(a) \/ KillApp(a)
  PROVE  MppInv'
<1>1. /\ apc' = [apc EXCEPT ![a] = 0] /\ file' = [file EXCEPT ![a] = 0]
      /\ got' = [got EXCEPT ![a] = {}]
      /\ UNCHANGED <<settings, taken, alone>> /\ KernelSame
      /\ UNCHANGED <<module, load>>
  BY DEF CloseMpp, KillApp, KernelSame, kernelVars
<1>2. \/ apc[a] = 10 /\ killed' = killed
      \/ apc[a] \in 1 .. 9 /\ taken[a] = {} /\ killed' = TRUE
  BY ScriptOps DEF CloseMpp, KillApp
<1>3. taken[a] = {} /\ apc[a] # 0
  BY <1>2 DEF MppInv, ClosedIsIdle, TextAt
<1>4. MppTypeOK'
  <2>1. apc' \in [Apps -> 0 .. 10]
    BY ONLY <1>1, AppRange, MppInv
  <2>2. file' \in [Apps -> 0 .. load]
    BY ONLY <1>1, AppRange, LoadRange, MppInv
  <2>3. got' \in [Apps -> SUBSET Settings]
    BY ONLY <1>1, AppRange, MppInv
  <2>4. killed' \in BOOLEAN
    BY ONLY <1>2, AppRange, MppInv
  <2> QED
    BY <1>1, <2>1, <2>2, <2>3, <2>4, AppRange, ProgramTypes
<1>5. ClosedIsIdle'
  BY <1>1, <1>3, AppRange DEF MppInv, ClosedIsIdle
<1>6. SettingHasOwner'
  <2> SUFFICES ASSUME apc[a] = 10, killed' = killed PROVE SettingHasOwner'
    BY <1>2 DEF SettingHasOwner
  <2>1. \A b \in Apps : /\ apc[b] \in {4, 5} => apc'[b] \in {4, 5}
                        /\ apc[b] \in {8, 9} => apc'[b] \in {8, 9}
    BY <1>1, AppRange
  <2> QED
    BY <1>1, <2>1 DEF MppInv, SettingHasOwner
<1>7. AloneSeesItsOwn'
  <2> SUFFICES ASSUME NEW b \in Apps, alone[b], apc'[b] # 0 PROVE FALSE
    BY <1>1 DEF AloneSeesItsOwn
  <2>1. b # a /\ apc[b] # 0
    BY <1>1, AppRange
  <2> QED
    BY <1>3, <2>1 DEF MppInv, AloneSeesItsOwn
<1>8. LoadCounted' /\ Registered'
  BY <1>1, AppRange, KernelKept
<1> QED
  BY <1>4, <1>5, <1>6, <1>7, <1>8 DEF MppInv

LEMMA MppNextInv == MppInv /\ [MppNext]_mppVars => MppInv'
<1> SUFFICES ASSUME MppInv, [MppNext]_mppVars PROVE MppInv'
  OBVIOUS
<1>1. CASE Insmod
  BY <1>1, InsmodStep
<1>2. CASE \/ RegisterChrdev \/ CreateClass \/ CreateDevice
           \/ Rmmod \/ DestroyDeviceNode \/ DestroyClass \/ UnregisterChrdev
  BY <1>2, LoaderStep
<1>3. ASSUME NEW a \in Apps, NEW l \in 1 .. MaxLoads, OpenMpp(a, l) PROVE MppInv'
  BY <1>3, OpenStep
<1>4. ASSUME NEW a \in Apps, TakeCapital(a) PROVE MppInv'
  BY <1>4, TakeCapitalStep
<1>5. ASSUME NEW a \in Apps, TakeCipher(a) PROVE MppInv'
  BY <1>5, TakeCipherStep
<1>6. ASSUME NEW a \in Apps, MppIoctl(a) PROVE MppInv'
  BY <1>6, MppIoctlStep
<1>7. ASSUME NEW a \in Apps, CloseMpp(a) \/ KillApp(a) PROVE MppInv'
  BY <1>7, LeaveStep
<1>8. CASE UNCHANGED mppVars
  <2>1. UNCHANGED <<module, load, chrdevs, class, device, settings, apc, file, taken, got,
                    alone, failed, killed>>
    BY ONLY <1>8 DEF mppVars, kernelVars, appVars
  <2>2. MppTypeOK'
    BY <2>1 DEF MppInv, MppTypeOK
  <2>3. UNCHANGED <<load, settings, appVars, killed>>
    BY ONLY <2>1 DEF appVars
  <2>4. ClosedIsIdle' /\ SettingHasOwner' /\ AloneSeesItsOwn'
    BY <2>1, <2>3, ProgramsUndisturbed
  <2>5. LoadCounted' /\ Registered'
    BY <2>1 DEF MppInv, LoadCounted, Registered, Resident
  <2> QED
    BY ONLY <2>2, <2>4, <2>5 DEF MppInv
<1> QED
  BY <1>1, <1>2, <1>3, <1>4, <1>5, <1>6, <1>7, <1>8 DEF MppNext

LEMMA MppAlwaysInv == MppSpec => []MppInv
BY MppInitInv, MppNextInv, PTL DEF MppSpec

-----------------------------------------------------------------------------
(***************************************************************************)
(* The theorems about the character device.                                *)
(***************************************************************************)
\* mpp_read and mpp_write look at two global settings that any program may
\* change in between: a program that had the device for itself from when it
\* opened it still finds every text treated as it asked.
THEOREM TextsComeAsAsked == MppSpec => []TextsAsAsked
<1>1. MppInv => TextsAsAsked
  <2> SUFFICES ASSUME MppInv, NEW a \in Apps, alone[a], got[a] # {}
               PROVE  got[a] = {JustDone(a).want}
    BY DEF TextsAsAsked
  <2>1. apc[a] # 0
    BY DEF MppInv, ClosedIsIdle
  <2>2. apc[a] - 1 \in TextAt /\ got[a] = {Meant(apc[a] - 1)}
    BY <2>1 DEF MppInv, AloneSeesItsOwn
  <2> QED
    BY ONLY <2>2, ScriptOps DEF JustDone
<1> QED
  BY <1>1, MppAlwaysInv, PTL

\* The settings outlive the file they were set by: however many programs
\* overlap, once all of them have come to their end both settings are off.
THEOREM SettingsEndOff == MppSpec => []SettingsOffAtEnd
<1>1. MppInv => SettingsOffAtEnd
  <2> SUFFICES ASSUME MppInv, ~killed, \A a \in Apps : ~IsOpen(a) PROVE settings = Off
    BY DEF SettingsOffAtEnd
  <2>1. \A a \in Apps : apc[a] = 0
    BY DEF MppInv, ClosedIsIdle, IsOpen
  <2>2. ~settings.cap /\ ~settings.cipher
    BY <2>1 DEF MppInv, SettingHasOwner
  <2> QED
    BY ONLY <2>2, AppRange, MppInv DEF Settings, Off
<1> QED
  BY <1>1, MppAlwaysInv, PTL

\* mpp_module_init and mpp_module_exit, as long as every registration succeeds:
\* no open file is left without its module, and nothing stays registered.
THEOREM FilesKeepTheirModule == MppSpec => []FilesHaveTheirModule
<1>1. MppInv => FilesHaveTheirModule
  BY DEF MppInv, Registered, FilesHaveTheirModule, IsOpen, Resident
<1> QED
  BY <1>1, MppAlwaysInv, PTL

-----------------------------------------------------------------------------
(***************************************************************************)
(* The exercises together.                                                 *)
(***************************************************************************)
LEMMA OneRuns ==
  /\ Spec => FlashSpec
  /\ Spec => MouseSpec
  /\ Spec => MppSpec
  /\ Spec => PortsSpec
<1>1. Init => FlashInit /\ MouseInit /\ MppInit /\ PortsInit
  BY DEF Init
<1>2. ASSUME [Next]_exerciseVars
      PROVE  /\ [FlashNext]_flashVars /\ [MouseNext]_mouseVars
             /\ [MppNext]_mppVars /\ [PortsNext]_portVars
  BY <1>2 DEF Next, FlashRuns, MouseRuns, MppRuns, PortsRun, exerciseVars
<1> QED
  BY <1>1, <1>2, PTL DEF Spec, FlashSpec, MouseSpec, MppSpec, PortsSpec

\* Each exercise keeps its variables in their types, with any devices, cards,
\* programs and numbers of runs and loads.
THEOREM ExercisesTypeCorrect == Spec => []TypeOK
<1>1. Typed => FlashTypeOK
  BY DEF Typed
<1>2. MppInv => MppTypeOK
  BY DEF MppInv
<1>3. FlashTypeOK /\ MouseTypeOK /\ MppTypeOK /\ PortsTypeOK => TypeOK
  BY DEF TypeOK
<1> QED
  BY <1>1, <1>2, <1>3, OneRuns, TypedInit, TypedStep, MouseReleasesEverything, MppAlwaysInv,
     PortsTypes, PTL DEF FlashSpec
=============================================================================
