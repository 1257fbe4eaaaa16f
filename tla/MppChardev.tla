----------------------------- MODULE MppChardev -----------------------------
(***************************************************************************)
(* The character device exercise: a module whose two settings, capitals    *)
(* and cipher, are global, and the program that tries them out.  Read and  *)
(* write consult the settings one after the other, without a lock.         *)
(* Loading registers a major number, a class and a device, and returns at  *)
(* the first error without undoing what was done.                          *)
(*                                                                         *)
(* The kernel around it is external: it frees the code of a module that    *)
(* fails to load, unloads none that has an open file, and refuses a second *)
(* class of the same name.  A node made by mknod reaches any major.        *)
(***************************************************************************)
EXTENDS Naturals, Sequences

CONSTANTS Apps,          \* processes that run user_app
          MaxLoads       \* how often the module is loaded

ASSUME MppAssumption == MaxLoads \in Nat

Settings == [cap : BOOLEAN, cipher : BOOLEAN]
Off == [cap |-> FALSE, cipher |-> FALSE]
Shout == [Off EXCEPT !.cap = TRUE]
Secret == [Off EXCEPT !.cipher = TRUE]

Text(want) == [op |-> "text", want |-> want]
Ioctl(field, value) == [op |-> "ioctl", field |-> field, value |-> value]

\* main of user_app between open and close: a read and four writes, with the
\* settings they are meant to have.
Script == << Text(Off), Text(Off), Ioctl("cap", TRUE), Text(Shout), Ioctl("cap", FALSE),
             Text(Off), Ioctl("cipher", TRUE), Text(Secret), Ioctl("cipher", FALSE) >>

VARIABLES
    module, load,             \* where module_init or module_exit is; number of loads
    chrdevs, class, device,   \* majors by load; the class; the device
    settings,                 \* g_Capitalise and g_CipherToggle
    apc, file,                \* app: place in the script; the load its file is of
    taken,                    \* app: g_Capitalise as read for the text in hand, if it was
    got, alone,               \* history: what became of its text; nobody else was there
    failed, killed            \* history: a load failed; an app was killed since the load

kernelVars == <<module, load, chrdevs, class, device>>
appVars == <<apc, file, taken, got, alone>>
mppVars == <<kernelVars, settings, appVars, failed, killed>>

MppTypeOK ==
    /\ module \in {"out", "register", "create class", "create device", "in",
                   "destroy device", "destroy class", "unregister"}
    /\ load \in 0 .. MaxLoads /\ chrdevs \subseteq 1 .. load
    /\ class \in BOOLEAN /\ device \in BOOLEAN
    /\ settings \in Settings
    /\ apc \in [Apps -> 0 .. Len(Script) + 1] /\ file \in [Apps -> 0 .. load]
    /\ taken \in [Apps -> SUBSET BOOLEAN]
    /\ got \in [Apps -> SUBSET Settings] /\ alone \in [Apps -> BOOLEAN]
    /\ failed \in BOOLEAN /\ killed \in BOOLEAN

MppInit ==
    /\ module = "out" /\ load = 0 /\ chrdevs = {} /\ class = FALSE /\ device = FALSE
    /\ settings = Off
    /\ apc = [a \in Apps |-> 0] /\ file = [a \in Apps |-> 0]
    /\ taken = [a \in Apps |-> {}] /\ got = [a \in Apps |-> {}]
    /\ alone = [a \in Apps |-> FALSE] /\ failed = FALSE /\ killed = FALSE

IsOpen(a) == file[a] # 0
\* The module of load l is in memory.
Resident(l) == module # "out" /\ load = l

-----------------------------------------------------------------------------
(***************************************************************************)
(* mpp_module_init and mpp_module_exit.                                    *)
(***************************************************************************)
Insmod == /\ module = "out" /\ load < MaxLoads
          /\ module' = "register" /\ load' = load + 1
          /\ settings' = Off /\ killed' = FALSE
          /\ UNCHANGED <<chrdevs, class, device, appVars, failed>>

\* The result of register_chrdev is not looked at.
RegisterChrdev ==
    /\ module = "register" /\ module' = "create class"
    /\ \/ chrdevs' = chrdevs \cup {load} /\ UNCHANGED failed
       \/ failed' = TRUE /\ UNCHANGED chrdevs
    /\ UNCHANGED <<load, class, device, settings, appVars, killed>>

CreateClass ==
    /\ module = "create class"
    /\ \/ ~class /\ class' = TRUE /\ module' = "create device" /\ UNCHANGED failed
       \/ module' = "out" /\ failed' = TRUE /\ UNCHANGED class
    /\ UNCHANGED <<load, chrdevs, device, settings, appVars, killed>>

CreateDevice ==
    /\ module = "create device"
    /\ \/ device' = TRUE /\ module' = "in" /\ UNCHANGED failed
       \/ module' = "out" /\ failed' = TRUE /\ UNCHANGED device
    /\ UNCHANGED <<load, chrdevs, class, settings, appVars, killed>>

Rmmod == /\ module = "in" /\ \A a \in Apps : ~IsOpen(a)
         /\ module' = "destroy device"
         /\ UNCHANGED <<load, chrdevs, class, device, settings, appVars, failed, killed>>

DestroyDeviceNode == /\ module = "destroy device" /\ module' = "destroy class"
                     /\ device' = FALSE
                     /\ UNCHANGED <<load, chrdevs, class, settings, appVars, failed, killed>>
DestroyClass == /\ module = "destroy class" /\ module' = "unregister"
                /\ class' = FALSE
                /\ UNCHANGED <<load, chrdevs, device, settings, appVars, failed, killed>>
Unregistered_Forgotten == chrdevs

Unregistered == chrdevs \ {load}
UnregisterChrdev == /\ module = "unregister" /\ module' = "out"
                    /\ chrdevs' = Unregistered
                    /\ UNCHANGED <<load, class, device, settings, appVars, failed, killed>>

-----------------------------------------------------------------------------
(***************************************************************************)
(* The program.                                                            *)
(***************************************************************************)
KernelSame == UNCHANGED <<kernelVars, failed>>
Now(a) == Script[apc[a]]
AtText(a) == apc[a] \in 1 .. Len(Script) /\ Now(a).op = "text"
JustDone(a) == Script[apc[a] - 1]
Advance(a) == apc' = [apc EXCEPT ![a] = @ + 1]

\* A module that is being unloaded lets nobody in, one that is being loaded does.
OpenMpp(a, l) ==
    /\ ~IsOpen(a) /\ l \in chrdevs
    /\ module \notin {"destroy device", "destroy class", "unregister"}
    /\ apc' = [apc EXCEPT ![a] = 1] /\ file' = [file EXCEPT ![a] = l]
    /\ alone' = [b \in Apps |-> b = a /\ ~killed /\ \A c \in Apps \ {a} : ~IsOpen(c)]
    /\ UNCHANGED <<settings, taken, got, killed>> /\ KernelSame

\* mpp_read, mpp_write: first one setting, then the other.
TakeCapital(a) ==
    /\ AtText(a) /\ taken[a] = {} /\ Resident(file[a])
    /\ taken' = [taken EXCEPT ![a] = {settings.cap}]
    /\ UNCHANGED <<settings, apc, file, got, alone, killed>> /\ KernelSame

TakeCipher(a) ==
    /\ AtText(a) /\ taken[a] # {} /\ Resident(file[a])
    /\ got' = [got EXCEPT ![a] = {s \in Settings : s.cap \in taken[a] /\ s.cipher = settings.cipher}]
    /\ taken' = [taken EXCEPT ![a] = {}]
    /\ Advance(a)
    /\ UNCHANGED <<settings, file, alone, killed>> /\ KernelSame

SetTo_FallsThrough(field, value) ==
    [settings EXCEPT ![field] = value, !.cipher = value]
SetTo_OnlyOn(field, value) == [settings EXCEPT ![field] = @ \/ value]

SetTo(field, value) == [settings EXCEPT ![field] = value]

MppIoctl(a) ==
    /\ apc[a] \in 1 .. Len(Script) /\ Now(a).op = "ioctl" /\ Resident(file[a])
    /\ settings' = SetTo(Now(a).field, Now(a).value)
    /\ got' = [got EXCEPT ![a] = {}]
    /\ Advance(a)
    /\ UNCHANGED <<file, taken, alone, killed>> /\ KernelSame

CloseMpp(a) ==
    /\ apc[a] = Len(Script) + 1
    /\ apc' = [apc EXCEPT ![a] = 0] /\ file' = [file EXCEPT ![a] = 0]
    /\ got' = [got EXCEPT ![a] = {}]
    /\ UNCHANGED <<settings, taken, alone, killed>> /\ KernelSame

\* mpp_release is called, and leaves the settings as they are.
KillApp(a) ==
    /\ apc[a] \in 1 .. Len(Script) /\ taken[a] = {}
    /\ apc' = [apc EXCEPT ![a] = 0] /\ file' = [file EXCEPT ![a] = 0]
    /\ got' = [got EXCEPT ![a] = {}]
    /\ killed' = TRUE
    /\ UNCHANGED <<settings, taken, alone>> /\ KernelSame

MppNext ==
    \/ Insmod \/ RegisterChrdev \/ CreateClass \/ CreateDevice
    \/ Rmmod \/ DestroyDeviceNode \/ DestroyClass \/ UnregisterChrdev
    \/ \E a \in Apps : \/ \E l \in 1 .. MaxLoads : OpenMpp(a, l)
                       \/ TakeCapital(a) \/ TakeCipher(a) \/ MppIoctl(a)
                       \/ CloseMpp(a) \/ KillApp(a)

MppSpec == MppInit /\ [][MppNext]_mppVars

-----------------------------------------------------------------------------
\* A text is treated as its writer asked for, if nobody else has the device
\* open and nobody was killed before: settings outlive the file they came by.
TextsAsAsked ==
    \A a \in Apps : alone[a] /\ got[a] # {} => got[a] = {JustDone(a).want}

\* As long as no load fails, no file outlives the module, and what is unloaded
\* leaves nothing registered.
FilesHaveTheirModule ==
    ~failed => /\ \A a \in Apps : IsOpen(a) => Resident(file[a])
               /\ module = "out" => chrdevs = {} /\ ~class /\ ~device

\* Programs that run to their end leave the settings off, however they overlap.
SettingsOffAtEnd == ~killed /\ (\A a \in Apps : ~IsOpen(a)) => settings = Off
=============================================================================
