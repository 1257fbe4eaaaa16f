---------------------------- MODULE MCExercises ----------------------------
(* The exercises, which have nothing in common: one of them runs.           *)
EXTENDS MassStorage, Mouse, MppChardev, Ports
VARIABLE exercise
exerciseVars == <<exercise, flashVars, mouseVars, mppVars, portVars>>

Usb(what, lba) == [class |-> what, last |-> lba]
TwoBuses == { <<Usb("other", 0), Usb("per interface", 1)>>,
              <<Usb("per interface", 0), Usb("storage", 3)>> }
FourBlocks == 0 .. 3
ThreeLists == { <<"other">>, <<"mouse", "other">>, <<"other", "mouse", "mouse">> }
TwoSlots == 0 .. 1
Card(whats) == [f \in Functions |-> whats[f[1] + 1][f[2] + 1]]
ThreeMachines == {
    Card(<< <<"other", "controller", "absent">>, <<"absent", "absent", "absent">> >>),
    Card(<< <<"other", "absent", "controller">>, <<"controller", "other", "other">> >>),
    Card(<< <<"other", "absent", "controller">>, <<"absent", "absent", "absent">> >>) }

Init == /\ exercise \in {"flash", "mouse", "chardev", "pci"}
        /\ FlashInit /\ MouseInit /\ MppInit /\ PortsInit
        /\ exercise # "flash" => bus = CHOOSE b \in TwoBuses : TRUE
        /\ exercise # "mouse" => devices = CHOOSE l \in ThreeLists : TRUE
        /\ exercise # "pci" => cards = CHOOSE c \in ThreeMachines : TRUE
FlashRuns == /\ exercise = "flash" /\ FlashNext
             /\ UNCHANGED <<exercise, mouseVars, mppVars, portVars>>
MouseRuns == /\ exercise = "mouse" /\ MouseNext
             /\ UNCHANGED <<exercise, flashVars, mppVars, portVars>>
MppRuns == /\ exercise = "chardev" /\ MppNext
           /\ UNCHANGED <<exercise, flashVars, mouseVars, portVars>>
PortsRun == /\ exercise = "pci" /\ PortsNext
            /\ UNCHANGED <<exercise, flashVars, mouseVars, mppVars>>
Next == FlashRuns \/ MouseRuns \/ MppRuns \/ PortsRun
Spec == Init /\ [][Next]_exerciseVars

TypeOK == FlashTypeOK /\ MouseTypeOK /\ MppTypeOK /\ PortsTypeOK
=============================================================================
