---------------------------- MODULE MCHcdSched ----------------------------
(* Instances of HcdSched for TLC: the system thread and the accept thread,  *)
(* one control endpoint, one or two bulk endpoints.                         *)
EXTENDS HcdSched, TLC
CONSTANTS ctl0, bulk1, bulk2, sysThread, acceptThread
OneControl == {ctl0}
OneBulk == {bulk1}
TwoBulk == {bulk1, bulk2}
BothThreads == {sysThread, acceptThread}
NoEndpoint == {}
MCAllEps == {ctl0, bulk1}
OnePacket == {[pid |-> "OUT", len |-> 1]}
SetupOnly == {[pid |-> "SETUP", len |-> 1]}
TdSymmetry == Permutations(Tds)
=============================================================================
