---------------------------- MODULE MCHcdToggle ----------------------------
(* HcdToggle for TLC, with the instances of MCHcdSched.                     *)
EXTENDS HcdToggle, TLC
CONSTANTS ctl0, bulk1, sysThread, acceptThread
OneControl == {ctl0}
OneBulk == {bulk1}
BothThreads == {sysThread, acceptThread}
NoEndpoint == {}
MCAllEps == {ctl0, bulk1}
\* SETUP, a data stage and the two status stages.
MCStages == {[pid |-> "SETUP", len |-> 1], [pid |-> "IN", len |-> 1],
             [pid |-> "OUT", len |-> 0]}
\* A transfer of two packets, and a read that may be cut short.
MCTransfers == {[pid |-> "OUT", len |-> 2], [pid |-> "IN", len |-> 1]}
TdSymmetry == Permutations(Tds)
=============================================================================
