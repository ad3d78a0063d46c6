----------------------------- MODULE ChatJobMC -----------------------------
(* Instances of ChatJob for TLC.                                           *)
EXTENDS ChatJob, TLC

CONSTANTS c1, direct

\* Every job names the same conversation: jobs compete for its history.
OneConv == {c1}
AllInOneConv == [j \in Jobs |-> c1]
JobsAndDirect == Jobs \cup {direct}

Symmetry == Permutations(Jobs) \cup Permutations(Workers)
=============================================================================
