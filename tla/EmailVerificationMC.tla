------------------------- MODULE EmailVerificationMC -------------------------
(* Instances of EmailVerification for TLC.                                 *)
EXTENDS EmailVerification, TLC

Symmetry == Permutations(Sends) \cup Permutations(Registers)
=============================================================================
