----------------------------- MODULE MCOtaUpgrade -----------------------------
(* Instances of OtaUpgrade for TLC. *)
EXTENDS OtaUpgrade, TLC

JobSymmetry == Permutations(JobIds)
=============================================================================
