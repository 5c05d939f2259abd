---------------------------- MODULE MCSetupEngine ----------------------------
(* Small instances of SetupEngine for TLC. *)
EXTENDS SetupEngine, TLC

(* Runner incarnations differ only in identity. *)
RunnerSymmetry == Permutations(Runners)

=============================================================================
