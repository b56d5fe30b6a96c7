----------------------------- MODULE MCNapiIrq ------------------------------
(* Small instances of NapiIrq: two CPUs are enough for a poll that begins   *)
(* while the end of the one before it is still running.                     *)
EXTENDS NapiIrq, TLC

Symmetry == Permutations(CPUs)
=============================================================================
