----------------------------- MODULE MCHostLimiter -----------------------------
(***************************************************************************)
(* Small instances of HostLimiter.                                         *)
(***************************************************************************)
EXTENDS HostLimiter, TLC

MCSymmetry == Permutations(Worker) \cup Permutations(Token)

================================================================================
