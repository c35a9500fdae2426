--------------------------- MODULE MCRunLifecycle ---------------------------
(***************************************************************************)
(* Small instances of RunLifecycle for TLC.                                *)
(***************************************************************************)
EXTENDS RunLifecycle, TLC

(* Connections are interchangeable.                                       *)
ConnSymmetry == Permutations(Conns)
=============================================================================
