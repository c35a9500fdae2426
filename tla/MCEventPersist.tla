--------------------------- MODULE MCEventPersist ---------------------------
(***************************************************************************)
(* Small instances of EventPersist for TLC.                                *)
(***************************************************************************)
EXTENDS EventPersist, TLC
=============================================================================
