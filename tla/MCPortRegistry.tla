--------------------------- MODULE MCPortRegistry ---------------------------
(***************************************************************************)
(* Model values for PortRegistry: three runtimes, so that two of them can  *)
(* find the lock of a third that died.                                     *)
(***************************************************************************)
EXTENDS PortRegistry
=============================================================================
