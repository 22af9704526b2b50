------------------------------- MODULE Option -------------------------------
(***************************************************************************)
(* Rust's Option::None, shared by the modules that are checked together.   *)
(***************************************************************************)
CONSTANT None
=============================================================================
