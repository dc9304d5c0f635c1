----------------------------- MODULE MCSession -----------------------------
(***************************************************************************)
(* TLC instances of a container session.                                   *)
(***************************************************************************)
EXTENDS SessionProperties
=============================================================================
