------------------------------ MODULE MCLaunch ------------------------------
(***************************************************************************)
(* TLC instances of provider state and launch, with the volumes of the     *)
(* Cursor driver.                                                          *)
(***************************************************************************)
EXTENDS LaunchProperties, TLC

CursorVolumes == <<"state", "auth">>

Threads == Permutations(Req)
=============================================================================
