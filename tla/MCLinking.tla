----------------------------- MODULE MCLinking ------------------------------
(***************************************************************************)
(* Instance of Linking: two endpoints that both reach the sender, one      *)
(* stranger, and channel ids that wrap after two.                          *)
(***************************************************************************)
EXTENDS Linking
=============================================================================
