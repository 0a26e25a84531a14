--------------------------- MODULE MCHardlinkMap ----------------------------
(***************************************************************************)
(* Instances of HardlinkMap for TLC: four entries of one inode (a primary, *)
(* a failing link, a parked entry, a second primary) and fewer decide      *)
(* workers than entries.                                                   *)
(***************************************************************************)
EXTENDS HardlinkMap
=============================================================================
