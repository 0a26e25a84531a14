----------------------------- MODULE MCTracker ------------------------------
(***************************************************************************)
(* Instances of Tracker for TLC: two groups of one file each, two channels *)
(* and three request ids, so that a file can be fetched again after a      *)
(* failure while the other channel is busy.  Channels and request ids are  *)
(* interchangeable.                                                        *)
(***************************************************************************)
EXTENDS Tracker, TLC

MCMembers == ("g" :> {"a"}) @@ ("h" :> {"b"})
MCSymmetry == Permutations(Servicer) \cup Permutations(Request)
=============================================================================
