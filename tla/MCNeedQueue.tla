---------------------------- MODULE MCNeedQueue -----------------------------
(***************************************************************************)
(* Instances of NeedQueue for TLC.  Group 0 needs a small and a large      *)
(* file, group 1 a medium one, and the queue holds two: the groups compete *)
(* for it.  File "s" is a hardlink secondary whose link may fail.          *)
(***************************************************************************)
EXTENDS NeedQueue, TLC

MCFile == {"a", "b", "c", "s"}
MCNeed == (0 :> <<"a", "b">>) @@ (1 :> <<"c">>)
MCSize == ("a" :> 1) @@ ("b" :> 3) @@ ("c" :> 2) @@ ("s" :> 1)
MCSymmetry == Permutations(Worker)
=============================================================================
