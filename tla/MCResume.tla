------------------------------ MODULE MCResume ------------------------------
(***************************************************************************)
(* Two plans over three paths: they share a path, with another id in each, *)
(* and each has a path of its own.  Under the first plan the shared path   *)
(* may have one of two contents of the same size and time.                 *)
(***************************************************************************)
EXTENDS Resume, TLC

MCId == 0 .. 1
MCGroup == {{0}, {1}}
MCPath == {"p", "q", "r"}
MCContent == {"x", "y"}
MCPlan ==
    ("m1" :> (0 :> [path |-> "p", contents |-> {"x"}]
              @@ 1 :> [path |-> "q", contents |-> {"x", "y"}]))
    @@ ("m2" :> (0 :> [path |-> "q", contents |-> {"y"}]
                 @@ 1 :> [path |-> "r", contents |-> {"y"}]))

\* The same with one content for each size and time.
MCExactPlan == [MCPlan EXCEPT !["m1"][1].contents = {"x"}]

=============================================================================
