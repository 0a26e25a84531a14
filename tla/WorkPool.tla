------------------------------ MODULE WorkPool ------------------------------
(***************************************************************************)
(* What the receiver's need queue promises its users, with everything      *)
(* about order, capacity, locks and wake-ups left out: a file that was     *)
(* handed in is ready until a worker takes it, a taken file is either      *)
(* given back or finished, and nobody is told "drained" before every file  *)
(* handed in is finished.  Once someone has been told, the pool is final.  *)
(***************************************************************************)

CONSTANT File \* the files that may ever be handed in

VARIABLES
    status,  \* status[f]: "absent", "ready", "taken" or "finished"
    drained  \* TRUE once a user of the pool was told that nothing is left

vars == <<status, drained>>

Init ==
    /\ status = [f \in File |-> "absent"]
    /\ drained = FALSE

\* Hand in a set of new files (a whole group, or one fallback file).
Add(F) ==
    /\ ~drained
    /\ \A f \in F : status[f] = "absent"
    /\ status' = [f \in File |-> IF f \in F THEN "ready" ELSE status[f]]
    /\ UNCHANGED drained

Take(f) ==
    /\ status[f] = "ready"
    /\ status' = [status EXCEPT ![f] = "taken"]
    /\ UNCHANGED drained

GiveBack(f) ==
    /\ status[f] = "taken"
    /\ status' = [status EXCEPT ![f] = "ready"]
    /\ UNCHANGED drained

Finish(f) ==
    /\ status[f] = "taken"
    /\ status' = [status EXCEPT ![f] = "finished"]
    /\ UNCHANGED drained

ReportDrained ==
    /\ \A f \in File : status[f] \in {"absent", "finished"}
    /\ drained' = TRUE
    /\ UNCHANGED status

Next ==
    \/ \E F \in SUBSET File : Add(F)
    \/ \E f \in File : Take(f) \/ GiveBack(f) \/ Finish(f)
    \/ ReportDrained

Spec == Init /\ [][Next]_vars
=============================================================================
