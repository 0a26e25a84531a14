---------------------------- MODULE MCCreditFlow ----------------------------
(***************************************************************************)
(* An instance of CreditFlow for TLC: more groups than credit, two decide  *)
(* workers, a queue that one group can fill, and a disk that the larger    *)
(* needs overrun.                                                          *)
(***************************************************************************)
EXTENDS CreditFlow

MCNeeds == {[files |-> 0, bytes |-> 0], [files |-> 2, bytes |-> 3]}
=============================================================================
