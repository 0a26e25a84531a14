--------------------------- MODULE MCDataStream -----------------------------
(***************************************************************************)
(* Instance of DataStream: a file of two chunks and an empty one.          *)
(***************************************************************************)
EXTENDS DataStream

CONSTANTS a, b

MCChunks == [f \in File |-> IF f = a THEN 2 ELSE 0]
=============================================================================
