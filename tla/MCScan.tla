------------------------------- MODULE MCScan -------------------------------
(***************************************************************************)
(* Instance of Scan: every tree of four objects below the root of which    *)
(* the first is a directory, with at most two symlinks pointing anywhere   *)
(* and one unreadable directory or special file.  Objects are numbered     *)
(* level by level.  Names 1 and 2 have one normal form, 3 is a system      *)
(* directory, 4 is ".esync", 5 is not valid UTF-8, and 6 is a system file, *)
(* which in some of the sources is the name of a directory.                *)
(***************************************************************************)
EXTENDS Scan

MCNode == 1 .. 4
MCNFC == [n \in 1 .. 6 |-> IF n = 2 THEN 1 ELSE n]
MCSize == [n \in MCNode |-> n % 3]

Parents ==
    {p \in [MCNode -> 0 .. 3] : /\ \A n \in MCNode : p[n] < n
                                /\ \A n \in 1 .. 3 : p[n] <= p[n + 1]}
Kinds == {k \in [MCNode -> {"file", "dir", "locked", "link", "special"}] : k[1] = "dir"}
Count(k, x) == Cardinality({n \in MCNode : k[n] = x})

Shapes ==
    {s \in [parent : Parents, kind : Kinds] :
        /\ \A n \in MCNode : s.parent[n] # 0 => s.kind[s.parent[n]] \in {"dir", "locked"}
        /\ Count(s.kind, "link") <= 2
        /\ Count(s.kind, "locked") + Count(s.kind, "special") <= 1}

\* A link leads to an object that is not a link, or nowhere (5).
Targets(s) ==
    LET links == {n \in MCNode : s.kind[n] = "link"}
        ends == (MCNode \ links) \cup {0, 5}
    IN  {[n \in MCNode |-> IF n \in links THEN t[n] ELSE 5] : t \in [links -> ends]}

Names == {<<1, 2, 3, 6>>, <<3, 1, 5, 4>>, <<6, 1, 3, 2>>}

MCSources ==
    UNION {{[parent |-> s.parent, kind |-> s.kind, target |-> t, name |-> nm, other |-> o] :
               t \in Targets(s), nm \in Names, o \in {{}, {1}}} : s \in Shapes}

MCRules == <<[names |-> {3}, dir |-> TRUE, rootOnly |-> TRUE],
             [names |-> {6}, dir |-> FALSE, rootOnly |-> FALSE]>>

Rule(i, d, w, m) == [include |-> i, dirOnly |-> d, whole |-> w, match |-> m]
MCOptions ==
    {[follow |-> TRUE, oneFS |-> FALSE, keep |-> TRUE, filters |-> <<>>, bytes |-> 2, hardlinks |-> FALSE],
     [follow |-> FALSE, oneFS |-> TRUE, keep |-> FALSE, bytes |-> 3, hardlinks |-> TRUE,
      filters |-> <<Rule(FALSE, FALSE, FALSE, {2, 5}), Rule(TRUE, TRUE, TRUE, {<<1, 2>>})>>]}
=============================================================================
