----------------------------- MODULE MCSession ------------------------------
(***************************************************************************)
(* Instances of Session.  Three files in two groups, two of which share a  *)
(* hardlink key; the same with a rejected entry; and two files, for the    *)
(* run in which the processes and their connection may die.                *)
(***************************************************************************)
EXTENDS Session, TLC

CONSTANTS a, b, d, e, c1, c2

MCFile == {a, b, d}
MCGroup == {{a, b}, {d}}
MCLink == {b, d}

MCPlainFile == {a, b, d, e}
MCPlainGroup == {{a, b}, {d, e}}

MCTwo == {b, d}
MCTwoGroup == {{b}, {d}}

MCChannel == {c1, c2}
MCSymmetry == Permutations(MCChannel)
=============================================================================
