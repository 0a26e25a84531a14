---------------------------- MODULE ScanProofs ------------------------------
(***************************************************************************)
(* Proofs about the walk of the source: for every source tree and every    *)
(* option its sends keep the invariant ScanInv, from which PlanProofs      *)
(* derives what the walk, the plan and the groups promise.                 *)
(*                                                                         *)
(* Zenon checks the leaves that name no prover.                            *)
(***************************************************************************)
EXTENDS Scan, TLAPS, WellFoundedInduction

USE ZenonT(30)

-----------------------------------------------------------------------------
(***************************************************************************)
(* Induction and recursion on numbers.                                     *)
(***************************************************************************)

\* A set of numbers that is not empty has a least one.
LEMMA Least ==
    ASSUME NEW T, T \subseteq Nat, T # {}
    PROVE  \E x \in T : \A y \in T : x <= y
<1>1. PICK x \in T : \A y \in T : ~(<<y, x>> \in OpToRel(<, Nat))
  BY WFMin, NatLessThanWellFounded
<1>2. ASSUME NEW y \in T
      PROVE  ~(y < x)
  <2>1. x \in Nat /\ y \in Nat
    OBVIOUS
  <2>2. <<y, x>> \in Nat \X Nat /\ <<y, x>>[1] = y /\ <<y, x>>[2] = x
    BY <2>1
  <2>3. y < x => <<y, x>> \in OpToRel(<, Nat)
    BY <2>2 DEF OpToRel
  <2> QED
    BY <1>1, <2>3
<1> QED
  BY <1>2, SMT

\* Induction over 0 .. n.
LEMMA Upto ==
    ASSUME NEW n \in Nat, NEW S, 0 \in S, \A i \in 1 .. n : i - 1 \in S => i \in S
    PROVE  0 .. n \subseteq S
<1> USE SMT
<1> DEFINE T == (0 .. n) \ S
<1> SUFFICES ASSUME T # {} PROVE FALSE
  OBVIOUS
<1>1. T \subseteq Nat
  OBVIOUS
<1>2. PICK x \in T : \A y \in T : x <= y
  BY <1>1, Least, Zenon
<1>3. x # 0 /\ x \in 0 .. n /\ x \notin S
  OBVIOUS
<1>4. x - 1 \in S
  BY <1>2, <1>3
<1> QED
  BY <1>3, <1>4

\* f is the function over 0 .. n that starts with a and goes on with h.
Solves(f, n, V, a, h) ==
    /\ f \in [0 .. n -> V]
    /\ f[0] = a
    /\ \A i \in 1 .. n : f[i] = h[<<i, f[i - 1]>>]

\* A recursive definition over 0 .. n has a solution.
LEMMA Recursion ==
    ASSUME NEW n \in Nat, NEW V, NEW a \in V, NEW h \in [(1 .. n) \X V -> V]
    PROVE  \E f : Solves(f, n, V, a, h)
<1> DEFINE Sol(k) == {f \in [0 .. k -> V] : f[0] = a /\ \A i \in 1 .. k : f[i] = h[<<i, f[i - 1]>>]}
           S == {k \in 0 .. n : Sol(k) # {}}
<1>1. 0 \in S
  <2> USE SMT
  <2>1. [i \in 0 .. 0 |-> a] \in Sol(0)
    OBVIOUS
  <2> QED
    BY <2>1
<1>2. ASSUME NEW k \in 1 .. n, k - 1 \in S
      PROVE  k \in S
  <2> USE SMT
  <2>1. PICK f \in Sol(k - 1) : TRUE
    BY <1>2
  <2> DEFINE g == [i \in 0 .. k |-> IF i = k THEN h[<<k, f[k - 1]>>] ELSE f[i]]
  <2>2. f \in [0 .. (k - 1) -> V] /\ f[0] = a /\ \A i \in 1 .. (k - 1) : f[i] = h[<<i, f[i - 1]>>]
    BY <2>1
  <2>3. f[k - 1] \in V
    BY <2>2
  <2>4. h[<<k, f[k - 1]>>] \in V
    BY <2>3
  <2>5. g \in [0 .. k -> V]
    BY <2>2, <2>4
  <2>6. g[0] = a
    BY <2>2
  <2>7. ASSUME NEW i \in 1 .. k
        PROVE  g[i] = h[<<i, g[i - 1]>>]
    <3>1. g[i - 1] = f[i - 1]
      OBVIOUS
    <3>2. g[i] = IF i = k THEN h[<<k, f[k - 1]>>] ELSE f[i]
      OBVIOUS
    <3>3. CASE i = k
      BY <3>1, <3>2, <3>3, Zenon
    <3>4. CASE i # k
      <4>1. i \in 1 .. (k - 1)
        BY <3>4
      <4> QED
        BY <3>1, <3>2, <3>4, <4>1, <2>2, Zenon
    <3> QED
      BY <3>3, <3>4
  <2>8. g \in Sol(k)
    <3> HIDE DEF g
    <3> QED
      BY <2>5, <2>6, <2>7, Zenon
  <2>9. k \in 0 .. n
    OBVIOUS
  <2> HIDE DEF g, Sol
  <2> QED
    BY <2>8, <2>9, Zenon
<1>3. 0 .. n \subseteq S
  <2> HIDE DEF S
  <2> QED
    BY <1>1, <1>2, Upto
<1>4. n \in S
  BY <1>3, SMT
<1>5. PICK f \in Sol(n) : TRUE
  BY <1>4
<1>6. Solves(f, n, V, a, h)
  BY <1>5 DEF Solves
<1> QED
  BY <1>6

-----------------------------------------------------------------------------
(***************************************************************************)
(* What the walk sends and what Build makes of it.                         *)
(***************************************************************************)

\* What a path is made of.
NameSet == {x \in DOMAIN NFC : x \in Nat}

\* What the walk sends.
Items ==
    {e \in [path : Seq(NameSet), node : Node \cup {0}, type : {"dir", "file", "symlink"}] :
        e.type = "file" => e.node \in Node}

\* Below, name by name.
LEMMA StrictPrefix ==
    ASSUME NEW X, NEW s \in Seq(X), NEW t \in Seq(X)
    PROVE  Below(t, s) <=> Len(s) < Len(t) /\ \A i \in 1 .. Len(s) : s[i] = t[i]
<1>1. DOMAIN s = 1 .. Len(s)
  BY SMT
<1> QED
  BY <1>1 DEF Below

\* The numbers of the entries that are not beneath a pruned directory, and of
\* those among them that are dropped.
Left(o, es) == {i \in DOMAIN es : ~UnderPruned(Pruned(o, es), es[i].path)}
Dropped(o, es) == {i \in Left(o, es) : Decision(o, es[i]).dropped}

\* What Build leaves behind.
Planned ==
    phase = "done" =>
        /\ exclusions = {out[i] : i \in Dropped(opts, out)}
        /\ entries = Sorted(out, Left(opts, out) \ Dropped(opts, out))
        /\ groupStart = ComputeGroups(opts, entries)

\* What Build relies on: one entry for a path, and nothing below one that is
\* not a directory.
OnePath == \A i, j \in DOMAIN out : i # j => out[i].path # out[j].path
BelowDirs ==
    \A i, j \in DOMAIN out : Below(out[j].path, out[i].path) => out[i].type = "dir"

-----------------------------------------------------------------------------
(***************************************************************************)
(* The steps of the walk.                                                  *)
(***************************************************************************)

Frames == [dir : Node \cup {0}, path : Seq(NameSet), todo : SUBSET Node]

WalkType ==
    /\ src \in Sources /\ opts \in OptionSets
    /\ phase \in {"walk", "build", "done"}
    /\ stack \in Seq(Frames)
    /\ phase = "walk" <=> stack # <<>>
    /\ out \in Seq(Items)
    /\ visited \subseteq Node \cup {0}
    /\ vanished \subseteq Node
    /\ unreadable \in Nat

\* The walk sends an object it looks at, unless it is one of these.
Eligible(n) ==
    /\ src.name[n] # Esync
    /\ ~(IsDir(src, n) /\ opts.oneFS /\ n \in src.other)
    /\ src.kind[n] # "special"
    /\ src.kind[n] = "link" => ~opts.follow
Sendable(n) == Eligible(n) /\ n \notin vanished

\* What a turn of the loop does to the calls under way, and the stack before
\* it: n is taken from the innermost.
Moves(n) ==
    /\ Len(stack) > 0 /\ n \in Top.todo
    /\ \A i \in 1 .. Len(stack) :
          /\ stack'[i].dir = stack[i].dir /\ stack'[i].path = stack[i].path
          /\ stack'[i].todo = IF i = Len(stack) THEN stack[i].todo \ {n} ELSE stack[i].todo

Stays(n) == Moves(n) /\ Len(stack') = Len(stack)

Grows(n, m) ==
    /\ Moves(n)
    /\ Len(stack') = Len(stack) + 1
    /\ stack'[Len(stack) + 1].dir = m
    /\ stack'[Len(stack) + 1].path = Child(n)
    /\ stack'[Len(stack) + 1].todo = Children(src, m)

\* The turn for n sends nothing.
Skips(n) ==
    /\ Stays(n)
    /\ vanished \subseteq vanished'
    /\ ~Sendable(n)'
    /\ UNCHANGED <<src, opts, out, visited, unreadable, phase>>

\* The turn for n sends m, which is n or what the link n leads to.
Sends(n, m, t) ==
    /\ Moves(n)
    /\ src.name[n] # Esync
    /\ out' = Append(out, PlanEntry(Child(n), m, t))
    /\ PlanEntry(Child(n), m, t) \in Items
    /\ t = "dir" <=> IsDir(src, m)
    /\ t # "symlink" => m = Follow(src, n)
    /\ \/ /\ m = n
          /\ Eligible(n)
          /\ UNCHANGED visited
       \/ /\ src.kind[n] = "link" /\ opts.follow /\ m = src.target[n] /\ t # "symlink"
          /\ IF t = "dir" THEN m \notin visited /\ visited' = visited \cup {m} ELSE UNCHANGED visited
    /\ IF t = "dir" /\ Readable(src, m) THEN Grows(n, m) ELSE Stays(n)
    /\ unreadable' = IF t = "dir" /\ ~Readable(src, m) THEN unreadable + 1 ELSE unreadable
    /\ UNCHANGED <<src, opts, vanished, phase>>

\* The innermost call returns.
Pops ==
    /\ Len(stack) > 0 /\ Top.todo = {}
    /\ Len(stack') = Len(stack) - 1
    /\ \A i \in 1 .. Len(stack) - 1 : stack'[i] = stack[i]
    /\ UNCHANGED <<src, opts, out, visited, unreadable, vanished>>

\* The walk rests.
Rests == UNCHANGED <<src, opts, out, visited, unreadable, vanished, stack>>

\* The facts about a source.
LEMMA SourceFacts ==
    ASSUME src \in Sources
    PROVE  /\ IsFiniteSet(Node) /\ 0 \notin Node /\ Nowhere \notin Node \cup {0}
           /\ \A n \in Node :
                 /\ src.name[n] \in NameSet /\ src.name[n] \in Nat
                 /\ src.kind[n] \in {"file", "dir", "locked", "link", "special"}
                 /\ src.parent[n] # 0 => src.parent[n] \in Node /\ src.kind[src.parent[n]] \in {"dir", "locked"}
                 /\ src.target[n] \in Node \cup {0, Nowhere}
                 /\ src.target[n] \in Node => src.kind[src.target[n]] # "link"
                 /\ \A m \in Node \ {n} : src.parent[m] = src.parent[n] => src.name[m] # src.name[n]
           /\ \A S \in SUBSET Node : S # {} => \E n \in S : src.parent[n] \notin S
<1>1. Tree(src)
  BY SourceAssumption
<1>2. IsFiniteSet(Node) /\ 0 \notin Node /\ Nowhere \notin Node \cup {0}
  BY SourceAssumption
<1>3. \A n \in Node : src.name[n] \in NameSet
  BY <1>1 DEF Tree, NameSet
<1> QED
  BY <1>1, <1>2, <1>3 DEF Tree

\* One turn of the loop leaves the outer calls alone.
LEMMA AdvancedFacts ==
    ASSUME stack \in Seq(Frames), stack # <<>>, NEW n
    PROVE  /\ Len(stack) \in Nat /\ Len(stack) > 0
           /\ Advanced(n) \in Seq(Frames)
           /\ Len(Advanced(n)) = Len(stack)
           /\ \A i \in 1 .. Len(stack) :
                 /\ stack[i] \in Frames
                 /\ Advanced(n)[i].dir = stack[i].dir /\ Advanced(n)[i].path = stack[i].path
                 /\ Advanced(n)[i].todo = IF i = Len(stack) THEN stack[i].todo \ {n} ELSE stack[i].todo
<1> DEFINE L == Len(stack)
           F == [stack[L] EXCEPT !.todo = @ \ {n}]
<1> L \in Nat /\ L > 0 /\ DOMAIN stack = 1 .. L /\ \A i \in 1 .. L : stack[i] \in Frames
  BY SMT
<1>2. F \in Frames /\ F.dir = stack[L].dir /\ F.path = stack[L].path /\ F.todo = stack[L].todo \ {n}
  <2>1. stack[L] \in Frames
    BY SMT
  <2> HIDE DEF L
  <2> QED
    BY <2>1 DEF Frames
<1> HIDE DEF F
<1>3. Advanced(n) = [stack EXCEPT ![L] = F]
  BY DEF Advanced, F
<1> HIDE DEF L
<1>4. /\ Advanced(n) \in [1 .. L -> Frames]
      /\ \A i \in 1 .. L : Advanced(n)[i] = IF i = L THEN F ELSE stack[i]
  BY <1>2, <1>3
<1>5. Advanced(n) \in Seq(Frames) /\ Len(Advanced(n)) = L
  BY <1>4, SMT
<1> QED
  BY <1>2, <1>4, <1>5 DEF L

\* A turn looks at a node with a name, in a call under way.
LEMMA LookFacts ==
    ASSUME WalkType, NEW n \in Node, Looking(n)
    PROVE  /\ phase = "walk" /\ stack # <<>>
           /\ n \in Top.todo /\ Top \in Frames
           /\ Child(n) \in Seq(NameSet)
           /\ (stack' = Advanced(n) => Stays(n))
           /\ \A m : stack' = Append(Advanced(n), Frame(src, m, Child(n))) => Grows(n, m)
<1> phase = "walk" /\ n \in Top.todo
  BY DEF Looking
<1>2. stack # <<>> /\ stack \in Seq(Frames) /\ src \in Sources
  BY DEF WalkType
<1>3. /\ Len(stack) \in Nat /\ Len(stack) > 0
      /\ Advanced(n) \in Seq(Frames)
      /\ Len(Advanced(n)) = Len(stack)
      /\ \A i \in 1 .. Len(stack) :
            /\ stack[i] \in Frames
            /\ Advanced(n)[i].dir = stack[i].dir /\ Advanced(n)[i].path = stack[i].path
            /\ Advanced(n)[i].todo = IF i = Len(stack) THEN stack[i].todo \ {n} ELSE stack[i].todo
  BY <1>2, AdvancedFacts
<1>4. Top \in Frames
  <2>1. Len(stack) \in Nat /\ Len(stack) > 0
    BY <1>3
  <2>2. Len(stack) \in 1 .. Len(stack)
    BY <2>1, SMT
  <2> QED
    BY <1>3, <2>2 DEF Top
<1>5. Child(n) \in Seq(NameSet)
  <2>1. src.name[n] \in NameSet
    BY <1>2, SourceFacts
  <2>2. Top.path \in Seq(NameSet)
    BY <1>4 DEF Frames
  <2> QED
    BY <2>1, <2>2, SMT DEF Child
<1>6. ASSUME stack' = Advanced(n)
      PROVE  Stays(n)
  BY <1>3, <1>6 DEF Stays, Moves
<1>7. ASSUME NEW m, stack' = Append(Advanced(n), Frame(src, m, Child(n)))
      PROVE  Grows(n, m)
  <2> DEFINE a == Advanced(n)
             f == Frame(src, m, Child(n))
  <2>1. /\ Len(stack') = Len(stack) + 1
        /\ stack'[Len(stack) + 1] = f
        /\ \A i \in 1 .. Len(stack) : stack'[i] = a[i]
    <3> HIDE DEF a, f
    <3>1. stack' = Append(a, f) /\ a \in Seq(Frames) /\ Len(a) = Len(stack) /\ Len(stack) \in Nat
      BY <1>3, <1>7 DEF a, f
    <3> QED
      BY <3>1, SMT
  <2>2. f.dir = m /\ f.path = Child(n) /\ f.todo = Children(src, m)
    BY DEF Frame
  <2> HIDE DEF f
  <2> QED
    BY <1>3, <2>1, <2>2 DEF Grows, Moves
<1> QED
  BY <1>2, <1>4, <1>5, <1>6, <1>7

\* Enter pushes a call, or counts the directory.
LEMMA EnterFacts ==
    ASSUME WalkType, NEW n \in Node, Looking(n), NEW m, Enter(n, m)
    PROVE  /\ Moves(n)
           /\ IF Readable(src, m) THEN Grows(n, m) ELSE Stays(n)
           /\ unreadable' = IF ~Readable(src, m) THEN unreadable + 1 ELSE unreadable
<1>1. CASE Readable(src, m)
  <2>1. stack' = Append(Advanced(n), Frame(src, m, Child(n))) /\ unreadable' = unreadable
    BY <1>1 DEF Enter
  <2>2. Grows(n, m)
    BY <2>1, LookFacts
  <2> QED
    BY <1>1, <2>1, <2>2 DEF Grows
<1>2. CASE ~Readable(src, m)
  <2>1. stack' = Advanced(n) /\ unreadable' = unreadable + 1
    BY <1>2 DEF Enter
  <2>2. Stays(n)
    BY <2>1, LookFacts
  <2> QED
    BY <1>2, <2>1, <2>2 DEF Stays
<1> QED
  BY <1>1, <1>2

\* What a turn sends is an item.
LEMMA ItemFacts ==
    ASSUME NEW p \in Seq(NameSet), NEW m \in Node \cup {0}, NEW t \in {"dir", "file", "symlink"},
           t = "file" => m \in Node
    PROVE  PlanEntry(p, m, t) \in Items
  BY DEF PlanEntry, Items

\* The kinds of objects.
LEMMA KindFacts ==
    ASSUME src \in Sources, NEW n \in Node
    PROVE  /\ IsDir(src, n) <=> src.kind[n] \in {"dir", "locked"}
           /\ src.kind[n] # "link" => Follow(src, n) = n
           /\ src.kind[n] = "link" => Follow(src, n) = src.target[n]
           /\ IsDir(src, 0) /\ Follow(src, 0) = 0
<1>1. 0 \notin Node
  BY SourceFacts
<1> QED
  BY <1>1 DEF IsDir, Follow

\* Ignore sends nothing.
LEMMA IgnoreShape ==
    ASSUME WalkType, NEW n \in Node, Ignore(n)
    PROVE  Skips(n) /\ vanished' \subseteq Node
<1> /\ Looking(n) /\ stack' = Advanced(n) /\ UNCHANGED <<src, opts, out, visited, unreadable, phase>>
  BY DEF Ignore
<1>2. Stays(n)
  BY LookFacts
<1>3. vanished \subseteq Node /\ vanished \subseteq vanished' /\ vanished' \subseteq Node
  BY DEF Ignore, WalkType
<1>4. ~Sendable(n)'
  <2>1. src' = src /\ opts' = opts
    OBVIOUS
  <2>2. \/ src.name[n] = Esync
        \/ n \in vanished'
        \/ IsDir(src, n) /\ opts.oneFS /\ n \in src.other
        \/ src.kind[n] = "link" /\ opts.follow
    BY DEF Ignore
  <2> QED
    BY <2>1, <2>2 DEF Sendable, Eligible
<1> QED
  BY <1>2, <1>3, <1>4 DEF Skips

\* WalkDirectory sends n.
LEMMA DirectoryShape ==
    ASSUME WalkType, NEW n \in Node, WalkDirectory(n)
    PROVE  Sends(n, n, "dir")
<1> /\ Looking(n) /\ src.name[n] # Esync /\ IsDir(src, n) /\ ~(opts.oneFS /\ n \in src.other)
    /\ out' = Append(out, PlanEntry(Child(n), n, "dir"))
    /\ Enter(n, n)
    /\ UNCHANGED <<src, opts, visited, vanished, phase>>
  BY DEF WalkDirectory, Emit
<1>2. src \in Sources
  BY DEF WalkType
<1>3. src.kind[n] \in {"dir", "locked"} /\ Follow(src, n) = n
  BY <1>2, KindFacts
<1>4. PlanEntry(Child(n), n, "dir") \in Items
  BY LookFacts, ItemFacts
<1>5. Eligible(n)
  BY <1>3 DEF Eligible
<1>6. /\ Moves(n)
      /\ IF Readable(src, n) THEN Grows(n, n) ELSE Stays(n)
      /\ unreadable' = IF ~Readable(src, n) THEN unreadable + 1 ELSE unreadable
  BY EnterFacts
<1> QED
  BY <1>3, <1>4, <1>5, <1>6 DEF Sends

\* WalkLeaf sends n, or nothing.
LEMMA LeafShape ==
    ASSUME WalkType, NEW n \in Node, WalkLeaf(n)
    PROVE  Skips(n) \/ \E t \in {"dir", "file", "symlink"} : Sends(n, n, t)
<1> /\ Looking(n) /\ src.name[n] # Esync /\ stack' = Advanced(n)
    /\ UNCHANGED <<src, opts, visited, unreadable, vanished, phase>>
  BY DEF WalkLeaf
<1>2. src \in Sources /\ src.kind[n] \in {"file", "dir", "locked", "link", "special"}
  BY SourceFacts DEF WalkType
<1>3. Stays(n) /\ Moves(n)
  BY LookFacts DEF Stays
<1>4. Child(n) \in Seq(NameSet)
  BY LookFacts
<1>5. CASE src.kind[n] = "special" /\ out' = out
  <2>1. ~Sendable(n)'
    BY <1>5 DEF Sendable, Eligible
  <2> QED
    BY <1>3, <1>5, <2>1 DEF Skips
<1>6. CASE src.kind[n] = "file" /\ out' = Append(out, PlanEntry(Child(n), n, "file"))
  <2>1. ~IsDir(src, n) /\ Follow(src, n) = n /\ "file" # "dir"
    BY <1>2, <1>6, KindFacts
  <2>2. Eligible(n)
    BY <1>6, <2>1 DEF Eligible
  <2>3. PlanEntry(Child(n), n, "file") \in Items
    BY <1>4, ItemFacts
  <2>4. Sends(n, n, "file")
    BY <1>3, <1>6, <2>1, <2>2, <2>3 DEF Sends
  <2> QED
    BY <2>4
<1>7. CASE /\ src.kind[n] = "link" /\ ~opts.follow
           /\ out' = Append(out, PlanEntry(Child(n), n, "symlink"))
  <2>1. ~IsDir(src, n) /\ "symlink" # "dir"
    BY <1>2, <1>7, KindFacts
  <2>2. Eligible(n)
    BY <1>7, <2>1, SMT DEF Eligible
  <2>3. PlanEntry(Child(n), n, "symlink") \in Items
    BY <1>4, ItemFacts
  <2>4. Sends(n, n, "symlink")
    BY <1>3, <1>7, <2>1, <2>2, <2>3 DEF Sends
  <2> QED
    BY <2>4
<1> QED
  BY <1>5, <1>6, <1>7, SMT DEF WalkLeaf, Emit

\* FollowLink sends what the link leads to, or nothing.
LEMMA FollowShape ==
    ASSUME WalkType, NEW n \in Node, FollowLink(n)
    PROVE  Skips(n) \/ \E m \in Node \cup {0}, t \in {"dir", "file", "symlink"} : Sends(n, m, t)
<1> DEFINE m == src.target[n]
<1> /\ Looking(n) /\ src.name[n] # Esync /\ src.kind[n] = "link" /\ opts.follow
    /\ UNCHANGED <<src, opts, vanished, phase>>
  BY DEF FollowLink
<1>2. src \in Sources
  BY DEF WalkType
<1>3. Follow(src, n) = m
  BY <1>2, KindFacts
<1>4. Child(n) \in Seq(NameSet)
  BY LookFacts
<1>5. stack' = Advanced(n) => Stays(n) /\ Moves(n)
  BY LookFacts DEF Stays
<1> HIDE DEF m
<1>6. CASE /\ m \in Node /\ src.kind[m] = "file"
           /\ Emit(Child(n), m, "file")
           /\ stack' = Advanced(n)
           /\ UNCHANGED <<visited, skipped, unreadable>>
  <2>1. ~IsDir(src, m) /\ "file" # "dir" /\ "file" # "symlink"
    BY <1>2, <1>6, KindFacts, SMT
  <2>2. PlanEntry(Child(n), m, "file") \in Items
    BY <1>4, <1>6, ItemFacts, SMT
  <2>3. Sends(n, m, "file")
    BY <1>3, <1>5, <1>6, <2>1, <2>2 DEF Sends, Emit, m
  <2> QED
    BY <1>6, <2>3
<1>7. CASE /\ m \in Node \cup {0} /\ IsDir(src, m) /\ m \notin visited
           /\ visited' = visited \cup {m}
           /\ Emit(Child(n), m, "dir")
           /\ Enter(n, m)
  <2>1. PlanEntry(Child(n), m, "dir") \in Items
    BY <1>4, <1>7, ItemFacts, SMT
  <2>2. /\ Moves(n)
        /\ IF Readable(src, m) THEN Grows(n, m) ELSE Stays(n)
        /\ unreadable' = IF ~Readable(src, m) THEN unreadable + 1 ELSE unreadable
    BY <1>7, EnterFacts
  <2>3. Sends(n, m, "dir")
    BY <1>3, <1>7, <2>1, <2>2, "sss" # "sssssss" DEF Sends, Emit, m
  <2> QED
    BY <1>7, <2>3
<1>8. CASE /\ m \notin Node \cup {0} \/ m \in visited
           /\ skipped' = skipped + 1
           /\ stack' = Advanced(n)
           /\ UNCHANGED <<visited, unreadable, out>>
  <2>1. ~Sendable(n)'
    BY DEF Sendable, Eligible
  <2>2. UNCHANGED <<src, opts, out, visited, unreadable, phase>> /\ vanished \subseteq vanished'
    BY <1>8
  <2> QED
    BY <1>5, <1>8, <2>1, <2>2 DEF Skips
<1> QED
  BY <1>6, <1>7, <1>8 DEF FollowLink, m

\* The empty sequence is the one of length 0.
LEMMA Emptiness ==
    ASSUME NEW S, NEW s \in Seq(S)
    PROVE  s = <<>> <=> Len(s) = 0
BY SMT

\* A sequence without its last element.
LEMMA FrontFacts ==
    ASSUME NEW S, NEW s \in Seq(S), s # <<>>
    PROVE  /\ Len(s) \in Nat /\ Len(s) > 0
           /\ SubSeq(s, 1, Len(s) - 1) \in Seq(S)
           /\ Len(SubSeq(s, 1, Len(s) - 1)) = Len(s) - 1
           /\ \A i \in 1 .. Len(s) - 1 : SubSeq(s, 1, Len(s) - 1)[i] = s[i]
<1> USE SMT
<1> Len(s) \in Nat /\ Len(s) # 0 /\ \A i \in 1 .. Len(s) : s[i] \in S
  BY Emptiness
<1> DEFINE m == Len(s) - 1
<1> m \in Nat /\ m \in 0 .. Len(s) /\ m = Len(s) - 1 /\ Len(s) > 0
  OBVIOUS
<1> HIDE DEF m
<1>4. SubSeq(s, 1, m) \in Seq(S)
  OBVIOUS
<1>5. Len(SubSeq(s, 1, m)) = m
  OBVIOUS
<1>6. \A i \in 1 .. m : SubSeq(s, 1, m)[i] = s[i]
  OBVIOUS
<1> QED
  BY <1>4, <1>5, <1>6, Zenon DEF m

\* A return.
LEMMA ReturnShape ==
    ASSUME WalkType, Return
    PROVE  /\ Pops
           /\ stack' \in Seq(Frames)
           /\ phase' \in {"walk", "build"}
           /\ phase' = "walk" <=> stack' # <<>>
<1> /\ phase = "walk" /\ Top.todo = {} /\ stack' = SubSeq(stack, 1, Len(stack) - 1)
    /\ phase' = IF Len(stack) = 1 THEN "build" ELSE "walk"
    /\ UNCHANGED <<src, opts, visited, unreadable, vanished, out>>
  BY DEF Return
<1>2. stack # <<>> /\ stack \in Seq(Frames)
  BY DEF WalkType
<1>3. /\ Len(stack) \in Nat /\ Len(stack) > 0
      /\ SubSeq(stack, 1, Len(stack) - 1) \in Seq(Frames)
      /\ Len(SubSeq(stack, 1, Len(stack) - 1)) = Len(stack) - 1
      /\ \A i \in 1 .. Len(stack) - 1 : SubSeq(stack, 1, Len(stack) - 1)[i] = stack[i]
  BY <1>2, FrontFacts
<1>4. SubSeq(stack, 1, Len(stack) - 1) # <<>> <=> Len(stack) # 1
  <2>1. SubSeq(stack, 1, Len(stack) - 1) = <<>> <=> Len(SubSeq(stack, 1, Len(stack) - 1)) = 0
    BY <1>3, Emptiness
  <2>2. \A k \in Nat : k - 1 = 0 <=> k = 1
    BY SMT
  <2> QED
    BY <1>3, <2>1, <2>2
<1>5. Pops
  BY <1>3 DEF Pops
<1> QED
  BY <1>3, <1>4, <1>5

\* What a turn makes of the stack is one.
LEMMA TurnStack ==
    ASSUME WalkType, NEW n \in Node, Looking(n),
           \/ stack' = Advanced(n)
           \/ \E m \in Node \cup {0} : stack' = Append(Advanced(n), Frame(src, m, Child(n)))
    PROVE  stack' \in Seq(Frames) /\ stack' # <<>>
<1> stack # <<>> /\ stack \in Seq(Frames) /\ Child(n) \in Seq(NameSet)
  BY LookFacts DEF WalkType
<1>2. Advanced(n) \in Seq(Frames) /\ Len(Advanced(n)) = Len(stack) /\ Len(stack) > 0
  BY AdvancedFacts
<1>3. CASE stack' = Advanced(n)
  BY ONLY <1>2, <1>3, SMT
<1>4. ASSUME NEW m \in Node \cup {0}, stack' = Append(Advanced(n), Frame(src, m, Child(n)))
      PROVE  stack' \in Seq(Frames) /\ stack' # <<>>
  <2>1. Frame(src, m, Child(n)) \in Frames
    <3>1. Children(src, m) \subseteq Node
      BY DEF Children
    <3> QED
      BY ONLY <3>1, Child(n) \in Seq(NameSet), m \in Node \cup {0}, SMT DEF Frame, Frames
  <2> DEFINE f == Frame(src, m, Child(n))
             a == Advanced(n)
  <2>2. f \in Frames /\ a \in Seq(Frames) /\ stack' = Append(a, f)
    BY <1>2, <1>4, <2>1
  <2> HIDE DEF f, a
  <2> QED
    BY ONLY <2>2, SMT
<1> QED
  BY <1>3, <1>4

\* Every step has one of these shapes.
LEMMA Shapes ==
    ASSUME WalkType, [ScanNext]_scanVars
    PROVE  \/ \E n \in Node : Skips(n)
           \/ \E n \in Node, m \in Node \cup {0}, t \in {"dir", "file", "symlink"} : Sends(n, m, t)
           \/ Pops
           \/ Rests
<1>1. ASSUME NEW n \in Node, Ignore(n)
      PROVE  Skips(n)
  BY <1>1, IgnoreShape
<1>2. ASSUME NEW n \in Node, WalkDirectory(n)
      PROVE  Sends(n, n, "dir")
  BY <1>2, DirectoryShape
<1>3. ASSUME NEW n \in Node, WalkLeaf(n)
      PROVE  Skips(n) \/ \E t \in {"dir", "file", "symlink"} : Sends(n, n, t)
  BY <1>3, LeafShape
<1>4. ASSUME NEW n \in Node, FollowLink(n)
      PROVE  Skips(n) \/ \E m \in Node \cup {0}, t \in {"dir", "file", "symlink"} : Sends(n, m, t)
  BY <1>4, FollowShape
<1>5. Return => Pops
  BY ReturnShape
<1>6. Build \/ UNCHANGED scanVars => Rests
  BY DEF Build, walkVars, scanVars, Rests
<1>7. \A n \in Node : n \in Node \cup {0}
  OBVIOUS
<1> QED
  BY <1>1, <1>2, <1>3, <1>4, <1>5, <1>6, <1>7, ZenonT(30) DEF ScanNext

\* The stack and the phase keep their type.
LEMMA StackStep ==
    ASSUME WalkType, [ScanNext]_scanVars
    PROVE  /\ stack' \in Seq(Frames)
           /\ phase' \in {"walk", "build", "done"}
           /\ phase' = "walk" <=> stack' # <<>>
<1>1. stack \in Seq(Frames) /\ (phase = "walk" <=> stack # <<>>) /\ phase \in {"walk", "build", "done"}
  BY DEF WalkType
<1>2. ASSUME NEW n \in Node, Looking(n), phase' = phase,
             \/ stack' = Advanced(n)
             \/ \E m \in Node \cup {0} : stack' = Append(Advanced(n), Frame(src, m, Child(n)))
      PROVE  /\ stack' \in Seq(Frames)
             /\ phase' \in {"walk", "build", "done"}
             /\ phase' = "walk" <=> stack' # <<>>
  <2>1. stack' \in Seq(Frames) /\ stack' # <<>>
    BY <1>2, TurnStack
  <2> QED
    BY <1>1, <1>2, <2>1 DEF Looking
<1>3. ASSUME NEW n \in Node, Ignore(n) \/ WalkLeaf(n)
      PROVE  Looking(n) /\ phase' = phase /\ stack' = Advanced(n)
  BY <1>3 DEF Ignore, WalkLeaf
<1>4. ASSUME NEW n \in Node, WalkDirectory(n)
      PROVE  Looking(n) /\ phase' = phase
             /\ (stack' = Advanced(n) \/ stack' = Append(Advanced(n), Frame(src, n, Child(n))))
  BY <1>4 DEF WalkDirectory, Enter
<1>5. ASSUME NEW n \in Node, FollowLink(n)
      PROVE  Looking(n) /\ phase' = phase
             /\ \/ stack' = Advanced(n)
                \/ \E m \in Node \cup {0} : stack' = Append(Advanced(n), Frame(src, m, Child(n)))
  BY <1>5 DEF FollowLink, Enter
<1>6. CASE \E n \in Node : Ignore(n) \/ WalkDirectory(n) \/ WalkLeaf(n) \/ FollowLink(n)
  <2>1. \A n \in Node : n \in Node \cup {0}
    OBVIOUS
  <2> QED
    BY <1>2, <1>3, <1>4, <1>5, <1>6, <2>1
<1>7. CASE Return
  BY <1>7, ReturnShape
<1>8. CASE Build
  <2>1. stack' = stack /\ phase = "build" /\ phase' = "done" /\ "done" # "walk"
    BY <1>8 DEF Build, walkVars
  <2> QED
    BY <1>1, <2>1
<1>9. CASE UNCHANGED scanVars
  <2>1. stack' = stack /\ phase' = phase
    BY <1>9 DEF scanVars, walkVars
  <2> QED
    BY <1>1, <2>1
<1> QED
  BY <1>6, <1>7, <1>8, <1>9 DEF ScanNext

\* The walk keeps its type.
LEMMA WalkTypeStep ==
    ASSUME WalkType, [ScanNext]_scanVars
    PROVE  WalkType'
<1>1. /\ stack' \in Seq(Frames)
      /\ phase' \in {"walk", "build", "done"}
      /\ phase' = "walk" <=> stack' # <<>>
  BY StackStep
<1> /\ src \in Sources /\ opts \in OptionSets /\ out \in Seq(Items)
    /\ visited \subseteq Node \cup {0} /\ vanished \subseteq Node /\ unreadable \in Nat
  BY DEF WalkType
<1>3. vanished' \subseteq Node
  <2>1. ASSUME NEW n \in Node, Ignore(n)
        PROVE  vanished' \subseteq Node
    BY <2>1, IgnoreShape
  <2>2. ~(\E n \in Node : Ignore(n)) => vanished' = vanished
    BY DEF ScanNext, WalkDirectory, WalkLeaf, FollowLink, Return, Build,
       walkVars, scanVars
  <2> QED
    BY <2>1, <2>2
<1>4. ASSUME NEW n \in Node, NEW m \in Node \cup {0}, NEW t \in {"dir", "file", "symlink"}, Sends(n, m, t)
      PROVE  /\ src' = src /\ opts' = opts /\ out' \in Seq(Items)
             /\ visited' \subseteq Node \cup {0} /\ unreadable' \in Nat
  <2> /\ out' = Append(out, PlanEntry(Child(n), m, t))
      /\ PlanEntry(Child(n), m, t) \in Items
      /\ visited' \subseteq visited \cup {m}
      /\ unreadable' \in {unreadable, unreadable + 1}
      /\ src' = src /\ opts' = opts
    BY <1>4 DEF Sends
  <2> DEFINE e == PlanEntry(Child(n), m, t)
  <2>2. out' \in Seq(Items)
    <3> HIDE DEF e
    <3>1. out' = Append(out, e) /\ e \in Items /\ out \in Seq(Items)
      BY DEF e
    <3> QED
      BY ONLY <3>1, SMT
  <2>3. unreadable' \in Nat
    BY ONLY unreadable \in Nat, unreadable' \in {unreadable, unreadable + 1}, SMT
  <2> QED
    BY <2>2, <2>3
<1>5. ASSUME NEW n \in Node, Skips(n)
      PROVE  UNCHANGED <<src, opts, out, visited, unreadable>>
  BY <1>5 DEF Skips
<1>6. Pops \/ Rests => UNCHANGED <<src, opts, out, visited, unreadable>>
  BY DEF Pops, Rests
<1>7. /\ src' \in Sources /\ opts' \in OptionSets /\ out' \in Seq(Items)
      /\ visited' \subseteq Node \cup {0} /\ unreadable' \in Nat
  BY <1>4, <1>5, <1>6, Shapes
<1> QED
  BY <1>1, <1>3, <1>7 DEF WalkType

-----------------------------------------------------------------------------
(***************************************************************************)
(* Where paths lead.                                                       *)
(***************************************************************************)

\* The objects on the way of a path.
LEMMA TrailFacts ==
    ASSUME src \in Sources, NEW p \in Seq(NameSet)
    PROVE  /\ Len(p) \in Nat
           /\ Trail(src, p)[0] = 0
           /\ \A i \in 1 .. Len(p) : Trail(src, p)[i] = Named(src, Trail(src, p)[i - 1], p[i])
<1> DEFINE n == Len(p)
           V == Node \cup {0, Nowhere}
           Is(f) == f = [i \in 0 .. Len(p) |-> IF i = 0 THEN 0 ELSE Named(src, f[i - 1], p[i])]
           h == [x \in (1 .. n) \X V |-> Named(src, x[2], p[x[1]])]
<1>1. n \in Nat
  BY SMT
<1>2. \A d, x : Named(src, d, x) \in V
  <2> SUFFICES ASSUME NEW d, NEW x
               PROVE  Named(src, d, x) \in V
    OBVIOUS
  <2> DEFINE found == {c \in Children(src, Follow(src, d)) : src.name[c] = x}
  <2>1. found \subseteq Node
    BY DEF Children
  <2>2. found # {} => (CHOOSE c \in found : TRUE) \in found
    OBVIOUS
  <2>3. Named(src, d, x) = IF found = {} THEN Nowhere ELSE CHOOSE c \in found : TRUE
    BY DEF Named
  <2> HIDE DEF found
  <2> QED
    BY <2>1, <2>2, <2>3
<1>3. h \in [(1 .. n) \X V -> V]
  BY <1>2
<1>4. PICK f : Solves(f, n, V, 0, h)
  <2>1. 0 \in V
    OBVIOUS
  <2> HIDE DEF h, V, n
  <2> QED
    BY <1>1, <1>3, <2>1, Recursion
<1>5. f \in [0 .. n -> V] /\ f[0] = 0
  BY <1>4 DEF Solves
<1>6. \A i \in 1 .. n : f[i] = Named(src, f[i - 1], p[i])
  <2> SUFFICES ASSUME NEW i \in 1 .. n
               PROVE  f[i] = Named(src, f[i - 1], p[i])
    OBVIOUS
  <2>1. i - 1 \in 0 .. n
    BY <1>1, SMT
  <2>2. f[i - 1] \in V
    BY <1>5, <2>1
  <2>3. h[<<i, f[i - 1]>>] = Named(src, f[i - 1], p[i])
    <3> HIDE DEF V, n
    <3> QED
      BY <2>2
  <2> HIDE DEF h
  <2> QED
    BY <1>4, <2>3 DEF Solves
<1>7. Is(f)
  <2> DEFINE g == [i \in 0 .. n |-> IF i = 0 THEN 0 ELSE Named(src, f[i - 1], p[i])]
  <2>1. ASSUME NEW i \in 0 .. n
        PROVE  f[i] = g[i]
    <3>1. g[i] = IF i = 0 THEN 0 ELSE Named(src, f[i - 1], p[i])
      OBVIOUS
    <3>2. i # 0 => i \in 1 .. n
      BY <1>1, SMT
    <3> HIDE DEF g
    <3> QED
      BY <1>5, <1>6, <3>1, <3>2
  <2> HIDE DEF V
  <2>2. DOMAIN f = 0 .. n /\ DOMAIN g = 0 .. n /\ f = [i \in 0 .. n |-> f[i]] /\ g = [i \in 0 .. n |-> g[i]]
    BY <1>5
  <2>3. f = g
    <3> HIDE DEF g
    <3> QED
      BY <2>1, <2>2
  <2> QED
    BY <2>3
<1>8. Is(Trail(src, p))
  BY <1>7 DEF Trail
<1> DEFINE g == Trail(src, p)
<1>9. g = [i \in 0 .. n |-> IF i = 0 THEN 0 ELSE Named(src, g[i - 1], p[i])]
  BY <1>8
<1> HIDE DEF g
<1>10. g[0] = 0
  <2>1. 0 \in 0 .. n
    BY <1>1, SMT
  <2> QED
    BY <1>9, <2>1
<1>11. ASSUME NEW i \in 1 .. n
       PROVE  g[i] = Named(src, g[i - 1], p[i])
  <2>1. i \in 0 .. n /\ i # 0
    BY <1>1, SMT
  <2> QED
    BY <1>9, <2>1
<1> QED
  BY <1>1, <1>10, <1>11 DEF g

\* The path of a child leads to it.
LEMMA LookupChild ==
    ASSUME src \in Sources, NEW p \in Seq(NameSet), NEW n \in Node,
           Follow(src, Lookup(src, p)) = src.parent[n]
    PROVE  Lookup(src, Append(p, src.name[n])) = n
<1> DEFINE k == Len(p)
           x == src.name[n]
           q == Append(p, x)
           T == Trail(src, p)
           U == Trail(src, q)
           S == {i \in 0 .. k : U[i] = T[i]}
<1>1. x \in NameSet
  BY SourceFacts
<1>2. /\ k \in Nat /\ q \in Seq(NameSet) /\ Len(q) = k + 1 /\ q[k + 1] = x
      /\ \A i \in 1 .. k : q[i] = p[i]
  <2> HIDE DEF x
  <2> QED
    BY <1>1, SMT
<1>3. T[0] = 0 /\ \A i \in 1 .. k : T[i] = Named(src, T[i - 1], p[i])
  BY TrailFacts
<1>4. U[0] = 0 /\ \A i \in 1 .. k + 1 : U[i] = Named(src, U[i - 1], q[i])
  <2> HIDE DEF q
  <2> QED
    BY <1>2, TrailFacts
<1>5. 0 \in S
  <2>1. 0 \in 0 .. k
    BY <1>2, SMT
  <2> HIDE DEF T, U
  <2> QED
    BY <1>3, <1>4, <2>1
<1>6. ASSUME NEW i \in 1 .. k, i - 1 \in S
      PROVE  i \in S
  <2>1. i \in 0 .. k /\ i \in 1 .. k + 1
    BY <1>2, SMT
  <2>2. U[i - 1] = T[i - 1]
    BY <1>6
  <2> HIDE DEF T, U, q
  <2> QED
    BY <1>2, <1>3, <1>4, <2>1, <2>2
<1>7. U[k] = T[k]
  <2>1. 0 .. k \subseteq S
    <3> HIDE DEF S, k
    <3> QED
      BY <1>2, <1>5, <1>6, Upto
  <2>2. k \in 0 .. k
    BY <1>2, SMT
  <2> QED
    BY <2>1, <2>2
<1>8. Lookup(src, q) = Named(src, Lookup(src, p), x)
  <2>1. Lookup(src, q) = U[k + 1] /\ Lookup(src, p) = T[k]
    BY <1>2 DEF Lookup
  <2>2. k + 1 \in 1 .. k + 1 /\ (k + 1) - 1 = k
    BY <1>2, SMT
  <2> HIDE DEF T, U, q, x
  <2> QED
    BY <1>2, <1>4, <1>7, <2>1, <2>2
<1> DEFINE found == {c \in Children(src, Follow(src, Lookup(src, p))) : src.name[c] = x}
<1>9. found = {n}
  <2>1. n \in found
    BY DEF Children
  <2>2. ASSUME NEW c \in found
        PROVE  c = n
    <3>1. c \in Node /\ src.parent[c] = src.parent[n] /\ src.name[c] = src.name[n]
      BY DEF Children
    <3> QED
      BY <3>1, SourceFacts
  <2> QED
    BY <2>1, <2>2
<1>10. Named(src, Lookup(src, p), x) = IF found = {} THEN Nowhere ELSE CHOOSE c \in found : TRUE
  BY DEF Named
<1> HIDE DEF found, q, x
<1> QED
  <2>1. found # {} /\ (CHOOSE c \in found : TRUE) \in found
    BY <1>9
  <2> QED
    BY <1>8, <1>9, <1>10, <2>1 DEF q, x

\* The empty path leads to the root.
LEMMA LookupRoot ==
    ASSUME src \in Sources
    PROVE  Lookup(src, <<>>) = 0
<1>1. <<>> \in Seq(NameSet) /\ Len(<<>>) = 0
  BY SMT
<1> QED
  BY <1>1, TrailFacts DEF Lookup

-----------------------------------------------------------------------------
(***************************************************************************)
(* The invariant of the walk.                                              *)
(***************************************************************************)

\* A call under way is for the directory its path leads to, and has still to
\* look at children of it; an entry is for the object its path leads to.
FrameOk(s, f) ==
    /\ IsDir(s, f.dir)
    /\ Follow(s, Lookup(s, f.path)) = f.dir
    /\ f.todo \subseteq Children(s, f.dir)
EntryOk(s, e) ==
    IF e.type = "symlink" THEN Lookup(s, e.path) = e.node ELSE Follow(s, Lookup(s, e.path)) = e.node
Resolve ==
    /\ \A i \in 1 .. Len(stack) : FrameOk(src, stack[i])
    /\ \A k \in DOMAIN out : EntryOk(src, out[k])

\* q is p, or below it.
Thru(p, q) == Len(p) <= Len(q) /\ \A i \in 1 .. Len(p) : q[i] = p[i]

\* The paths of the calls are one below the other, and what an outer call has
\* still to look at has another name than the way the inner ones went.
Nested ==
    /\ \A i \in 1 .. Len(stack) : Len(stack[i].path) = i - 1
    /\ \A j \in 1 .. Len(stack) : \A i \in 1 .. j - 1 :
          /\ Thru(stack[i].path, stack[j].path)
          /\ \A n \in stack[i].todo : src.name[n] # stack[j].path[i]

\* Nothing was sent at or below what is still to be looked at, and what was
\* sent above a call is a directory.
Fresh ==
    \A i \in 1 .. Len(stack) : \A k \in DOMAIN out :
        /\ \A n \in stack[i].todo : ~Thru(Append(stack[i].path, src.name[n]), out[k].path)
        /\ Thru(out[k].path, stack[i].path) => out[k].type = "dir"

\* The j-th call was not entered from its parent, so it was through a link:
\* by way of visited, to another directory each time.
Jump(s, st, j) ==
    /\ j \in 2 .. Len(st)
    /\ ~(st[j].dir \in Node /\ s.parent[st[j].dir] = st[j - 1].dir)
LinkTargets(s) == {s.target[n] : n \in {m \in Node : s.kind[m] = "link"}}
Jumping ==
    /\ visited \subseteq LinkTargets(src)
    /\ \A j \in 1 .. Len(stack) : Jump(src, stack, j) =>
          /\ stack[j].dir \in visited
          /\ \A i \in 1 .. j - 1 : Jump(src, stack, i) => stack[i].dir # stack[j].dir

\* What is in a directory that was sent and can be read is sent, or still to
\* be looked at.
Sent(s, es, c) == \E k \in DOMAIN es : es[k].node = c /\ Lookup(s, es[k].path) = c
Entered(s, es, c) ==
    \/ s.parent[c] = 0
    \/ Readable(s, s.parent[c]) /\ \E k \in DOMAIN es : es[k].node = s.parent[c]
Waiting(st, c) == \E i \in 1 .. Len(st) : c \in st[i].todo
Sending ==
    \A c \in Node : Sendable(c) /\ Entered(src, out, c) => Sent(src, out, c) \/ Waiting(stack, c)

\* Without links followed, only what is owed is sent or entered.
Owing ==
    ~opts.follow =>
        /\ \A i \in 1 .. Len(stack) :
              stack[i].dir # 0 => Owed(src, opts, stack[i].dir) /\ Readable(src, stack[i].dir)
        /\ \A k \in DOMAIN out : out[k].node \in Node /\ Owed(src, opts, out[k].node)

\* A directory that was sent and cannot be read was counted.
Counting ==
    \A k \in DOMAIN out :
        IsDir(src, out[k].node) /\ ~Readable(src, out[k].node) => unreadable > 0

WalkInv ==
    /\ WalkType
    /\ Resolve /\ Nested /\ Fresh /\ OnePath /\ BelowDirs
    /\ Jumping /\ Sending /\ Owing /\ Counting

ScanInv == WalkInv /\ Planned

\* The i-th call goes on.
Persists(i) ==
    /\ i \in 1 .. Len(stack)
    /\ stack'[i].dir = stack[i].dir /\ stack'[i].path = stack[i].path
    /\ stack'[i].todo \subseteq stack[i].todo

\* A step that sends nothing.
Quiet ==
    /\ src' = src /\ opts' = opts /\ out' = out /\ visited' = visited /\ unreadable' = unreadable
    /\ \A i \in 1 .. Len(stack') : Persists(i)

\* A step that sends, with the call it may begin.
Begins(i, n, m, t) ==
    /\ i = Len(stack) + 1
    /\ t = "dir" /\ Readable(src, m)
    /\ stack'[i].dir = m
    /\ stack'[i].path = Child(n)
    /\ stack'[i].todo = Children(src, m)

\* A turn leaves the calls under way, the entry in hand aside.
LEMMA MovesPersist ==
    ASSUME NEW n, Moves(n), NEW i \in 1 .. Len(stack)
    PROVE  Persists(i)
<1>1. stack[i].todo \ {n} \subseteq stack[i].todo
  OBVIOUS
<1> QED
  BY <1>1 DEF Moves, Persists

LEMMA QuietFacts ==
    ASSUME WalkType, (\E n \in Node : Skips(n)) \/ Pops \/ Rests
    PROVE  Quiet
<1>1. Len(stack) \in Nat
  BY SMT DEF WalkType
<1>2. ASSUME NEW n \in Node, Skips(n)
      PROVE  Quiet
  <2>1. /\ src' = src /\ opts' = opts /\ out' = out /\ visited' = visited /\ unreadable' = unreadable
        /\ Len(stack') = Len(stack) /\ Moves(n)
    BY <1>2 DEF Skips, Stays
  <2> QED
    BY <2>1, MovesPersist DEF Quiet
<1>3. CASE Pops
  <2> /\ src' = src /\ opts' = opts /\ out' = out /\ visited' = visited /\ unreadable' = unreadable
      /\ Len(stack') = Len(stack) - 1
      /\ \A i \in 1 .. Len(stack) - 1 : stack'[i] = stack[i]
    BY <1>3 DEF Pops
  <2>2. ASSUME NEW i \in 1 .. Len(stack')
        PROVE  Persists(i)
    <3>1. i \in 1 .. Len(stack) - 1 /\ i \in 1 .. Len(stack)
      BY <1>1, SMT
    <3> QED
      BY <3>1 DEF Persists
  <2> QED
    BY <2>2 DEF Quiet
<1>4. CASE Rests
  <2>1. /\ src' = src /\ opts' = opts /\ out' = out /\ visited' = visited /\ unreadable' = unreadable
        /\ stack' = stack
    BY <1>4 DEF Rests
  <2>2. ASSUME NEW i \in 1 .. Len(stack')
        PROVE  Persists(i)
    BY <2>1 DEF Persists
  <2> QED
    BY <2>1, <2>2 DEF Quiet
<1> QED
  BY <1>2, <1>3, <1>4

\* The calls after a step that sends.
LEMMA SendsPersist ==
    ASSUME WalkType, NEW n, NEW m, NEW t, Sends(n, m, t), NEW i \in 1 .. Len(stack')
    PROVE  Persists(i) \/ Begins(i, n, m, t)
<1>1. Len(stack) \in Nat
  BY SMT DEF WalkType
<1>2. Moves(n) /\ IF t = "dir" /\ Readable(src, m) THEN Grows(n, m) ELSE Stays(n)
  BY DEF Sends
<1>3. CASE i \in 1 .. Len(stack)
  BY <1>2, <1>3, MovesPersist
<1>4. CASE i \notin 1 .. Len(stack)
  <2>1. Len(stack') # Len(stack)
    BY <1>4
  <2>2. t = "dir" /\ Readable(src, m) /\ Grows(n, m)
    BY <1>2, <2>1 DEF Stays
  <2>3. i = Len(stack) + 1
    <3>1. Len(stack') = Len(stack) + 1
      BY <2>2 DEF Grows
    <3> QED
      BY <1>1, <1>4, <3>1, SMT
  <2> QED
    BY <2>2, <2>3 DEF Grows, Begins
<1> QED
  BY <1>3, <1>4

\* The entries after a step that sends.
LEMMA SendsOut ==
    ASSUME WalkType, NEW n, NEW m, NEW t, Sends(n, m, t)
    PROVE  /\ DOMAIN out = 1 .. Len(out) /\ Len(out) \in Nat
           /\ DOMAIN out' = 1 .. Len(out) + 1
           /\ \A k \in DOMAIN out : k \in DOMAIN out' /\ out'[k] = out[k]
           /\ \A k \in DOMAIN out' : k \in DOMAIN out \/ k = Len(out) + 1
           /\ Len(out) + 1 \in DOMAIN out'
           /\ out'[Len(out) + 1].path = Child(n)
           /\ out'[Len(out) + 1].node = m
           /\ out'[Len(out) + 1].type = t
<1> DEFINE e == PlanEntry(Child(n), m, t)
<1>1. e.path = Child(n) /\ e.node = m /\ e.type = t
  BY DEF PlanEntry
<1>2. out' = Append(out, e) /\ out \in Seq(Items)
  BY DEF Sends, WalkType
<1> HIDE DEF e
<1>3. /\ DOMAIN out = 1 .. Len(out) /\ Len(out) \in Nat
      /\ DOMAIN out' = 1 .. Len(out) + 1
      /\ \A k \in DOMAIN out : k \in DOMAIN out' /\ out'[k] = out[k]
      /\ \A k \in DOMAIN out' : k \in DOMAIN out \/ k = Len(out) + 1
      /\ Len(out) + 1 \in DOMAIN out'
      /\ out'[Len(out) + 1] = e
  BY ONLY <1>2, SMT
<1> QED
  BY <1>1, <1>3

\* The call in hand.
LEMMA TopFacts ==
    ASSUME WalkType, NEW n, Moves(n)
    PROVE  /\ Len(stack) \in Nat /\ Len(stack) \in 1 .. Len(stack)
           /\ Top = stack[Len(stack)]
           /\ Top \in Frames /\ Top.path \in Seq(NameSet) /\ Top.dir \in Node \cup {0}
           /\ n \in Top.todo /\ n \in Node
<1>1. stack \in Seq(Frames)
  BY DEF WalkType
<1>2. Len(stack) > 0 /\ n \in Top.todo
  BY DEF Moves
<1>3. Len(stack) \in Nat /\ Len(stack) \in 1 .. Len(stack) /\ \A i \in 1 .. Len(stack) : stack[i] \in Frames
  BY <1>1, <1>2, SMT
<1>4. Top \in Frames
  BY <1>3 DEF Top
<1>5. Top.path \in Seq(NameSet) /\ Top.todo \subseteq Node /\ Top.dir \in Node \cup {0}
  BY <1>4 DEF Frames
<1> QED
  BY <1>2, <1>3, <1>4, <1>5 DEF Top

\* The entry in hand.
LEMMA HandFacts ==
    ASSUME WalkType, Resolve, NEW n, Moves(n)
    PROVE  /\ n \in Node /\ src.parent[n] = Top.dir /\ IsDir(src, Top.dir)
           /\ Lookup(src, Child(n)) = n
<1> FrameOk(src, Top) /\ n \in Top.todo /\ n \in Node /\ Top.path \in Seq(NameSet)
  BY TopFacts DEF Resolve
<1>2. src.parent[n] = Top.dir /\ IsDir(src, Top.dir) /\ Follow(src, Lookup(src, Top.path)) = Top.dir
  BY DEF FrameOk, Children
<1>3. src \in Sources
  BY DEF WalkType
<1>4. Lookup(src, Child(n)) = n
  BY <1>2, <1>3, LookupChild DEF Child
<1> QED
  BY <1>2, <1>4

\* The paths lead where they should.
LEMMA ResolveStep ==
    ASSUME WalkType, Resolve, [ScanNext]_scanVars
    PROVE  Resolve'
<1>1. CASE Quiet
  <2>1. ASSUME NEW i \in 1 .. Len(stack')
        PROVE  FrameOk(src, stack'[i])
    <3>1. Persists(i)
      BY <1>1 DEF Quiet
    <3>2. FrameOk(src, stack[i])
      BY <3>1 DEF Persists, Resolve
    <3> QED
      BY <3>1, <3>2 DEF Persists, FrameOk
  <2> QED
    BY <1>1, <2>1 DEF Resolve, Quiet
<1>2. ASSUME NEW n \in Node, NEW m \in Node \cup {0}, NEW t \in {"dir", "file", "symlink"}, Sends(n, m, t)
      PROVE  Resolve'
  <2> Moves(n) /\ src' = src /\ (t = "dir" <=> IsDir(src, m)) /\ (t # "symlink" => m = Follow(src, n))
    BY <1>2 DEF Sends
  <2>2. t = "symlink" => m = n
    BY <1>2 DEF Sends
  <2>3. Lookup(src, Child(n)) = n
    BY HandFacts
  <2>4. ASSUME NEW i \in 1 .. Len(stack')
        PROVE  FrameOk(src, stack'[i])
    <3>1. CASE Persists(i)
      <4>2. FrameOk(src, stack[i])
        BY <3>1 DEF Persists, Resolve
      <4> QED
        BY <3>1, <4>2 DEF Persists, FrameOk
    <3>2. CASE Begins(i, n, m, t)
      <4>1. t = "dir" /\ t # "symlink"
        BY <3>2 DEF Begins
      <4> QED
        BY <2>3, <3>2, <4>1 DEF Begins, FrameOk
    <3> QED
      BY <1>2, <3>1, <3>2, SendsPersist
  <2>5. ASSUME NEW k \in DOMAIN out'
        PROVE  EntryOk(src, out'[k])
    <3>1. CASE k \in DOMAIN out
      <4>1. out'[k] = out[k]
        BY <1>2, <3>1, SendsOut
      <4> QED
        BY <3>1, <4>1 DEF Resolve
    <3>2. CASE k = Len(out) + 1
      <4>1. out'[k].path = Child(n) /\ out'[k].node = m /\ out'[k].type = t
        BY <1>2, <3>2, SendsOut
      <4> QED
        BY <2>2, <2>3, <4>1 DEF EntryOk
    <3> QED
      BY <1>2, <3>1, <3>2, SendsOut
  <2> QED
    BY <2>4, <2>5 DEF Resolve
<1> QED
  BY <1>1, <1>2, Shapes, QuietFacts

\* A path and one name more.
LEMMA AppendAt ==
    ASSUME NEW p \in Seq(NameSet), NEW x \in NameSet
    PROVE  /\ Append(p, x) \in Seq(NameSet)
           /\ Len(p) \in Nat
           /\ Len(Append(p, x)) = Len(p) + 1
           /\ Append(p, x)[Len(p) + 1] = x
           /\ \A i \in 1 .. Len(p) : Append(p, x)[i] = p[i]
  BY SMT

\* Paths one below the other.
LEMMA ThruFacts ==
    ASSUME NEW p \in Seq(NameSet), NEW q \in Seq(NameSet), NEW x \in NameSet
    PROVE  /\ Thru(p, p)
           /\ Thru(p, q) => Thru(p, Append(q, x))
           /\ Thru(Append(p, x), q) => Thru(p, q)
           /\ Thru(q, Append(p, x)) => Thru(q, p) \/ Thru(Append(p, x), q)
           /\ ~Thru(Append(p, x), p)
           /\ Below(q, p) => Thru(p, q)
           /\ ~Below(p, p)
<1> DEFINE a == Len(p)
           b == Len(q)
           r == Append(p, x)
           u == Append(q, x)
<1> a \in Nat /\ b \in Nat /\ Len(r) = a + 1 /\ Len(u) = b + 1
  BY AppendAt
<1>2. /\ \A i \in 1 .. a : r[i] = p[i]
      /\ \A i \in 1 .. b : u[i] = q[i]
      /\ r[a + 1] = x
  BY AppendAt
<1>0. \A s, z \in Seq(NameSet) : Below(z, s) => Len(s) < Len(z) /\ \A i \in 1 .. Len(s) : s[i] = z[i]
  BY StrictPrefix, SMT
<1>3. Below(q, p) => a < b /\ \A i \in 1 .. a : p[i] = q[i]
  BY <1>0
<1>3a. Below(p, p) => a < a
  BY <1>0
<1>4a. Thru(p, p) <=> a <= a /\ \A i \in 1 .. a : p[i] = p[i]
  BY DEF Thru
<1>4b. Thru(p, q) <=> a <= b /\ \A i \in 1 .. a : q[i] = p[i]
  BY DEF Thru
<1>4c. Thru(q, p) <=> b <= a /\ \A i \in 1 .. b : p[i] = q[i]
  BY DEF Thru
<1>4d. Thru(p, u) <=> a <= b + 1 /\ \A i \in 1 .. a : u[i] = p[i]
  BY DEF Thru
<1>4e. Thru(r, q) <=> a + 1 <= b /\ \A i \in 1 .. a + 1 : q[i] = r[i]
  BY DEF Thru
<1>4f. Thru(q, r) <=> b <= a + 1 /\ \A i \in 1 .. b : r[i] = q[i]
  BY DEF Thru
<1>4g. Thru(r, p) <=> a + 1 <= a /\ \A i \in 1 .. a + 1 : p[i] = r[i]
  BY DEF Thru
<1> HIDE DEF a, b, r, u
<1>5. a <= a /\ ~(a < a) /\ ~(a + 1 <= a)
  BY SMT
<1>6. Thru(p, q) => Thru(p, u)
  <2>1. \A i \in 1 .. a : a <= b => i \in 1 .. b
    BY SMT
  <2>2. a <= b => a <= b + 1
    BY SMT
  <2> QED
    BY <1>2, <1>4b, <1>4d, <2>1, <2>2
<1>7. Thru(r, q) => Thru(p, q)
  <2>1. \A i \in 1 .. a : i \in 1 .. a + 1
    BY SMT
  <2>2. a + 1 <= b => a <= b
    BY SMT
  <2> QED
    BY <1>2, <1>4b, <1>4e, <2>1, <2>2
<1>8. Thru(q, r) => Thru(q, p) \/ Thru(r, q)
  <2>1. b <= a + 1 => b <= a \/ b = a + 1
    BY SMT
  <2>2. b <= a => \A i \in 1 .. b : i \in 1 .. a
    BY SMT
  <2>3. b = a + 1 => a + 1 <= b
    BY SMT
  <2>4. CASE b <= a
    BY <1>2, <1>4c, <1>4f, <2>2, <2>4
  <2>5. CASE b = a + 1
    BY <1>4e, <1>4f, <2>3, <2>5
  <2> QED
    BY <1>4f, <2>1, <2>4, <2>5
<1>9. a < b => a <= b
  BY SMT
<1> QED
  BY <1>3, <1>3a, <1>4a, <1>4b, <1>4g, <1>5, <1>6, <1>7, <1>8, <1>9 DEF r, u

LEMMA ThruMore ==
    ASSUME NEW p \in Seq(NameSet), NEW q \in Seq(NameSet), NEW x \in NameSet, Thru(p, q) \/ p = q
    PROVE  Thru(p, Append(q, x))
  BY ThruFacts

LEMMA ThruLess ==
    ASSUME NEW p \in Seq(NameSet), NEW q \in Seq(NameSet), NEW x \in NameSet, Thru(Append(p, x), q)
    PROVE  Thru(p, q)
  BY ThruFacts

\* Objects of one directory have different names.
LEMMA Siblings ==
    ASSUME src \in Sources, NEW c \in Node, NEW n \in Node, c # n, src.parent[c] = src.parent[n]
    PROVE  src.name[c] # src.name[n]
<1>1. \A x \in Node : \A y \in Node \ {x} : src.parent[y] = src.parent[x] => src.name[y] # src.name[x]
  BY SourceFacts
<1>2. c \in Node \ {n}
  OBVIOUS
<1> QED
  BY <1>1, <1>2

\* The path of the entry in hand.
LEMMA ChildPath ==
    ASSUME WalkType, Resolve, Nested, NEW n, Moves(n)
    PROVE  /\ Child(n) \in Seq(NameSet) /\ Child(n) = Append(Top.path, src.name[n])
           /\ src.name[n] \in NameSet
           /\ Len(Top.path) = Len(stack) - 1
           /\ Len(Child(n)) = Len(stack)
           /\ Child(n)[Len(stack)] = src.name[n]
           /\ \A i \in 1 .. Len(stack) - 1 : Child(n)[i] = Top.path[i]
<1> Top.path \in Seq(NameSet) /\ Len(stack) \in Nat /\ n \in Node
    /\ Len(stack) \in 1 .. Len(stack) /\ Top = stack[Len(stack)]
  BY TopFacts
<1>2. src.name[n] \in NameSet
  BY SourceFacts DEF WalkType
<1> Len(Top.path) = Len(stack) - 1
  BY DEF Nested
<1>4. Len(Top.path) + 1 = Len(stack)
  BY SMT
<1>5. Child(n) = Append(Top.path, src.name[n])
  BY DEF Child
<1> DEFINE p == Top.path
           x == src.name[n]
<1>6. p \in Seq(NameSet) /\ x \in NameSet
  BY <1>2
<1> HIDE DEF p, x
<1>7. /\ Append(p, x) \in Seq(NameSet)
      /\ Len(Append(p, x)) = Len(p) + 1
      /\ Append(p, x)[Len(p) + 1] = x
      /\ \A i \in 1 .. Len(p) : Append(p, x)[i] = p[i]
  BY <1>6, AppendAt
<1>8. Len(p) = Len(stack) - 1 /\ Len(p) + 1 = Len(stack) /\ Child(n) = Append(p, x)
  BY <1>4, <1>5 DEF p, x
<1>9. /\ Child(n) \in Seq(NameSet)
      /\ Len(Child(n)) = Len(stack)
      /\ Child(n)[Len(stack)] = x
      /\ \A i \in 1 .. Len(stack) - 1 : Child(n)[i] = p[i]
  BY <1>7, <1>8
<1> QED
  BY <1>2, <1>5, <1>9 DEF p, x

\* The path of the entry in hand is below every call, and apart from all that
\* the calls have still to look at after it.
LEMMA ChildApart ==
    ASSUME WalkType, Resolve, Nested, NEW n, Moves(n), NEW i \in 1 .. Len(stack)
    PROVE  /\ Thru(stack[i].path, Child(n))
           /\ \A c \in stack'[i].todo : src.name[c] # Child(n)[i]
<1> /\ Top.path \in Seq(NameSet) /\ Len(stack) \in Nat /\ n \in Node
    /\ Len(stack) \in 1 .. Len(stack) /\ Top = stack[Len(stack)]
  BY TopFacts
<1>2. /\ Child(n) = Append(Top.path, src.name[n])
      /\ src.name[n] \in NameSet
      /\ Child(n)[Len(stack)] = src.name[n]
      /\ \A j \in 1 .. Len(stack) - 1 : Child(n)[j] = Top.path[j]
  BY ChildPath
<1>3. stack'[i].todo = IF i = Len(stack) THEN stack[i].todo \ {n} ELSE stack[i].todo
  BY DEF Moves
<1>4. CASE i = Len(stack)
  <2>1. Thru(stack[i].path, Child(n))
    BY <1>2, <1>4, ThruMore
  <2>2. ASSUME NEW c \in stack'[i].todo
        PROVE  src.name[c] # Child(n)[i]
    <3>1. c \in Top.todo /\ c # n /\ FrameOk(src, Top)
      BY <1>3, <1>4 DEF Resolve
    <3>2. c \in Node /\ src.parent[c] = Top.dir
      BY <3>1 DEF FrameOk, Children
    <3>3. src.parent[n] = Top.dir /\ src \in Sources
      BY HandFacts DEF WalkType
    <3>4. src.name[c] # src.name[n]
      BY <3>1, <3>2, <3>3, Siblings
    <3> QED
      BY <1>2, <1>4, <3>4
  <2> QED
    BY <2>1, <2>2
<1>5. CASE i # Len(stack)
  <2>1. i \in 1 .. Len(stack) - 1
    BY <1>5, SMT
  <2>2. /\ Thru(stack[i].path, Top.path)
        /\ \A c \in stack[i].todo : src.name[c] # Top.path[i]
    BY <2>1 DEF Nested
  <2>3. stack[i].path \in Seq(NameSet)
    <3>1. stack[i] \in Frames
      BY SMT DEF WalkType
    <3> QED
      BY <3>1 DEF Frames
  <2>4. Thru(stack[i].path, Child(n))
    BY <1>2, <2>2, <2>3, ThruMore
  <2> QED
    BY <1>2, <1>3, <1>5, <2>1, <2>2, <2>4
<1> QED
  BY <1>4, <1>5, SMT

\* The calls stay one below the other.
LEMMA NestedStep ==
    ASSUME WalkType, WalkType', Resolve, Nested, [ScanNext]_scanVars
    PROVE  Nested'
<1>1. Len(stack) \in Nat /\ Len(stack') \in Nat
  BY SMT DEF WalkType
<1>2. ASSUME NEW j \in 1 .. Len(stack'), Persists(j), NEW i \in 1 .. j - 1, Persists(i)
      PROVE  /\ Thru(stack'[i].path, stack'[j].path)
             /\ \A n \in stack'[i].todo : src.name[n] # stack'[j].path[i]
  <2>1. j \in 1 .. Len(stack) /\ stack'[j].path = stack[j].path
        /\ stack'[i].path = stack[i].path /\ stack'[i].todo \subseteq stack[i].todo
    BY <1>2 DEF Persists
  <2>2. /\ Thru(stack[i].path, stack[j].path)
        /\ \A n \in stack[i].todo : src.name[n] # stack[j].path[i]
    BY <2>1 DEF Nested
  <2> QED
    BY <2>1, <2>2
<1>3. ASSUME NEW i \in 1 .. Len(stack'), Persists(i)
      PROVE  Len(stack'[i].path) = i - 1
  BY <1>3 DEF Persists, Nested
<1>4. CASE Quiet
  <2>1. ASSUME NEW j \in 1 .. Len(stack'), NEW i \in 1 .. j - 1
        PROVE  i \in 1 .. Len(stack')
    BY <1>1, SMT
  <2> QED
    BY <1>2, <1>3, <1>4, <2>1 DEF Nested, Quiet
<1>5. ASSUME NEW n \in Node, NEW m \in Node \cup {0}, NEW t \in {"dir", "file", "symlink"}, Sends(n, m, t)
      PROVE  Nested'
  <2> Moves(n) /\ src' = src
    BY <1>5 DEF Sends
  <2>2. ASSUME NEW i \in 1 .. Len(stack')
        PROVE  Len(stack'[i].path) = i - 1
    <3>1. CASE Begins(i, n, m, t)
      <4>1. i = Len(stack) + 1 /\ stack'[i].path = Child(n) /\ Len(Child(n)) = Len(stack)
        BY <3>1, ChildPath DEF Begins
      <4>2. Len(stack) = (Len(stack) + 1) - 1
        BY <1>1, SMT
      <4> QED
        BY <4>1, <4>2
    <3> QED
      BY <1>3, <1>5, <3>1, SendsPersist
  <2>3. ASSUME NEW j \in 1 .. Len(stack'), NEW i \in 1 .. j - 1
        PROVE  /\ Thru(stack'[i].path, stack'[j].path)
               /\ \A c \in stack'[i].todo : src.name[c] # stack'[j].path[i]
    <3>1. i \in 1 .. Len(stack)
      <4>1. j \in 1 .. Len(stack) \/ j = Len(stack) + 1
        BY <1>5, SendsPersist DEF Persists, Begins
      <4> QED
        BY <1>1, <4>1, SMT
    <3>2. Persists(i)
      BY <3>1, MovesPersist
    <3>3. CASE Persists(j)
      BY <1>2, <3>2, <3>3
    <3>4. CASE Begins(j, n, m, t)
      <4>1. stack'[j].path = Child(n) /\ stack'[i].path = stack[i].path
        BY <3>2, <3>4 DEF Begins, Persists
      <4>2. /\ Thru(stack[i].path, Child(n))
            /\ \A c \in stack'[i].todo : src.name[c] # Child(n)[i]
        BY <3>1, ChildApart
      <4> QED
        BY <4>1, <4>2
    <3> QED
      BY <1>5, <3>3, <3>4, SendsPersist
  <2> QED
    BY <2>2, <2>3 DEF Nested
<1> QED
  BY <1>4, <1>5, Shapes, QuietFacts

\* Nothing was sent at or below the entry in hand, and what was sent above it
\* is a directory.
LEMMA HandFresh ==
    ASSUME WalkType, Resolve, Nested, Fresh, NEW n, Moves(n), NEW k \in DOMAIN out
    PROVE  /\ out[k].path \in Seq(NameSet)
           /\ ~Thru(Child(n), out[k].path)
           /\ out[k].path # Child(n)
           /\ ~Below(out[k].path, Child(n))
           /\ Thru(out[k].path, Child(n)) => out[k].type = "dir"
           /\ Below(Child(n), out[k].path) => out[k].type = "dir"
<1> DEFINE q == out[k].path
           p == Top.path
           x == src.name[n]
           c == Child(n)
<1> q \in Seq(NameSet)
  <2>1. out[k] \in Items
    BY SMT DEF WalkType
  <2> QED
    BY <2>1 DEF Items
<1>2. p \in Seq(NameSet) /\ x \in NameSet /\ c \in Seq(NameSet) /\ c = Append(p, x)
  BY TopFacts, ChildPath
<1>3. ~Thru(c, q)
  BY TopFacts DEF Fresh, Child
<1>4. Thru(q, p) => out[k].type = "dir"
  BY TopFacts DEF Fresh
<1> HIDE DEF q, p, x, c
<1>5. Thru(q, c) => Thru(q, p) \/ Thru(c, q)
  BY <1>2, ThruFacts
<1>6. Thru(c, c) /\ (Below(q, c) => Thru(c, q)) /\ (Below(c, q) => Thru(q, c))
  BY <1>2, ThruFacts
<1>7. q # c
  BY <1>3, <1>6
<1> QED
  BY <1>3, <1>4, <1>5, <1>6, <1>7, ZenonT(30) DEF q, c

\* No path is sent twice, and nothing is sent below what is not a directory.
LEMMA PathsStep ==
    ASSUME WalkType, Resolve, Nested, Fresh, OnePath, BelowDirs, [ScanNext]_scanVars
    PROVE  OnePath' /\ BelowDirs'
<1>1. CASE Quiet
  <2>1. out' = out
    BY <1>1 DEF Quiet
  <2> QED
    BY <2>1 DEF OnePath, BelowDirs
<1>2. ASSUME NEW n \in Node, NEW m \in Node \cup {0}, NEW t \in {"dir", "file", "symlink"}, Sends(n, m, t)
      PROVE  OnePath' /\ BelowDirs'
  <2> DEFINE N == Len(out) + 1
  <2> Moves(n)
    BY <1>2 DEF Sends
  <2> /\ \A k \in DOMAIN out : out'[k] = out[k]
      /\ \A k \in DOMAIN out' : k \in DOMAIN out \/ k = N
      /\ out'[N].path = Child(n)
    BY <1>2, SendsOut
  <2> HIDE DEF N
  <2>3. ASSUME NEW i \in DOMAIN out', NEW j \in DOMAIN out', i # j
        PROVE  out'[i].path # out'[j].path
    <3>1. \A k \in DOMAIN out : out[k].path # Child(n)
      BY HandFresh
    <3>2. CASE i \in DOMAIN out /\ j \in DOMAIN out
      BY <2>3, <3>2 DEF OnePath
    <3>3. CASE i \in DOMAIN out /\ j = N
      BY <3>1, <3>3
    <3>4. CASE i = N /\ j \in DOMAIN out
      BY <3>1, <3>4
    <3> QED
      BY <2>3, <3>2, <3>3, <3>4
  <2>4. ASSUME NEW i \in DOMAIN out', NEW j \in DOMAIN out', Below(out'[j].path, out'[i].path)
        PROVE  out'[i].type = "dir"
    <3>1. \A k \in DOMAIN out : ~Below(out[k].path, Child(n))
      BY HandFresh
    <3>2. \A k \in DOMAIN out : Below(Child(n), out[k].path) => out[k].type = "dir"
      BY HandFresh
    <3>3. ~Below(Child(n), Child(n))
      <4>1. Child(n) \in Seq(NameSet) /\ src.name[n] \in NameSet
        BY ChildPath
      <4> QED
        BY <4>1, ThruFacts
    <3>4. CASE i \in DOMAIN out /\ j \in DOMAIN out
      BY <2>4, <3>4 DEF BelowDirs
    <3>5. CASE i \in DOMAIN out /\ j = N
      BY <2>4, <3>2, <3>5
    <3>6. CASE i = N
      BY <2>4, <3>1, <3>3, <3>6
    <3> QED
      BY <3>4, <3>5, <3>6
  <2> QED
    BY <2>3, <2>4 DEF OnePath, BelowDirs
<1> QED
  BY <1>1, <1>2, Shapes, QuietFacts

\* What was sent stays clear of what is to be looked at.
LEMMA FreshStep ==
    ASSUME WalkType, WalkType', Resolve, Nested, Fresh, [ScanNext]_scanVars
    PROVE  Fresh'
<1>1. ASSUME NEW i \in 1 .. Len(stack'), Persists(i), NEW k \in DOMAIN out
      PROVE  /\ \A c \in stack'[i].todo : ~Thru(Append(stack'[i].path, src.name[c]), out[k].path)
             /\ Thru(out[k].path, stack'[i].path) => out[k].type = "dir"
  <2>1. i \in 1 .. Len(stack) /\ stack'[i].path = stack[i].path /\ stack'[i].todo \subseteq stack[i].todo
    BY <1>1 DEF Persists
  <2> QED
    BY <2>1 DEF Fresh
<1>2. CASE Quiet
  BY <1>1, <1>2 DEF Fresh, Quiet
<1>3. ASSUME NEW n \in Node, NEW m \in Node \cup {0}, NEW t \in {"dir", "file", "symlink"}, Sends(n, m, t)
      PROVE  Fresh'
  <2> DEFINE N == Len(out) + 1
  <2>1. Moves(n) /\ src' = src /\ src \in Sources
    BY <1>3 DEF Sends, WalkType
  <2>2. /\ \A k \in DOMAIN out : out'[k] = out[k]
        /\ \A k \in DOMAIN out' : k \in DOMAIN out \/ k = N
        /\ out'[N].path = Child(n) /\ out'[N].type = t
    BY <1>3, SendsOut
  <2> HIDE DEF N
  <2>3. /\ Child(n) \in Seq(NameSet) /\ Len(Child(n)) = Len(stack)
        /\ Len(stack) \in Nat
    BY <2>1, ChildPath, TopFacts
  <2>4. ASSUME NEW i \in 1 .. Len(stack'), Persists(i)
        PROVE  /\ \A c \in stack'[i].todo : ~Thru(Append(stack'[i].path, src.name[c]), Child(n))
               /\ ~Thru(Child(n), stack'[i].path)
    <3> i \in 1 .. Len(stack) /\ stack'[i].path = stack[i].path /\ Len(stack[i].path) = i - 1
      BY <2>4 DEF Persists, Nested
    <3>2. ~Thru(Child(n), stack[i].path)
      <4>1. ~(Len(stack) <= i - 1)
        BY <2>3, SMT
      <4> QED
        BY <2>3, <4>1 DEF Thru
    <3>3. ASSUME NEW c \in stack'[i].todo
          PROVE  ~Thru(Append(stack[i].path, src.name[c]), Child(n))
      <4>1. stack'[i] \in Frames /\ stack[i] \in Frames
        BY SMT DEF WalkType
      <4>2. c \in Node /\ stack[i].path \in Seq(NameSet)
        BY <4>1 DEF Frames
      <4>3. src.name[c] \in NameSet
        BY <2>1, <4>2, SourceFacts
      <4> DEFINE p == stack[i].path
                 x == src.name[c]
      <4>4. Len(p) + 1 = i
        BY SMT
      <4>5. p \in Seq(NameSet) /\ x \in NameSet
        BY <4>2, <4>3
      <4>6. Child(n)[i] # x
        BY <2>1, <3>3, ChildApart
      <4> HIDE DEF p, x
      <4>7. Len(Append(p, x)) = i /\ Append(p, x)[i] = x
        BY <4>4, <4>5, AppendAt
      <4>8. i \in 1 .. i
        BY SMT
      <4> QED
        BY <4>6, <4>7, <4>8 DEF Thru, p, x
    <3> QED
      BY <3>2, <3>3
  <2>5. ASSUME NEW i \in 1 .. Len(stack'), Begins(i, n, m, t)
        PROVE  /\ \A c \in stack'[i].todo : ~Thru(Append(stack'[i].path, src.name[c]), Child(n))
               /\ t = "dir"
               /\ \A k \in DOMAIN out :
                     /\ \A c \in stack'[i].todo : ~Thru(Append(stack'[i].path, src.name[c]), out[k].path)
                     /\ Thru(out[k].path, stack'[i].path) => out[k].type = "dir"
    <3> stack'[i].path = Child(n) /\ t = "dir" /\ stack'[i].todo \subseteq Node
      BY <2>5 DEF Begins, Children
    <3>2. \A c \in Node : src.name[c] \in NameSet
      BY <2>1, SourceFacts
    <3>3. ASSUME NEW c \in stack'[i].todo
          PROVE  ~Thru(Append(Child(n), src.name[c]), Child(n))
      BY <2>3, <3>2, ThruFacts
    <3>4. ASSUME NEW k \in DOMAIN out
          PROVE  /\ \A c \in stack'[i].todo : ~Thru(Append(Child(n), src.name[c]), out[k].path)
                 /\ Thru(out[k].path, Child(n)) => out[k].type = "dir"
      <4>1. /\ out[k].path \in Seq(NameSet) /\ ~Thru(Child(n), out[k].path)
            /\ Thru(out[k].path, Child(n)) => out[k].type = "dir"
        BY <2>1, HandFresh
      <4>2. ASSUME NEW c \in stack'[i].todo
            PROVE  Thru(Append(Child(n), src.name[c]), out[k].path) => Thru(Child(n), out[k].path)
        BY <2>3, <3>2, <4>1, ThruLess
      <4> QED
        BY <4>1, <4>2
    <3> QED
      BY <3>3, <3>4
  <2>6. ASSUME NEW i \in 1 .. Len(stack'), NEW k \in DOMAIN out'
        PROVE  /\ \A c \in stack'[i].todo : ~Thru(Append(stack'[i].path, src.name[c]), out'[k].path)
               /\ Thru(out'[k].path, stack'[i].path) => out'[k].type = "dir"
    <3>1. Persists(i) \/ Begins(i, n, m, t)
      BY <1>3, SendsPersist
    <3>2. CASE k \in DOMAIN out
      <4>1. out'[k] = out[k]
        BY <2>2, <3>2
      <4>2. CASE Persists(i)
        BY <1>1, <3>2, <4>1, <4>2
      <4>3. CASE Begins(i, n, m, t)
        BY <2>5, <3>2, <4>1, <4>3
      <4> QED
        BY <3>1, <4>2, <4>3, SMT
    <3>3. CASE k = N
      BY <2>2, <2>4, <2>5, <3>1, <3>3
    <3> QED
      BY <2>2, <3>2, <3>3
  <2> QED
    BY <2>1, <2>6 DEF Fresh
<1> QED
  BY <1>2, <1>3, Shapes, QuietFacts

\* Calls that go on were entered as they were.
LEMMA JumpSame ==
    ASSUME WalkType, WalkType', NEW j \in 1 .. Len(stack'), Jump(src, stack', j),
           Persists(j), \A i \in 1 .. j - 1 : Persists(i)
    PROVE  Jump(src, stack, j)
<1>1. Len(stack) \in Nat /\ Len(stack') \in Nat
  BY SMT DEF WalkType
<1>2. /\ j \in 2 .. Len(stack')
      /\ ~(stack'[j].dir \in Node /\ src.parent[stack'[j].dir] = stack'[j - 1].dir)
  BY DEF Jump
<1>3. j \in 1 .. Len(stack) /\ stack'[j].dir = stack[j].dir
  BY DEF Persists
<1>4. j \in 2 .. Len(stack) /\ j - 1 \in 1 .. j - 1
  BY <1>1, <1>2, <1>3, SMT
<1>5. stack'[j - 1].dir = stack[j - 1].dir
  BY <1>4 DEF Persists
<1> QED
  BY <1>2, <1>3, <1>4, <1>5 DEF Jump

\* A link enters a directory once.
LEMMA JumpingStep ==
    ASSUME WalkType, WalkType', Resolve, Jumping, [ScanNext]_scanVars
    PROVE  Jumping'
<1>1. Len(stack) \in Nat /\ Len(stack') \in Nat
  BY SMT DEF WalkType
<1>2. ASSUME NEW j \in 1 .. Len(stack'), \A i \in 1 .. j : Persists(i), Jump(src, stack', j)
      PROVE  /\ stack'[j].dir \in visited
             /\ \A i \in 1 .. j - 1 : Jump(src, stack', i) => stack'[i].dir # stack'[j].dir
  <2>1. j \in 1 .. j /\ \A i \in 1 .. j - 1 : i \in 1 .. j /\ i \in 1 .. Len(stack')
    BY <1>1, SMT
  <2>2. Persists(j) /\ \A i \in 1 .. j - 1 : Persists(i)
    BY <1>2, <2>1
  <2> j \in 1 .. Len(stack) /\ stack'[j].dir = stack[j].dir
    BY <2>2 DEF Persists
  <2>4. Jump(src, stack, j)
    BY <1>2, <2>2, JumpSame
  <2>5. /\ stack[j].dir \in visited
        /\ \A i \in 1 .. j - 1 : Jump(src, stack, i) => stack[i].dir # stack[j].dir
    BY <2>4 DEF Jumping
  <2>6. ASSUME NEW i \in 1 .. j - 1, Jump(src, stack', i)
        PROVE  stack'[i].dir # stack'[j].dir
    <3>1. \A h \in 1 .. i - 1 : h \in 1 .. j
      BY <1>1, SMT
    <3>2. Persists(i) /\ \A h \in 1 .. i - 1 : Persists(h)
      BY <1>2, <2>2, <3>1
    <3>3. Jump(src, stack, i)
      BY <2>1, <2>6, <3>2, JumpSame
    <3>4. stack'[i].dir = stack[i].dir
      BY <3>2 DEF Persists
    <3> QED
      BY <2>5, <3>3, <3>4
  <2> QED
    BY <2>5, <2>6
<1>3. CASE Quiet
  <2>1. ASSUME NEW j \in 1 .. Len(stack')
        PROVE  \A i \in 1 .. j : Persists(i)
    <3>1. \A i \in 1 .. j : i \in 1 .. Len(stack')
      BY <1>1, SMT
    <3> QED
      BY <1>3, <3>1 DEF Quiet
  <2>2. src' = src /\ visited' = visited
    BY <1>3 DEF Quiet
  <2> QED
    BY <1>2, <2>1, <2>2 DEF Jumping
<1>4. ASSUME NEW n \in Node, NEW m \in Node \cup {0}, NEW t \in {"dir", "file", "symlink"}, Sends(n, m, t)
      PROVE  Jumping'
  <2>1. Moves(n) /\ src' = src
    BY <1>4 DEF Sends
  <2>2. \/ m = n /\ visited' = visited
        \/ /\ src.kind[n] = "link" /\ m = src.target[n]
           /\ visited \subseteq visited' /\ visited' \subseteq visited \cup {m}
           /\ t = "dir" => m \notin visited /\ m \in visited'
    BY <1>4 DEF Sends
  <2>3. visited' \subseteq LinkTargets(src)
    BY <2>2 DEF Jumping, LinkTargets
  <2>4. visited \subseteq visited'
    BY <2>2
  <2>5. \A i \in 1 .. Len(stack) : Persists(i)
    BY <2>1, MovesPersist
  <2>6. ASSUME NEW j \in 1 .. Len(stack'), Jump(src, stack', j)
        PROVE  /\ stack'[j].dir \in visited'
               /\ \A i \in 1 .. j - 1 : Jump(src, stack', i) => stack'[i].dir # stack'[j].dir
    <3>1. CASE Persists(j)
      <4>1. \A i \in 1 .. j : i \in 1 .. Len(stack)
        <5>1. j \in 1 .. Len(stack)
          BY <3>1 DEF Persists
        <5> QED
          BY <1>1, <5>1, SMT
      <4> QED
        BY <1>2, <2>4, <2>5, <2>6, <4>1
    <3>2. CASE Begins(j, n, m, t)
      <4> j = Len(stack) + 1 /\ t = "dir" /\ stack'[j].dir = m
        BY <3>2 DEF Begins
      <4>2. Len(stack) \in 1 .. Len(stack) /\ Top = stack[Len(stack)] /\ src.parent[n] = Top.dir
        BY <2>1, TopFacts, HandFacts
      <4>3. stack'[Len(stack)].dir = Top.dir /\ j - 1 = Len(stack)
        <5>1. j - 1 = Len(stack)
          BY <1>1, SMT
        <5> QED
          BY <2>5, <4>2, <5>1 DEF Persists
      <4>4. m # n
        BY <2>6, <4>2, <4>3 DEF Jump
      <4>5. m \notin visited /\ m \in visited'
        BY <2>2, <4>4
      <4>6. ASSUME NEW i \in 1 .. j - 1, Jump(src, stack', i)
            PROVE  stack'[i].dir \in visited
        <5>1. i \in 1 .. Len(stack') /\ \A h \in 1 .. i : h \in 1 .. Len(stack)
          BY <1>1, SMT
        <5> QED
          BY <1>2, <2>5, <4>6, <5>1
      <4> QED
        BY <4>5, <4>6
    <3> QED
      BY <1>4, <3>1, <3>2, SendsPersist
  <2> QED
    BY <2>1, <2>3, <2>6 DEF Jumping
<1> QED
  BY <1>3, <1>4, Shapes, QuietFacts

\* Every directory that cannot be read is counted.
LEMMA CountingStep ==
    ASSUME WalkType, Counting, [ScanNext]_scanVars
    PROVE  Counting'
<1>1. CASE Quiet
  <2>1. src' = src /\ out' = out /\ unreadable' = unreadable
    BY <1>1 DEF Quiet
  <2> QED
    BY <2>1 DEF Counting
<1>2. ASSUME NEW n \in Node, NEW m \in Node \cup {0}, NEW t \in {"dir", "file", "symlink"}, Sends(n, m, t)
      PROVE  Counting'
  <2> src' = src /\ (t = "dir" <=> IsDir(src, m))
      /\ unreadable' = IF t = "dir" /\ ~Readable(src, m) THEN unreadable + 1 ELSE unreadable
    BY <1>2 DEF Sends
  <2>2. unreadable + 1 > 0 /\ (unreadable > 0 => unreadable' > 0)
    BY SMT DEF WalkType
  <2> /\ \A k \in DOMAIN out : out'[k] = out[k]
      /\ \A k \in DOMAIN out' : k \in DOMAIN out \/ k = Len(out) + 1
      /\ out'[Len(out) + 1].node = m
    BY <1>2, SendsOut
  <2>4. ASSUME NEW k \in DOMAIN out', IsDir(src, out'[k].node), ~Readable(src, out'[k].node)
        PROVE  unreadable' > 0
    <3>1. CASE k \in DOMAIN out
      BY <2>2, <2>4, <3>1 DEF Counting
    <3>2. CASE k = Len(out) + 1
      BY <2>2, <2>4, <3>2
    <3> QED
      BY <3>1, <3>2
  <2> QED
    BY <2>4, ZenonT(30) DEF Counting
<1> QED
  BY <1>1, <1>2, Shapes, QuietFacts

\* Nothing that can be sent is forgotten.
LEMMA SendingStep ==
    ASSUME WalkType, WalkType', Resolve, Sending, [ScanNext]_scanVars
    PROVE  Sending'
<1>1. Len(stack) \in Nat /\ Len(stack') \in Nat
  BY SMT DEF WalkType
<1>2. ASSUME NEW n \in Node, Skips(n)
      PROVE  Sending'
  <2> /\ src' = src /\ opts' = opts /\ out' = out /\ vanished \subseteq vanished'
      /\ Moves(n) /\ Len(stack') = Len(stack) /\ ~Sendable(n)'
    BY <1>2 DEF Skips, Stays
  <2>2. ASSUME NEW c \in Node, Sendable(c)', Entered(src, out, c)
        PROVE  Sent(src, out, c) \/ Waiting(stack', c)
    <3>1. Sendable(c) /\ c # n
      BY <2>2 DEF Sendable, Eligible
    <3>2. CASE Waiting(stack, c)
      <4>1. PICK i \in 1 .. Len(stack) : c \in stack[i].todo
        BY <3>2 DEF Waiting
      <4>2. c \in stack'[i].todo
        BY <3>1, <4>1 DEF Moves
      <4> QED
        BY <4>2 DEF Waiting
    <3> QED
      BY <2>2, <3>1, <3>2 DEF Sending
  <2> QED
    BY <2>2 DEF Sending
<1>3. ASSUME NEW n \in Node, NEW m \in Node \cup {0}, NEW t \in {"dir", "file", "symlink"}, Sends(n, m, t)
      PROVE  Sending'
  <2> DEFINE N == Len(out) + 1
  <2> /\ src' = src /\ opts' = opts /\ vanished' = vanished /\ Moves(n)
      /\ (t = "dir" <=> IsDir(src, m))
      /\ IF t = "dir" /\ Readable(src, m) THEN Grows(n, m) ELSE Stays(n)
    BY <1>3 DEF Sends
  <2>2. m = n \/ ~Eligible(n)
    BY <1>3 DEF Sends, Eligible
  <2>3. /\ \A k \in DOMAIN out : k \in DOMAIN out' /\ out'[k] = out[k]
        /\ \A k \in DOMAIN out' : k \in DOMAIN out \/ k = N
        /\ N \in DOMAIN out' /\ out'[N].path = Child(n) /\ out'[N].node = m
    BY <1>3, SendsOut
  <2> HIDE DEF N
  <2>4. 1 .. Len(stack) \subseteq 1 .. Len(stack')
    <3>1. Len(stack') = Len(stack) \/ Len(stack') = Len(stack) + 1
      BY DEF Grows, Stays
    <3> QED
      BY <1>1, <3>1, SMT
  <2>5. ASSUME NEW c \in Node, Sendable(c), Entered(src, out', c)
        PROVE  Sent(src, out', c) \/ Waiting(stack', c)
    <3>1. CASE c = n
      <4>1. m = n
        BY <2>2, <2>5, <3>1 DEF Sendable
      <4>2. Lookup(src, Child(n)) = n
        BY HandFacts
      <4> QED
        BY <2>3, <3>1, <4>1, <4>2 DEF Sent
    <3>2. CASE c # n /\ Entered(src, out, c)
      <4>1. Sent(src, out, c) => Sent(src, out', c)
        BY <2>3 DEF Sent
      <4>2. ASSUME Waiting(stack, c)
            PROVE  Waiting(stack', c)
        <5>1. PICK i \in 1 .. Len(stack) : c \in stack[i].todo
          BY <4>2, ZenonT(30) DEF Waiting
        <5>2. c \in stack'[i].todo
          BY <3>2, <5>1 DEF Moves
        <5> QED
          BY <2>4, <5>2 DEF Waiting
      <4> QED
        BY <2>5, <3>2, <4>1, <4>2 DEF Sending
    <3>3. CASE ~Entered(src, out, c)
      <4> Readable(src, m) /\ src.parent[c] = m
        <5>1. PICK k \in DOMAIN out' : out'[k].node = src.parent[c]
          BY <2>5, <3>3 DEF Entered
        <5>2. Readable(src, src.parent[c]) /\ k \notin DOMAIN out
          BY <2>3, <2>5, <3>3, <5>1 DEF Entered
        <5> QED
          BY <2>3, <5>1, <5>2
      <4>2. IsDir(src, m)
        BY DEF Readable, IsDir
      <4>3. Grows(n, m)
        BY <4>2
      <4>4. Len(stack) + 1 \in 1 .. Len(stack')
        <5>1. Len(stack') = Len(stack) + 1
          BY <4>3 DEF Grows
        <5> QED
          BY <1>1, <5>1, SMT
      <4>5. c \in stack'[Len(stack) + 1].todo
        BY <4>3 DEF Grows, Children
      <4> QED
        BY <4>4, <4>5 DEF Waiting
    <3> QED
      BY <3>1, <3>2, <3>3
  <2>6. \A c \in Node : Sendable(c)' => Sendable(c)
    BY DEF Sendable, Eligible
  <2> QED
    BY <2>5, <2>6 DEF Sending
<1>4. CASE Pops
  <2>1. /\ src' = src /\ opts' = opts /\ out' = out /\ vanished' = vanished
        /\ Len(stack') = Len(stack) - 1 /\ Top.todo = {}
        /\ \A i \in 1 .. Len(stack) - 1 : stack'[i] = stack[i]
    BY <1>4 DEF Pops
  <2>2. ASSUME NEW c \in Node, Waiting(stack, c)
        PROVE  Waiting(stack', c)
    <3>1. PICK i \in 1 .. Len(stack) : c \in stack[i].todo
      BY <2>2 DEF Waiting
    <3>2. i # Len(stack)
      BY <2>1, <3>1 DEF Top
    <3>3. i \in 1 .. Len(stack) - 1
      BY <1>1, <3>2, SMT
    <3> QED
      BY <2>1, <3>1, <3>3 DEF Waiting
  <2>3. \A c \in Node : Sendable(c)' => Sendable(c)
    BY <2>1 DEF Sendable, Eligible
  <2> QED
    BY <2>1, <2>2, <2>3, ZenonT(30) DEF Sending
<1>5. CASE Rests
  <2>1. src' = src /\ opts' = opts /\ out' = out /\ vanished' = vanished /\ stack' = stack
    BY <1>5 DEF Rests
  <2>3. \A c \in Node : Sendable(c)' => Sendable(c)
    BY <2>1 DEF Sendable, Eligible
  <2> QED
    BY <2>1, <2>3 DEF Sending
<1> QED
  BY <1>2, <1>3, <1>4, <1>5, Shapes

\* The directories above an object: its parent, and those above that.
LEMMA AboveFacts ==
    ASSUME src \in Sources, NEW n \in Node
    PROVE  /\ Above(src, n) \subseteq Node
           /\ \A m \in Above(src, n) \cup {n} : src.parent[m] \in Above(src, n) \cup {0}
           /\ \A m \in Above(src, n) : src.kind[m] \in {"dir", "locked"} /\ IsDir(src, m)
           /\ src.parent[n] = 0 => Above(src, n) = {}
           /\ src.parent[n] # 0 => Above(src, n) \subseteq Above(src, src.parent[n]) \cup {src.parent[n]}
<1> DEFINE A == Above(src, n)
           d == src.parent[n]
<1>1. \A c \in Node : src.parent[c] # 0 => src.parent[c] \in Node /\ src.kind[src.parent[c]] \in {"dir", "locked"}
  BY SourceFacts
<1>2. A \subseteq Node /\ \A S \in SUBSET Node : Upward(src, n, S) => A \subseteq S
  BY DEF Above
<1>3. ASSUME NEW m \in A \cup {n}, src.parent[m] # 0
      PROVE  src.parent[m] \in A
  <2>1. m \in Node /\ src.parent[m] \in Node
    BY <1>1, <1>2, <1>3
  <2>2. ASSUME NEW S \in SUBSET Node, Upward(src, n, S)
        PROVE  src.parent[m] \in S
    <3>1. m \in S \cup {n}
      BY <1>2, <2>2
    <3> QED
      BY <1>3, <2>2, <3>1 DEF Upward
  <2> QED
    BY <2>1, <2>2 DEF Above
<1>4. A \subseteq {c \in Node : src.kind[c] \in {"dir", "locked"}}
  <2> DEFINE S == {c \in Node : src.kind[c] \in {"dir", "locked"}}
  <2>1. Upward(src, n, S)
    BY <1>1 DEF Upward
  <2> QED
    BY <1>2, <2>1
<1>5. ASSUME d = 0
      PROVE  A = {}
  <2>1. Upward(src, n, {})
    BY <1>5 DEF Upward
  <2> QED
    BY <1>2, <2>1
<1>6. ASSUME d # 0, NEW m \in A, m # d
      PROVE  m \in Above(src, d)
  <2>1. d \in Node
    BY <1>1, <1>6
  <2>2. ASSUME NEW S \in SUBSET Node, Upward(src, d, S)
        PROVE  m \in S
    <3>1. Upward(src, n, S \cup {d})
      BY <2>2 DEF Upward
    <3>2. S \cup {d} \in SUBSET Node
      BY <2>1
    <3>3. m \in S \cup {d}
      BY <1>2, <1>6, <3>1, <3>2
    <3> QED
      BY <1>6, <3>3
  <2> QED
    BY <1>2, <1>6, <2>2 DEF Above
<1>7. \A m \in A : src.kind[m] \in {"dir", "locked"} /\ IsDir(src, m)
  BY <1>4 DEF IsDir
<1> HIDE DEF A, d
<1>8. \A m \in A \cup {n} : src.parent[m] \in A \cup {0}
  BY <1>3
<1>9. d # 0 => A \subseteq Above(src, d) \cup {d}
  BY <1>6
<1> QED
  BY <1>2, <1>5, <1>7, <1>8, <1>9 DEF A, d

\* What is in a directory that is owed, and is not left out, is owed.
LEMMA OwedStep ==
    ASSUME src \in Sources, NEW n \in Node, Eligible(n), NEW d, src.parent[n] = d,
           d # 0 => Owed(src, opts, d) /\ Readable(src, d)
    PROVE  Owed(src, opts, n)
<1>1. /\ src.name[n] # Esync
      /\ ~(IsDir(src, n) /\ opts.oneFS /\ n \in src.other)
      /\ src.kind[n] # "special"
      /\ src.kind[n] = "link" => ~opts.follow
  BY DEF Eligible
<1>2. ASSUME NEW m \in Above(src, n)
      PROVE  src.name[m] # Esync /\ ~(IsDir(src, m) /\ opts.oneFS /\ m \in src.other) /\ Readable(src, m)
  <2>1. d # 0 /\ m \in Above(src, d) \cup {d}
    BY <1>2, AboveFacts
  <2> QED
    BY <2>1 DEF Owed
<1> QED
  BY <1>1, <1>2 DEF Owed

\* Only what is owed is sent.
LEMMA OwingStep ==
    ASSUME WalkType, Resolve, Owing, [ScanNext]_scanVars
    PROVE  Owing'
<1>1. ASSUME NEW i \in 1 .. Len(stack'), Persists(i), ~opts.follow, stack'[i].dir # 0
      PROVE  Owed(src, opts, stack'[i].dir) /\ Readable(src, stack'[i].dir)
  BY <1>1 DEF Persists, Owing
<1>2. CASE Quiet
  <2>1. src' = src /\ opts' = opts /\ out' = out /\ \A i \in 1 .. Len(stack') : Persists(i)
    BY <1>2 DEF Quiet
  <2>2. ~opts.follow =>
            /\ \A i \in 1 .. Len(stack') :
                  stack'[i].dir # 0 => Owed(src, opts, stack'[i].dir) /\ Readable(src, stack'[i].dir)
            /\ \A k \in DOMAIN out : out[k].node \in Node /\ Owed(src, opts, out[k].node)
    BY <1>1, <2>1 DEF Owing
  <2> QED
    BY <2>1, <2>2 DEF Owing
<1>3. ASSUME NEW n \in Node, NEW m \in Node \cup {0}, NEW t \in {"dir", "file", "symlink"}, Sends(n, m, t)
      PROVE  Owing'
  <2> src' = src /\ opts' = opts /\ Moves(n) /\ src \in Sources
    BY <1>3 DEF Sends, WalkType
  <2>2. ASSUME ~opts.follow
        PROVE  m = n /\ Owed(src, opts, n)
    <3>1. m = n /\ Eligible(n)
      BY <1>3, <2>2 DEF Sends
    <3>2. /\ Top.dir # 0 => Owed(src, opts, Top.dir) /\ Readable(src, Top.dir)
          /\ src.parent[n] = Top.dir
      BY <2>2, TopFacts, HandFacts DEF Owing
    <3> QED
      BY <3>1, <3>2, OwedStep
  <2>3. ASSUME ~opts.follow, NEW i \in 1 .. Len(stack'), stack'[i].dir # 0
        PROVE  Owed(src, opts, stack'[i].dir) /\ Readable(src, stack'[i].dir)
    <3>1. CASE Persists(i)
      BY <1>1, <2>3, <3>1
    <3>2. CASE Begins(i, n, m, t)
      BY <2>2, <2>3, <3>2 DEF Begins
    <3> QED
      BY <1>3, <3>1, <3>2, SendsPersist
  <2>4. ASSUME ~opts.follow, NEW k \in DOMAIN out'
        PROVE  out'[k].node \in Node /\ Owed(src, opts, out'[k].node)
    <3>1. CASE k \in DOMAIN out
      <4>1. out'[k] = out[k]
        BY <1>3, <3>1, SendsOut
      <4> QED
        BY <2>4, <3>1, <4>1 DEF Owing
    <3>2. CASE k = Len(out) + 1
      <4>1. out'[k].node = m
        BY <1>3, <3>2, SendsOut
      <4> QED
        BY <2>2, <2>4, <4>1
    <3> QED
      BY <1>3, <3>1, <3>2, SendsOut
  <2> QED
    BY <2>3, <2>4, ZenonT(30) DEF Owing
<1> QED
  BY <1>2, <1>3, Shapes, QuietFacts

-----------------------------------------------------------------------------
\* The walk begins with the root.
LEMMA WalkStarts ==
    ASSUME ScanInit
    PROVE  ScanInv
<1> /\ src \in Sources /\ opts \in OptionSets
    /\ stack = <<Frame(src, 0, <<>>)>>
    /\ visited = {} /\ unreadable = 0 /\ vanished = {} /\ out = <<>>
    /\ phase = "walk"
  BY DEF ScanInit
<1>2. Frame(src, 0, <<>>) \in Frames
  <2>1. Children(src, 0) \subseteq Node /\ <<>> \in Seq(NameSet)
    BY SMT DEF Children
  <2> QED
    BY <2>1 DEF Frame, Frames
<1> /\ stack \in Seq(Frames) /\ stack # <<>> /\ Len(stack) = 1 /\ 1 .. Len(stack) = {1}
    /\ stack[1] = Frame(src, 0, <<>>)
  <2> USE SMT
  <2> DEFINE f == Frame(src, 0, <<>>)
  <2>1. f \in Frames /\ stack = <<f>>
    BY <1>2
  <2> HIDE DEF f
  <2>2. stack \in Seq(Frames) /\ stack # <<>> /\ Len(stack) = 1 /\ stack[1] = f
    BY ONLY <2>1
  <2>3. 1 .. 1 = {1}
    OBVIOUS
  <2> QED
    BY <2>2, <2>3, Zenon DEF f
<1>4. stack[1].dir = 0 /\ stack[1].path = <<>> /\ stack[1].todo = Children(src, 0)
  BY SMT DEF Frame
<1> out \in Seq(Items) /\ DOMAIN out = {}
  BY SMT
<1>6. WalkType
  <2>1. unreadable \in Nat
    OBVIOUS
  <2> QED
    BY <2>1 DEF WalkType
<1>7. Resolve
  <2>1. IsDir(src, 0) /\ Follow(src, 0) = 0
    <3>1. 0 \notin Node
      BY SourceAssumption
    <3> QED
      BY <3>1 DEF IsDir, Follow
  <2>2. Lookup(src, <<>>) = 0
    BY LookupRoot
  <2>3. FrameOk(src, stack[1])
    BY <1>4, <2>1, <2>2 DEF FrameOk
  <2> QED
    BY <2>3 DEF Resolve
<1>8. Nested
  <2>1. Len(stack[1].path) = 1 - 1 /\ 1 .. 1 - 1 = {}
    BY <1>4, SMT
  <2> QED
    BY <2>1 DEF Nested
<1>9. Fresh /\ OnePath /\ BelowDirs /\ Counting
  BY DEF Fresh, OnePath, BelowDirs, Counting
<1>10. Jumping
  <2>1. \A j \in {1} : ~(j \in 2 .. 1)
    BY SMT
  <2> QED
    BY <2>1 DEF Jumping, Jump
<1>11. Sending
  <2>1. ASSUME NEW c \in Node, Entered(src, out, c)
        PROVE  Waiting(stack, c)
    <3>1. src.parent[c] = 0
      BY <2>1 DEF Entered
    <3>2. c \in stack[1].todo
      BY <1>4, <3>1 DEF Children
    <3> QED
      BY <3>2 DEF Waiting
  <2> QED
    BY <2>1 DEF Sending
<1>12. Owing
  BY <1>4 DEF Owing
<1>13. Planned
  BY DEF Planned
<1> QED
  BY <1>6, <1>7, <1>8, <1>9, <1>10, <1>11, <1>12, <1>13 DEF ScanInv, WalkInv

\* The plan is what Build leaves, and stays.
LEMMA PlannedStep ==
    ASSUME Planned, [ScanNext]_scanVars
    PROVE  Planned'
<1> SUFFICES ASSUME phase' = "done"
             PROVE  /\ exclusions' = {out'[i] : i \in Dropped(opts', out')}
                    /\ entries' = Sorted(out', Left(opts', out') \ Dropped(opts', out'))
                    /\ groupStart' = ComputeGroups(opts', entries')
  BY DEF Planned
<1>1. CASE Build
  <2>1. opts' = opts /\ out' = out
    BY <1>1 DEF Build, walkVars
  <2>2. /\ exclusions' = {out[i] : i \in Dropped(opts, out)}
        /\ entries' = Sorted(out, Left(opts, out) \ Dropped(opts, out))
        /\ groupStart' = ComputeGroups(opts, entries')
    BY <1>1 DEF Build, Left, Dropped
  <2> QED
    BY <2>1, <2>2, ZenonT(30)
<1>2. CASE UNCHANGED scanVars
  <2>1. /\ opts' = opts /\ out' = out /\ phase' = phase
        /\ exclusions' = exclusions /\ entries' = entries /\ groupStart' = groupStart
    BY <1>2 DEF scanVars, walkVars, planVars
  <2> QED
    BY <2>1 DEF Planned
<1>3. ~Return
  BY DEF Return
<1>4. ~\E n \in Node : Ignore(n) \/ WalkDirectory(n) \/ WalkLeaf(n) \/ FollowLink(n)
  BY DEF Ignore, WalkDirectory, WalkLeaf, FollowLink, Looking
<1> QED
  BY <1>1, <1>2, <1>3, <1>4 DEF ScanNext

\* Every step of the scan keeps the invariant: what the calls under way, the
\* entries sent and the visited set of walkDir and handleSymlink have in
\* common, and what Build makes of the entries.
THEOREM ScanKeeps == ScanSpec => []ScanInv
<1>1. ScanInit => ScanInv
  BY WalkStarts
<1>2. ASSUME ScanInv, [ScanNext]_scanVars
      PROVE  ScanInv'
  <2> /\ WalkType /\ Resolve /\ Nested /\ Fresh /\ OnePath /\ BelowDirs
      /\ Jumping /\ Sending /\ Owing /\ Counting /\ Planned
    BY <1>2 DEF ScanInv, WalkInv
  <2> WalkType'
    BY <1>2, WalkTypeStep
  <2>3. Resolve' /\ Counting' /\ Owing' /\ Planned'
    BY <1>2, ResolveStep, CountingStep, OwingStep, PlannedStep
  <2>4. Nested' /\ Fresh'
    BY <1>2, NestedStep, FreshStep
  <2>5. OnePath' /\ BelowDirs'
    BY <1>2, PathsStep
  <2>6. Jumping' /\ Sending'
    BY <1>2, JumpingStep, SendingStep
  <2> QED
    BY <2>3, <2>4, <2>5, <2>6 DEF ScanInv, WalkInv
<1> QED
  BY <1>1, <1>2, PTL DEF ScanSpec

=============================================================================
