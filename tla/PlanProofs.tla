---------------------------- MODULE PlanProofs ------------------------------
(***************************************************************************)
(* Proofs about what a scan hands on: for every source tree, option and    *)
(* limit the walk sends what it owes, the plan is what the rules leave of  *)
(* it, and the groups partition the plan.                                  *)
(*                                                                         *)
(* Zenon checks the leaves that name no prover.                            *)
(***************************************************************************)
EXTENDS ScanProofs, FiniteSetTheorems

USE ZenonT(30)

-----------------------------------------------------------------------------
(***************************************************************************)
(* The groups.                                                             *)
(***************************************************************************)

\* The running sums of numbers.
LEMMA SumsFacts ==
    ASSUME NEW n \in Nat, NEW w \in [1 .. n -> Nat]
    PROVE  /\ Sums(w) \in [0 .. n -> Nat]
           /\ Sums(w)[0] = 0
           /\ \A i \in 1 .. n : Sums(w)[i] = Sums(w)[i - 1] + w[i]
<1> DEFINE Is(f) == f = [i \in 0 .. Len(w) |-> IF i = 0 THEN 0 ELSE f[i - 1] + w[i]]
           h == [x \in (1 .. n) \X Nat |-> x[2] + w[x[1]]]
<1>1. Len(w) = n
  BY SMT
<1>2. h \in [(1 .. n) \X Nat -> Nat]
  BY SMT
<1>3. PICK f : Solves(f, n, Nat, 0, h)
  <2>1. 0 \in Nat
    OBVIOUS
  <2> HIDE DEF h
  <2> QED
    BY <1>2, <2>1, Recursion
<1> f \in [0 .. n -> Nat] /\ f[0] = 0
  BY <1>3 DEF Solves
<1>4. \A i \in 1 .. n : f[i] = f[i - 1] + w[i]
  <2> SUFFICES ASSUME NEW i \in 1 .. n
               PROVE  f[i] = f[i - 1] + w[i]
    OBVIOUS
  <2>1. f[i - 1] \in Nat
    BY SMT
  <2>2. h[<<i, f[i - 1]>>] = f[i - 1] + w[i]
    BY <2>1
  <2> HIDE DEF h
  <2> QED
    BY <1>3, <2>2 DEF Solves
<1>5. Is(f)
  BY <1>1, <1>4, SMT
<1>6. Is(Sums(w))
  BY <1>5 DEF Sums
<1> HIDE DEF h
<1> DEFINE g == Sums(w)
<1> g = [i \in 0 .. n |-> IF i = 0 THEN 0 ELSE g[i - 1] + w[i]]
  BY <1>6, <1>1
<1> HIDE DEF g
<1>8. 0 .. n \subseteq {i \in 0 .. n : g[i] = f[i]}
  <2> DEFINE S == {i \in 0 .. n : g[i] = f[i]}
  <2>1. 0 \in S
    BY SMT
  <2>2. \A i \in 1 .. n : i - 1 \in S => i \in S
    BY <1>4, SMTT(20)
  <2> HIDE DEF S
  <2>3. 0 .. n \subseteq S
    BY <2>1, <2>2, Upto
  <2> QED
    BY <2>3 DEF S
<1>9. g = f
  BY <1>8, SMT
<1> QED
  BY <1>4, <1>9 DEF g

\* The states of the loop of computeGroups.
Loops == [starts : Seq(Nat), acc : Nat, manifest : Nat, count : Nat]

\* The weights of an entry are numbers.
LEMMA Weights ==
    ASSUME NEW e \in Items
    PROVE  Bytes(e) \in Nat /\ ManifestEntrySize(opts, e) \in Nat
<1>1. e.type = "file" => Size[e.node] \in Nat
  BY OptionsAssumption DEF Items
<1>2. Len(e.path) \in Nat
  BY SMT DEF Items
<1>3. Bytes(e) \in Nat
  BY <1>1 DEF Bytes
<1> DEFINE a == IF e.type = "dir" THEN 0 ELSE 1
           b == IF e.type = "file" /\ opts.hardlinks /\ e.node \in Linked THEN 1 ELSE 0
<1>4. a \in Nat /\ b \in Nat
  OBVIOUS
<1>5. ManifestEntrySize(opts, e) = 1 + Len(e.path) + a + b
  BY DEF ManifestEntrySize
<1> HIDE DEF a, b
<1> QED
  BY <1>2, <1>3, <1>4, <1>5, SMT

\* A turn of the loop stays in its states.
LEMMA GroupedType ==
    ASSUME NEW g \in Loops, NEW i \in Nat \ {0}, NEW e \in Items
    PROVE  Grouped(opts, g, i, e) \in Loops
<1> USE SMT
<1>1. Append(g.starts, i - 1) \in Seq(Nat)
  BY DEF Loops
<1> QED
  BY <1>1, Weights DEF Loops, Grouped

\* What the recursion of GroupLoop computes.
LEMMA LoopFacts ==
    ASSUME NEW es \in Seq(Items)
    PROVE  /\ GroupLoop(opts, es)[0] = [starts |-> <<0>>, acc |-> 0, manifest |-> 0, count |-> 0]
           /\ \A i \in 1 .. Len(es) :
                 /\ GroupLoop(opts, es)[i - 1] \in Loops
                 /\ GroupLoop(opts, es)[i] = Grouped(opts, GroupLoop(opts, es)[i - 1], i, es[i])
<1> DEFINE n == Len(es)
           a == [starts |-> <<0>>, acc |-> 0, manifest |-> 0, count |-> 0]
           h == [x \in (1 .. n) \X Loops |-> Grouped(opts, x[2], x[1], es[x[1]])]
           Is(f) == f = [i \in 0 .. n |-> IF i = 0 THEN a ELSE Grouped(opts, f[i - 1], i, es[i])]
<1> a \in Loops /\ n \in Nat
  BY SMT DEF Loops
<1>2. ASSUME NEW x \in (1 .. n) \X Loops
      PROVE  Grouped(opts, x[2], x[1], es[x[1]]) \in Loops
  <2>1. x[2] \in Loops /\ x[1] \in Nat \ {0} /\ es[x[1]] \in Items
    BY SMT
  <2> QED
    BY <2>1, GroupedType
<1>3. h \in [(1 .. n) \X Loops -> Loops]
  BY <1>2
<1>4. PICK f : Solves(f, n, Loops, a, h)
  <2> HIDE DEF h, a, n
  <2> QED
    BY <1>3, Recursion
<1> f \in [0 .. n -> Loops] /\ f[0] = a
  BY <1>4 DEF Solves
<1>6. ASSUME NEW i \in 1 .. n
      PROVE  f[i - 1] \in Loops /\ f[i] = Grouped(opts, f[i - 1], i, es[i])
  <2>1. f[i - 1] \in Loops
    BY SMT
  <2>2. <<i, f[i - 1]>> \in (1 .. n) \X Loops
    BY <2>1
  <2>3. h[<<i, f[i - 1]>>] = Grouped(opts, f[i - 1], i, es[i])
    BY <2>2
  <2> HIDE DEF h
  <2> QED
    BY <1>4, <2>1, <2>3 DEF Solves
<1> HIDE DEF a, h
<1>7. Is(f)
  BY <1>6, SMT
<1>8. Is(GroupLoop(opts, es))
  BY <1>7 DEF GroupLoop, a
<1> DEFINE g == GroupLoop(opts, es)
<1>9. g[0] = a /\ \A i \in 1 .. n : g[i] = Grouped(opts, g[i - 1], i, es[i])
  <2> HIDE DEF g
  <2> QED
    BY <1>8, SMT DEF g
<1> HIDE DEF g, n
<1>10. 0 .. n \subseteq {i \in 0 .. n : g[i] = f[i]}
  <2> DEFINE S == {i \in 0 .. n : g[i] = f[i]}
  <2>1. 0 \in S
    BY <1>9, SMT
  <2>2. \A i \in 1 .. n : i - 1 \in S => i \in S
    BY <1>6, <1>9, SMT
  <2> HIDE DEF S
  <2>3. 0 .. n \subseteq S
    BY <2>1, <2>2, Upto
  <2> QED
    BY <2>3 DEF S
<1>11. \A i \in 1 .. n : g[i - 1] \in Loops
  BY <1>10, SMT
<1> QED
  BY <1>9, <1>11 DEF g, n, a

\* The state g of the loop after i entries: the open group starts at the last
\* of the starts and holds what the counters say; the groups before it are as
\* GroupsExact has them.
LoopGood(g, i) ==
    LET s == g.starts
        z == s[Len(s)]
        bytes == Sums([k \in 1 .. Len(entries) |-> Bytes(entries[k])])
        manifest == Sums([k \in 1 .. Len(entries) |-> ManifestEntrySize(opts, entries[k])])
    IN  /\ Len(s) >= 1 /\ s[1] = 0
        /\ z <= i /\ (i > 0 => z < i)
        /\ g.count = i - z
        /\ g.acc = bytes[i] - bytes[z]
        /\ g.manifest = manifest[i] - manifest[z]
        /\ i > 0 => i = z + 1 \/ Fits(z, i)
        /\ \A k \in 1 .. Len(s) - 1 :
              /\ s[k] < s[k + 1]
              /\ s[k + 1] = s[k] + 1 \/ Fits(s[k], s[k + 1])
              /\ ~Fits(s[k], s[k + 1] + 1)

\* The tests of the loop.
LEMMA Limits ==
    ASSUME NEW a \in Nat, NEW b \in Nat
    PROVE  /\ a >= b <=> ~(a + 1 <= b)
           /\ a > b <=> ~(a <= b)
           /\ a > 0 <=> a # 0
  BY SMT

\* The position before one, and sums of sizes.
LEMMA Positions ==
    ASSUME NEW a \in Nat, NEW b \in Nat
    PROVE  /\ a - 1 <= a /\ a - 1 < a /\ 1 = a - (a - 1) /\ a = (a - 1) + 1
           /\ a + b \in Nat
<1> USE SMT
<1>1. a - 1 <= a /\ a - 1 < a
  OBVIOUS
<1>2. 1 = a - (a - 1)
  OBVIOUS
<1>3. a = (a - 1) + 1
  OBVIOUS
<1>4. a + b \in Nat
  OBVIOUS
<1> QED
  BY <1>1, <1>2, <1>3, <1>4, Zenon

\* A turn of the loop keeps it.
LEMMA LoopStep ==
    ASSUME entries \in Seq(Items), opts.bytes \in Nat,
           NEW i \in 1 .. Len(entries), NEW g \in Loops, LoopGood(g, i - 1)
    PROVE  LoopGood(Grouped(opts, g, i, entries[i]), i)
<1> DEFINE n == Len(entries)
           bw == [k \in 1 .. n |-> Bytes(entries[k])]
           mw == [k \in 1 .. n |-> ManifestEntrySize(opts, entries[k])]
           B == Sums(bw)
           M == Sums(mw)
           s == g.starts
           l == Len(s)
           z == s[l]
           sz == Bytes(entries[i])
           m == ManifestEntrySize(opts, entries[i])
<1>1. n \in Nat /\ i \in 1 .. n /\ \A k \in 1 .. n : entries[k] \in Items
  BY SMT
<1>2. bw \in [1 .. n -> Nat] /\ mw \in [1 .. n -> Nat] /\ sz \in Nat /\ m \in Nat
  BY <1>1, Weights
<1>3. bw[i] = sz /\ mw[i] = m
  BY <1>1
<1>4. s \in Seq(Nat) /\ g.acc \in Nat /\ g.manifest \in Nat /\ g.count \in Nat
  BY DEF Loops
<1>5. MaxGroupEntries \in Nat /\ MaxManifest \in Nat
  BY OptionsAssumption
<1> HIDE DEF bw, mw
<1>6. /\ B \in [0 .. n -> Nat] /\ M \in [0 .. n -> Nat]
      /\ \A k \in 1 .. n : B[k] = B[k - 1] + bw[k] /\ M[k] = M[k - 1] + mw[k]
  BY <1>1, <1>2, SumsFacts
<1>7. \A a, b : Fits(a, b) <=> /\ b - a <= MaxGroupEntries
                               /\ B[b] - B[a] <= opts.bytes
                               /\ M[b] - M[a] <= MaxManifest
  BY DEF Fits, bw, mw
<1>8. /\ l >= 1 /\ s[1] = 0
      /\ z <= i - 1 /\ (i - 1 > 0 => z < i - 1)
      /\ g.count = (i - 1) - z
      /\ g.acc = B[i - 1] - B[z]
      /\ g.manifest = M[i - 1] - M[z]
      /\ i - 1 > 0 => i - 1 = z + 1 \/ Fits(z, i - 1)
      /\ \A k \in 1 .. l - 1 :
            /\ s[k] < s[k + 1]
            /\ s[k + 1] = s[k] + 1 \/ Fits(s[k], s[k + 1])
            /\ ~Fits(s[k], s[k + 1] + 1)
  BY DEF LoopGood, bw, mw
<1> l = Len(s) /\ l \in Nat /\ z \in Nat /\ z \in 0 .. n /\ i \in Nat /\ z = s[l]
  <2> USE SMT
  <2>1. l = Len(s) /\ l \in Nat /\ z = s[l] /\ i \in Nat
    BY <1>1, <1>4
  <2>2. z \in Nat
    BY ONLY <1>4, <1>8, <2>1, SMTT(20)
  <2> HIDE DEF z, n
  <2> QED
    BY ONLY <1>1, <1>8, <2>1, <2>2
<1> HIDE DEF n, B, M, s, l, z, sz, m
<1>10. B[i] = B[i - 1] + sz /\ M[i] = M[i - 1] + m
  BY <1>1, <1>3, <1>6
<1>11. /\ B[i] \in Nat /\ B[i - 1] \in Nat /\ B[z] \in Nat
       /\ M[i] \in Nat /\ M[i - 1] \in Nat /\ M[z] \in Nat
  BY ONLY <1>1, <1>6, z \in 0 .. n, SMT
<1>12. z <= i - 1 /\ z < i /\ g.count = (i - 1) - z /\ i - z = g.count + 1
  <2>1. z <= i - 1 /\ g.count = (i - 1) - z
    BY <1>8
  <2> QED
    BY <2>1, SMT
<1>13. B[i] - B[z] = g.acc + sz
  <2>1. g.acc = B[i - 1] - B[z]
    BY <1>8
  <2> QED
    BY ONLY <1>2, <1>10, <1>11, <2>1, SMTT(20)
<1>14. M[i] - M[z] = g.manifest + m
  <2>1. g.manifest = M[i - 1] - M[z]
    BY <1>8
  <2> QED
    BY ONLY <1>2, <1>10, <1>11, <2>1, SMT
<1>15. Fits(z, i) <=> /\ g.count + 1 <= MaxGroupEntries
                      /\ g.acc + sz <= opts.bytes
                      /\ g.manifest + m <= MaxManifest
  BY <1>7, <1>12, <1>13, <1>14
<1>18. /\ sz \in Nat /\ m \in Nat /\ opts.bytes \in Nat
       /\ g.acc \in Nat /\ g.manifest \in Nat /\ g.count \in Nat
       /\ MaxGroupEntries \in Nat /\ MaxManifest \in Nat
       /\ g.acc + sz \in Nat /\ g.manifest + m \in Nat
  BY <1>2, <1>4, <1>5, Positions
<1>19. /\ g.count >= MaxGroupEntries <=> ~(g.count + 1 <= MaxGroupEntries)
       /\ g.acc + sz > opts.bytes <=> ~(g.acc + sz <= opts.bytes)
       /\ g.manifest + m > MaxManifest <=> ~(g.manifest + m <= MaxManifest)
       /\ g.count > 0 <=> g.count # 0
  BY <1>18, Limits
<1> DEFINE cut == g.count > 0 /\ (\/ g.count >= MaxGroupEntries
                                  \/ g.acc + sz > opts.bytes
                                  \/ g.manifest + m > MaxManifest)
<1>16. CASE cut
  <2> DEFINE s2 == Append(s, i - 1)
             g2 == [starts |-> s2, acc |-> sz, manifest |-> m, count |-> 1]
  <2>1. Grouped(opts, g, i, entries[i]) = g2
    BY <1>16 DEF Grouped, s, sz, m
  <2>2. /\ Len(s2) = l + 1 /\ s2[l + 1] = i - 1
        /\ \A k \in 1 .. l : s2[k] = s[k]
    BY <1>4, SMT
  <2>3. z < i - 1 /\ (i - 1 = z + 1 \/ Fits(z, i - 1))
    <3>1. i - 1 > 0
      BY <1>12, <1>16, SMT
    <3> QED
      BY <1>8, <3>1
  <2>4. ~Fits(z, i)
    <3>1. ~(/\ g.count + 1 <= MaxGroupEntries
            /\ g.acc + sz <= opts.bytes
            /\ g.manifest + m <= MaxManifest)
      BY <1>16, <1>19
    <3> QED
      BY <1>15, <3>1
  <2> HIDE DEF s2
  <2>5. ASSUME NEW k \in 1 .. Len(s2) - 1
        PROVE  /\ s2[k] < s2[k + 1]
               /\ s2[k + 1] = s2[k] + 1 \/ Fits(s2[k], s2[k + 1])
               /\ ~Fits(s2[k], s2[k + 1] + 1)
    <3>1. CASE k = l
      <4>1. s2[k] = z /\ s2[k + 1] = i - 1 /\ (i - 1) + 1 = i
        BY ONLY <1>8, <2>2, <3>1, l \in Nat, i \in Nat, z = s[l], SMT
      <4> QED
        BY <2>3, <2>4, <4>1
    <3>2. CASE k # l
      <4>1. k \in 1 .. l - 1 /\ s2[k] = s[k] /\ s2[k + 1] = s[k + 1]
        BY ONLY <2>2, <3>2, k \in 1 .. Len(s2) - 1, l \in Nat, SMT
      <4> QED
        BY <1>8, <4>1
    <3> QED
      BY <3>1, <3>2
  <2>8. s2[1] = 0
    BY ONLY <1>8, <2>2, l \in Nat, SMT
  <2>6. /\ Len(s2) >= 1 /\ s2[Len(s2)] = i - 1 /\ i - 1 <= i /\ i - 1 < i
        /\ 1 = i - (i - 1) /\ sz = B[i] - B[i - 1] /\ m = M[i] - M[i - 1]
        /\ i = (i - 1) + 1
    <3> USE SMT
    <3>1. Len(s2) >= 1 /\ s2[Len(s2)] = i - 1
      BY <2>2
    <3>2. i - 1 <= i /\ i - 1 < i /\ 1 = i - (i - 1) /\ i = (i - 1) + 1
      BY Positions, Zenon
    <3>3. sz = B[i] - B[i - 1] /\ m = M[i] - M[i - 1]
      <4>1. sz = B[i] - B[i - 1]
        BY ONLY <1>2, <1>10, <1>11, SMT
      <4>2. m = M[i] - M[i - 1]
        BY ONLY <1>2, <1>10, <1>11, SMT
      <4> QED
        BY <4>1, <4>2, Zenon
    <3> QED
      BY <3>1, <3>2, <3>3, Zenon
  <2>7. LoopGood(g2, i)
    <3>1. g2.starts = s2 /\ g2.acc = sz /\ g2.manifest = m /\ g2.count = 1
      OBVIOUS
    <3> HIDE DEF g2
    <3> QED
      BY <2>5, <2>6, <2>8, <3>1 DEF LoopGood, bw, mw, B, M, n
  <2> QED
    BY <2>1, <2>7
<1>17. CASE ~cut
  <2> DEFINE g2 == [starts |-> s, acc |-> g.acc + sz, manifest |-> g.manifest + m,
                    count |-> g.count + 1]
  <2>1. Grouped(opts, g, i, entries[i]) = g2
    BY <1>17 DEF Grouped, s, sz, m
  <2>2. g.count = 0 => i = z + 1
    BY <1>12, SMT
  <2>3. g.count # 0 => Fits(z, i)
    <3>1. g.count # 0 => /\ g.count + 1 <= MaxGroupEntries
                         /\ g.acc + sz <= opts.bytes
                         /\ g.manifest + m <= MaxManifest
      BY <1>17, <1>19
    <3> QED
      BY <1>15, <3>1
  <2>4. z <= i /\ z < i /\ (i = z + 1 \/ Fits(z, i)) /\ Len(s) >= 1
    BY ONLY <1>8, <1>12, <2>2, <2>3, l = Len(s), z \in Nat, i \in Nat, SMT
  <2>5. LoopGood(g2, i)
    <3>1. /\ g2.starts = s /\ g2.acc = g.acc + sz /\ g2.manifest = g.manifest + m
          /\ g2.count = g.count + 1
      OBVIOUS
    <3> HIDE DEF g2
    <3> QED
      BY <1>8, <1>12, <1>13, <1>14, <2>4, <3>1 DEF LoopGood, bw, mw, B, M, n
  <2> QED
    BY <2>1, <2>5
<1> QED
  BY <1>16, <1>17

\* The loop starts well.
LEMMA LoopInit ==
    ASSUME entries \in Seq(Items)
    PROVE  LoopGood([starts |-> <<0>>, acc |-> 0, manifest |-> 0, count |-> 0], 0)
<1> DEFINE n == Len(entries)
           bw == [k \in 1 .. n |-> Bytes(entries[k])]
           mw == [k \in 1 .. n |-> ManifestEntrySize(opts, entries[k])]
           g == [starts |-> <<0>>, acc |-> 0, manifest |-> 0, count |-> 0]
<1>1. bw \in [1 .. n -> Nat] /\ mw \in [1 .. n -> Nat] /\ n \in Nat
  BY Weights, SMT
<1> HIDE DEF bw, mw
<1>2. Sums(bw)[0] = 0 /\ Sums(mw)[0] = 0
  BY <1>1, SumsFacts
<1>3. /\ g.starts = <<0>> /\ g.acc = 0 /\ g.manifest = 0 /\ g.count = 0
      /\ Len(<<0>>) = 1 /\ <<0>>[1] = 0 /\ 1 >= 1 /\ 0 <= 0 /\ ~(0 > 0) /\ 0 = 0 - 0
      /\ 1 .. 1 - 1 = {}
  BY SMT
<1> HIDE DEF g
<1>4. LoopGood(g, 0)
  BY <1>2, <1>3 DEF LoopGood, bw, mw
<1> QED
  BY <1>4 DEF g

\* What computeGroups returns is as GroupsExact has it.
LEMMA GroupsHold ==
    ASSUME entries \in Seq(Items), opts.bytes \in Nat, groupStart = ComputeGroups(opts, entries)
    PROVE  GroupsExact
<1> USE SMT
<1> DEFINE n == Len(entries)
           G == GroupLoop(opts, entries)
           S == {i \in 0 .. n : LoopGood(G[i], i)}
<1>1. n \in Nat
  OBVIOUS
<1>2. 0 \in S
  BY <1>1, LoopFacts, LoopInit
<1>3. ASSUME NEW i \in 1 .. n, i - 1 \in S
      PROVE  i \in S
  <2>1. G[i - 1] \in Loops /\ G[i] = Grouped(opts, G[i - 1], i, entries[i])
    BY LoopFacts
  <2>2. LoopGood(G[i - 1], i - 1)
    BY <1>3
  <2> HIDE DEF G
  <2>3. LoopGood(G[i], i)
    BY <2>1, <2>2, LoopStep
  <2> QED
    BY <1>1, <2>3
<1>4. n \in S
  <2> HIDE DEF S
  <2>1. 0 .. n \subseteq S
    BY <1>1, <1>2, <1>3, Upto, Zenon
  <2> QED
    BY <1>1, <2>1
<1>5. CASE entries = <<>>
  <2>1. groupStart = <<0>> /\ n = 0
    BY <1>5 DEF ComputeGroups
  <2> QED
    BY <2>1 DEF GroupsExact
<1>6. CASE entries # <<>>
  <2> DEFINE g == G[n]
             s == g.starts
             l == Len(s)
  <2>1. n > 0
    BY <1>6
  <2>2. G[n - 1] \in Loops /\ G[n] = Grouped(opts, G[n - 1], n, entries[n])
    BY <2>1, LoopFacts
  <2>3. g \in Loops
    <3>1. n \in Nat \ {0} /\ entries[n] \in Items
      BY <2>1
    <3> HIDE DEF G, n
    <3> QED
      BY <2>2, <3>1, GroupedType
  <2>4. s \in Seq(Nat)
    BY <2>3 DEF Loops
  <2>5. LoopGood(g, n)
    BY <1>4
  <2>6. groupStart = Append(s, n)
    BY <1>6, Zenon DEF ComputeGroups
  <2> HIDE DEF G, n, g
  <2>7. /\ l >= 1 /\ s[1] = 0 /\ s[l] < n
        /\ n = s[l] + 1 \/ Fits(s[l], n)
        /\ \A k \in 1 .. l - 1 :
              /\ s[k] < s[k + 1]
              /\ s[k + 1] = s[k] + 1 \/ Fits(s[k], s[k + 1])
              /\ ~Fits(s[k], s[k + 1] + 1)
    BY <2>1, <2>5, Zenon DEF LoopGood
  <2> HIDE DEF s
  <2>8. /\ l \in Nat
        /\ Len(groupStart) = l + 1 /\ groupStart[l + 1] = n
        /\ \A k \in 1 .. l : groupStart[k] = s[k]
    BY <1>1, <2>4, <2>6
  <2> HIDE DEF l
  <2>9. ASSUME NEW k \in 1 .. (l + 1) - 1
        PROVE  /\ groupStart[k] < groupStart[k + 1]
               /\ groupStart[k + 1] = groupStart[k] + 1 \/ Fits(groupStart[k], groupStart[k + 1])
               /\ k < (l + 1) - 1 => ~Fits(groupStart[k], groupStart[k + 1] + 1)
    <3>1. CASE k = l
      BY <2>7, <2>8, <3>1
    <3>2. CASE k # l
      <4>1. k \in 1 .. l - 1 /\ groupStart[k] = s[k] /\ groupStart[k + 1] = s[k + 1]
        BY <2>8, <3>2
      <4> QED
        BY <2>7, <4>1
    <3> QED
      BY <3>1, <3>2
  <2>10. groupStart[1] = 0
    BY <2>7, <2>8
  <2> QED
    BY <2>8, <2>9, <2>10 DEF GroupsExact, n
<1> QED
  BY <1>5, <1>6

-----------------------------------------------------------------------------
(***************************************************************************)
(* The order of the plan.                                                  *)
(***************************************************************************)

\* s and t agree up to i, where t is greater or s has ended.
Point(s, t, i) ==
    /\ i \in 1 .. Len(t) /\ i <= Len(s) + 1
    /\ \A j \in 1 .. i - 1 : s[j] = t[j]
    /\ i <= Len(s) => s[i] < t[i]

\* bytes.Compare finds such a place.
LEMMA BeforePoint ==
    ASSUME NEW s \in Seq(Nat), NEW t \in Seq(Nat)
    PROVE  Before(s, t) <=> \E i \in 1 .. Len(t) : Point(s, t, i)
<1> USE SMT
<1> Len(s) \in Nat /\ Len(t) \in Nat /\ DOMAIN s = 1 .. Len(s) /\ DOMAIN t = 1 .. Len(t)
  OBVIOUS
<1>2. ASSUME Below(t, s)
      PROVE  \E i \in 1 .. Len(t) : Point(s, t, i)
  <2>1. Len(s) < Len(t) /\ \A i \in 1 .. Len(s) : s[i] = t[i]
    BY <1>2, StrictPrefix, SMTT(20)
  <2>2. Len(s) + 1 \in 1 .. Len(t) /\ Point(s, t, Len(s) + 1)
    BY <2>1 DEF Point
  <2> QED
    BY <2>2, Zenon
<1>3. ASSUME NEW i \in DOMAIN s \cap DOMAIN t, s[i] < t[i], \A j \in 1 .. i - 1 : s[j] = t[j]
      PROVE  i \in 1 .. Len(t) /\ Point(s, t, i)
  BY <1>3 DEF Point
<1>4. ASSUME NEW i \in 1 .. Len(t), Point(s, t, i)
      PROVE  Before(s, t)
  <2>1. CASE i <= Len(s)
    <3>1. i \in DOMAIN s \cap DOMAIN t
      BY <2>1
    <3> QED
      BY <1>4, <2>1, <3>1, Zenon DEF Before, Point
  <2>2. CASE ~(i <= Len(s))
    <3>1. i = Len(s) + 1
      BY <1>4, <2>2 DEF Point
    <3>2. Len(s) < Len(t) /\ \A k \in 1 .. Len(s) : s[k] = t[k]
      BY <1>4, <3>1 DEF Point
    <3> QED
      BY <3>2, StrictPrefix, Zenon DEF Before
  <2> QED
    BY <2>1, <2>2
<1> QED
  BY <1>2, <1>3, <1>4, Zenon DEF Before

\* The order of numbers.
LEMMA NatOrder ==
    /\ \A a, b, c \in Nat : a < b /\ b < c => a < c
    /\ \A a, b \in Nat : a # b => a < b \/ b < a
    /\ \A a, b \in Nat : a < b => a # b /\ ~(b < a)
  BY SMT

\* Sequences with the same elements.
LEMMA SeqEqual ==
    ASSUME NEW X, NEW s \in Seq(X), NEW t \in Seq(X),
           Len(s) = Len(t), \A i \in 1 .. Len(s) : s[i] = t[i]
    PROVE  s = t
  BY SMT

\* bytes.Compare is a strict total order.
LEMMA BeforeOrder ==
    ASSUME NEW s \in Seq(Nat), NEW t \in Seq(Nat), NEW u \in Seq(Nat)
    PROVE  /\ ~Before(s, s)
           /\ Before(s, t) /\ Before(t, u) => Before(s, u)
           /\ s # t => Before(s, t) \/ Before(t, s)
<1> USE SMT
<1> Len(s) \in Nat /\ Len(t) \in Nat /\ Len(u) \in Nat
  OBVIOUS
<1>2. \A i \in 1 .. Len(s) : s[i] \in Nat
  OBVIOUS
<1>3. \A i \in 1 .. Len(t) : t[i] \in Nat
  OBVIOUS
<1>4. \A i \in 1 .. Len(u) : u[i] \in Nat
  OBVIOUS
<1>5. ~Before(s, s)
  <2>1. ASSUME NEW i \in 1 .. Len(s), Point(s, s, i)
        PROVE  FALSE
    BY <1>2, <2>1 DEF Point
  <2> QED
    BY <2>1, BeforePoint
<1>6. ASSUME Before(s, t), Before(t, u)
      PROVE  Before(s, u)
  <2>1. PICK i \in 1 .. Len(t) : Point(s, t, i)
    BY <1>6, BeforePoint
  <2>2. PICK k \in 1 .. Len(u) : Point(t, u, k)
    BY <1>6, BeforePoint
  <2>3. CASE i < k
    <3>1. i \in 1 .. Len(u) /\ i <= Len(s) + 1 /\ t[i] = u[i]
      BY <2>1, <2>2, <2>3 DEF Point
    <3>2. \A j \in 1 .. i - 1 : s[j] = u[j]
      BY <2>1, <2>2, <2>3 DEF Point
    <3>3. Point(s, u, i)
      BY <2>1, <3>1, <3>2 DEF Point
    <3> QED
      BY <3>1, <3>3, BeforePoint
  <2>4. CASE i = k
    <3> USE Zenon
    <3>1. \A j \in 1 .. i - 1 : s[j] = u[j]
      BY <2>1, <2>2, <2>4 DEF Point
    <3>2. i <= Len(s) => s[i] < u[i]
      <4> SUFFICES ASSUME i <= Len(s)
                   PROVE  s[i] < u[i]
        OBVIOUS
      <4>1. i \in 1 .. Len(s) /\ i \in 1 .. Len(u) /\ s[i] < t[i] /\ t[i] < u[i]
        BY <2>1, <2>2, <2>4, SMT DEF Point
      <4>2. s[i] \in Nat /\ t[i] \in Nat /\ u[i] \in Nat
        BY <1>2, <1>3, <1>4, <4>1
      <4> QED
        BY <4>1, <4>2, NatOrder
    <3>3. Point(s, u, i)
      BY <2>1, <2>2, <2>4, <3>1, <3>2 DEF Point
    <3> QED
      BY <2>2, <2>4, <3>3, BeforePoint
  <2>5. CASE i > k
    <3>1. k \in 1 .. Len(s) /\ s[k] = t[k] /\ t[k] < u[k]
      BY <2>1, <2>2, <2>5, SMTT(20) DEF Point
    <3>2. \A j \in 1 .. k - 1 : s[j] = u[j]
      BY <2>1, <2>2, <2>5 DEF Point
    <3>3. Point(s, u, k)
      BY <2>2, <3>1, <3>2 DEF Point
    <3> QED
      BY <2>2, <3>3, BeforePoint
  <2> QED
    BY <2>3, <2>4, <2>5
<1>7. ASSUME s # t
      PROVE  Before(s, t) \/ Before(t, s)
  <2> DEFINE D == {i \in 1 .. Len(s) : i <= Len(t) /\ s[i] # t[i]}
  <2>1. CASE D = {}
    <3>1. \A i \in 1 .. Len(s) : i <= Len(t) => s[i] = t[i]
      BY <2>1
    <3>2. CASE Len(s) < Len(t)
      <4>1. Len(s) + 1 \in 1 .. Len(t) /\ Point(s, t, Len(s) + 1)
        BY <3>1, <3>2 DEF Point
      <4> QED
        BY <4>1, BeforePoint
    <3>3. CASE Len(t) < Len(s)
      <4>1. Len(t) + 1 \in 1 .. Len(s) /\ Point(t, s, Len(t) + 1)
        BY <3>1, <3>3 DEF Point
      <4> QED
        BY <4>1, BeforePoint
    <3>4. CASE Len(s) = Len(t)
      <4>1. \A i \in 1 .. Len(s) : s[i] = t[i]
        BY <3>1, <3>4
      <4> QED
        BY <1>7, <3>4, <4>1, SeqEqual, Zenon
    <3> QED
      BY <3>2, <3>3, <3>4
  <2>2. CASE D # {}
    <3>1. D \subseteq Nat
      OBVIOUS
    <3>2. PICK i \in D : \A j \in D : i <= j
      BY <2>2, <3>1, Least, Zenon
    <3> i \in 1 .. Len(s) /\ i \in 1 .. Len(t) /\ s[i] # t[i]
      OBVIOUS
    <3>4. \A j \in 1 .. i - 1 : s[j] = t[j]
      <4> SUFFICES ASSUME NEW j \in 1 .. i - 1, s[j] # t[j]
                   PROVE  FALSE
        OBVIOUS
      <4>1. j \in 1 .. Len(s) /\ j <= Len(t) /\ ~(i <= j)
        BY SMTT(20)
      <4> QED
        BY <3>2, <4>1, Zenon
    <3>5. s[i] < t[i] \/ t[i] < s[i]
      <4> USE Zenon
      <4>1. s[i] \in Nat /\ t[i] \in Nat
        BY <1>2, <1>3
      <4> QED
        BY <4>1, NatOrder
    <3>6. CASE s[i] < t[i]
      <4>1. Point(s, t, i)
        BY <3>4, <3>6 DEF Point
      <4> QED
        BY <4>1, BeforePoint
    <3>7. CASE t[i] < s[i]
      <4>1. Point(t, s, i)
        BY <3>4, <3>7 DEF Point
      <4> QED
        BY <4>1, BeforePoint
    <3> QED
      BY <3>5, <3>6, <3>7
  <2> QED
    BY <2>1, <2>2
<1> QED
  BY <1>5, <1>6, <1>7

\* orderingKey returns a sequence of numbers.
LEMMA KeySeq ==
    ASSUME NEW p \in Seq(NameSet)
    PROVE  OrderingKey(p) \in Seq(Nat) /\ p \in Seq(Nat)
<1>1. p \in Seq(Nat)
  BY SMT DEF NameSet
<1> DEFINE q == [i \in DOMAIN p |-> NFC[p[i]]]
<1>2. DOMAIN p = 1 .. Len(p) /\ Len(p) \in Nat
  BY SMT
<1>3. ASSUME NEW i \in DOMAIN p
      PROVE  NFC[p[i]] \in Nat
  <2>1. p[i] \in NameSet
    BY <1>3, SMT
  <2> QED
    BY <2>1, SourceAssumption DEF NameSet
<1>4. q \in [1 .. Len(p) -> Nat]
  BY <1>2, <1>3
<1> HIDE DEF q
<1>5. q \in Seq(Nat)
  BY <1>2, <1>4, SMT
<1>6. OrderingKey(p) = p \/ OrderingKey(p) = q
  BY DEF OrderingKey, q
<1> QED
  BY <1>1, <1>5, <1>6

\* The order of the plan is strict, and total on paths.
LEMMA LessOrder ==
    ASSUME NEW d \in Items, NEW e \in Items, NEW f \in Items
    PROVE  /\ ~Less(d, d)
           /\ Less(d, e) /\ Less(e, f) => Less(d, f)
           /\ d.path # e.path => Less(d, e) \/ Less(e, d)
<1> DEFINE Key3(x) == OrderingKey(x.path)
<1>1. d.path \in Seq(NameSet) /\ e.path \in Seq(NameSet) /\ f.path \in Seq(NameSet)
  BY DEF Items
<1> d.path \in Seq(Nat) /\ e.path \in Seq(Nat) /\ f.path \in Seq(Nat)
  BY <1>1, KeySeq
<1> Key3(d) \in Seq(Nat) /\ Key3(e) \in Seq(Nat) /\ Key3(f) \in Seq(Nat)
  BY <1>1, KeySeq
<1>4. \A x, y : Less(x, y) <=> \/ Before(Key3(x), Key3(y))
                               \/ Key3(x) = Key3(y) /\ Before(x.path, y.path)
  BY DEF Less
<1> HIDE DEF Key3
<1>5. ~Less(d, d)
  BY <1>4, BeforeOrder
<1>6. ASSUME Less(d, e), Less(e, f)
      PROVE  Less(d, f)
  <2>1. Before(Key3(d), Key3(e)) /\ Before(Key3(e), Key3(f)) => Before(Key3(d), Key3(f))
    BY BeforeOrder
  <2>2. Before(d.path, e.path) /\ Before(e.path, f.path) => Before(d.path, f.path)
    BY BeforeOrder
  <2> QED
    BY <1>4, <1>6, <2>1, <2>2
<1>7. ASSUME d.path # e.path
      PROVE  Less(d, e) \/ Less(e, d)
  <2>1. Key3(d) # Key3(e) => Before(Key3(d), Key3(e)) \/ Before(Key3(e), Key3(d))
    BY BeforeOrder
  <2>2. Before(d.path, e.path) \/ Before(e.path, d.path)
    BY <1>7, BeforeOrder
  <2> QED
    BY <1>4, <2>1, <2>2
<1> QED
  BY <1>5, <1>6, <1>7

\* rank numbers the elements of S from 0, in the order R.
Ranks(rank, S, R) ==
    /\ \A i \in S : rank[i] \in 0 .. Cardinality(S) - 1
    /\ \A i, j \in S : <<i, j>> \in R <=> rank[i] < rank[j]
    /\ \A k \in 1 .. Cardinality(S) : \E i \in S : rank[i] = k - 1

\* In a finite set with a strict total order R, the number of elements before
\* an element is its place.
LEMMA Ranking ==
    ASSUME NEW S, IsFiniteSet(S), NEW R,
           \A i \in S : <<i, i>> \notin R,
           \A i, j, k \in S : <<i, j>> \in R /\ <<j, k>> \in R => <<i, k>> \in R,
           \A i, j \in S : i # j => <<i, j>> \in R \/ <<j, i>> \in R,
           NEW rank, rank = [i \in S |-> Cardinality({j \in S : <<j, i>> \in R})]
    PROVE  Ranks(rank, S, R)
<1> DEFINE N == Cardinality(S)
           Lower(i) == {j \in S : <<j, i>> \in R}
<1>1. N \in Nat
  BY FS_CardinalityType
<1>2. \A i \in S : rank[i] = Cardinality(Lower(i))
  OBVIOUS
<1>3. ASSUME NEW i \in S
      PROVE  /\ IsFiniteSet(Lower(i)) /\ Cardinality(Lower(i)) \in Nat
             /\ Cardinality(Lower(i)) < N
  <2>1. Lower(i) \in SUBSET S /\ i \notin Lower(i)
    OBVIOUS
  <2> HIDE DEF Lower
  <2> /\ IsFiniteSet(Lower(i)) /\ Cardinality(Lower(i)) <= N
      /\ Cardinality(Lower(i)) = N => Lower(i) = S
    BY <2>1, FS_Subset
  <2>3. Cardinality(Lower(i)) \in Nat
    BY FS_CardinalityType
  <2>4. Cardinality(Lower(i)) # N
    BY <2>1
  <2> QED
    BY <1>1, <2>3, <2>4, SMT
<1>4. ASSUME NEW i \in S, NEW j \in S, <<i, j>> \in R
      PROVE  rank[i] < rank[j]
  <2>1. Lower(i) \in SUBSET Lower(j) /\ i \in Lower(j) /\ i \notin Lower(i)
    BY <1>4
  <2>2. IsFiniteSet(Lower(j)) /\ Cardinality(Lower(j)) \in Nat /\ Cardinality(Lower(i)) \in Nat
    BY <1>3
  <2> HIDE DEF Lower
  <2>3. /\ Cardinality(Lower(i)) <= Cardinality(Lower(j))
        /\ Cardinality(Lower(i)) # Cardinality(Lower(j))
    BY <2>1, <2>2, FS_Subset
  <2> QED
    BY <1>2, <2>2, <2>3, SMT
<1>5. \A i \in S : rank[i] \in Nat /\ rank[i] < N
  BY <1>2, <1>3
<1>6. \A i \in S : rank[i] \in 0 .. N - 1
  BY <1>1, <1>5, SMT
<1>7. ASSUME NEW i \in S, NEW j \in S, rank[i] < rank[j]
      PROVE  <<i, j>> \in R
  <2>1. i # j /\ ~(rank[j] < rank[i])
    BY <1>5, <1>7, NatOrder
  <2> QED
    BY <1>4, <2>1
<1>8. ASSUME NEW i \in S, NEW j \in S, rank[i] = rank[j]
      PROVE  i = j
  <2>1. ~(rank[i] < rank[j]) /\ ~(rank[j] < rank[i])
    BY <1>5, <1>8, SMT
  <2> QED
    BY <1>4, <2>1
<1>9. rank \in Injection(S, 0 .. N - 1)
  <2>1. rank \in [S -> 0 .. N - 1]
    <3>1. rank = [i \in S |-> rank[i]]
      OBVIOUS
    <3> HIDE DEF N
    <3> QED
      BY ONLY <1>6, <3>1, SMT
  <2> QED
    BY <1>8, <2>1 DEF Injection, IsInjective
<1>10. IsFiniteSet(0 .. N - 1) /\ Cardinality(0 .. N - 1) = N
  <2> USE SMT
  <2>1. 0 \in Int /\ N - 1 \in Int
    BY <1>1
  <2>2. /\ IsFiniteSet(0 .. N - 1)
        /\ Cardinality(0 .. N - 1) = IF 0 > N - 1 THEN 0 ELSE (N - 1) - 0 + 1
    BY <2>1, FS_Interval
  <2> QED
    BY <1>1, <2>2, SMTT(20)
<1>11. rank \in Surjection(S, 0 .. N - 1)
  BY <1>9, <1>10, FS_Injection
<1>12. ASSUME NEW k \in 1 .. N
       PROVE  \E i \in S : rank[i] = k - 1
  <2>1. k - 1 \in 0 .. N - 1
    BY <1>1, SMT
  <2> QED
    BY <1>11, <2>1 DEF Surjection
<1> HIDE DEF Lower
<1> QED
  BY <1>4, <1>6, <1>7, <1>12 DEF Ranks

\* sort.Slice puts the entries with the numbers in S in order.
LEMMA SortedFacts ==
    ASSUME out \in Seq(Items),
           \A i, j \in DOMAIN out : i # j => out[i].path # out[j].path,
           NEW S, S \subseteq DOMAIN out
    PROVE  /\ Sorted(out, S) \in Seq(Items)
           /\ Range(Sorted(out, S)) = {out[i] : i \in S}
           /\ \A i, j \in DOMAIN Sorted(out, S) : i < j =>
                 Less(Sorted(out, S)[i], Sorted(out, S)[j]) /\ ~Less(Sorted(out, S)[j], Sorted(out, S)[i])
<1> DEFINE R == {x \in S \X S : Less(out[x[1]], out[x[2]])}
           N == Cardinality(S)
           rank == Rank(out, S)
           at3(k) == CHOOSE i \in S : rank[i] = k - 1
<1>1. DOMAIN out = 1 .. Len(out) /\ Len(out) \in Nat /\ \A i \in S : out[i] \in Items /\ i \in Nat
  BY SMT
<1>2. IsFiniteSet(S) /\ N \in Nat
  <2>1. IsFiniteSet(1 .. Len(out))
    BY <1>1, FS_Interval, SMTT(20)
  <2>2. S \in SUBSET (1 .. Len(out))
    BY <1>1
  <2> QED
    BY <2>1, <2>2, FS_Subset, FS_CardinalityType
<1>3. \A i, j \in S : <<i, j>> \in R <=> Less(out[i], out[j])
  OBVIOUS
<1> HIDE DEF R
<1>4. \A i \in S : <<i, i>> \notin R
  BY <1>1, <1>3, LessOrder
<1>5. \A i, j, k \in S : <<i, j>> \in R /\ <<j, k>> \in R => <<i, k>> \in R
  BY <1>1, <1>3, LessOrder
<1>6. \A i, j \in S : i # j => <<i, j>> \in R \/ <<j, i>> \in R
  <2>1. \A i, j \in S : i # j => out[i].path # out[j].path
    OBVIOUS
  <2> QED
    BY <1>1, <1>3, <2>1, LessOrder
<1>8. \A i, j \in S : Ahead(out, j, i) <=> <<j, i>> \in R
  <2> SUFFICES ASSUME NEW i \in S, NEW j \in S
               PROVE  Ahead(out, j, i) <=> <<j, i>> \in R
    OBVIOUS
  <2>1. j < i => j # i
    BY <1>1, SMT
  <2>2. j # i => out[j].path # out[i].path
    OBVIOUS
  <2> QED
    BY <1>3, <2>1, <2>2 DEF Ahead
<1>9. rank = [i \in S |-> Cardinality({j \in S : <<j, i>> \in R})]
  <2>1. \A i \in S : {j \in S : Ahead(out, j, i)} = {j \in S : <<j, i>> \in R}
    BY <1>8
  <2> QED
    BY <2>1 DEF Rank
<1> HIDE DEF rank
<1>7. Ranks(rank, S, R)
  BY <1>2, <1>4, <1>5, <1>6, <1>9, Ranking
<1>7a. /\ \A i \in S : rank[i] \in 0 .. N - 1
       /\ \A i, j \in S : <<i, j>> \in R <=> rank[i] < rank[j]
       /\ \A k \in 1 .. N : \E i \in S : rank[i] = k - 1
  BY <1>7 DEF Ranks
<1>9a. Sorted(out, S) = [k \in 1 .. N |-> out[at3(k)]]
  BY DEF Sorted, rank
<1>10. \A k \in 1 .. N : at3(k) \in S /\ rank[at3(k)] = k - 1
  BY <1>7a
<1>11. \A i \in S : \E k \in 1 .. N : at3(k) = i
  <2> SUFFICES ASSUME NEW i \in S
               PROVE  \E k \in 1 .. N : at3(k) = i
    OBVIOUS
  <2> rank[i] + 1 \in 1 .. N /\ (rank[i] + 1) - 1 = rank[i] /\ rank[i] \in Nat
    BY <1>2, <1>7a, SMT
  <2> DEFINE j == at3(rank[i] + 1)
  <2>2. j \in S /\ rank[j] = rank[i]
    BY <1>10
  <2>3. ~(rank[j] < rank[i]) /\ ~(rank[i] < rank[j])
    BY <2>2, SMT
  <2> HIDE DEF j
  <2>4. j = i
    BY <1>6, <1>7a, <2>2, <2>3
  <2> QED
    BY <2>4 DEF j
<1> HIDE DEF at3
<1>12. DOMAIN Sorted(out, S) = 1 .. N /\ \A k \in 1 .. N : Sorted(out, S)[k] = out[at3(k)]
  BY <1>9a
<1>13. Sorted(out, S) \in Seq(Items)
  <2>1. Sorted(out, S) \in [1 .. N -> Items]
    BY <1>1, <1>9a, <1>10
  <2> QED
    BY <1>2, <2>1, SMT
<1>14. Range(Sorted(out, S)) = {out[i] : i \in S}
  BY <1>10, <1>11, <1>12, SMTT(20) DEF Range
<1>15. ASSUME NEW i \in 1 .. N, NEW j \in 1 .. N, i < j
       PROVE  Less(Sorted(out, S)[i], Sorted(out, S)[j]) /\ ~Less(Sorted(out, S)[j], Sorted(out, S)[i])
  <2>1. at3(i) \in S /\ at3(j) \in S /\ rank[at3(i)] = i - 1 /\ rank[at3(j)] = j - 1
    BY <1>10
  <2>2. rank[at3(i)] < rank[at3(j)] /\ ~(rank[at3(j)] < rank[at3(i)])
    BY <1>15, <2>1, SMTT(20)
  <2> QED
    BY <1>3, <1>7a, <1>12, <2>1, <2>2
<1> QED
  BY <1>12, <1>13, <1>14, <1>15

-----------------------------------------------------------------------------
(***************************************************************************)
(* The rules.                                                              *)
(***************************************************************************)

\* No exclusion among the first k filters is the last of them that matches e.
Admitted(e, k) ==
    ~\E i \in 1 .. k :
        /\ FilterRuleMatches(opts.filters[i], e) /\ ~opts.filters[i].include
        /\ \A j \in i + 1 .. k : ~FilterRuleMatches(opts.filters[j], e)

\* The next filter decides if it matches.
LEMMA AdmittedStep ==
    ASSUME NEW e, NEW k \in Nat \ {0}
    PROVE  Admitted(e, k) <=> IF FilterRuleMatches(opts.filters[k], e)
                              THEN opts.filters[k].include ELSE Admitted(e, k - 1)
<1> DEFINE M(i) == FilterRuleMatches(opts.filters[i], e)
           I(i) == opts.filters[i].include
           Last3(i, n) == M(i) /\ ~I(i) /\ \A j \in i + 1 .. n : ~M(j)
<1> /\ k \in 1 .. k /\ k + 1 .. k = {} /\ k - 1 \in Nat
    /\ \A i : i \in 1 .. k <=> i \in 1 .. k - 1 \/ i = k
    /\ \A i \in 1 .. k - 1 : k \in i + 1 .. k
    /\ \A i \in 1 .. k - 1 : \A j : j \in i + 1 .. k <=> j \in i + 1 .. k - 1 \/ j = k
  BY SMT
<1>2. \A n : Admitted(e, n) <=> ~\E i \in 1 .. n : Last3(i, n)
  BY DEF Admitted
<1> HIDE DEF M, I
<1>3. CASE M(k) /\ I(k)
  <2>1. \A i \in 1 .. k : ~Last3(i, k)
    BY <1>3
  <2> QED
    BY <1>2, <1>3, <2>1 DEF M, I
<1>4. CASE M(k) /\ ~I(k)
  <2>1. Last3(k, k)
    BY <1>4
  <2> QED
    BY <1>2, <1>4, <2>1 DEF M, I
<1>5. CASE ~M(k)
  <2>1. \A i \in 1 .. k - 1 : Last3(i, k) <=> Last3(i, k - 1)
    BY <1>5
  <2>2. ~Last3(k, k)
    BY <1>5
  <2>3. (\E i \in 1 .. k : Last3(i, k)) <=> (\E i \in 1 .. k - 1 : Last3(i, k - 1))
    <3> HIDE DEF Last3
    <3> QED
      BY <2>1, <2>2
  <2> QED
    BY <1>2, <1>5, <2>3 DEF M
<1> QED
  BY <1>3, <1>4, <1>5

\* filterAdmits: the last filter that matches decides.
LEMMA LastMatchWins ==
    ASSUME opts \in OptionSets, NEW e
    PROVE  FilterAdmits(opts, e) <=> Admitted(e, Len(opts.filters))
<1> DEFINE n == Len(opts.filters)
           Is(f) == f = [i \in 0 .. n |->
                            IF i = 0 THEN TRUE
                            ELSE IF FilterRuleMatches(opts.filters[i], e) THEN opts.filters[i].include
                            ELSE f[i - 1]]
           v == [i \in 0 .. n |-> Admitted(e, i)]
<1>1. n \in Nat /\ \A i \in 1 .. n : opts.filters[i].include \in BOOLEAN
  BY OptionsAssumption
<1>2. Admitted(e, 0)
  BY SMT DEF Admitted
<1>3. ASSUME NEW i \in 1 .. n
      PROVE  v[i] = IF FilterRuleMatches(opts.filters[i], e) THEN opts.filters[i].include
                    ELSE v[i - 1]
  <2>1. i \in Nat \ {0} /\ i \in 0 .. n /\ i - 1 \in 0 .. n
    BY <1>1, SMT
  <2>2. v[i] = Admitted(e, i) /\ v[i - 1] = Admitted(e, i - 1)
    BY <2>1
  <2>3. Admitted(e, i) \in BOOLEAN /\ Admitted(e, i - 1) \in BOOLEAN
    BY DEF Admitted
  <2> HIDE DEF v
  <2> QED
    BY <1>1, <2>1, <2>2, <2>3, AdmittedStep
<1>4. v[0] = TRUE
  <2>1. 0 \in 0 .. n
    BY <1>1, SMT
  <2>2. Admitted(e, 0) = TRUE
    BY <1>2 DEF Admitted
  <2> QED
    BY <2>1, <2>2
<1>5. Is(v)
  <2>1. \A i \in 0 .. n : i # 0 => i \in 1 .. n
    BY <1>1, SMT
  <2>2. v = [i \in 0 .. n |-> v[i]]
    OBVIOUS
  <2> HIDE DEF v
  <2>3. \A i \in 0 .. n : v[i] = IF i = 0 THEN TRUE
                            ELSE IF FilterRuleMatches(opts.filters[i], e) THEN opts.filters[i].include
                            ELSE v[i - 1]
    BY <1>3, <1>4, <2>1
  <2> QED
    BY <2>2, <2>3
<1> DEFINE g == CHOOSE f : Is(f)
<1>6. Is(g)
  <2> HIDE DEF v
  <2> QED
    BY <1>5
<1>7. FilterAdmits(opts, e) = g[n]
  BY DEF FilterAdmits
<1> HIDE DEF g
<1>8. /\ g[0] = TRUE
      /\ \A i \in 1 .. n : g[i] = IF FilterRuleMatches(opts.filters[i], e)
                                  THEN opts.filters[i].include ELSE g[i - 1]
  <2>1. \A i \in 0 .. n : g[i] = IF i = 0 THEN TRUE
                            ELSE IF FilterRuleMatches(opts.filters[i], e) THEN opts.filters[i].include
                            ELSE g[i - 1]
    BY <1>6
  <2>2. 0 \in 0 .. n /\ \A i \in 1 .. n : i \in 0 .. n /\ i # 0
    BY <1>1, SMT
  <2> QED
    BY <2>1, <2>2
<1>9. 0 .. n \subseteq {i \in 0 .. n : g[i] = v[i]}
  <2> DEFINE S == {i \in 0 .. n : g[i] = v[i]}
  <2> HIDE DEF v, n
  <2>1. 0 \in 0 .. n /\ \A i \in 1 .. n : i \in 0 .. n /\ i - 1 \in 0 .. n
    BY <1>1, SMT
  <2>2. 0 \in S
    BY <1>4, <1>8, <2>1
  <2>3. \A i \in 1 .. n : i - 1 \in S => i \in S
    BY <1>3, <1>8, <2>1
  <2> HIDE DEF S
  <2>4. 0 .. n \subseteq S
    BY <1>1, <2>2, <2>3, Upto
  <2> QED
    BY <2>4 DEF S
<1>10. n \in 0 .. n
  BY <1>1, SMT
<1>11. g[n] = v[n] /\ v[n] = Admitted(e, n)
  <2> HIDE DEF n
  <2> QED
    BY <1>9, <1>10
<1> HIDE DEF v
<1> QED
  BY <1>7, <1>11

\* The type of the system rules.
LEMMA SystemRules ==
    ASSUME NEW i \in 1 .. Len(SysRules)
    PROVE  SysRules[i] \in Range(SysRules) /\ SysRules[i].dir \in BOOLEAN
<1> DEFINE T == [names : SUBSET Nat, dir : BOOLEAN, rootOnly : BOOLEAN]
<1>1. SysRules \in Seq(T)
  BY OptionsAssumption
<1> HIDE DEF T
<1>2. DOMAIN SysRules = 1 .. Len(SysRules) /\ SysRules[i] \in T
  BY <1>1, SMT
<1> QED
  BY <1>2 DEF T, Range

\* MatchSystemFile returns the first rule that matches, if one does.
LEMMA SystemRule ==
    ASSUME NEW p
    PROVE  LET s == MatchSystemFile(p) IN
           /\ s # 0 => /\ s \in 1 .. Len(SysRules) /\ SysMatches(SysRules[s], p)
                       /\ \A j \in 1 .. s - 1 : ~SysMatches(SysRules[j], p)
           /\ s = 0 => \A r \in Range(SysRules) : ~SysMatches(r, p)
<1> DEFINE I == {i \in 1 .. Len(SysRules) : SysMatches(SysRules[i], p)}
<1>1. MatchSystemFile(p) = IF I # {} THEN Min(I) ELSE 0
  BY DEF MatchSystemFile
<1>2. Len(SysRules) \in Nat /\ DOMAIN SysRules = 1 .. Len(SysRules)
  BY OptionsAssumption, SMT
<1>3. I \subseteq Nat /\ 0 \notin I
  BY <1>2, SMT
<1>4. CASE I # {}
  <2> HIDE DEF I
  <2>1. \E x \in I : \A y \in I : x <= y
    BY <1>3, <1>4, Least
  <2>2. Min(I) \in I /\ \A y \in I : Min(I) <= y
    BY <2>1 DEF Min
  <2> DEFINE m == MatchSystemFile(p)
  <2>3. m \in I /\ m # 0 /\ \A y \in I : m <= y
    BY <1>1, <1>3, <1>4, <2>2
  <2> HIDE DEF m
  <2>4. m \in Nat /\ m \in 1 .. Len(SysRules) /\ SysMatches(SysRules[m], p)
    BY <1>3, <2>3 DEF I
  <2>5. ASSUME NEW j \in 1 .. m - 1
        PROVE  j \in 1 .. Len(SysRules) /\ ~(m <= j)
    BY <1>2, <2>4, SMT
  <2>6. \A j \in 1 .. m - 1 : ~SysMatches(SysRules[j], p)
    BY <2>3, <2>5 DEF I
  <2> QED
    BY <2>3, <2>4, <2>6 DEF m
<1>5. CASE I = {}
  <2>1. MatchSystemFile(p) = 0
    BY <1>1, <1>5
  <2>2. \A r \in Range(SysRules) : ~SysMatches(r, p)
    BY <1>2, <1>5 DEF Range
  <2> QED
    BY <2>1, <2>2
<1> QED
  BY <1>4, <1>5

\* Pass 1 drops what the rules exclude, and prunes the directories among them
\* whose names are not those of system files.
LEMMA DecisionFacts ==
    ASSUME opts \in OptionSets, NEW e
    PROVE  /\ Decision(opts, e).dropped <=> Excluded(opts, e)
           /\ Decision(opts, e).prune <=>
                 e.type = "dir" /\ Excluded(opts, e) /\ ~FilesOnly(opts, e)
<1> DEFINE s == IF opts.keep THEN 0 ELSE MatchSystemFile(e.path)
<1>1. /\ opts.keep \in BOOLEAN
      /\ DOMAIN opts.filters = 1 .. Len(opts.filters)
  BY OptionsAssumption
<1>2. FilterAdmits(opts, e) <=>
        ~\E i \in DOMAIN opts.filters :
            /\ FilterRuleMatches(opts.filters[i], e) /\ ~opts.filters[i].include
            /\ \A j \in i + 1 .. Len(opts.filters) : ~FilterRuleMatches(opts.filters[j], e)
  BY <1>1, LastMatchWins DEF Admitted
<1>3. CASE s # 0
  <2> ~opts.keep /\ s = MatchSystemFile(e.path)
    BY <1>3
  <2> /\ s \in 1 .. Len(SysRules) /\ SysMatches(SysRules[s], e.path)
      /\ \A j \in 1 .. s - 1 : ~SysMatches(SysRules[j], e.path)
    BY <1>3, SystemRule
  <2>3. SysRules[s] \in Range(SysRules) /\ SysRules[s].dir \in BOOLEAN
    BY SystemRules
  <2> HIDE DEF s
  <2>4. Decision(opts, e) = [dropped |-> TRUE, prune |-> SysRules[s].dir /\ e.type = "dir"]
    BY <1>3 DEF Decision, s
  <2>5. Decision(opts, e).dropped = TRUE /\ Decision(opts, e).prune = (SysRules[s].dir /\ e.type = "dir")
    BY <2>4, SMT
  <2>6. Excluded(opts, e)
    BY <2>3 DEF Excluded
  <2>7. FilesOnly(opts, e) <=> e.type = "dir" /\ ~SysRules[s].dir
    <3>1. s \in DOMAIN SysRules /\ DOMAIN SysRules = 1 .. Len(SysRules) /\ Len(SysRules) \in Nat
      BY OptionsAssumption, SMT
    <3>2. ASSUME NEW i \in DOMAIN SysRules, SysMatches(SysRules[i], e.path),
                 \A j \in 1 .. i - 1 : ~SysMatches(SysRules[j], e.path)
          PROVE  i = s
      <4>1. i \in Nat /\ s \in Nat /\ i >= 1 /\ s >= 1
        BY <3>1, SMT
      <4>2. i \notin 1 .. s - 1 /\ s \notin 1 .. i - 1
        BY <3>2
      <4> QED
        BY <4>1, <4>2, SMT
    <3> QED
      BY <3>1, <3>2 DEF FilesOnly
  <2> QED
    BY <2>3, <2>5, <2>6, <2>7
<1>4. CASE s = 0
  <2>1. ~opts.keep => \A r \in Range(SysRules) : ~SysMatches(r, e.path)
    BY <1>4, SystemRule
  <2>2. Decision(opts, e) = [dropped |-> ~FilterAdmits(opts, e), prune |-> ~FilterAdmits(opts, e) /\ e.type = "dir"]
    BY <1>4 DEF Decision
  <2>3. /\ Decision(opts, e).dropped = ~FilterAdmits(opts, e)
        /\ Decision(opts, e).prune = (~FilterAdmits(opts, e) /\ e.type = "dir")
    BY <2>2, SMT
  <2>4. Excluded(opts, e) <=> ~FilterAdmits(opts, e)
    BY <1>2, <2>1 DEF Excluded
  <2>5. ~FilesOnly(opts, e)
    BY <2>1 DEF FilesOnly, Range
  <2> QED
    BY <2>3, <2>4, <2>5
<1> QED
  BY <1>3, <1>4

-----------------------------------------------------------------------------
(***************************************************************************)
(* The plan.                                                               *)
(***************************************************************************)

Sendings == out \in Seq(Items) /\ opts \in OptionSets /\ OnePath /\ BelowDirs

\* A strict prefix of a strict prefix is one.
LEMMA PrefixTransitive ==
    ASSUME NEW X, NEW s \in Seq(X), NEW t \in Seq(X), NEW u \in Seq(X),
           Below(t, s), Below(u, t)
    PROVE  Below(u, s)
<1>1. Len(s) < Len(t) /\ \A i \in 1 .. Len(s) : s[i] = t[i]
  BY StrictPrefix
<1>2. Len(t) < Len(u) /\ \A i \in 1 .. Len(t) : t[i] = u[i]
  BY StrictPrefix
<1>3. Len(s) \in Nat /\ Len(t) \in Nat /\ Len(u) \in Nat
  BY SMT
<1>4. Len(s) < Len(u) /\ \A i \in 1 .. Len(s) : s[i] = u[i]
  BY <1>1, <1>2, <1>3, SMTT(20)
<1> QED
  BY <1>4, StrictPrefix

Odd == {d \in Range(out) : FilesOnly(opts, d)}

\* The directories that are pruned.
LEMMA PruneFacts ==
    ASSUME Sendings, NEW d \in Range(out)
    PROVE  Decision(opts, d).prune <=> d \in ExcludedDirs \ Odd
  BY DecisionFacts DEF Sendings, ExcludedDirs, Odd

\* The entries that are left, as PlanLeaves has them.
LEMMA LeftFacts ==
    ASSUME Sendings
    PROVE  LET left == {e \in Range(out) : \A d \in ExcludedDirs \ Odd : ~Below(e.path, d.path)}
           IN  /\ {out[i] : i \in Left(opts, out) \ Dropped(opts, out)} =
                     {e \in left : ~Excluded(opts, e)}
               /\ {out[i] : i \in Dropped(opts, out)} = {e \in left : Excluded(opts, e)}
<1> DEFINE P(e) == \A d \in ExcludedDirs \ Odd : ~Below(e.path, d.path)
<1>1. \A e : ~UnderPruned(Pruned(opts, out), e.path) <=> P(e)
  <2>1. \A d : d \in ExcludedDirs \ Odd <=> d \in Range(out) /\ Decision(opts, d).prune
    BY PruneFacts DEF ExcludedDirs
  <2> QED
    BY <2>1 DEF UnderPruned, Pruned
<1>2. \A e : Decision(opts, e).dropped <=> Excluded(opts, e)
  BY DecisionFacts DEF Sendings
<1> \A i : i \in Left(opts, out) <=> i \in DOMAIN out /\ P(out[i])
  <2> HIDE DEF P
  <2> QED
    BY <1>1 DEF Left
<1>4. \A i : i \in Dropped(opts, out) <=> i \in DOMAIN out /\ P(out[i]) /\ Excluded(opts, out[i])
  <2> HIDE DEF P
  <2> QED
    BY <1>2 DEF Dropped
<1>5. \A e : e \in Range(out) <=> \E i \in DOMAIN out : e = out[i]
  BY DEF Range
<1> DEFINE L == {e \in Range(out) : P(e)}
<1> SUFFICES /\ {out[i] : i \in Left(opts, out) \ Dropped(opts, out)} = {e \in L : ~Excluded(opts, e)}
             /\ {out[i] : i \in Dropped(opts, out)} = {e \in L : Excluded(opts, e)}
  OBVIOUS
<1> HIDE DEF P
<1>6. {out[i] : i \in Left(opts, out) \ Dropped(opts, out)} = {e \in L : ~Excluded(opts, e)}
  BY <1>4, <1>5
<1>7. {out[i] : i \in Dropped(opts, out)} = {e \in L : Excluded(opts, e)}
  BY <1>4, <1>5
<1> QED
  BY <1>6, <1>7

\* The plan is what the rules leave, in order.
LEMMA PlanFollows ==
    ASSUME Sendings, Planned, phase = "done"
    PROVE  PlanLeaves(ExcludedDirs \ Odd) /\ entries \in Seq(Items)
<1> DEFINE S == Left(opts, out) \ Dropped(opts, out)
<1>1. entries = Sorted(out, S) /\ exclusions = {out[i] : i \in Dropped(opts, out)}
  BY DEF Planned
<1>2. S \subseteq DOMAIN out
  BY DEF Left
<1> HIDE DEF S
<1>3. /\ entries \in Seq(Items)
      /\ Range(entries) = {out[i] : i \in S}
      /\ \A i, j \in DOMAIN entries : i < j =>
            Less(entries[i], entries[j]) /\ ~Less(entries[j], entries[i])
  BY <1>1, <1>2, SortedFacts DEF Sendings, OnePath
<1> QED
  BY <1>1, <1>3, LeftFacts DEF PlanLeaves, S

\* No entry is planned without the directories above it.
LEMMA ParentsFollow ==
    ASSUME Sendings, Planned, phase = "done"
    PROVE  ParentsPlanned(Odd)
<1> SUFFICES ASSUME NEW e \in Range(entries), NEW d \in Range(out), Below(e.path, d.path)
             PROVE  d \in Range(entries) \cup Odd
  BY DEF ParentsPlanned
<1> DEFINE left == {x \in Range(out) : \A y \in ExcludedDirs \ Odd : ~Below(x.path, y.path)}
<1>1. Range(entries) = {x \in left : ~Excluded(opts, x)}
  BY PlanFollows DEF PlanLeaves
<1>2. e \in Range(out) /\ \A y \in ExcludedDirs \ Odd : ~Below(e.path, y.path)
  BY <1>1
<1>3. \A x \in Range(out) : x.path \in Seq(NameSet)
  BY SMT DEF Sendings, Items, Range
<1>4. ASSUME NEW y \in ExcludedDirs \ Odd, Below(d.path, y.path)
      PROVE  FALSE
  <2>1. y \in Range(out)
    BY DEF ExcludedDirs
  <2> QED
    BY <1>2, <1>3, <1>4, <2>1, PrefixTransitive
<1>5. d \in left
  BY <1>4
<1>6. d \notin ExcludedDirs \ Odd
  BY <1>2
<1>7. d.type = "dir"
  <2>1. PICK i \in DOMAIN out : d = out[i]
    BY DEF Range
  <2>2. PICK j \in DOMAIN out : e = out[j]
    BY <1>2 DEF Range
  <2>3. Below(out[j].path, out[i].path)
    BY <2>1, <2>2
  <2> QED
    BY <2>1, <2>3 DEF Sendings, BelowDirs
<1> HIDE DEF left
<1>8. CASE Excluded(opts, d)
  BY <1>6, <1>7, <1>8 DEF ExcludedDirs
<1>9. CASE ~Excluded(opts, d)
  BY <1>1, <1>5, <1>9
<1> QED
  BY <1>8, <1>9

-----------------------------------------------------------------------------
(***************************************************************************)
(* The walk.                                                               *)
(***************************************************************************)

\* When the walk has ended, a set of objects that can all be sent, and that
\* holds the directories above them, all of them readable, was sent.
LEMMA AllSent ==
    ASSUME WalkType, Sending, phase # "walk", NEW U \in SUBSET Node,
           \A c \in U : Sendable(c) /\ src.parent[c] \in U \cup {0},
           \A c \in U : src.parent[c] # 0 /\ Sent(src, out, src.parent[c]) => Readable(src, src.parent[c])
    PROVE  \A c \in U : Sent(src, out, c)
<1> DEFINE B == {c \in U : ~Sent(src, out, c)}
<1> SUFFICES ASSUME B # {} PROVE FALSE
  OBVIOUS
<1>1. stack = <<>>
  BY DEF WalkType
<1>2. \A c : ~Waiting(stack, c)
  <2>1. Len(stack) = 0 /\ 1 .. 0 = {}
    BY <1>1, SMT
  <2> QED
    BY <2>1 DEF Waiting
<1>3. B \in SUBSET Node
  OBVIOUS
<1>4. PICK c \in B : src.parent[c] \notin B
  BY <1>3, SourceFacts DEF WalkType
<1> c \in U /\ c \in Node /\ ~Sent(src, out, c) /\ Sendable(c)
  BY <1>4
<1>6. ~Entered(src, out, c)
  BY <1>2 DEF Sending
<1>7. src.parent[c] # 0 /\ src.parent[c] \in U
  BY <1>6 DEF Entered
<1>8. Sent(src, out, src.parent[c])
  BY <1>4, <1>7
<1>9. Readable(src, src.parent[c])
  BY <1>7, <1>8
<1> QED
  BY <1>6, <1>8, <1>9 DEF Entered, Sent

\* A finished walk is complete.
LEMMA CompleteFollows ==
    ASSUME WalkInv
    PROVE  WalkComplete
<1> SUFFICES ASSUME phase # "walk"
             PROVE  WalkComplete
  BY DEF WalkComplete
<1> WalkType /\ Sending /\ Owing /\ Counting /\ src \in Sources /\ out \in Seq(Items)
  BY DEF WalkInv, WalkType
<1>2. Range(out) = {out[k] : k \in DOMAIN out}
  BY DEF Range
<1>3. ASSUME NEW n \in Node, Owed(src, opts, n), (Above(src, n) \cup {n}) \cap vanished = {}
      PROVE  Sent(src, out, n)
  <2> DEFINE U == Above(src, n) \cup {n}
  <2>1. U \in SUBSET Node /\ \A c \in U : src.parent[c] \in Above(src, n) \cup {0}
    BY AboveFacts
  <2>2. \A c \in Above(src, n) : Readable(src, c) /\ src.kind[c] \in {"dir", "locked"}
    BY <1>3, AboveFacts DEF Owed
  <2>3. ASSUME NEW c \in U
        PROVE  Sendable(c)
    <3>1. src.kind[c] # "special" /\ (src.kind[c] = "link" => ~opts.follow)
      <4>1. CASE c = n
        BY <1>3, <4>1 DEF Owed
      <4>2. CASE c \in Above(src, n)
        BY <2>2, <4>2, SMT
      <4> QED
        BY <4>1, <4>2, SMT
    <3>2. src.name[c] # Esync /\ ~(IsDir(src, c) /\ opts.oneFS /\ c \in src.other) /\ c \notin vanished
      BY <1>3 DEF Owed
    <3> QED
      BY <3>1, <3>2 DEF Sendable, Eligible
  <2>4. \A c \in U : src.parent[c] \in U \cup {0} /\ (src.parent[c] # 0 => Readable(src, src.parent[c]))
    BY <2>1, <2>2
  <2>5. n \in U
    OBVIOUS
  <2> HIDE DEF U
  <2> QED
    BY <2>1, <2>3, <2>4, <2>5, AllSent
<1>4. ASSUME unreadable = 0, vanished = {}, NEW n \in Node, src.kind[n] = "file",
             \A m \in Above(src, n) \cup {n} : src.name[m] # Esync /\ m \notin src.other
      PROVE  Sent(src, out, n)
  <2> DEFINE U == Above(src, n) \cup {n}
  <2>1. U \in SUBSET Node /\ \A c \in U : src.parent[c] \in Above(src, n) \cup {0}
    BY AboveFacts
  <2>2. \A c \in Above(src, n) : src.kind[c] \in {"dir", "locked"} /\ IsDir(src, c)
    BY AboveFacts
  <2>3. ASSUME NEW c \in U
        PROVE  Sendable(c)
    <3>1. src.kind[c] # "special" /\ src.kind[c] # "link"
      <4> USE SMT
      <4>1. CASE c = n
        BY <1>4, <4>1
      <4>2. CASE c \in Above(src, n)
        BY <2>2, <4>2
      <4> QED
        BY <4>1, <4>2, SMTT(20)
    <3>2. src.name[c] # Esync /\ c \notin src.other /\ c \notin vanished
      BY <1>4
    <3> QED
      BY <3>1, <3>2 DEF Sendable, Eligible
  <2>4. ASSUME NEW c \in U, src.parent[c] # 0, Sent(src, out, src.parent[c])
        PROVE  Readable(src, src.parent[c])
    <3>1. IsDir(src, src.parent[c])
      BY <2>1, <2>2, <2>4
    <3>2. ~(unreadable > 0)
      BY <1>4, SMT
    <3> QED
      BY <2>4, <3>1, <3>2 DEF Counting, Sent
  <2>5. n \in U /\ \A c \in U : src.parent[c] \in U \cup {0}
    BY <2>1
  <2> HIDE DEF U
  <2> QED
    BY <2>1, <2>3, <2>4, <2>5, AllSent, ZenonT(30)
<1>5. \A n \in Node : Sent(src, out, n) => \E e \in Range(out) : e.node = n /\ Lookup(src, e.path) = n
  BY <1>2 DEF Sent
<1>6. ~opts.follow => \A e \in Range(out) : Owed(src, opts, e.node)
  BY <1>2 DEF Owing
<1> QED
  BY <1>3, <1>4, <1>5, <1>6 DEF WalkComplete

\* A set of numbers up to n that is not empty has a greatest one.
LEMMA Greatest ==
    ASSUME NEW n \in Nat, NEW S, S \subseteq 1 .. n, S # {}
    PROVE  \E x \in S : \A y \in S : y <= x
<1> DEFINE T == {n - y : y \in S}
<1>0. ASSUME NEW y \in S
      PROVE  y \in Nat /\ n - y \in Nat
  <2>1. y \in 1 .. n
    OBVIOUS
  <2> QED
    BY ONLY <2>1, n \in Nat, SMTT(20)
<1>1. T \subseteq Nat /\ T # {}
  BY <1>0
<1>2. PICK t \in T : \A u \in T : t <= u
  <2> HIDE DEF T
  <2> QED
    BY <1>1, Least
<1>3. PICK x \in S : t = n - x
  OBVIOUS
<1>4. ASSUME NEW y \in S
      PROVE  y <= x
  <2>1. n - y \in T
    OBVIOUS
  <2>2. t <= n - y
    BY <1>2, <2>1
  <2>3. x \in Nat /\ y \in Nat
    BY <1>0
  <2> QED
    BY ONLY <1>3, <2>2, <2>3, n \in Nat, SMTT(20)
<1> QED
  BY <1>4

\* The link by which the i-th call came about: the directory last entered
\* through one.
JumpsTo(s, st, i) == {j \in 1 .. i : Jump(s, st, j)}
LastJump(s, st, i) == CHOOSE x \in JumpsTo(s, st, i) : \A y \in JumpsTo(s, st, i) : y <= x
Origin(s, st, i) == IF JumpsTo(s, st, i) = {} THEN Nowhere ELSE st[LastJump(s, st, i)].dir

LEMMA LastJumpFacts ==
    ASSUME NEW s, NEW st, NEW i \in Nat, JumpsTo(s, st, i) # {}
    PROVE  /\ LastJump(s, st, i) \in JumpsTo(s, st, i)
           /\ \A y \in JumpsTo(s, st, i) : y <= LastJump(s, st, i)
<1>1. JumpsTo(s, st, i) \subseteq 1 .. i
  BY DEF JumpsTo
<1>2. \E x \in JumpsTo(s, st, i) : \A y \in JumpsTo(s, st, i) : y <= x
  BY <1>1, Greatest
<1> QED
  BY <1>2 DEF LastJump

\* Two calls for the same directory are told apart by their link.
LEMMA CallsDiffer ==
    ASSUME WalkType, Resolve, Jumping, NEW j \in 1 .. Len(stack), NEW i \in 1 .. j - 1,
           stack[i].dir = stack[j].dir, Origin(src, stack, i) = Origin(src, stack, j)
    PROVE  FALSE
<1> DEFINE L == Len(stack)
           D(k) == stack[k].dir
<1> L \in Nat /\ j \in Nat /\ i \in Nat /\ i \in 1 .. L /\ i < j /\ j <= L
  BY SMT DEF WalkType
<1>2. \A k \in 1 .. L : D(k) \in Node \cup {0}
  <2>1. \A k \in 1 .. L : stack[k] \in Frames
    BY SMT DEF WalkType
  <2> QED
    BY <2>1 DEF Frames
<1> HIDE DEF L
<1>3. ASSUME NEW k \in i + 1 .. j, Jump(src, stack, k)
      PROVE  FALSE
  <2> DEFINE x == LastJump(src, stack, j)
  <2>1. k \in 1 .. j
    BY SMT
  <2>2. k \in JumpsTo(src, stack, j)
    BY <1>3, <2>1 DEF JumpsTo
  <2>3. x \in JumpsTo(src, stack, j) /\ k <= x
    BY <2>2, LastJumpFacts
  <2>4. x \in 1 .. j /\ Jump(src, stack, x)
    BY <2>3 DEF JumpsTo
  <2>5. Origin(src, stack, j) = D(x)
    BY <2>2 DEF Origin
  <2> HIDE DEF x
  <2> x \in 1 .. L /\ i < x
    BY <2>3, <2>4, SMTT(20)
  <2>7. CASE JumpsTo(src, stack, i) = {}
    <3>1. Origin(src, stack, i) = Nowhere
      BY <2>7 DEF Origin
    <3>2. Nowhere \notin Node \cup {0}
      BY SourceAssumption
    <3> QED
      BY <1>2, <2>5, <3>1, <3>2
  <2>8. CASE JumpsTo(src, stack, i) # {}
    <3> DEFINE y == LastJump(src, stack, i)
    <3>1. y \in JumpsTo(src, stack, i)
      BY <2>8, LastJumpFacts
    <3>2. y \in 1 .. i /\ Jump(src, stack, y)
      BY <3>1 DEF JumpsTo
    <3>3. Origin(src, stack, i) = D(y)
      BY <2>8 DEF Origin
    <3> HIDE DEF y
    <3>4. y \in 1 .. x - 1
      BY <3>2, SMT
    <3>5. D(y) # D(x)
      BY <2>4, <3>2, <3>4 DEF Jumping, L
    <3> QED
      BY <2>5, <3>3, <3>5
  <2> QED
    BY <2>7, <2>8, SMT
<1>4. ASSUME NEW k \in i + 1 .. j
      PROVE  D(k) \in Node /\ src.parent[D(k)] = D(k - 1)
  <2>1. k \in 2 .. L
    BY SMT
  <2> QED
    BY <1>3, <2>1 DEF Jump, L
<1> DEFINE S == {D(k) : k \in i + 1 .. j}
<1>5. S \in SUBSET Node
  BY <1>4
<1>6. j \in i + 1 .. j /\ D(j) \in S /\ D(i) \in S
  <2>1. j \in i + 1 .. j
    BY SMT
  <2> QED
    BY <2>1
<1>7. PICK n \in S : src.parent[n] \notin S
  <2>1. S # {}
    BY <1>6
  <2> HIDE DEF S
  <2> QED
    BY <1>5, <2>1, SourceFacts DEF WalkType
<1>8. PICK k \in i + 1 .. j : n = D(k)
  OBVIOUS
<1>9. src.parent[n] = D(k - 1)
  BY <1>4, <1>8
<1>10. k - 1 = i \/ k - 1 \in i + 1 .. j
  BY SMT
<1>11. D(k - 1) \in S
  BY <1>6, <1>10
<1> QED
  BY <1>7, <1>9, <1>11

\* Products of numbers grow with them.
LEMMA ProductGrows ==
    ASSUME NEW a \in Nat, NEW b \in Nat, NEW c \in Nat, b <= c
    PROVE  a * b <= a * c
<1> DEFINE S == {i \in 0 .. a : i * b <= i * c}
<1>1. 0 \in S
  BY SMT
<1>2. ASSUME NEW i \in 1 .. a, i - 1 \in S
      PROVE  i \in S
  <2> USE SMT
  <2>1. (i - 1) * b <= (i - 1) * c
    BY <1>2
  <2>2. i * b = (i - 1) * b + b /\ i * c = (i - 1) * c + c
    OBVIOUS
  <2>3. (i - 1) * b \in Int /\ (i - 1) * c \in Int
    OBVIOUS
  <2>4. i * b <= i * c
    <3> DEFINE u == (i - 1) * b
               v == (i - 1) * c
    <3>1. u \in Int /\ v \in Int /\ u <= v /\ i * b = u + b /\ i * c = v + c
      BY <2>1, <2>2, <2>3, SMTT(20)
    <3> HIDE DEF u, v
    <3> QED
      BY <3>1
  <2>5. i \in 0 .. a
    OBVIOUS
  <2> QED
    BY <2>4, <2>5, Zenon
<1>3. 0 .. a \subseteq S
  <2> HIDE DEF S
  <2> QED
    BY <1>1, <1>2, Upto
<1>4. a \in 0 .. a
  BY SMT
<1> QED
  BY <1>3, <1>4

\* The walk is never deeper than the directories below each link in turn.
LEMMA BoundFollows ==
    ASSUME WalkType, Resolve, Jumping
    PROVE  WalkBounded
<1> DEFINE L == Len(stack)
           D == Dirs \cup {0}
           T == LinkTargets(src) \cup {Nowhere}
           f == [i \in 1 .. L |-> <<stack[i].dir, Origin(src, stack, i)>>]
<1>1. L \in Nat /\ src \in Sources /\ IsFiniteSet(Node) /\ 0 \notin Node
  BY SourceAssumption, SMT DEF WalkType
<1>2. IsFiniteSet(Dirs) /\ IsFiniteSet(Links)
  <2>1. Dirs \in SUBSET Node /\ Links \in SUBSET Node
    BY DEF Dirs, Links
  <2> QED
    BY <1>1, <2>1, FS_Subset
<1>3. Cardinality(Dirs) \in Nat /\ Cardinality(Links) \in Nat
  BY <1>2, FS_CardinalityType
<1>4. IsFiniteSet(D) /\ Cardinality(D) = Cardinality(Dirs) + 1
  <2>1. 0 \notin Dirs
    BY <1>1 DEF Dirs
  <2> QED
    BY <1>2, <2>1, FS_AddElement
<1>5. IsFiniteSet(LinkTargets(src)) /\ Cardinality(LinkTargets(src)) <= Cardinality(Links)
  <2> DEFINE g == [l \in Links |-> src.target[l]]
  <2>1. LinkTargets(src) = {src.target[l] : l \in Links}
    BY DEF LinkTargets, Links
  <2>2. g \in Surjection(Links, LinkTargets(src))
    BY <2>1 DEF Surjection
  <2> HIDE DEF g
  <2> QED
    BY <1>2, <2>2, FS_Surjection
<1>6. IsFiniteSet(T) /\ Cardinality(T) \in Nat /\ Cardinality(T) <= Cardinality(Links) + 1
  <2>1. /\ IsFiniteSet(T)
        /\ Cardinality(T) = IF Nowhere \in LinkTargets(src) THEN Cardinality(LinkTargets(src))
                            ELSE Cardinality(LinkTargets(src)) + 1
    BY <1>5, FS_AddElement
  <2>2. Cardinality(LinkTargets(src)) \in Nat
    BY <1>5, FS_CardinalityType
  <2> DEFINE c == Cardinality(LinkTargets(src))
             k == Cardinality(Links)
             b == Cardinality(T)
  <2>3. c \in Nat /\ k \in Nat /\ c <= k /\ (b = c \/ b = c + 1)
    BY <1>3, <1>5, <2>1, <2>2
  <2>4. b \in Nat /\ b <= k + 1
    <3> HIDE DEF c, k, b
    <3> QED
      BY <2>3, SMT
  <2> QED
    BY <2>1, <2>4
<1>7. IsFiniteSet(D \X T) /\ Cardinality(D \X T) = Cardinality(D) * Cardinality(T)
  <2> HIDE DEF D, T
  <2> QED
    BY <1>4, <1>6, FS_Product
<1>8. IsFiniteSet(1 .. L) /\ Cardinality(1 .. L) = L
  <2>1. 1 \in Int /\ L \in Int /\ (IF 1 > L THEN 0 ELSE L - 1 + 1) = L
    BY <1>1, SMTT(20)
  <2> QED
    BY <2>1, FS_Interval
<1>9. f \in [1 .. L -> D \X T]
  <2> SUFFICES ASSUME NEW i \in 1 .. L
               PROVE  stack[i].dir \in D /\ Origin(src, stack, i) \in T
    OBVIOUS
  <2>1. stack[i] \in Frames /\ i \in Nat
    BY SMT DEF WalkType
  <2>2. stack[i].dir \in Node \cup {0}
    BY <2>1 DEF Frames
  <2>3. IsDir(src, stack[i].dir)
    BY DEF Resolve, FrameOk
  <2>4. stack[i].dir \in D
    BY <2>2, <2>3 DEF Dirs
  <2>5. ASSUME JumpsTo(src, stack, i) # {}
        PROVE  Origin(src, stack, i) \in LinkTargets(src)
    <3> DEFINE x == LastJump(src, stack, i)
    <3>1. x \in JumpsTo(src, stack, i)
      BY <2>1, <2>5, LastJumpFacts
    <3>2. x \in 1 .. i /\ Jump(src, stack, x)
      BY <3>1 DEF JumpsTo
    <3>3. Origin(src, stack, i) = stack[x].dir
      BY <2>5 DEF Origin
    <3> HIDE DEF x
    <3>4. x \in 1 .. L
      BY <1>1, <3>2, SMTT(20)
    <3> QED
      BY <3>2, <3>3, <3>4 DEF Jumping
  <2> QED
    BY <2>4, <2>5 DEF Origin
<1>10. ASSUME NEW i \in 1 .. L, NEW j \in 1 .. L, i # j, f[i] = f[j]
       PROVE  FALSE
  <2>1. stack[i].dir = stack[j].dir /\ Origin(src, stack, i) = Origin(src, stack, j)
    <3> DEFINE p == stack[i].dir
               q == stack[j].dir
               u == Origin(src, stack, i)
               v == Origin(src, stack, j)
    <3>1. <<p, u>> = <<q, v>>
      BY <1>10
    <3> HIDE DEF p, q, u, v
    <3>2. p = q /\ u = v
      BY <3>1, SMTT(20)
    <3> QED
      BY <3>2 DEF p, q, u, v
  <2>2. i \in 1 .. j - 1 \/ j \in 1 .. i - 1
    BY <1>1, <1>10, SMTT(20)
  <2> QED
    BY <2>1, <2>2, CallsDiffer
<1> DEFINE a == Cardinality(D)
           b == Cardinality(T)
           c == Cardinality(Links) + 1
<1>11. ~(Cardinality(D \X T) < Cardinality(1 .. L))
  <2> HIDE DEF f, D, T
  <2> QED
    BY <1>7, <1>8, <1>9, <1>10, FS_PigeonHole, SMTT(20)
<1> a \in Nat /\ b \in Nat /\ c \in Nat /\ b <= c /\ ~(a * b < L)
  <2>1. c \in Nat
    BY <1>3, SMT
  <2>2. a \in Nat
    BY <1>4, FS_CardinalityType
  <2> QED
    BY <1>6, <1>7, <1>8, <1>11, <2>1, <2>2
<1>13. WalkBounded <=> L <= a * c
  BY <1>4 DEF WalkBounded
<1> HIDE DEF a, b, c, L
<1>14. a * b <= a * c
  BY ProductGrows
<1>15. a * b \in Nat /\ a * c \in Nat
  BY SMT
<1>16. L <= a * c
  <2> USE SMT
  <2> DEFINE u == a * b
             v == a * c
  <2>1. u \in Nat /\ v \in Nat /\ L \in Nat /\ u <= v /\ ~(u < L)
    BY <1>1, <1>14, <1>15, SMTT(20)
  <2> HIDE DEF u, v
  <2>2. L <= v
    BY <2>1
  <2> QED
    BY <2>2, SMTT(20) DEF v
<1> QED
  BY <1>13, <1>16, SMTT(20)

-----------------------------------------------------------------------------
(***************************************************************************)
(* The theorems.                                                           *)
(***************************************************************************)

\* The invariant gives the three properties.
LEMMA ScanFollows ==
    ASSUME ScanInv
    PROVE  WalkExact /\ PlanExact /\ GroupsExact
<1> /\ WalkInv /\ WalkType /\ Resolve /\ OnePath /\ BelowDirs /\ Jumping /\ Planned
    /\ out \in Seq(Items) /\ opts \in OptionSets
  BY DEF ScanInv, WalkInv, WalkType
<1>2. EntriesResolve
  <2>1. Range(out) = {out[k] : k \in DOMAIN out}
    BY DEF Range
  <2>2. \A e \in Range(out) : EntryOk(src, e)
    BY <2>1 DEF Resolve
  <2> QED
    BY <2>2 DEF EntriesResolve, EntryOk, OnePath
<1>3. WalkExact
  BY <1>2, BoundFollows, CompleteFollows DEF WalkExact
<1>4. Sendings
  BY DEF Sendings
<1>5. PlanExact /\ (phase = "done" => entries \in Seq(Items))
  BY <1>4, PlanFollows, ParentsFollow DEF PlanExact, Odd
<1>6. ASSUME phase = "done"
      PROVE  GroupsExact
  <2>1. opts.bytes \in Nat
    BY OptionsAssumption
  <2>2. groupStart = ComputeGroups(opts, entries)
    BY <1>6 DEF Planned
  <2> QED
    BY <1>5, <1>6, <2>1, <2>2, GroupsHold
<1>7. GroupsExact
  BY <1>6 DEF GroupsExact
<1> QED
  BY <1>3, <1>5, <1>7, SMTT(20)

\* Whatever the tree, its links, mount points and unreadable directories, and
\* whatever vanishes: the walk is of bounded depth, every path it sends leads
\* to what was listed and is sent once, and a finished walk has sent all it
\* owes (walkDir, handleSymlink).
THEOREM WalkIsExact == ScanSpec => []WalkExact
<1>1. ScanInv => WalkExact
  BY ScanFollows
<1> QED
  BY <1>1, ScanKeeps, PTL

\* For any rules and any walk, the plan is what the documented rules leave of
\* what was sent, in one strict order, and holds no entry without the
\* directories above it; where a directory has the name of a system file, it
\* alone is missing and its subtree is not (Build, filterAdmits,
\* MatchSystemFile, the sort).
THEOREM PlanIsExact == ScanSpec => []PlanExact
<1>1. ScanInv => PlanExact
  BY ScanFollows
<1> QED
  BY <1>1, ScanKeeps, PTL

\* For any limits and any plan, the groups partition it from its first entry
\* to its last, each within the limits or a single entry, and none cut short
\* (computeGroups).
THEOREM GroupsAreExact == ScanSpec => []GroupsExact
<1>1. ScanInv => GroupsExact
  BY ScanFollows
<1> QED
  BY <1>1, ScanKeeps, PTL

=============================================================================
