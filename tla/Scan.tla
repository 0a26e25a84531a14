-------------------------------- MODULE Scan --------------------------------
(***************************************************************************)
(* The sender's scan: walkTree enumerates the source depth first           *)
(* (sender/walk.go), plan.Build drops what is excluded, orders the rest,   *)
(* and cuts it into groups (plan/plan.go, filter.go, sysfiles.go).         *)
(*                                                                         *)
(* The source is a tree of nodes below the root, node 0.  A path is the    *)
(* sequence of the names on it; names are numbers, in byte order.  NFC     *)
(* gives a name's normal form, and two names may share one.  A glob or a   *)
(* system-file pattern is the set of what it matches.  Paths are compared  *)
(* as if no name held a byte below the separator; where one does, another  *)
(* strict order results, and nothing here depends on which it is.          *)
(***************************************************************************)
EXTENDS Naturals, Sequences, FiniteSetsExt

CONSTANTS
    Node,         \* the objects below the root
    Nowhere,      \* where a dangling link leads
    Sources,      \* source trees: [parent, name, kind, target, other]
    OptionSets,   \* [follow, oneFS, keep, filters, bytes, hardlinks]
    NFC,          \* NFC[name]: the name's normal form
    NotUTF8,      \* the names that are not valid UTF-8
    Esync,        \* the name ".esync"
    SysRules,     \* sys-v1: a sequence of [names, dir, rootOnly]
    Size,         \* Size[n]: bytes of the file n
    Linked,       \* the files with more than one link
    MaxGroupEntries, MaxManifest,
    MaxVanished   \* bound: objects removed between ReadDir and Lstat

\* The rest of a file system, as the walk relies on it: every object is in one
\* directory, under a name no other object there has; no directory is below
\* itself; a resolved link leads to something that is not a link.
Tree(s) ==
    /\ \A n \in Node :
          /\ s.name[n] \in Nat /\ s.name[n] \in DOMAIN NFC
          /\ s.kind[n] \in {"file", "dir", "locked", "link", "special"}
          /\ s.parent[n] # 0 => s.parent[n] \in Node /\ s.kind[s.parent[n]] \in {"dir", "locked"}
          /\ s.target[n] \in Node \cup {0, Nowhere}
          /\ s.target[n] \in Node => s.kind[s.target[n]] # "link"
          /\ \A m \in Node \ {n} : s.parent[m] = s.parent[n] => s.name[m] # s.name[n]
    /\ \A S \in SUBSET Node : S # {} => \E n \in S : s.parent[n] \notin S

ASSUME SourceAssumption ==
    /\ IsFiniteSet(Node) /\ 0 \notin Node /\ Nowhere \notin Node \cup {0}
    /\ \A s \in Sources : Tree(s)
    /\ \A x \in DOMAIN NFC : NFC[x] \in Nat

ASSUME OptionsAssumption ==
    /\ SysRules \in Seq([names : SUBSET Nat, dir : BOOLEAN, rootOnly : BOOLEAN])
    /\ \A o \in OptionSets :
          /\ Len(o.filters) \in Nat /\ DOMAIN o.filters = 1 .. Len(o.filters)
          /\ \A i \in DOMAIN o.filters : o.filters[i].include \in BOOLEAN
          /\ {o.follow, o.oneFS, o.keep, o.hardlinks} \subseteq BOOLEAN
          /\ o.bytes \in Nat
    /\ Size \in [Node -> Nat]
    /\ {MaxGroupEntries, MaxManifest, MaxVanished} \subseteq Nat

VARIABLES
    src,        \* the source tree
    opts,       \* the options
    stack,      \* walkDir calls under way, innermost last: [dir, path, todo],
                \* the entries of dir that the loop has still to look at
    visited,    \* directories entered through a symlink
    skipped, unreadable,
    vanished,   \* nodes that were gone when they were looked at (history)
    out,        \* entries sent to Build: [path, node, type]
    phase,      \* "walk", "build", "done"
    entries, exclusions, groupStart   \* the plan

walkVars == <<stack, visited, skipped, unreadable, vanished, out>>
planVars == <<entries, exclusions, groupStart>>
scanVars == <<src, opts, walkVars, phase, planVars>>

-----------------------------------------------------------------------------
(***************************************************************************)
(* Walk.                                                                   *)
(***************************************************************************)
Children(s, d) == {n \in Node : s.parent[n] = d}

IsDir(s, n) == n \in {0} \cup {m \in Node : s.kind[m] \in {"dir", "locked"}}
Readable(s, d) == d \in {0} \cup {m \in Node : s.kind[m] = "dir"}

PlanEntry(p, n, t) == [path |-> p, node |-> n, type |-> t]

\* A call of walkDir that has read the directory d.
Frame(s, d, p) == [dir |-> d, path |-> p, todo |-> Children(s, d)]

ScanInit ==
    /\ src \in Sources
    /\ opts \in OptionSets
    /\ stack = <<Frame(src, 0, <<>>)>>
    /\ visited = {}
    /\ skipped = 0 /\ unreadable = 0
    /\ vanished = {}
    /\ out = <<>>
    /\ phase = "walk"
    /\ entries = <<>> /\ exclusions = {} /\ groupStart = <<>>

Top == stack[Len(stack)]
Advanced(n) == [stack EXCEPT ![Len(stack)].todo = @ \ {n}]

\* childRel
Child(n) == Append(Top.path, src.name[n])

\* q goes on where p ends.
Below(q, p) == Len(p) < Len(q) /\ \A i \in DOMAIN p : p[i] = q[i]

\* The loop of the innermost walkDir looks at n, its next entry in the name
\* order of os.ReadDir.
Looking(n) ==
    /\ phase = "walk"
    /\ n \in Top.todo
    /\ \A m \in Top.todo : src.name[n] <= src.name[m]

\* walkDir, called for the entry n: the directory d is entered under the path
\* of n, or counted if it cannot be read (E6005).
Enter(n, d) ==
    IF Readable(src, d)
    THEN /\ stack' = Append(Advanced(n), Frame(src, d, Child(n)))
         /\ UNCHANGED <<skipped, unreadable>>
    ELSE /\ stack' = Advanced(n)
         /\ skipped' = skipped + 1
         /\ unreadable' = unreadable + 1

Emit(p, n, t) == out' = Append(out, PlanEntry(p, n, t))

\* Left out without a count: the journal directory, an object that vanished,
\* a mount point under --one-file-system, a followed link to a special file.
Ignore(n) ==
    /\ Looking(n)
    /\ \/ src.name[n] = Esync /\ UNCHANGED vanished
       \/ /\ src.name[n] # Esync
          /\ \/ Cardinality(vanished) < MaxVanished /\ vanished' = vanished \cup {n}
             \/ IsDir(src, n) /\ opts.oneFS /\ n \in src.other /\ UNCHANGED vanished
             \/ /\ src.kind[n] = "link" /\ opts.follow
                /\ src.target[n] \in Node /\ src.kind[src.target[n]] = "special"
                /\ UNCHANGED vanished
    /\ stack' = Advanced(n)
    /\ UNCHANGED <<src, opts, visited, skipped, unreadable, out, phase, planVars>>

\* Mutant of WalkDirectory: mount points are crossed.
WalkDirectoryCrosses(n) ==
    /\ Looking(n)
    /\ src.name[n] # Esync
    /\ IsDir(src, n)
    /\ Emit(Child(n), n, "dir")
    /\ Enter(n, n)
    /\ UNCHANGED <<src, opts, visited, vanished, phase, planVars>>

WalkDirectory(n) ==
    /\ Looking(n)
    /\ src.name[n] # Esync
    /\ IsDir(src, n)
    /\ ~(opts.oneFS /\ n \in src.other)
    /\ Emit(Child(n), n, "dir")
    /\ Enter(n, n)
    /\ UNCHANGED <<src, opts, visited, vanished, phase, planVars>>

\* A regular file, a symlink that is recorded, a special file (E6006).
WalkLeaf(n) ==
    /\ Looking(n)
    /\ src.name[n] # Esync
    /\ \/ src.kind[n] = "file" /\ Emit(Child(n), n, "file") /\ UNCHANGED skipped
       \/ src.kind[n] = "link" /\ ~opts.follow /\ Emit(Child(n), n, "symlink") /\ UNCHANGED skipped
       \/ src.kind[n] = "special" /\ skipped' = skipped + 1 /\ UNCHANGED out
    /\ stack' = Advanced(n)
    /\ UNCHANGED <<src, opts, visited, unreadable, vanished, phase, planVars>>

\* handleSymlink under --follow-symlinks: the target is a file, a directory
\* not entered through a link before, one that was (E6007), or nothing
\* (E6006).
FollowLink(n) ==
    /\ Looking(n)
    /\ src.name[n] # Esync
    /\ src.kind[n] = "link" /\ opts.follow
    /\ LET t == src.target[n] IN
          \/ /\ t \in Node /\ src.kind[t] = "file"
             /\ Emit(Child(n), t, "file")
             /\ stack' = Advanced(n)
             /\ UNCHANGED <<visited, skipped, unreadable>>
          \/ /\ t \in Node \cup {0} /\ IsDir(src, t) /\ t \notin visited
             /\ visited' = visited \cup {t}
             /\ Emit(Child(n), t, "dir")
             /\ Enter(n, t)
          \/ /\ t \notin Node \cup {0} \/ t \in visited
             /\ skipped' = skipped + 1
             /\ stack' = Advanced(n)
             /\ UNCHANGED <<visited, unreadable, out>>
    /\ UNCHANGED <<src, opts, vanished, phase, planVars>>

\* walkDir returns; the outermost return closes entriesCh.
Return ==
    /\ phase = "walk"
    /\ Top.todo = {}
    /\ stack' = SubSeq(stack, 1, Len(stack) - 1)
    /\ phase' = IF Len(stack) = 1 THEN "build" ELSE "walk"
    /\ UNCHANGED <<src, opts, visited, skipped, unreadable, vanished, out, planVars>>

-----------------------------------------------------------------------------
(***************************************************************************)
(* Build.                                                                  *)
(***************************************************************************)
\* The final component of a path.
FinalComponent(p) == p[Len(p)]
AtRoot(p) == Len(p) = 1

SysMatches(r, p) == FinalComponent(p) \in r.names /\ (r.rootOnly => AtRoot(p))

\* MatchSystemFile: the first rule that matches, as its number; 0 if none.
MatchSystemFile(p) ==
    LET hits == {i \in 1 .. Len(SysRules) : SysMatches(SysRules[i], p)}
    IN  IF hits # {} THEN Min(hits) ELSE 0

\* filterRuleMatches: a pattern ending in "/" is for directories, one with
\* another "/" in it is matched with the whole path.
FilterRuleMatches(r, e) ==
    /\ r.dirOnly => e.type = "dir"
    /\ IF r.whole THEN e.path \in r.match ELSE FinalComponent(e.path) \in r.match

\* Mutant of FilterAdmits: the first match wins.
FilterAdmitsFirst(o, e) ==
    LET hits == {i \in DOMAIN o.filters : FilterRuleMatches(o.filters[i], e)}
    IN  hits # {} => o.filters[Min(hits)].include

\* filterAdmits: every rule in turn, the last match wins.
FilterAdmits(o, e) ==
    LET admit[i \in 0 .. Len(o.filters)] ==
            IF i = 0 THEN TRUE
            ELSE IF FilterRuleMatches(o.filters[i], e) THEN o.filters[i].include
            ELSE admit[i - 1]
    IN  admit[Len(o.filters)]

\* Pass 1: is e dropped by its own name, and is what is beneath it pruned?
Decision(o, e) ==
    LET s == IF o.keep THEN 0 ELSE MatchSystemFile(e.path) IN
    IF s # 0
    THEN [dropped |-> TRUE, prune |-> SysRules[s].dir /\ e.type = "dir"]
    ELSE [dropped |-> ~FilterAdmits(o, e), prune |-> ~FilterAdmits(o, e) /\ e.type = "dir"]

Pruned(o, es) == {e.path : e \in {x \in Range(es) : Decision(o, x).prune}}

\* underPruned: some directory on the way to p is pruned.
UnderPruned(pruned, p) == \E q \in pruned : Below(p, q)

\* orderingKey: normalised name by name, unless the path is not valid UTF-8.
OrderingKey(p) ==
    IF Range(p) \cap NotUTF8 # {} THEN p ELSE [i \in DOMAIN p |-> NFC[p[i]]]

\* bytes.Compare.
Before(s, t) ==
    \/ Below(t, s)
    \/ \E i \in DOMAIN s \cap DOMAIN t :
          /\ s[i] < t[i]
          /\ \A j \in 1 .. i - 1 : s[j] = t[j]

\* The order of the plan: by key, then by the path as it is.
Less(d, e) ==
    LET k == OrderingKey(d.path) l == OrderingKey(e.path)
    IN  Before(k, l) \/ (k = l /\ Before(d.path, e.path))

Bytes(e) == IF e.type = "file" THEN Size[e.node] ELSE 0

\* manifestEntrySize: fixed part, path, digest, link target, hardlink key,
\* one byte each.
ManifestEntrySize(o, e) ==
    1 + Len(e.path) + (IF e.type = "dir" THEN 0 ELSE 1)
      + (IF e.type = "file" /\ o.hardlinks /\ e.node \in Linked THEN 1 ELSE 0)

\* Mutant of Grouped: the manifest budget is not given back.
GroupedKeeps(o, g, i, e) ==
    LET sz == Bytes(e) m == ManifestEntrySize(o, e) IN
    IF g.count > 0 /\ (\/ g.count >= MaxGroupEntries
                       \/ g.acc + sz > o.bytes
                       \/ g.manifest + m > MaxManifest)
    THEN [starts |-> Append(g.starts, i - 1), acc |-> sz, manifest |-> g.manifest + m, count |-> 1]
    ELSE [starts |-> g.starts, acc |-> g.acc + sz, manifest |-> g.manifest + m, count |-> g.count + 1]

\* One turn of the loop of computeGroups, for e, the i-th entry: the group is
\* closed before an entry that would take it past one of the three limits.
Grouped(o, g, i, e) ==
    LET sz == Bytes(e) m == ManifestEntrySize(o, e) IN
    IF g.count > 0 /\ (\/ g.count >= MaxGroupEntries
                       \/ g.acc + sz > o.bytes
                       \/ g.manifest + m > MaxManifest)
    THEN [starts |-> Append(g.starts, i - 1), acc |-> sz, manifest |-> m, count |-> 1]
    ELSE [starts |-> g.starts, acc |-> g.acc + sz, manifest |-> g.manifest + m, count |-> g.count + 1]

\* The state of that loop after each number of entries.
GroupLoop(o, es) ==
    LET g[i \in 0 .. Len(es)] ==
            IF i = 0 THEN [starts |-> <<0>>, acc |-> 0, manifest |-> 0, count |-> 0]
            ELSE Grouped(o, g[i - 1], i, es[i])
    IN  g

\* computeGroups: where each group starts, and the end.
ComputeGroups(o, es) ==
    IF es = <<>> THEN <<0>> ELSE Append(GroupLoop(o, es)[Len(es)].starts, Len(es))

\* Of the entries of out, the i-th goes before the j-th.
Ahead(es, i, j) == Less(es[i], es[j]) \/ (es[i].path = es[j].path /\ i < j)

\* How many of the entries with the numbers in S go before each of them.
Rank(es, S) == [i \in S |-> Cardinality({j \in S : Ahead(es, j, i)})]

\* slices.SortFunc of these entries: each in its place.
Sorted(es, S) ==
    LET rank == Rank(es, S) IN [k \in 1 .. Cardinality(S) |-> es[CHOOSE i \in S : rank[i] = k - 1]]

\* Pass 2: what is beneath a pruned directory goes silently, what is dropped
\* is recorded, the rest is sorted and grouped.
Build ==
    /\ phase = "build"
    /\ phase' = "done"
    /\ LET left == {i \in DOMAIN out : ~UnderPruned(Pruned(opts, out), out[i].path)}
           dropped == {i \in left : Decision(opts, out[i]).dropped}
       IN  /\ exclusions' = {out[i] : i \in dropped}
           /\ entries' = Sorted(out, left \ dropped)
    /\ groupStart' = ComputeGroups(opts, entries')
    /\ UNCHANGED <<src, opts, walkVars>>

ScanNext ==
    \/ \E n \in Node : Ignore(n) \/ WalkDirectory(n) \/ WalkLeaf(n) \/ FollowLink(n)
    \/ Return
    \/ Build

ScanSpec == ScanInit /\ [][ScanNext]_scanVars

-----------------------------------------------------------------------------

Dirs == {n \in Node : IsDir(src, n)}
Links == {n \in Node : src.kind[n] = "link"}

\* "a (device, inode) visited set breaks cycles": however the links point, a
\* link enters a directory once, so the walk is never deeper than all the
\* directories below each link in turn, and it ends.
WalkBounded == Len(stack) <= (Cardinality(Dirs) + 1) * (Cardinality(Links) + 1)

\* The object a path leads to, links followed.
Follow(s, n) == IF n \in Node /\ s.kind[n] = "link" THEN s.target[n] ELSE n
Named(s, d, name) ==
    LET found == {n \in Children(s, Follow(s, d)) : s.name[n] = name}
    IN  IF found = {} THEN Nowhere ELSE CHOOSE n \in found : TRUE
Trail(s, p) ==
    LET reached[i \in 0 .. Len(p)] == IF i = 0 THEN 0 ELSE Named(s, reached[i - 1], p[i])
    IN  reached
Lookup(s, p) == Trail(s, p)[Len(p)]

\* Every entry names the object it was made from, and no path is sent twice:
\* the paths are what the servicer opens and the receiver creates.
EntriesResolve ==
    /\ \A e \in Range(out) :
          IF e.type = "symlink" THEN Lookup(src, e.path) = e.node
                                ELSE Follow(src, Lookup(src, e.path)) = e.node
    /\ \A i, j \in DOMAIN out : i # j => out[i].path # out[j].path

\* S holds the parent of n and the parent of everything in S.
Upward(s, n, S) == \A m \in S \cup {n} : s.parent[m] \in S \cup {0}

\* The directories above n.
Above(s, n) == {m \in Node : \A S \in SUBSET Node : Upward(s, n, S) => m \in S}

\* What the walk owes: an object of a kind that is transferred, with no
\* journal directory or mount point on the way to it, and every directory
\* above it readable.
Owed(s, o, n) ==
    /\ s.kind[n] # "special"
    /\ s.kind[n] = "link" => ~o.follow
    /\ \A m \in Above(s, n) \cup {n} :
          s.name[m] # Esync /\ ~(IsDir(s, m) /\ o.oneFS /\ m \in s.other)
    /\ \A m \in Above(s, n) : Readable(s, m)

\* A finished walk has sent every object it owes that did not vanish, by its
\* own name; and without symlinks followed it has sent nothing else.  In
\* particular a file is missing only when a directory was counted unreadable
\* or something vanished ("the only skip class that affects the exit code").
WalkComplete ==
    phase # "walk" =>
        /\ \A n \in Node :
              Owed(src, opts, n) /\ (Above(src, n) \cup {n}) \cap vanished = {} =>
                  \E e \in Range(out) : e.node = n /\ Lookup(src, e.path) = n
        /\ ~opts.follow => \A e \in Range(out) : Owed(src, opts, e.node)
        /\ unreadable = 0 /\ vanished = {} =>
              \A n \in Node :
                  /\ src.kind[n] = "file"
                  /\ \A m \in Above(src, n) \cup {n} : src.name[m] # Esync /\ m \notin src.other
                  => \E e \in Range(out) : e.node = n

\* The walk ends, sends what it owes, and every path it sends leads to what
\* was listed, whatever links, mount points and unreadable directories the
\* tree has (walkDir, handleSymlink).
WalkExact == WalkBounded /\ EntriesResolve /\ WalkComplete

\* The rules as documented: an entry is excluded by a system rule, or else by
\* the last filter that matches it.
Excluded(o, e) ==
    \/ ~o.keep /\ \E r \in Range(SysRules) : SysMatches(r, e.path)
    \/ \E i \in DOMAIN o.filters :
          /\ FilterRuleMatches(o.filters[i], e) /\ ~o.filters[i].include
          /\ \A j \in i + 1 .. Len(o.filters) : ~FilterRuleMatches(o.filters[j], e)

\* A directory with a name that the system set has for files only, such as
\* ".DS_Store": the first rule that matches it is not one for directories.
FilesOnly(o, d) ==
    /\ d.type = "dir" /\ ~o.keep
    /\ \E i \in DOMAIN SysRules :
          /\ SysMatches(SysRules[i], d.path) /\ ~SysRules[i].dir
          /\ \A j \in 1 .. i - 1 : ~SysMatches(SysRules[j], d.path)

\* P-SCAN-01 and P-SCAN-02: the plan is a function of the set of entries.  It
\* holds, in one strict order and however the walk sent them, those that are
\* neither excluded nor beneath a directory of the set cut; the exclusions are
\* those that are excluded and not beneath one.
PlanLeaves(cut) ==
    LET left == {e \in Range(out) : \A d \in cut : ~Below(e.path, d.path)}
    IN  /\ Range(entries) = {e \in left : ~Excluded(opts, e)}
        /\ exclusions = {e \in left : Excluded(opts, e)}
        /\ \A i, j \in DOMAIN entries : i < j =>
              /\ Less(entries[i], entries[j])
              /\ ~Less(entries[j], entries[i])

\* The directories that are excluded.
ExcludedDirs == {d \in Range(out) : d.type = "dir" /\ Excluded(opts, d)}

\* Every directory above an entry of the plan is in the plan, or among odd.
ParentsPlanned(odd) ==
    \A e \in Range(entries), d \in Range(out) :
        Below(e.path, d.path) => d \in Range(entries) \cup odd

\* "when a directory matches the sys set or is excluded by a user filter, its
\* whole subtree is dropped" (Build): the plan is what the rules leave, in
\* order, and holds no entry without the directories above it.  The code does
\* not keep this promise for a directory with a name of a system file:
\* MatchSystemFile drops it and does not prune it.
PlanDocumented == phase = "done" => PlanLeaves(ExcludedDirs) /\ ParentsPlanned({})

\* PlanDocumented, for every source in which no directory has the name of a
\* system file.  In the others such a directory is missing and what is beneath
\* it is planned, and this is the only difference: every other directory that
\* is excluded takes its subtree with it, and every other directory above an
\* entry of the plan is in the plan.
PlanExact ==
    phase = "done" =>
        LET odd == {d \in Range(out) : FilesOnly(opts, d)}
        IN  PlanLeaves(ExcludedDirs \ odd) /\ ParentsPlanned(odd)

\* The sum of the first i numbers of w, for every i.
Sums(w) ==
    LET sum[i \in 0 .. Len(w)] == IF i = 0 THEN 0 ELSE sum[i - 1] + w[i]
    IN  sum

\* The entries after the first a, up to the b-th, are within the limits.
Fits(a, b) ==
    LET bytes == Sums([i \in 1 .. Len(entries) |-> Bytes(entries[i])])
        manifest == Sums([i \in 1 .. Len(entries) |-> ManifestEntrySize(opts, entries[i])])
    IN  /\ b - a <= MaxGroupEntries
        /\ bytes[b] - bytes[a] <= opts.bytes
        /\ manifest[b] - manifest[a] <= MaxManifest

\* The groups are a partition of the plan into runs of consecutive entries:
\* the first starts before the first entry, each starts where the one before
\* it ends, none is empty, and the last ends with the last entry, so that no
\* entry is left out of the manifests or sent twice.  Each is within the three
\* limits or of a single entry, and each is as long as it can be: so
\* GROUP_MANIFEST fits its record (computeGroups).
GroupsExact ==
    phase = "done" =>
        LET last == Len(groupStart) IN
        /\ groupStart[1] = 0
        /\ groupStart[last] = Len(entries)
        /\ \A g \in 1 .. last - 1 :
              /\ groupStart[g] < groupStart[g + 1]
              /\ groupStart[g + 1] = groupStart[g] + 1 \/ Fits(groupStart[g], groupStart[g + 1])
              /\ g < last - 1 => ~Fits(groupStart[g], groupStart[g + 1] + 1)
=============================================================================
