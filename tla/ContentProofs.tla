---------------------------- MODULE ContentProofs ----------------------------
(***************************************************************************)
(* Proofs about what is sent and what is known of it.                      *)
(*                                                                         *)
(* A data channel stays in step, a published file is whole, and a file     *)
(* fails for errors of its own: for any files, chunk counts, retries,      *)
(* errors and breaks (DataStream).                                         *)
(*                                                                         *)
(* The digest cache tells the truth about every file that still has the    *)
(* key of an entry, and its file starts with its header: for any files,    *)
(* contents, runs, workers, changes and failed writes (DigestCache).       *)
(*                                                                         *)
(* No entry of a hardlink key is stranded and no link is made to missing   *)
(* content (HardlinkMap).  Zenon checks the leaves that name no prover.    *)
(***************************************************************************)
EXTENDS DataStream, DigestCache, HardlinkMap, Integers, TLAPS

USE ZenonT(30)

-----------------------------------------------------------------------------
(***************************************************************************)
(* The digest cache.                                                       *)
(***************************************************************************)

\* A key was not taken in the future.
Past(k) == k.ctime <= clock

\* An entry is of the past, and true of a file that has its key now.
Good(e) ==
    /\ Past(e.key)
    /\ \A f \in Inode : e.key = StatKey(f, e.key.algo) => e.digest = Sum(e.key.algo, content[f])

\* What a worker has read so far, of a file that still has the key the worker
\* took, is a prefix of what the file holds; when the worker is through, it
\* is all of it.
JobGood(w) ==
    /\ Past(job[w].key)
    /\ job[w].at # "done" => job[w].sum.algo = job[w].key.algo
    /\ job[w].at = "get" => job[w].sum.data = <<>>
    /\ \A f \in Inode : job[w].key = StatKey(f, job[w].key.algo) =>
        /\ job[w].at = "read" =>
            /\ Len(job[w].sum.data) <= Len(content[f])
            /\ \A i \in 1 .. Len(job[w].sum.data) : job[w].sum.data[i] = content[f][i]
        /\ job[w].at \in {"put", "done"} => job[w].sum = Sum(job[w].key.algo, content[f])

FilesPast == \A f \in Inode : ctime[f] <= clock
MemGood == \A p \in Process : \A e \in mem[p] : Good(e)
DbGood == \A i \in 1 .. Len(db) : db[i] \in Entry => Good(db[i])
JobsGood == \A w \in Worker : job[w] # NoJob => JobGood(w)

\* While no header was torn or left out: what is in the file starts with it,
\* and a run that writes entries found or wrote one.
HeaderFirst ==
    ~spoilt => /\ db # <<>> => db[1] = Magic
               /\ \A p \in Process : handle[p] => db # <<>>

CacheIInv == TypeOK /\ FilesPast /\ MemGood /\ DbGood /\ JobsGood /\ HeaderFirst

-----------------------------------------------------------------------------
(* What keeps entries and jobs true.                                       *)

\* The key of a file as it is now has its type.
LEMMA KeyType ==
    ASSUME TypeOK, NEW f \in Inode, NEW a \in Algo
    PROVE  StatKey(f, a) \in Key
  <1>1. content[f] \in Seq(Block)
    BY CacheAssumption DEF TypeOK
  <1>2. Len(content[f]) \in Nat
    BY <1>1, SMT
  <1> QED BY <1>2 DEF StatKey, Key, TypeOK

\* A change of a file gives it a key that no key of the past equals, and
\* leaves the other files alone (statkey_linux.go: ctime is in the key).
LEMMA WriteKeys ==
    ASSUME TypeOK, NEW f \in Inode, Write(f), NEW k \in Key, Past(k), NEW g \in Inode, NEW a,
           k = StatKey(g, a)'
    PROVE  g # f /\ k = StatKey(g, a) /\ content'[g] = content[g]
  <1>1. k.ctime = ctime'[g]
    BY DEF StatKey
  <1>2. clock \in Nat /\ k.ctime \in Nat /\ k.ctime <= clock
    BY DEF TypeOK, Key, Past
  <1>3. ctime'[f] = clock + 1
    BY DEF Write, TypeOK
  <1>4. g # f
    BY <1>1, <1>2, <1>3, SMT
  <1>5. content'[g] = content[g] /\ mtime'[g] = mtime[g] /\ ctime'[g] = ctime[g]
    BY <1>4 DEF Write, TypeOK
  <1> QED BY <1>4, <1>5 DEF StatKey

\* So an entry stays good when a file changes.
LEMMA WriteGood ==
    ASSUME TypeOK, NEW f \in Inode, Write(f), NEW e \in Entry, Good(e)
    PROVE  Good(e)'
  <1> USE SMT
  <1>1. e.key \in Key
    BY DEF Entry
  <1>2. Past(e.key)'
    BY <1>1 DEF Good, Past, Write, TypeOK, Key
  <1>3. ASSUME NEW g \in Inode, e.key = StatKey(g, e.key.algo)'
        PROVE  e.digest = Sum(e.key.algo, content'[g])
    BY <1>1, <1>3, WriteKeys DEF Good
  <1> QED BY <1>2, <1>3 DEF Good

\* And so does what a worker is doing.
LEMMA WriteJob ==
    ASSUME TypeOK, NEW f \in Inode, Write(f), NEW w \in Worker, job[w] # NoJob, JobGood(w)
    PROVE  JobGood(w)'
  <1> USE SMT
  <1> job[w] \in Job /\ job' = job
    BY DEF TypeOK, Write
  <1>2. job[w].key \in Key
    BY DEF Job
  <1>3. Past(job[w].key)'
    BY <1>2 DEF JobGood, Past, Write, TypeOK, Key
  <1>4. ASSUME NEW g \in Inode, NEW a, job[w].key = StatKey(g, a)'
        PROVE  job[w].key = StatKey(g, a) /\ content'[g] = content[g]
    <2>1. Past(job[w].key)
      BY DEF JobGood
    <2> QED BY <1>2, <1>4, <2>1, WriteKeys
  <1>5. ASSUME NEW g \in Inode, (job[w].key = StatKey(g, job[w].key.algo))'
        PROVE  /\ job[w].at = "read" =>
                    /\ Len(job[w].sum.data) <= Len(content'[g])
                    /\ \A i \in 1 .. Len(job[w].sum.data) : job[w].sum.data[i] = content'[g][i]
               /\ job[w].at \in {"put", "done"} => job[w].sum = Sum(job[w].key.algo, content'[g])
    <2>1. PICK a : a = job[w].key.algo
      OBVIOUS
    <2>2. job[w].key = StatKey(g, a)'
      BY <1>5, <2>1 DEF StatKey
    <2>3. job[w].key = StatKey(g, job[w].key.algo) /\ content'[g] = content[g]
      BY <1>4, <2>1, <2>2
    <2> QED BY <2>3 DEF JobGood
  <1> QED BY <1>3, <1>5 DEF JobGood

-----------------------------------------------------------------------------
(* Types.                                                                  *)

\* An item appended to the cache file, of either kind, keeps its type.
LEMMA AppendType ==
    ASSUME TypeOK, NEW x \in {Magic, Torn} \cup Entry
    PROVE  /\ Append(db, x) \in Seq({Magic, Torn} \cup Entry)
           /\ Len(Append(db, x)) = Len(db) + 1
           /\ Append(db, x)[Len(db) + 1] = x
           /\ \A i \in 1 .. Len(db) : Append(db, x)[i] = db[i]
           /\ Append(db, x) # <<>>
           /\ db # <<>> => Append(db, x)[1] = db[1]
           /\ db = <<>> => Append(db, x)[1] = x
  <1> USE SMT
  <1> DEFINE S == {Magic, Torn} \cup Entry
  <1>1. db \in Seq(S) /\ x \in S
    BY DEF TypeOK
  <1> HIDE DEF S
  <1>2. /\ Append(db, x) \in Seq(S) /\ Len(db) \in Nat
        /\ Len(Append(db, x)) = Len(db) + 1
        /\ Append(db, x)[Len(db) + 1] = x
        /\ \A i \in 1 .. Len(db) : Append(db, x)[i] = db[i]
    BY <1>1
  <1>3. Append(db, x) # <<>>
    BY <1>2
  <1>4. db # <<>> => 1 \in 1 .. Len(db)
    BY <1>1
  <1>5. db = <<>> => Len(db) = 0
    OBVIOUS
  <1>6. Append(db, x) \in Seq({Magic, Torn} \cup Entry)
    BY <1>2 DEF S
  <1> QED BY <1>2, <1>3, <1>4, <1>5, <1>6

\* What load leaves in the map are entries of the file (Cache.load).
LEMMA LoadedEntries ==
    ASSUME TypeOK, NEW e \in Loaded
    PROVE  e \in Entry /\ \E i \in 1 .. Len(db) : e = db[i]
  <1> USE SMT
  <1>1. PICK i \in Parsed : e = db[i]
    BY DEF Loaded
  <1>2. i \in 2 .. Len(db) /\ db[i] \notin {Magic, Torn}
    BY <1>1 DEF Parsed
  <1>3. db \in Seq({Magic, Torn} \cup Entry)
    BY DEF TypeOK
  <1>4. Len(db) \in Nat
    BY <1>3
  <1>5. i \in 1 .. Len(db)
    BY <1>2, <1>4
  <1>6. db[i] \in {Magic, Torn} \cup Entry
    BY <1>3, <1>5
  <1> QED BY <1>1, <1>2, <1>5, <1>6

\* What the worker has is a job, and the entry it would put is one.
LEMMA JobType ==
    ASSUME TypeOK, NEW w \in Worker, NEW s, In(w, s)
    PROVE  /\ job[w] \in Job /\ job[w].at = s
           /\ job[w].key \in Key /\ job[w].sum \in Digest
           /\ job[w].sum.data \in Seq(Block)
           /\ [key |-> job[w].key, digest |-> job[w].sum] \in Entry
           /\ Owner[w] \in Process
  <1>1. job[w] \in Job /\ job[w].at = s
    BY DEF TypeOK, In
  <1>2. job[w].key \in Key /\ job[w].sum \in Digest
    BY <1>1 DEF Job
  <1>3. job[w].sum.data \in Seq(Block)
    BY <1>2 DEF Digest
  <1> QED BY <1>1, <1>2, <1>3, CacheAssumption DEF Entry

\* The steps of HashFile change the job of one worker, to another one with
\* the same key.
LEMMA JobSteps ==
    ASSUME TypeOK, NEW w \in Worker, NEW s, In(w, s)
    PROVE  /\ \A t \in {"get", "read", "put", "done"} : Goes(w, t) =>
                /\ job' \in [Worker -> {NoJob} \cup Job]
                /\ job'[w] \in Job /\ job'[w].at = t /\ job'[w].key = job[w].key
                /\ job'[w].sum = job[w].sum
                /\ \A v \in Worker \ {w} : job'[v] = job[v]
           /\ \A d \in Digest : Returns(w, d) =>
                /\ job' \in [Worker -> {NoJob} \cup Job]
                /\ job'[w] \in Job /\ job'[w].at = "done" /\ job'[w].key = job[w].key
                /\ job'[w].sum = d
                /\ \A v \in Worker \ {w} : job'[v] = job[v]
  <1> job[w] \in Job /\ job \in [Worker -> {NoJob} \cup Job]
    BY JobType DEF TypeOK
  <1>2. ASSUME NEW t \in {"get", "read", "put", "done"}, Goes(w, t)
        PROVE  /\ job' \in [Worker -> {NoJob} \cup Job]
               /\ job'[w] \in Job /\ job'[w].at = t /\ job'[w].key = job[w].key
               /\ job'[w].sum = job[w].sum
               /\ \A v \in Worker \ {w} : job'[v] = job[v]
    <2>1. job' = [job EXCEPT ![w] = [job[w] EXCEPT !.at = t]]
      BY <1>2 DEF Goes
    <2>2. [job[w] EXCEPT !.at = t] \in Job
      BY DEF Job
    <2>3. job'[w] = [job[w] EXCEPT !.at = t]
      BY <2>1
    <2>4. job'[w].at = t /\ job'[w].key = job[w].key /\ job'[w].sum = job[w].sum
      BY <2>3 DEF Job
    <2> QED BY <2>1, <2>2, <2>3, <2>4
  <1>3. ASSUME NEW d \in Digest, Returns(w, d)
        PROVE  /\ job' \in [Worker -> {NoJob} \cup Job]
               /\ job'[w] \in Job /\ job'[w].at = "done" /\ job'[w].key = job[w].key
               /\ job'[w].sum = d
               /\ \A v \in Worker \ {w} : job'[v] = job[v]
    <2>1. job' = [job EXCEPT ![w] = [job[w] EXCEPT !.at = "done", !.sum = d]]
      BY <1>3 DEF Returns, Job
    <2>2. [job[w] EXCEPT !.at = "done", !.sum = d] \in Job
      BY DEF Job
    <2>3. job'[w] = [job[w] EXCEPT !.at = "done", !.sum = d]
      BY <2>1
    <2>4. job'[w].at = "done" /\ job'[w].key = job[w].key /\ job'[w].sum = d
      BY <2>3 DEF Job
    <2> QED BY <2>1, <2>2, <2>3, <2>4
  <1> QED BY <1>2, <1>3

\* A read takes the next block of the file that is open, or sees its end
\* (HashFile's loop).
LEMMA ReadStep ==
    ASSUME TypeOK, NEW w \in Worker, Read(w)
    PROVE  /\ job' \in [Worker -> {NoJob} \cup Job] /\ job'[w] \in Job
           /\ job'[w].key = job[w].key /\ job'[w].sum.algo = job[w].sum.algo
           /\ \A v \in Worker \ {w} : job'[v] = job[v]
           /\ LET now == content[job[w].key.file]
                  data == job[w].sum.data
              IN  \/ /\ Len(data) + 1 <= Len(now)
                     /\ job'[w].at = "read" /\ job'[w].sum.data = Append(data, now[Len(data) + 1])
                  \/ Len(data) + 1 > Len(now) /\ job'[w].at = "put" /\ job'[w].sum = job[w].sum
  <1> DEFINE now == content[job[w].key.file]
             data == job[w].sum.data
             new == [job[w] EXCEPT !.sum = [job[w].sum EXCEPT !.data = Append(data, now[Len(data) + 1])]]
  <1>1. In(w, "read")
    BY DEF Read
  <1> /\ job[w] \in Job /\ job[w].at = "read" /\ job[w].key \in Key /\ job[w].sum \in Digest
      /\ data \in Seq(Block)
    BY <1>1, JobType
  <1>3. now \in Seq(Block) /\ Len(data) \in Nat
    BY CacheAssumption, SMT DEF TypeOK, Key
  <1>4. CASE Len(data) + 1 <= Len(now) /\ job' = [job EXCEPT ![w].sum.data = Append(@, now[Len(data) + 1])]
    <2>1. now[Len(data) + 1] \in Block
      <3> USE SMT
      <3> HIDE DEF now, data
      <3>1. Len(now) \in Nat /\ Len(data) + 1 \in 1 .. Len(now)
        BY <1>3, <1>4
      <3> QED BY <1>3, <3>1
    <2>2. Append(data, now[Len(data) + 1]) \in Seq(Block)
      BY <2>1, SMT
    <2>3. new \in Job /\ new.key = job[w].key /\ new.sum.algo = job[w].sum.algo /\ new.at = "read"
          /\ new.sum.data = Append(data, now[Len(data) + 1])
      BY <2>2 DEF Job, Digest
    <2>4. job' = [job EXCEPT ![w] = new]
      BY <1>4
    <2> HIDE DEF new
    <2>5. job'[w] = new /\ job' \in [Worker -> {NoJob} \cup Job] /\ \A v \in Worker \ {w} : job'[v] = job[v]
      BY <2>3, <2>4 DEF TypeOK
    <2> QED BY <1>4, <2>3, <2>5
  <1>5. CASE Len(data) + 1 > Len(now) /\ Goes(w, "put")
    BY <1>1, <1>5, JobSteps
  <1> QED BY <1>4, <1>5 DEF Read

\* The entry a worker puts.
OwnEntry(w) == [key |-> job[w].key, digest |-> job[w].sum]

\* Put leaves the maps and the file as they were, but for its own entry and
\* what a failed write leaves.
LEMMA PutStep ==
    ASSUME TypeOK, NEW w \in Worker, Put(w)
    PROVE  /\ mem' \in [Process -> SUBSET Entry]
           /\ \A p \in Process : mem'[p] \subseteq mem[p] \cup {OwnEntry(w)}
           /\ handle' \in [Process -> BOOLEAN] /\ faults' \in Nat
           /\ \A p \in Process : handle'[p] => handle[p]
           /\ db' \in Seq({Magic, Torn} \cup Entry)
           /\ db' = db \/ (handle[Owner[w]] /\ \E x \in {OwnEntry(w), Torn} : db' = Append(db, x))
  <1>1. In(w, "put")
    BY DEF Put
  <1>2. OwnEntry(w) \in Entry /\ Owner[w] \in Process
    BY <1>1, JobType DEF OwnEntry
  <1>3. CASE UNCHANGED <<mem, db, handle, faults>>
    <2> mem' = mem /\ db' = db /\ handle' = handle /\ faults' = faults
      BY <1>3
    <2>2. /\ mem' \in [Process -> SUBSET Entry] /\ handle' \in [Process -> BOOLEAN]
          /\ faults' \in Nat /\ db' \in Seq({Magic, Torn} \cup Entry)
      BY DEF TypeOK
    <2>3. \A p \in Process : handle'[p] => handle[p]
      OBVIOUS
    <2>4. \A p \in Process : mem'[p] \subseteq mem[p] \cup {OwnEntry(w)}
      OBVIOUS
    <2> QED BY <2>2, <2>3, <2>4
  <1>4. CASE Insert(Owner[w], OwnEntry(w))
    <2>1. mem' \in [Process -> SUBSET Entry] /\ \A p \in Process : mem'[p] \subseteq mem[p] \cup {OwnEntry(w)}
      <3>1. /\ mem \in [Process -> SUBSET Entry]
            /\ mem' = [mem EXCEPT ![Owner[w]] = mem[Owner[w]] \cup {OwnEntry(w)}]
        BY <1>4 DEF Insert, TypeOK
      <3> QED BY <1>2, <3>1
    <2>2. faults' \in Nat
      BY <1>4, SMT DEF Insert, Fault, TypeOK
    <2> handle \in [Process -> BOOLEAN]
      BY DEF TypeOK
    <2>4. handle' = handle \/ handle' = [handle EXCEPT ![Owner[w]] = FALSE]
      BY <1>4 DEF Insert
    <2>5. handle' \in [Process -> BOOLEAN] /\ \A p \in Process : handle'[p] => handle[p]
      <3>1. CASE handle' = handle
        BY <3>1
      <3>2. CASE handle' = [handle EXCEPT ![Owner[w]] = FALSE]
        <4>1. handle' \in [Process -> BOOLEAN]
          BY <3>2
        <4>2. \A p \in Process : handle'[p] = IF p = Owner[w] THEN FALSE ELSE handle[p]
          BY <3>2
        <4> QED BY <4>1, <4>2
      <3> QED BY <2>4, <3>1, <3>2
    <2>6. db' = db \/ (handle[Owner[w]] /\ \E x \in {OwnEntry(w), Torn} : db' = Append(db, x))
      BY <1>4 DEF Insert
    <2>7. db' \in Seq({Magic, Torn} \cup Entry)
      BY <1>2, <2>6, AppendType, ZenonT(30) DEF TypeOK
    <2> QED BY <2>1, <2>2, <2>5, <2>6, <2>7
  <1> QED BY <1>3, <1>4 DEF Put, OwnEntry

\* Every step keeps the types.
LEMMA TypeStep == TypeOK /\ [CacheNext]_digestVars => TypeOK'
  <1> SUFFICES ASSUME TypeOK, [CacheNext]_digestVars PROVE TypeOK'
    OBVIOUS
  <1> USE CacheAssumption
  <1>1. ASSUME NEW f \in Inode, Write(f) PROVE TypeOK'
    <2>1. /\ content' \in [Inode -> Content] /\ mtime' \in [Inode -> Nat]
          /\ ctime' \in [Inode -> Nat] /\ clock' \in Nat
      BY <1>1, SMT DEF Write, TypeOK
    <2>2. UNCHANGED <<dbVars, cacheVars, job, runs, faults>>
      BY <1>1 DEF Write
    <2> QED BY <2>1, <2>2 DEF TypeOK, dbVars, cacheVars
  <1>2. ASSUME NEW p \in Process, Begin(p) PROVE TypeOK'
    BY <1>2, SMT DEF Begin, TypeOK, fileVars, dbVars
  <1>3. ASSUME NEW p \in Process, Load(p) PROVE TypeOK'
    <2>1. Loaded \subseteq Entry
      BY LoadedEntries
    <2>2. mem' \in [Process -> SUBSET Entry]
      BY <1>3, <2>1 DEF Load, TypeOK
    <2>3. at' \in [Process -> {"down", "load", "open", "stat", "magic", "ready"}]
      <3>1. at' = [at EXCEPT ![p] = "open"] \/ at' = [at EXCEPT ![p] = "ready"]
        BY <1>3 DEF Load
      <3> QED BY <3>1 DEF TypeOK
    <2>4. UNCHANGED <<fileVars, dbVars, algo, handle, job, runs, faults>>
      BY <1>3 DEF Load
    <2> QED BY <2>2, <2>3, <2>4 DEF TypeOK, fileVars, dbVars
  <1>4. ASSUME NEW p \in Process, OpenFile(p) PROVE TypeOK'
    BY <1>4 DEF OpenFile, TypeOK, fileVars
  <1>5. ASSUME NEW p \in Process, StatSize(p) PROVE TypeOK'
    <2>1. handle' \in [Process -> BOOLEAN] /\ spoilt' \in BOOLEAN
      BY <1>5 DEF StatSize, TypeOK
    <2>2. at' \in [Process -> {"down", "load", "open", "stat", "magic", "ready"}]
      BY <1>5 DEF StatSize, TypeOK
    <2>3. UNCHANGED <<fileVars, exists, db, algo, mem, job, runs>> /\ faults' \in Nat
      BY <1>5, SMT DEF StatSize, Fault, TypeOK
    <2> QED BY <2>1, <2>2, <2>3 DEF TypeOK, fileVars
  <1>6. ASSUME NEW p \in Process, WriteMagic(p) PROVE TypeOK'
    <2>1. db' \in Seq({Magic, Torn} \cup Entry)
      BY <1>6, AppendType, ZenonT(30) DEF WriteMagic, TypeOK
    <2>2. handle' \in [Process -> BOOLEAN] /\ spoilt' \in BOOLEAN
      BY <1>6 DEF WriteMagic, TypeOK
    <2>3. at' \in [Process -> {"down", "load", "open", "stat", "magic", "ready"}]
      BY <1>6 DEF WriteMagic, TypeOK
    <2>4. UNCHANGED <<fileVars, exists, algo, mem, job, runs>> /\ faults' \in Nat
      BY <1>6, SMT DEF WriteMagic, Fault, TypeOK
    <2> QED BY <2>1, <2>2, <2>3, <2>4 DEF TypeOK, fileVars
  <1>7. ASSUME NEW p \in Process, End(p) PROVE TypeOK'
    <2>1. /\ job' \in [Worker -> {NoJob} \cup Job]
          /\ \A w \in Worker : job'[w] # NoJob => job'[w] = job[w]
      BY <1>7 DEF End, TypeOK
    <2>2. /\ at' \in [Process -> {"down", "load", "open", "stat", "magic", "ready"}]
          /\ mem' \in [Process -> SUBSET Entry] /\ handle' \in [Process -> BOOLEAN]
      BY <1>7 DEF End, TypeOK
    <2>3. UNCHANGED <<fileVars, dbVars, algo, runs, faults>>
      BY <1>7 DEF End
    <2> QED BY <2>1, <2>2, <2>3 DEF TypeOK, fileVars, dbVars
  <1>8. ASSUME NEW w \in Worker, NEW f \in Inode, Stat(w, f) PROVE TypeOK'
    <2>1. algo[Owner[w]] \in Algo
      BY DEF TypeOK
    <2>2. StatKey(f, algo[Owner[w]]) \in Key /\ StatKey(f, algo[Owner[w]]).algo = algo[Owner[w]]
      BY <2>1, KeyType DEF StatKey
    <2>3. <<>> \in Seq(Block)
      BY SMT
    <2>4. Sum(algo[Owner[w]], <<>>) \in Digest
      BY <2>1, <2>3 DEF Sum, Digest
    <2> DEFINE j == [at |-> "get", key |-> StatKey(f, algo[Owner[w]]), sum |-> Sum(algo[Owner[w]], <<>>)]
    <2>5. j \in Job /\ j.key.algo = algo[Owner[w]]
      BY <2>2, <2>4 DEF Job
    <2>6. job' = [job EXCEPT ![w] = j] /\ UNCHANGED <<fileVars, dbVars, cacheVars, runs, faults>>
      BY <1>8 DEF Stat
    <2> HIDE DEF j
    <2>7. job' \in [Worker -> {NoJob} \cup Job] /\ \A v \in Worker : job'[v] = IF v = w THEN j ELSE job[v]
      BY <2>5, <2>6 DEF TypeOK
    <2>8. \A v \in Worker : job'[v] # NoJob => job'[v].key.algo = algo[Owner[v]]
      BY <2>5, <2>7 DEF TypeOK
    <2> QED BY <2>6, <2>7, <2>8 DEF TypeOK, fileVars, dbVars, cacheVars
  <1>9. ASSUME NEW w \in Worker, Get(w) PROVE TypeOK'
    <2> In(w, "get") /\ UNCHANGED <<fileVars, dbVars, cacheVars, runs, faults>>
      BY <1>9 DEF Get
    <2>2. \A e \in Hits(w) : e.digest \in Digest
      BY SMT DEF Hits, TypeOK, Entry
    <2>3. /\ job' \in [Worker -> {NoJob} \cup Job]
          /\ job'[w].key = job[w].key /\ \A v \in Worker \ {w} : job'[v] = job[v]
      BY <1>9, <2>2, JobSteps DEF Get
    <2>4. job[w] # NoJob
      BY DEF In
    <2> QED BY <2>3, <2>4 DEF TypeOK, fileVars, dbVars, cacheVars
  <1>10. ASSUME NEW w \in Worker, Read(w) PROVE TypeOK'
    <2> In(w, "read") /\ UNCHANGED <<fileVars, dbVars, cacheVars, runs, faults>>
      BY <1>10 DEF Read
    <2>2. /\ job' \in [Worker -> {NoJob} \cup Job]
          /\ job'[w].key = job[w].key /\ \A v \in Worker \ {w} : job'[v] = job[v]
      BY <1>10, ReadStep
    <2>3. job[w] # NoJob
      BY DEF In
    <2> QED BY <2>2, <2>3 DEF TypeOK, fileVars, dbVars, cacheVars
  <1>11. ASSUME NEW w \in Worker, ReadFails(w) PROVE TypeOK'
    BY <1>11 DEF ReadFails, TypeOK, fileVars, dbVars, cacheVars
  <1>12. ASSUME NEW w \in Worker, Put(w) PROVE TypeOK'
    <2> In(w, "put") /\ Goes(w, "done") /\ UNCHANGED <<fileVars, exists, spoilt, at, algo, runs>>
      BY <1>12 DEF Put
    <2>2. /\ job' \in [Worker -> {NoJob} \cup Job]
          /\ job'[w].key = job[w].key /\ \A v \in Worker \ {w} : job'[v] = job[v]
      BY JobSteps
    <2>3. job[w] # NoJob
      BY DEF In
    <2>4. /\ db' \in Seq({Magic, Torn} \cup Entry) /\ mem' \in [Process -> SUBSET Entry]
          /\ handle' \in [Process -> BOOLEAN] /\ faults' \in Nat
      BY <1>12, PutStep
    <2> QED BY <2>2, <2>3, <2>4 DEF TypeOK, fileVars
  <1>13. CASE UNCHANGED digestVars
    BY <1>13 DEF TypeOK, digestVars, fileVars, dbVars, cacheVars
  <1> QED
    BY <1>1, <1>2, <1>3, <1>4, <1>5, <1>6, <1>7, <1>8, <1>9, <1>10, <1>11, <1>12, <1>13
    DEF CacheNext, Hash, Opening

-----------------------------------------------------------------------------
(* The inductive invariant.                                                *)

\* Entries and jobs stay good while no file changes.
LEMMA SameGood ==
    ASSUME UNCHANGED fileVars
    PROVE  /\ \A e : Good(e) => Good(e)'
           /\ FilesPast => FilesPast'
           /\ \A w \in Worker : job'[w] = job[w] /\ JobGood(w) => JobGood(w)'
  <1>1. ASSUME NEW e, Good(e) PROVE Good(e)'
    BY <1>1 DEF Good, Past, StatKey, fileVars
  <1>2. FilesPast => FilesPast'
    BY DEF FilesPast, fileVars
  <1>3. ASSUME NEW w \in Worker, job'[w] = job[w], JobGood(w) PROVE JobGood(w)'
    BY <1>3, SMT DEF JobGood, Past, StatKey, fileVars
  <1> QED BY <1>1, <1>2, <1>3

\* The cache file stays good when an item is appended that is no entry, or
\* a good one.
LEMMA AppendGood ==
    ASSUME TypeOK, DbGood, UNCHANGED fileVars,
           NEW x \in {Magic, Torn} \cup Entry, x \in Entry => Good(x), db' = Append(db, x)
    PROVE  DbGood'
  <1> SUFFICES ASSUME NEW i \in 1 .. Len(db'), db'[i] \in Entry PROVE Good(db[i])'
    BY DEF DbGood
  <1>1. Len(db) \in Nat /\ Len(db') = Len(db) + 1
    BY AppendType, SMT DEF TypeOK
  <1>2. CASE i = Len(db) + 1
    <2>1. db'[i] = x
      BY <1>2, AppendType
    <2>2. Good(x)'
      BY <2>1, SameGood
    <2> QED BY <2>1, <2>2 DEF Good
  <1>3. CASE i \in 1 .. Len(db)
    <2>1. db'[i] = db[i]
      BY <1>3, AppendType
    <2>2. PICK e : e = db[i]
      OBVIOUS
    <2>3. Good(e)
      BY <1>3, <2>1, <2>2 DEF DbGood
    <2>4. Good(e)'
      BY <2>3, SameGood
    <2>5. db'[i] = e
      BY <2>1, <2>2
    <2> QED BY <2>4, <2>5 DEF Good
  <1> QED BY <1>1, <1>2, <1>3, SMT

\* What does not change stays good with the files.
LEMMA SameParts ==
    ASSUME UNCHANGED fileVars
    PROVE  /\ db' = db /\ DbGood => DbGood'
           /\ mem' = mem /\ MemGood => MemGood'
           /\ job' = job /\ JobsGood => JobsGood'
  <1>1. ASSUME db' = db, DbGood PROVE DbGood'
    BY <1>1 DEF DbGood, Good, Past, StatKey, fileVars
  <1>2. ASSUME mem' = mem, MemGood PROVE MemGood'
    BY <1>2 DEF MemGood, Good, Past, StatKey, fileVars
  <1>3. ASSUME job' = job, JobsGood PROVE JobsGood'
    BY <1>3, SMT DEF JobsGood, JobGood, Past, StatKey, fileVars
  <1> QED BY <1>1, <1>2, <1>3

\* Headers: what is written first is the header, since only a run that found
\* the file nonempty or wrote to it has a handle (OpenCache, Put).
LEMMA HeadStep ==
    ASSUME TypeOK, HeaderFirst, [CacheNext]_digestVars
    PROVE  HeaderFirst'
  <1> USE CacheAssumption
  <1>1. ASSUME db' = db, spoilt' = spoilt, \A p \in Process : handle'[p] => handle[p]
        PROVE  HeaderFirst'
    BY <1>1 DEF HeaderFirst
  <1>2. ASSUME NEW x \in {Magic, Torn} \cup Entry, db' = Append(db, x),
               spoilt' = spoilt, db = <<>> => x = Magic
        PROVE  HeaderFirst'
    <2>1. db' # <<>>
      BY <1>2, AppendType
    <2>2. ~spoilt => db'[1] = Magic
      BY <1>2, AppendType DEF HeaderFirst
    <2> QED BY <1>2, <2>1, <2>2 DEF HeaderFirst
  <1>3. ASSUME NEW p \in Process, StatSize(p) PROVE HeaderFirst'
    <2>1. db' = db /\ handle \in [Process -> BOOLEAN] /\ spoilt \in BOOLEAN
      BY <1>3 DEF StatSize, TypeOK
    <2>2. \/ handle' = [handle EXCEPT ![p] = (db # <<>>)] /\ spoilt' = spoilt
          \/ handle' = [handle EXCEPT ![p] = TRUE] /\ spoilt' = (spoilt \/ db = <<>>)
      BY <1>3 DEF StatSize
    <2>3. ASSUME ~spoilt' PROVE ~spoilt /\ \A q \in Process : handle'[q] => handle[q] \/ db # <<>>
      BY <2>1, <2>2, <2>3
    <2> QED BY <2>1, <2>3 DEF HeaderFirst
  <1>4. ASSUME NEW p \in Process, WriteMagic(p) PROVE HeaderFirst'
    <2>1. \/ db' = db /\ handle' = handle /\ spoilt' = spoilt
          \/ db' = Append(db, Magic) /\ spoilt' = spoilt
          \/ db' = Append(db, Torn) /\ spoilt' = (spoilt \/ db = <<>>)
      BY <1>4 DEF WriteMagic
    <2>2. CASE db' = Append(db, Torn) /\ spoilt' = (spoilt \/ db = <<>>)
      <3>1. CASE spoilt \/ db = <<>>
        BY <2>2, <3>1 DEF HeaderFirst
      <3>2. CASE ~(spoilt \/ db = <<>>)
        <4>1. spoilt' = spoilt
          BY <2>2, <3>2 DEF TypeOK
        <4> QED BY <1>2, <2>2, <3>2, <4>1
      <3> QED BY <3>1, <3>2
    <2> QED BY <1>1, <1>2, <2>1, <2>2
  <1>5. ASSUME NEW p \in Process, End(p) PROVE HeaderFirst'
    <2>1. /\ db' = db /\ spoilt' = spoilt
          /\ handle' = [handle EXCEPT ![p] = FALSE] /\ handle \in [Process -> BOOLEAN]
      BY <1>5 DEF End, dbVars, TypeOK
    <2>2. \A q \in Process : handle'[q] = IF q = p THEN FALSE ELSE handle[q]
      BY <2>1
    <2>3. \A q \in Process : handle'[q] => handle[q]
      BY <2>2
    <2> QED BY <1>1, <2>1, <2>3
  <1>6. ASSUME NEW w \in Worker, Put(w) PROVE HeaderFirst'
    <2>1. spoilt' = spoilt /\ \A p \in Process : handle'[p] => handle[p]
      BY <1>6, PutStep DEF Put
    <2>2. db' = db \/ (handle[Owner[w]] /\ \E x \in {OwnEntry(w), Torn} : db' = Append(db, x))
      BY <1>6, PutStep
    <2>3. OwnEntry(w) \in Entry /\ Owner[w] \in Process
      BY <1>6, JobType DEF Put, OwnEntry
    <2>4. CASE db' = db
      BY <1>1, <2>1, <2>4
    <2>5. CASE spoilt
      BY <2>1, <2>5 DEF HeaderFirst
    <2>6. CASE ~spoilt /\ handle[Owner[w]] /\ \E x \in {OwnEntry(w), Torn} : db' = Append(db, x)
      <3>1. db # <<>>
        BY <2>3, <2>6 DEF HeaderFirst
      <3> QED BY <1>2, <2>1, <2>3, <2>6, <3>1
    <2> QED BY <2>2, <2>4, <2>5, <2>6
  <1> DEFINE Same == db' = db /\ spoilt' = spoilt /\ handle' = handle
  <1>7. CASE Same
    BY <1>1, <1>7
  <1>8. ASSUME NEW f \in Inode, NEW w \in Worker, Stat(w, f) PROVE Same
    BY <1>8 DEF Stat, dbVars, cacheVars
  <1>9. ASSUME NEW f \in Inode, Write(f) PROVE Same
    BY <1>9 DEF Write, dbVars, cacheVars
  <1>10. ASSUME NEW w \in Worker, Get(w) \/ Read(w) \/ ReadFails(w) PROVE Same
    BY <1>10 DEF Get, Read, ReadFails, dbVars, cacheVars
  <1>11. ASSUME NEW p \in Process, Begin(p) \/ Load(p) \/ OpenFile(p) PROVE Same
    BY <1>11 DEF Begin, Load, OpenFile, dbVars
  <1>12. CASE UNCHANGED digestVars
    BY <1>7, <1>12 DEF digestVars, dbVars, cacheVars
  <1> HIDE DEF Same
  <1> QED
    BY <1>3, <1>4, <1>5, <1>6, <1>7, <1>8, <1>9, <1>10, <1>11, <1>12 DEF CacheNext, Hash, Opening

\* A job that starts is good, and so is one that goes on.
LEMMA JobStep ==
    ASSUME TypeOK, FilesPast, MemGood, JobsGood, NEW w \in Worker,
           (\E f \in Inode : Stat(w, f)) \/ Get(w) \/ Read(w) \/ Put(w)
    PROVE  JobGood(w)'
  <1>1. ASSUME NEW f \in Inode, Stat(w, f) PROVE JobGood(w)'
    <2> DEFINE a == algo[Owner[w]]
    <2> DEFINE k == StatKey(f, a)
               d == Sum(a, <<>>)
    <2>1. job'[w] = [at |-> "get", key |-> k, sum |-> d]
      BY <1>1 DEF Stat, TypeOK
    <2>2. UNCHANGED fileVars
      BY <1>1 DEF Stat
    <2>3. job'[w].at = "get" /\ job'[w].sum.algo = a /\ job'[w].sum.data = <<>>
          /\ job'[w].key.algo = a /\ job'[w].key.ctime = ctime[f]
      <3>1. k.algo = a /\ k.ctime = ctime[f]
        BY DEF StatKey
      <3>2. d.algo = a /\ d.data = <<>>
        BY DEF Sum
      <3> HIDE DEF k, d, a
      <3>3. job'[w].at = "get" /\ job'[w].key = k /\ job'[w].sum = d
        BY ONLY <2>1, SMT
      <3> QED
        BY <3>1, <3>2, <3>3
    <2> QED BY <2>2, <2>3 DEF JobGood, Past, FilesPast, fileVars
  <1>2. ASSUME Get(w) PROVE JobGood(w)'
    <2> In(w, "get") /\ UNCHANGED fileVars
      BY <1>2 DEF Get
    <2> job[w] \in Job /\ job[w].at = "get" /\ Owner[w] \in Process /\ job[w] # NoJob
      BY JobType DEF In
    <2>3. JobGood(w)
      BY DEF JobsGood
    <2>4. CASE Goes(w, "read")
      <3> job'[w].at = "read" /\ job'[w].key = job[w].key /\ job'[w].sum = job[w].sum
        BY <2>4, JobSteps
      <3> job'[w].sum.data = <<>> /\ job'[w].sum.algo = job[w].key.algo /\ Past(job[w].key)
        BY <2>3 DEF JobGood
      <3>3. \A f \in Inode : Len(content[f]) \in Nat
        BY CacheAssumption, SMT DEF TypeOK
      <3>4. Len(job'[w].sum.data) = 0
        BY SMT
      <3>5. \A f \in Inode : /\ Len(job'[w].sum.data) <= Len(content'[f])
                            /\ \A i \in 1 .. Len(job'[w].sum.data) :
                                  job'[w].sum.data[i] = content'[f][i]
        BY <3>3, <3>4, SMT DEF fileVars
      <3>6. Past(job[w].key)'
        BY DEF Past, fileVars
      <3> QED BY <3>5, <3>6 DEF JobGood
    <2>5. CASE \E e \in Hits(w) : Returns(w, e.digest)
      <3>1. PICK e \in Hits(w) : Returns(w, e.digest)
        BY <2>5
      <3>2. e \in mem[Owner[w]] /\ e.key = job[w].key
        BY DEF Hits
      <3>3. e \in Entry /\ Good(e)
        BY <3>2 DEF TypeOK, MemGood
      <3>4. e.digest \in Digest
        BY <3>3 DEF Entry
      <3>5. job'[w].at = "done" /\ job'[w].key = e.key /\ job'[w].sum = e.digest
        BY <3>1, <3>2, <3>4, JobSteps
      <3>6. Good(e)'
        BY <3>3, SameGood
      <3> QED BY <3>5, <3>6 DEF JobGood, Good, Past, StatKey
    <2> QED BY <1>2, <2>4, <2>5 DEF Get
  <1>3. ASSUME Read(w) PROVE JobGood(w)'
    <2>1. In(w, "read") /\ UNCHANGED fileVars
      BY <1>3 DEF Read
    <2> /\ job[w] \in Job /\ job[w].at = "read" /\ job[w] # NoJob
        /\ job[w].sum.data \in Seq(Block) /\ job[w].sum \in Digest /\ job[w].key \in Key
      BY <2>1, JobType DEF In
    <2>3. JobGood(w)
      BY DEF JobsGood
    <2> DEFINE now == content[job[w].key.file]
               data == job[w].sum.data
    <2> now \in Seq(Block) /\ Len(now) \in Nat /\ Len(data) \in Nat
      <3>1. job[w].key.file \in Inode
        BY DEF Key
      <3>2. now \in Seq(Block)
        BY <3>1, CacheAssumption DEF TypeOK
      <3> HIDE DEF now
      <3> QED BY <3>2, SMT
    <2>5. /\ job'[w].key = job[w].key /\ job'[w].sum.algo = job[w].sum.algo
          /\ \/ /\ Len(data) + 1 <= Len(now)
                /\ job'[w].at = "read" /\ job'[w].sum.data = Append(data, now[Len(data) + 1])
             \/ Len(data) + 1 > Len(now) /\ job'[w].at = "put" /\ job'[w].sum = job[w].sum
      BY <1>3, ReadStep
    <2>6. Past(job[w].key)' /\ job'[w].sum.algo = job'[w].key.algo
      BY <2>1, <2>3, <2>5 DEF JobGood, Past, fileVars
    <2>7. ASSUME NEW f \in Inode, job[w].key = StatKey(f, job[w].key.algo)
          PROVE  /\ now = content[f] /\ Len(data) <= Len(now)
                 /\ \A i \in 1 .. Len(data) : data[i] = now[i]
      BY <2>3, <2>7, SMT DEF JobGood, StatKey
    <2>8. ASSUME NEW f \in Inode, (job[w].key = StatKey(f, job[w].key.algo))'
          PROVE  job[w].key = StatKey(f, job[w].key.algo) /\ content'[f] = content[f]
      BY <2>1, <2>5, <2>8 DEF StatKey, fileVars
    <2>9. CASE Len(data) + 1 <= Len(now) /\ job'[w].at = "read"
               /\ job'[w].sum.data = Append(data, now[Len(data) + 1])
      <3> USE SMT
      <3> HIDE DEF now, data
      <3>1. Len(data) + 1 \in 1 .. Len(now)
        BY <2>9
      <3>2. now[Len(data) + 1] \in Block /\ data \in Seq(Block)
        BY <3>1 DEF data
      <3>3. /\ Len(job'[w].sum.data) = Len(data) + 1
            /\ \A i \in 1 .. Len(data) : job'[w].sum.data[i] = data[i]
            /\ job'[w].sum.data[Len(data) + 1] = now[Len(data) + 1]
        BY <2>9, <3>2
      <3>4. ASSUME NEW f \in Inode, (job[w].key = StatKey(f, job[w].key.algo))'
            PROVE  /\ Len(job'[w].sum.data) <= Len(content'[f])
                   /\ \A i \in 1 .. Len(job'[w].sum.data) : job'[w].sum.data[i] = content'[f][i]
        <4>1. job[w].key = StatKey(f, job[w].key.algo) /\ content'[f] = content[f]
          BY <2>8, <3>4
        <4>2. content'[f] = now /\ \A i \in 1 .. Len(data) : data[i] = now[i]
          BY <2>7, <4>1
        <4> QED BY <2>9, <3>3, <4>2
      <3> QED BY <2>6, <2>9, <3>4, Zenon DEF JobGood
    <2>10. CASE Len(data) + 1 > Len(now) /\ job'[w].at = "put" /\ job'[w].sum = job[w].sum
      <3>1. ASSUME NEW f \in Inode, (job[w].key = StatKey(f, job[w].key.algo))'
            PROVE  job'[w].sum = Sum(job'[w].key.algo, content'[f])
        <4>1. job[w].key = StatKey(f, job[w].key.algo) /\ content'[f] = content[f]
          BY <2>8, <3>1
        <4> content'[f] = now /\ Len(data) <= Len(now) /\ \A i \in 1 .. Len(data) : data[i] = now[i]
          BY <2>7, <4>1
        <4>3. Len(data) = Len(now) /\ data \in Seq(Block)
          BY <2>10, SMT
        <4> HIDE DEF now, data
        <4>4. data = now
          BY <4>3, SMT
        <4>5. job[w].sum = [algo |-> job[w].sum.algo, data |-> data]
          BY DEF Digest, data
        <4> QED BY <2>6, <2>10, <4>4, <4>5 DEF Sum
      <3> QED BY <2>6, <2>10, <3>1 DEF JobGood
    <2> QED BY <2>5, <2>9, <2>10
  <1>4. ASSUME Put(w) PROVE JobGood(w)'
    <2> In(w, "put") /\ Goes(w, "done") /\ UNCHANGED fileVars
      BY <1>4 DEF Put
    <2>2. job[w] \in Job /\ job[w].at = "put" /\ job[w] # NoJob
      BY JobType DEF In
    <2>3. JobGood(w)
      BY <2>2 DEF JobsGood
    <2>4. job'[w].at = "done" /\ job'[w].key = job[w].key /\ job'[w].sum = job[w].sum
      BY JobSteps
    <2> QED BY <2>2, <2>3, <2>4 DEF JobGood, Past, StatKey, fileVars
  <1> QED BY <1>1, <1>2, <1>3, <1>4

\* Every step keeps the entries and the jobs good.
LEMMA GoodStep ==
    ASSUME TypeOK, FilesPast, MemGood, DbGood, JobsGood, [CacheNext]_digestVars
    PROVE  FilesPast' /\ MemGood' /\ DbGood' /\ JobsGood'
  <1> DEFINE Goal == FilesPast' /\ MemGood' /\ DbGood' /\ JobsGood'
  <1> USE CacheAssumption
  <1>1. ASSUME NEW f \in Inode, Write(f) PROVE Goal
    <2>1. FilesPast'
      BY <1>1, SMT DEF FilesPast, Write, TypeOK
    <2>2. ASSUME NEW p \in Process, NEW e \in mem[p] PROVE Good(e)'
      BY <1>1, WriteGood DEF MemGood, TypeOK
    <2>3. ASSUME NEW e \in Entry, NEW i \in 1 .. Len(db), e = db[i] PROVE Good(e)'
      BY <1>1, <2>3, WriteGood DEF DbGood
    <2>4. ASSUME NEW w \in Worker, job[w] # NoJob PROVE JobGood(w)'
      BY <1>1, <2>4, WriteJob DEF JobsGood
    <2>5. mem' = mem /\ db' = db /\ job' = job
      BY <1>1 DEF Write, dbVars, cacheVars
    <2>6. ASSUME NEW i \in 1 .. Len(db), db[i] \in Entry PROVE Good(db[i])'
      <3>1. PICK e \in Entry : e = db[i]
        BY <2>6
      <3>2. Good(e)' /\ db'[i] = e
        BY <2>3, <2>5, <3>1
      <3> QED BY <3>2 DEF Good
    <2> QED BY <2>1, <2>2, <2>4, <2>5, <2>6 DEF MemGood, DbGood, JobsGood
  <1>2. ASSUME UNCHANGED fileVars, MemGood', DbGood',
               \A w \in Worker : job'[w] \in {NoJob, job[w]} \/ JobGood(w)'
        PROVE  Goal
    <2>1. FilesPast'
      BY <1>2, SameGood
    <2>2. ASSUME NEW w \in Worker, job'[w] # NoJob PROVE JobGood(w)'
      BY <1>2, <2>2, SameGood DEF JobsGood
    <2> QED BY <1>2, <2>1, <2>2 DEF JobsGood
  <1>3. ASSUME UNCHANGED fileVars, mem' = mem, db' = db,
               \A w \in Worker : job'[w] \in {NoJob, job[w]} \/ JobGood(w)'
        PROVE  Goal
    BY <1>2, <1>3, SameParts
  <1>4. ASSUME NEW p \in Process, Load(p) PROVE Goal
    <2> UNCHANGED fileVars /\ db' = db /\ job' = job
      BY <1>4 DEF Load, dbVars
    <2>2. ASSUME NEW q \in Process, NEW e \in mem'[q] PROVE Good(e)'
      <3>1. e \in mem[q] \/ e \in Loaded
        BY <1>4, ZenonT(30) DEF Load, TypeOK
      <3>2. Good(e)
        BY <3>1, LoadedEntries DEF MemGood, DbGood
      <3> QED BY <3>2, SameGood
    <2>3. MemGood'
      BY <2>2 DEF MemGood
    <2>4. DbGood'
      BY SameParts
    <2> QED BY <1>2, <2>3, <2>4
  <1>5. ASSUME NEW p \in Process, WriteMagic(p) PROVE Goal
    <2> UNCHANGED fileVars /\ mem' = mem /\ job' = job
      BY <1>5 DEF WriteMagic
    <2>2. db' = db \/ \E x \in {Magic, Torn} : db' = Append(db, x)
      BY <1>5 DEF WriteMagic
    <2>3. DbGood'
      BY <2>2, SameParts, AppendGood, DistinctAssumption
    <2>4. MemGood'
      BY SameParts
    <2> QED BY <1>2, <2>3, <2>4
  <1>6. ASSUME NEW p \in Process, End(p) PROVE Goal
    <2> UNCHANGED fileVars /\ db' = db
      BY <1>6 DEF End, dbVars
    <2>2. \A w \in Worker : job'[w] \in {NoJob, job[w]}
      BY <1>6 DEF End
    <2>3. \A q \in Process : mem'[q] \subseteq mem[q]
      BY <1>6 DEF End, TypeOK
    <2>4. ASSUME NEW q \in Process, NEW e \in mem'[q] PROVE Good(e)'
      BY <2>3, SameGood DEF MemGood
    <2>5. MemGood'
      BY <2>4 DEF MemGood
    <2>6. DbGood'
      BY SameParts
    <2> QED BY <1>2, <2>2, <2>5, <2>6
  <1>7. ASSUME NEW p \in Process, Begin(p) \/ OpenFile(p) \/ StatSize(p) PROVE Goal
    <2>1. UNCHANGED fileVars /\ db' = db /\ mem' = mem /\ job' = job
      BY <1>7 DEF Begin, OpenFile, StatSize, dbVars
    <2> QED BY <1>3, <2>1
  <1>8. ASSUME NEW w \in Worker, (\E f \in Inode : Stat(w, f)) \/ Get(w) \/ Read(w) PROVE Goal
    <2>1. UNCHANGED fileVars /\ db' = db /\ mem' = mem
      BY <1>8 DEF Stat, Get, Read, dbVars, cacheVars
    <2>2. JobGood(w)'
      BY <1>8, JobStep
    <2>3. \A v \in Worker \ {w} : job'[v] = job[v]
      <3>1. CASE \E f \in Inode : Stat(w, f)
        BY <3>1 DEF Stat, TypeOK
      <3>2. CASE Get(w)
        BY <3>2 DEF Get, Goes, Returns, TypeOK
      <3>3. CASE Read(w)
        BY <3>3, ReadStep
      <3> QED BY <1>8, <3>1, <3>2, <3>3
    <2> QED BY <1>3, <2>1, <2>2, <2>3
  <1>9. ASSUME NEW w \in Worker, ReadFails(w) PROVE Goal
    <2>1. UNCHANGED fileVars /\ db' = db /\ mem' = mem
      BY <1>9 DEF ReadFails, dbVars, cacheVars
    <2>2. \A v \in Worker : job'[v] \in {NoJob, job[v]}
      BY <1>9 DEF ReadFails, TypeOK
    <2> QED BY <1>3, <2>1, <2>2
  <1>10. ASSUME NEW w \in Worker, Put(w) PROVE Goal
    <2> In(w, "put") /\ Goes(w, "done") /\ UNCHANGED fileVars
      BY <1>10 DEF Put
    <2> OwnEntry(w) \in Entry /\ job[w].at = "put" /\ job[w] # NoJob
      BY JobType DEF In, OwnEntry
    <2>3. JobGood(w) /\ JobGood(w)'
      BY <1>10, JobStep DEF JobsGood
    <2>4. OwnEntry(w).key = job[w].key /\ OwnEntry(w).digest = job[w].sum
      BY DEF OwnEntry
    <2>5. Good(OwnEntry(w))
      BY <2>3, <2>4 DEF JobGood, Good
    <2>6. PICK e : e = OwnEntry(w)
      OBVIOUS
    <2>7. Good(e) /\ Good(e)' /\ e \in Entry
      BY <2>5, <2>6, SameGood
    <2>8. MemGood'
      <3>1. ASSUME NEW q \in Process, NEW d \in mem'[q] PROVE Good(d)'
        <4>1. d \in mem[q] \/ d = e
          BY <1>10, <2>6, PutStep
        <4> QED BY <2>7, <4>1, SameGood DEF MemGood
      <3> QED BY <3>1 DEF MemGood
    <2>9. DbGood'
      <3>1. db' = db \/ db' = Append(db, e) \/ db' = Append(db, Torn)
        BY <1>10, <2>6, PutStep
      <3> QED BY <2>7, <3>1, SameParts, AppendGood, DistinctAssumption
    <2>10. \A v \in Worker \ {w} : job'[v] = job[v]
      BY JobSteps
    <2> QED BY <1>2, <2>3, <2>8, <2>9, <2>10
  <1>11. CASE UNCHANGED digestVars
    BY <1>3, <1>11 DEF digestVars, dbVars, cacheVars
  <1> QED
    BY <1>1, <1>4, <1>5, <1>6, <1>7, <1>8, <1>9, <1>10, <1>11 DEF CacheNext,
       Hash, Opening

-----------------------------------------------------------------------------
(* The results.                                                            *)

\* The inductive invariant holds of every state of the cache: the types, keys
\* of the past, good entries and jobs, and the header.
THEOREM Invariant == CacheSpec => []CacheIInv
  <1>1. CacheInit => CacheIInv
    <2> SUFFICES ASSUME CacheInit PROVE CacheIInv
      OBVIOUS
    <2>1. TypeOK
      <3>1. /\ content \in [Inode -> Content] /\ mtime \in [Inode -> Nat] /\ ctime \in [Inode -> Nat]
            /\ clock \in Nat /\ runs \in Nat /\ faults \in Nat
            /\ at \in [Process -> {"down", "load", "open", "stat", "magic", "ready"}]
            /\ algo \in [Process -> Algo] /\ mem \in [Process -> SUBSET Entry]
        BY DEF CacheInit
      <3>2. exists \in BOOLEAN /\ spoilt \in BOOLEAN /\ handle \in [Process -> BOOLEAN]
        BY DEF CacheInit
      <3>3. db \in Seq({Magic, Torn} \cup Entry)
        BY SMT DEF CacheInit
      <3>4. job \in [Worker -> {NoJob} \cup Job] /\ \A w \in Worker : job[w] = NoJob
        BY DEF CacheInit
      <3> QED BY <3>1, <3>2, <3>3, <3>4 DEF TypeOK
    <2>2. FilesPast /\ MemGood /\ DbGood /\ JobsGood
      BY SMT DEF CacheInit, FilesPast, MemGood, DbGood, JobsGood
    <2>3. HeaderFirst
      BY DEF CacheInit, HeaderFirst
    <2> QED BY <2>1, <2>2, <2>3 DEF CacheIInv
  <1>2. CacheIInv /\ [CacheNext]_digestVars => CacheIInv'
    BY TypeStep, GoodStep, HeadStep DEF CacheIInv
  <1> QED BY <1>1, <1>2, PTL DEF CacheSpec

\* No entry, in any map or in the file, is stale: one whose key a file has
\* now (CacheKey) has the digest of what the file holds now, whoever changed
\* it while HashFile read it, and whatever two runs wrote to the cache.
THEOREM CacheIsTrue == CacheSpec => []CacheTrue
  <1>1. CacheIInv => CacheTrue
    <2> SUFFICES ASSUME CacheIInv, NEW e \in Entries, NEW f \in Inode, e.key = StatKey(f, e.key.algo)
                 PROVE  e.digest = Sum(e.key.algo, content[f])
      BY DEF CacheTrue
    <2>1. CASE e \in Recorded
      <3>1. PICK i \in DOMAIN db : db[i] \notin {Magic, Torn} /\ e = db[i]
        BY <2>1 DEF Recorded
      <3>2. db \in Seq({Magic, Torn} \cup Entry)
        BY DEF CacheIInv, TypeOK
      <3>3. i \in 1 .. Len(db) /\ db[i] \in Entry
        BY <3>1, <3>2, SMT
      <3>4. Good(e)
        BY <3>1, <3>3 DEF CacheIInv, DbGood
      <3> QED BY <3>4 DEF Good
    <2>2. CASE \E p \in Process : e \in mem[p]
      BY <2>2 DEF CacheIInv, MemGood, Good
    <2> QED BY <2>1, <2>2 DEF Entries
  <1> QED BY <1>1, Invariant, PTL

\* HashFile returns the digest of the file, in the algorithm of its session,
\* unless the file changed since HashFile examined it.
THEOREM ResultIsTrue == CacheSpec => []ResultTrue
  <1>1. CacheIInv => ResultTrue
    <2> SUFFICES ASSUME CacheIInv, NEW w \in Worker, NEW f \in Inode, In(w, "done"),
                        job[w].key = StatKey(f, algo[Owner[w]])
                 PROVE  job[w].sum = Sum(StatKey(f, algo[Owner[w]]).algo, content[f])
      BY DEF ResultTrue
    <2>1. JobGood(w) /\ job[w].at = "done" /\ job[w].key.algo = algo[Owner[w]]
      BY DEF CacheIInv, JobsGood, In, TypeOK
    <2>2. StatKey(f, algo[Owner[w]]).algo = algo[Owner[w]]
      BY DEF StatKey
    <2> QED BY <2>1, <2>2 DEF JobGood
  <1> QED BY <1>1, Invariant, PTL

\* Two runs that create the cache file at the same time, in any order of
\* their steps, write records behind a header, unless a header was torn or the
\* size of the new file could not be read (OpenCache, Put).
THEOREM FileIsHeaded == CacheSpec => []Headed
  <1>1. CacheIInv => Headed
    <2> SUFFICES ASSUME CacheIInv, ~spoilt, (\E p \in Process : handle[p]) \/ Recorded # {}
                 PROVE  db # <<>> /\ db[1] = Magic
      BY DEF Headed, HeadedAlways
    <2>1. Recorded # {} => db # <<>>
      BY SMT DEF Recorded
    <2> QED BY <2>1 DEF CacheIInv, HeaderFirst
  <1> QED BY <1>1, Invariant, PTL

-----------------------------------------------------------------------------
(***************************************************************************)
(* The stream of a data channel.                                           *)
(***************************************************************************)

Types == {"header", "chunk", "complete", "error"} \cup Endings
Msg == [type : Types, req : Nat, arg : Nat \cup SourceFaults]
Req == [type : {"request"}, req : Nat, arg : File]
Busy == worker \in {"await", "stream"}

Typed ==
    /\ status \in [File -> {"queued", "taken", "done", "failed"}]
    /\ attempt \in [File -> Nat]
    /\ errors \in [File -> Nat]
    /\ worker \in {"pop", "await", "stream", "rejoin", "ended"}
    /\ Busy => item \in File /\ status[item] = "taken"
    /\ written \in Nat
    /\ req \in Nat
    /\ part \in [File -> Seq(File \X Nat)]
    /\ dest \in [File -> Seq(File \X Nat)]
    /\ toS \in Seq(Req) /\ toR \in Seq(Msg)
    /\ reset \in BOOLEAN /\ fatal \in BOOLEAN
    /\ serving \in {None} \cup [req : Nat, file : File, next : Nat]
    /\ breaks \in [Breaks -> Nat]

\* The place of message i of toR in the answer the fetcher waits for: in
\* "await" the header comes first, in "stream" the chunk after the last one
\* written.
Fitting(i) ==
    LET m == toR[i] IN
    /\ m.req = req
    /\ worker = "await" /\ i = 1 => m.type \in {"header", "error"}
    /\ worker = "await" /\ i > 1 => /\ toR[1].type = "header"
                                    /\ m.type \in {"chunk", "complete", "error"}
                                    /\ m.type = "chunk" => m.arg = i - 1
    /\ worker = "stream" => /\ m.type \in {"chunk", "complete", "error"}
                            /\ m.type = "chunk" => m.arg = written + i

\* The end of a connection is the last thing on it; on one that is reset
\* nothing is asked or answered any more.
EndLast ==
    /\ \A i \in 1 .. Len(toR) : toR[i].type \in Endings => i = Len(toR)
    /\ \A i \in 1 .. Len(toR) : toR[i].type = "RESET" => reset
    /\ reset => toS = <<>> /\ serving = None

\* An answer is in place, and over after its terminal message.
Answer ==
    Busy => \A i \in 1 .. Len(toR) : toR[i].type \notin Endings =>
        /\ Fitting(i)
        /\ toR[i].type \in {"complete", "error"} /\ i < Len(toR) => toR[i + 1].type \in Endings

\* Between requests there is nothing but the end of the connection.
Between ==
    worker \in {"pop", "rejoin"} =>
        /\ \A i \in 1 .. Len(toR) : toR[i].type \in Endings
        /\ toS = <<>> /\ serving = None

\* The request on its way is the fetcher's.
Asked ==
    Busy /\ toS # <<>> =>
        /\ worker = "await"
        /\ Len(toS) = 1 /\ toS[1].req = req
        /\ serving = None
        /\ \A i \in 1 .. Len(toR) : toR[i].type \in Endings

\* The answer being written is the fetcher's, and goes on where it is.
Served ==
    Busy /\ serving # None =>
        /\ \A i \in 1 .. Len(toR) : toR[i].type \notin Endings \cup {"complete", "error"}
        /\ toS = <<>>
        /\ serving.req = req
        /\ worker = "await" => toR # <<>> /\ serving.next = Len(toR)
        /\ worker = "stream" => serving.next = written + Len(toR) + 1

Wire == EndLast /\ Answer /\ Between /\ Asked /\ Served

\* What the part file and the published files hold.
PartsTrue ==
    /\ worker = "stream" => part[item] = [i \in 1 .. written |-> <<item, i>>]
    /\ PublishedWhole

\* The errors a sender reports are errors of the file, and a connection that
\* is reset was counted.
Codes ==
    \A i \in 1 .. Len(toR) : toR[i].type = "error" =>
        toR[i].arg \in {"E6001", "E6003", "E6004", "E8003"}
Counted == reset => "reset" \in Breaks /\ breaks["reset"] > 0
Cause == Codes /\ Counted /\ FailsForCause

IInv == Typed /\ Wire /\ PartsTrue /\ Cause

-----------------------------------------------------------------------------
(***************************************************************************)
(* Types.                                                                  *)
(***************************************************************************)
LEMMA InitTyped == Init => Typed
<1> SUFFICES ASSUME Init PROVE Typed
  OBVIOUS
<1>1. <<>> \in Seq(File \X Nat) /\ <<>> \in Seq(Msg) /\ <<>> \in Seq(Req)
  BY SMT
<1> QED
  BY <1>1 DEF Init, Typed, Busy

LEMMA MessageTyped ==
    ASSUME NEW t \in Types, NEW r \in Nat, NEW x \in Nat \cup SourceFaults
    PROVE  Message(t, r, x) \in Msg
BY DEF Message, Msg

LEMMA EndingTyped == \A how \in Endings : Ending(how) \in Msg
BY MessageTyped DEF Ending, Types

LEMMA TailTyped ==
    ASSUME Typed, toR # <<>>
    PROVE  /\ Tail(toR) \in Seq(Msg) /\ Head(toR) \in Msg /\ Head(toR) = toR[1]
           /\ Len(toR) \in Nat \ {0}
           /\ Len(Tail(toR)) = Len(toR) - 1
           /\ \A i \in 1 .. Len(Tail(toR)) : Tail(toR)[i] = toR[i + 1]
BY SMT DEF Typed

\* However a transfer ends, every variable keeps its type.
LEMMA FetchErrorTyped ==
    ASSUME Typed, NEW f \in File, NEW code, NEW desynced \in BOOLEAN, NEW stays \in Seq(Msg),
           FetchError(f, code, desynced, stays),
           written' \in Nat, req' \in Nat,
           part' \in [File -> Seq(File \X Nat)], dest' \in [File -> Seq(File \X Nat)]
    PROVE  Typed'
<1>1. CASE code \in Fatal
  <2>1. /\ fatal' = TRUE /\ worker' = "ended"
        /\ status' = [status EXCEPT ![f] = "failed"]
        /\ attempt' = attempt /\ errors' = errors
        /\ toS' = toS /\ toR' = toR /\ reset' = reset
        /\ serving' = serving /\ breaks' = breaks
    BY <1>1 DEF FetchError, wireVars, serveVars
  <2> QED
    BY <2>1 DEF Typed, Busy
<1>2. CASE code \notin Fatal
  <2> /\ fatal' = fatal /\ breaks' = breaks
      /\ worker' \in {"pop", "rejoin"}
      /\ Leave(desynced, stays)
    BY <1>2 DEF FetchError, Leave
  <2>2. /\ status' \in [File -> {"queued", "taken", "done", "failed"}]
        /\ attempt' \in [File -> Nat] /\ errors' \in [File -> Nat]
    <3>1. /\ \E v \in {"queued", "failed"} : status' = [status EXCEPT ![f] = v]
          /\ attempt' = [attempt EXCEPT ![f] = @ + 1] \/ attempt' = attempt
          /\ \E n \in {errors[f], errors[f] + 1} : errors' = [errors EXCEPT ![f] = n]
      BY <1>2 DEF FetchError
    <3> /\ status \in [File -> {"queued", "taken", "done", "failed"}]
        /\ attempt \in [File -> Nat] /\ errors \in [File -> Nat]
      BY DEF Typed
    <3>3. status' \in [File -> {"queued", "taken", "done", "failed"}]
      BY <3>1
    <3>4. attempt' \in [File -> Nat]
      <4>1. attempt[f] + 1 \in Nat
        BY SMT
      <4>2. attempt' = [attempt EXCEPT ![f] = attempt[f] + 1] \/ attempt' = attempt
        BY <3>1
      <4> QED
        BY <4>1, <4>2
    <3>5. errors' \in [File -> Nat]
      BY <3>1, SMT
    <3> QED
      BY <3>3, <3>4, <3>5
  <2>3. /\ toS' \in Seq(Req) /\ toR' \in Seq(Msg)
        /\ serving' \in {None} \cup [req : Nat, file : File, next : Nat]
    <3>1. CASE desynced
      <4>1. toS' = <<>> /\ toR' = <<>> /\ serving' = None
        BY <3>1 DEF Leave
      <4> QED
        BY <4>1, SMT
    <3>2. CASE ~desynced
      <4>1. toS' = toS /\ toR' = stays /\ serving' = serving
        BY <3>2 DEF Leave
      <4> QED
        BY <4>1 DEF Typed
    <3> QED
      BY <3>1, <3>2
  <2>4. reset' \in BOOLEAN
    BY DEF Leave, Typed
  <2> QED
    BY <2>2, <2>3, <2>4 DEF Typed, Busy
<1> QED
  BY <1>1, <1>2

LEMMA ServicerTyped == Typed /\ Servicer => Typed'
<1> SUFFICES ASSUME Typed, Servicer PROVE Typed'
  OBVIOUS
<1>0. /\ status' = status /\ attempt' = attempt /\ errors' = errors /\ worker' = worker
      /\ item' = item /\ written' = written /\ req' = req /\ part' = part /\ dest' = dest
      /\ reset' = reset /\ fatal' = fatal /\ breaks' = breaks
  BY DEF Servicer, Serve, SendChunk, Terminal, fetchVars
<1>a. ASSUME NEW m \in Msg, Send(m) PROVE toR' \in Seq(Msg)
  BY <1>a, SMT DEF Send, Typed
<1>f. \A f \in File : Chunks[f] \in Nat
  BY StreamAssumption
<1> DEFINE Serving == [req : Nat, file : File, next : Nat]
<1>b. ASSUME toS' \in Seq(Req), toR' \in Seq(Msg), serving' \in {None} \cup Serving
      PROVE  Typed'
  BY <1>0, <1>b DEF Typed, Busy
<1>s. serving # None => serving \in Serving
  BY DEF Typed
<1>1. CASE Serve
  <2> DEFINE r == Head(toS)
  <2> toS # <<>> /\ toS' = Tail(toS) /\ toS' \in Seq(Req) /\ r \in Req
    BY <1>1, SMT DEF Serve, Typed
  <2> r.req \in Nat /\ r.arg \in File
    BY DEF Req
  <2>3. CASE /\ serving' = [req |-> r.req, file |-> r.arg, next |-> 1]
             /\ Send(Message("header", r.req, Chunks[r.arg]))
    <3>1. serving' \in Serving
      BY <2>3
    <3>2. Message("header", r.req, Chunks[r.arg]) \in Msg
      BY <1>f, MessageTyped DEF Types
    <3> QED
      BY <2>3, <3>1, <3>2, <1>a, <1>b
  <2>4. CASE \E e \in EarlyFaults : Send(Message("error", r.req, e)) /\ UNCHANGED serving
    <3>1. PICK e \in EarlyFaults : Send(Message("error", r.req, e)) /\ serving' = serving
      BY <2>4
    <3>2. Message("error", r.req, e) \in Msg
      BY MessageTyped DEF Types, EarlyFaults
    <3> QED
      BY <3>1, <3>2, <1>a, <1>b DEF Typed
  <2> QED
    BY <1>1, <2>3, <2>4 DEF Serve
<1>2. CASE SendChunk
  <2> serving \in Serving /\ toS' = toS
    BY <1>2, <1>s DEF SendChunk
  <2>2. Message("chunk", serving.req, serving.next) \in Msg
    BY MessageTyped DEF Types
  <2>3. serving' = [serving EXCEPT !.next = @ + 1] /\ Send(Message("chunk", serving.req, serving.next))
    BY <1>2 DEF SendChunk
  <2>4. serving' \in Serving
    BY <2>3, SMT
  <2> QED
    BY <2>2, <2>3, <2>4, <1>a, <1>b DEF Typed
<1>3. CASE Terminal
  <2> serving \in Serving /\ toS' = toS /\ serving' = None
    BY <1>3, <1>s DEF Terminal
  <2>2. Message("complete", serving.req, 0) \in Msg
    BY MessageTyped DEF Types
  <2>3. \A e \in SourceFaults : Message("error", serving.req, e) \in Msg
    BY MessageTyped DEF Types
  <2>4. toR' \in Seq(Msg)
    BY <1>3, <2>2, <2>3, <1>a DEF Terminal
  <2> QED
    BY <2>4, <1>b DEF Typed
<1> QED
  BY <1>1, <1>2, <1>3 DEF Servicer

\* Every action of the fetcher keeps the types.
LEMMA FetcherTyped == Typed /\ Fetcher => Typed'
<1> SUFFICES ASSUME Typed, Fetcher PROVE Typed'
  OBVIOUS
<1> /\ written \in Nat /\ req \in Nat /\ toR \in Seq(Msg) /\ toS \in Seq(Req)
    /\ part \in [File -> Seq(File \X Nat)] /\ dest \in [File -> Seq(File \X Nat)]
    /\ Busy => item \in File
  BY DEF Typed
<1>1. ASSUME NEW f \in File, Request(f) PROVE Typed'
  <2> req + 1 \in Nat /\ req' = req + 1 /\ written' = written /\ part' = part /\ dest' = dest
    BY <1>1, SMT DEF Request
  <2>1. CASE ~reset
    <3> /\ status' = [status EXCEPT ![f] = "taken"] /\ item' = f /\ worker' = "await"
        /\ toS' = Append(toS, Message("request", req + 1, f))
        /\ attempt' = attempt /\ toR' = toR /\ reset' = reset /\ serving' = serving
        /\ fatal' = fatal /\ breaks' = breaks /\ errors' = errors
      BY <1>1, <2>1 DEF Request, serveVars
    <3>2. Message("request", req + 1, f) \in Req
      BY DEF Message, Req
    <3>3. toS' \in Seq(Req)
      BY <3>2, SMT
    <3>4. status' \in [File -> {"queued", "taken", "done", "failed"}] /\ status'[f] = "taken"
      BY DEF Typed
    <3> QED
      BY <3>3, <3>4 DEF Typed, Busy
  <2>2. CASE reset
    <3>1. FetchError(f, "E3003", FALSE, toR)
      BY <1>1, <2>2 DEF Request
    <3> QED
      BY <3>1, FetchErrorTyped
  <2> QED
    BY <2>1, <2>2
<1>2. CASE Header
  <2>0. item \in File /\ Tail(toR) \in Seq(Msg)
    BY <1>2, TailTyped DEF Header, Busy, Next1
  <2>1. CASE /\ \E e \in DestFaults \cap {"E7001", "E7004"} : FetchError(item, e, TRUE, Tail(toR))
             /\ UNCHANGED <<written, part>>
    BY <1>2, <2>0, <2>1, FetchErrorTyped DEF Header
  <2>2. CASE /\ worker' = "stream" /\ written' = 0
             /\ part' = [part EXCEPT ![item] = <<>>]
             /\ toR' = Tail(toR)
             /\ UNCHANGED <<status, attempt, item, toS, reset, serveVars, fatal, breaks, errors>>
    <3>0. <<>> \in Seq(File \X Nat)
      BY SMT
    <3>1. part' \in [File -> Seq(File \X Nat)]
      BY <2>2, <3>0
    <3>2. dest' = dest /\ req' = req /\ status[item] = "taken"
      BY <1>2 DEF Header, Typed, Busy
    <3> QED
      BY <2>0, <2>2, <3>1, <3>2 DEF Typed, Busy, serveVars
  <2> QED
    BY <1>2, <2>1, <2>2 DEF Header
<1>3. CASE Other
  <2>0. item \in File /\ Tail(toR) \in Seq(Msg)
    BY <1>3, TailTyped DEF Other, Busy
  <2>1. written' = written /\ part' = part /\ dest' = dest /\ req' = req
    BY <1>3 DEF Other
  <2> QED
    BY <1>3, <2>0, <2>1, FetchErrorTyped DEF Other
<1>4. CASE Chunk
  <2> item \in File /\ Tail(toR) \in Seq(Msg) /\ dest' = dest /\ req' = req
    BY <1>4, TailTyped DEF Chunk, Busy, Next1
  <2>1. CASE /\ Head(toR).arg = written + 1
             /\ part' = [part EXCEPT ![item] = Append(@, <<item, Head(toR).arg>>)]
             /\ written' = written + 1
             /\ toR' = Tail(toR)
             /\ UNCHANGED <<status, attempt, worker, item, toS, reset, serveVars, fatal, breaks, errors>>
    <3> USE SMT
    <3>1. <<item, Head(toR).arg>> \in File \X Nat
      BY <2>1
    <3>2. Append(part[item], <<item, Head(toR).arg>>) \in Seq(File \X Nat)
      BY <3>1
    <3>3. part' \in [File -> Seq(File \X Nat)] /\ written' \in Nat
      BY <2>1, <3>2
    <3> QED
      BY <2>1, <3>3, Zenon DEF Typed, Busy, serveVars
  <2>2. CASE /\ \E e \in IF Head(toR).arg # written + 1
                   THEN {"E5006"}
                   ELSE DestFaults \cap {"E7003", "E7004"} : FetchError(item, e, TRUE, Tail(toR))
             /\ UNCHANGED <<written, part>>
    BY <2>2, FetchErrorTyped
  <2> QED
    BY <1>4, <2>1, <2>2 DEF Chunk
<1>5. CASE Complete
  <2> item \in File /\ Tail(toR) \in Seq(Msg) /\ written' = written /\ req' = req
    BY <1>5, TailTyped DEF Complete, Busy, Next1
  <2>1. CASE /\ dest' = [dest EXCEPT ![item] = part[item]]
             /\ part' = [part EXCEPT ![item] = <<>>]
             /\ status' = [status EXCEPT ![item] = "done"]
             /\ Leave(FALSE, Tail(toR))
             /\ UNCHANGED <<attempt, fatal, errors>>
    <3>1. part' \in [File -> Seq(File \X Nat)] /\ dest' \in [File -> Seq(File \X Nat)]
      BY <2>1, SMT
    <3>2. /\ worker' = "pop" /\ toR' = Tail(toR) /\ toS' = toS /\ reset' = reset
          /\ serving' = serving /\ breaks' = breaks
      BY <2>1 DEF Leave
    <3> QED
      BY <2>1, <3>1, <3>2 DEF Typed, Busy
  <2>2. CASE /\ \E e \in IF written # Chunks[item]
                   THEN {"E8002"}
                   ELSE DestFaults \cap {"E7004", "E7005", "E8001", "E8003"} :
                      FetchError(item, e, FALSE, Tail(toR))
             /\ UNCHANGED <<part, dest>>
    BY <2>2, FetchErrorTyped
  <2> QED
    BY <1>5, <2>1, <2>2 DEF Complete
<1>6. CASE ReadEnd
  <2>0. item \in File /\ written' = written /\ req' = req /\ part' = part /\ dest' = dest
    BY <1>6 DEF ReadEnd, Busy
  <2>1. CASE ChannelLost(item)
    <3>1. /\ status' = [status EXCEPT ![item] = "queued"] /\ worker' = "rejoin"
          /\ toS' = <<>> /\ toR' = <<>> /\ reset' = FALSE /\ serving' = None
          /\ breaks' = breaks /\ attempt' = attempt /\ errors' = errors /\ fatal' = fatal
      BY <2>1 DEF ChannelLost, Leave
    <3>2. <<>> \in Seq(Req) /\ <<>> \in Seq(Msg)
      BY SMT
    <3> QED
      BY <2>0, <3>1, <3>2 DEF Typed, Busy
  <2>2. CASE \E e : FetchError(item, e, worker = "stream", toR)
    BY <2>0, <2>2, FetchErrorTyped
  <2> QED
    BY <1>6, <2>1, <2>2 DEF ReadEnd
<1>7. CASE Rejoin \/ SenderFails
  <2>1. worker' \in {"pop", "ended"} /\ fatal' \in {fatal, TRUE}
    BY <1>7 DEF Rejoin, SenderFails
  <2>2. UNCHANGED <<status, attempt, errors, written, req, part, dest, toS, toR, reset, serving, breaks>>
    BY <1>7 DEF Rejoin, SenderFails, wireVars, serveVars
  <2>3. fatal' \in BOOLEAN
    BY <2>1 DEF Typed
  <2> QED
    BY <2>1, <2>2, <2>3 DEF Typed, Busy
<1> QED
  BY <1>1, <1>2, <1>3, <1>4, <1>5, <1>6, <1>7 DEF Fetcher

LEMMA BreakTyped ==
    ASSUME Typed, (\E how \in Breaks : Break(how)) \/ OrphanEnds \/ Stall
    PROVE  Typed'
<1>1. ASSUME NEW how \in Breaks, Break(how) PROVE Typed'
  <2>1. /\ breaks' = [breaks EXCEPT ![how] = @ + 1] /\ toS' = <<>> /\ serving' = None
        /\ UNCHANGED <<status, attempt, worker, item, written, part, dest, req, errors, fatal>>
    BY <1>1 DEF Break, fetchVars
  <2>2. breaks' \in [Breaks -> Nat] /\ toS' \in Seq(Req)
    BY <2>1, SMT DEF Typed
  <2>3. toR' \in Seq(Msg)
    <3>0. toR \in Seq(Msg)
      BY DEF Typed
    <3>1. \A how2 \in Endings, q \in Seq(Msg) : Append(q, Ending(how2)) \in Seq(Msg)
      BY EndingTyped, SMT
    <3>2. \A n \in 0 .. Len(toR) : SubSeq(toR, 1, n) \in Seq(Msg)
      BY <3>0, SMT
    <3>3. \E how2 \in Endings : \/ toR' = Append(toR, Ending(how2))
                               \/ \E n \in 0 .. Len(toR) : toR' = Append(SubSeq(toR, 1, n), Ending(how2))
      BY <1>1 DEF Break, Send, Endings
    <3> QED
      BY <3>0, <3>1, <3>2, <3>3
  <2>4. reset' \in BOOLEAN
    BY <1>1 DEF Break, Typed
  <2> QED
    BY <2>1, <2>2, <2>3, <2>4 DEF Typed, Busy
<1>2. CASE OrphanEnds
  BY <1>2 DEF OrphanEnds, fetchVars, wireVars, Typed, Busy
<1>3. CASE Stall
  <2>1. item \in File /\ FetchError(item, "E3005", worker = "stream", toR)
    BY <1>3 DEF Stall, Typed, Busy
  <2> QED
    BY <1>3, <2>1, FetchErrorTyped DEF Stall, Typed
<1> QED
  BY <1>1, <1>2, <1>3

-----------------------------------------------------------------------------
(***************************************************************************)
(* The wire.                                                               *)
(***************************************************************************)
\* The fetcher has left an answer behind, or the channel.
LEMMA LeftWire ==
    ASSUME worker' \in {"pop", "rejoin"}, toS' = <<>>, serving' = None,
           \A i \in 1 .. Len(toR') :
               /\ toR'[i].type \in Endings
               /\ i = Len(toR')
               /\ toR'[i].type = "RESET" => reset'
    PROVE  Wire'
BY SMT DEF Wire, EndLast, Answer, Between, Asked, Served, Busy

\* The session is over.
LEMMA OverWire ==
    ASSUME Wire, worker' = "ended", toR' = toR, toS' = toS, reset' = reset, serving' = serving
    PROVE  Wire'
BY SMT DEF Wire, EndLast, Answer, Between, Asked, Served, Busy

\* A transfer that ends in an error: the session is over, the channel is left,
\* or its answer was read to the end.
LEMMA FetchErrorWire ==
    ASSUME Wire, NEW f, NEW code, NEW desynced \in BOOLEAN, NEW stays \in Seq(Msg),
           FetchError(f, code, desynced, stays),
           code \notin Fatal /\ ~desynced =>
               /\ toS = <<>> /\ serving = None
               /\ \A i \in 1 .. Len(stays) :
                     /\ stays[i].type \in Endings
                     /\ i = Len(stays)
                     /\ stays[i].type = "RESET" => reset
    PROVE  Wire'
<1>1. CASE code \in Fatal
  <2>1. worker' = "ended" /\ toR' = toR /\ toS' = toS /\ reset' = reset /\ serving' = serving
    BY <1>1 DEF FetchError, wireVars, serveVars
  <2> QED
    BY <2>1, OverWire
<1>2. CASE code \notin Fatal /\ desynced
  <2>1. Leave(TRUE, stays)
    BY <1>2 DEF FetchError
  <2>2. worker' = "rejoin" /\ toS' = <<>> /\ toR' = <<>> /\ serving' = None
    BY <2>1 DEF Leave
  <2>3. 1 .. Len(toR') = {}
    BY <2>2, SMT
  <2> QED
    BY <2>2, <2>3, LeftWire
<1>3. CASE code \notin Fatal /\ ~desynced
  <2>1. Leave(FALSE, stays)
    BY <1>3 DEF FetchError
  <2>2. worker' = "pop" /\ toS' = toS /\ toR' = stays /\ serving' = serving /\ reset' = reset
    BY <2>1 DEF Leave
  <2>3. toS' = <<>> /\ serving' = None
    BY <1>3, <2>2
  <2> QED
    BY <1>3, <2>2, <2>3, LeftWire
<1> QED
  BY <1>1, <1>2, <1>3

\* Reading the terminal message leaves at most the end of the connection.
LEMMA ReadOut ==
    ASSUME Typed, Wire, Busy, toR # <<>>, Head(toR).type \in {"complete", "error"}
    PROVE  /\ toS = <<>> /\ serving = None
           /\ Tail(toR) \in Seq(Msg)
           /\ \A i \in 1 .. Len(Tail(toR)) :
                 /\ Tail(toR)[i].type \in Endings
                 /\ i = Len(Tail(toR))
                 /\ Tail(toR)[i].type = "RESET" => reset
<1> USE SMT
<1>t. /\ Tail(toR) \in Seq(Msg) /\ Head(toR) = toR[1] /\ Len(toR) \in Nat \ {0}
      /\ Len(Tail(toR)) = Len(toR) - 1
      /\ \A i \in 1 .. Len(Tail(toR)) : Tail(toR)[i] = toR[i + 1]
  BY TailTyped
<1>1. 1 \in 1 .. Len(toR) /\ toR[1].type \in {"complete", "error"} /\ toR[1].type \notin Endings
  BY <1>t DEF Endings
<1>2. toS = <<>> /\ serving = None
  BY <1>1 DEF Wire, Asked, Served
<1>3. 1 < Len(toR) => toR[2].type \in Endings
  BY <1>1 DEF Wire, Answer
<1>4. Len(toR) \in {1, 2}
  <2>1. 1 < Len(toR) => 2 \in 1 .. Len(toR)
    BY <1>t
  <2>2. 1 < Len(toR) => 2 = Len(toR)
    BY <2>1, <1>3, Zenon DEF Wire, EndLast
  <2> QED
    BY <1>t, <2>2
<1>5. ASSUME NEW i \in 1 .. Len(Tail(toR))
      PROVE  /\ Tail(toR)[i].type \in Endings
             /\ i = Len(Tail(toR))
             /\ Tail(toR)[i].type = "RESET" => reset
  <2>1. Len(toR) = 2 /\ i = 1 /\ Tail(toR)[i] = toR[2]
    BY <1>t, <1>4
  <2> QED
    BY <1>t, <1>3, <2>1 DEF Wire, EndLast
<1> QED
  BY <1>t, <1>2, <1>5, Zenon

LEMMA ServicerWire == Typed /\ Wire /\ Servicer => Wire'
<1> SUFFICES ASSUME Typed, Wire, Servicer PROVE Wire'
  OBVIOUS
<1>0. /\ worker' = worker /\ written' = written /\ req' = req /\ reset' = reset /\ reset = FALSE
      /\ \A i \in 1 .. Len(toR) : toR[i].type \notin Endings
  BY DEF Servicer, Serve, SendChunk, Terminal, fetchVars, Up, Typed
<1>t. toR \in Seq(Msg) /\ toS \in Seq(Req) /\ written \in Nat /\ Len(toR) \in Nat
  BY SMT DEF Typed
<1>w. EndLast /\ Answer /\ Between /\ Asked /\ Served
  BY DEF Wire
<1>a. ASSUME NEW m \in Msg, Send(m)
      PROVE  /\ Len(toR') = Len(toR) + 1
             /\ toR'[Len(toR) + 1] = m
             /\ \A i \in 1 .. Len(toR) : toR'[i] = toR[i]
             /\ \A i \in 1 .. Len(toR') : i \in 1 .. Len(toR) \/ i = Len(toR) + 1
  BY <1>a, <1>t, SMT DEF Send
\* what is written is no ending
<1>e. ASSUME NEW m \in Msg, Send(m), m.type \notin Endings PROVE EndLast'
  <2>1. \A i \in 1 .. Len(toR') : toR'[i].type \notin Endings
    BY <1>0, <1>a, <1>e
  <2> QED
    BY <1>0, <2>1 DEF EndLast, Endings
<1>f. \A f \in File : Chunks[f] \in Nat
  BY StreamAssumption
<1>s. serving # None => serving.req \in Nat /\ serving.next \in Nat /\ serving.file \in File
  BY DEF Typed
<1>1. CASE Serve
  <2> DEFINE r == Head(toS)
  <2>1. toS # <<>> /\ toS' = Tail(toS) /\ r = toS[1] /\ r \in Req
    BY <1>1, <1>t, SMT DEF Serve
  <2>2. r.req \in Nat /\ r.arg \in File
    BY <2>1 DEF Req
  <2>3. PICK m \in Msg :
           /\ Send(m) /\ m.req = r.req
           /\ \/ /\ m.type = "header"
                 /\ serving' = [req |-> r.req, file |-> r.arg, next |-> 1]
              \/ m.type = "error" /\ serving' = serving
    <3>1. CASE /\ serving' = [req |-> r.req, file |-> r.arg, next |-> 1]
               /\ Send(Message("header", r.req, Chunks[r.arg]))
      <4>1. Message("header", r.req, Chunks[r.arg]) \in Msg
        BY <2>2, <1>f, MessageTyped DEF Types
      <4> QED
        BY <3>1, <4>1 DEF Message
    <3>2. CASE \E e \in EarlyFaults : Send(Message("error", r.req, e)) /\ UNCHANGED serving
      <4>1. PICK e \in EarlyFaults : Send(Message("error", r.req, e)) /\ serving' = serving
        BY <3>2
      <4>2. Message("error", r.req, e) \in Msg
        BY <2>2, MessageTyped DEF Types, EarlyFaults
      <4> QED
        BY <4>1, <4>2 DEF Message
    <3> QED
      BY <1>1, <3>1, <3>2 DEF Serve
  <2>4. m.type \notin Endings
    BY <2>3 DEF Endings
  <2>5. EndLast'
    BY <1>e, <2>3, <2>4
  <2>6. worker \notin {"pop", "rejoin"}
    BY <1>w, <2>1 DEF Between
  <2>7. CASE Busy
    <3> USE SMT
    <3> worker = "await" /\ Len(toS) = 1 /\ r.req = req /\ serving = None
      BY <1>w, <2>1, <2>7 DEF Asked
    <3>2. Len(toR) = 0
      BY <1>0, <1>t, <1>w, <2>1, <2>7 DEF Asked
    <3>3. Len(toR') = 1 /\ toR'[1] = m /\ toR' # <<>>
      BY <1>a, <2>3, <3>2
    <3>4. toS' = <<>>
      BY <2>1, <1>t
    <3>5. Answer'
      BY <1>0, <2>3, <3>3 DEF Answer, Fitting, Busy
    <3>6. Asked' /\ Between'
      BY <1>0, <2>6, <3>4 DEF Asked, Between
    <3>7. Served'
      <4>1. CASE serving' = serving
        BY <4>1 DEF Served
      <4>2. CASE m.type = "header" /\ serving' = [req |-> r.req, file |-> r.arg, next |-> 1]
        BY <1>0, <4>2, <3>3, <3>4 DEF Served, Endings
      <4> QED
        BY <2>3, <4>1, <4>2
    <3> QED
      BY <2>5, <3>5, <3>6, <3>7 DEF Wire
  <2>8. CASE ~Busy
    BY <1>0, <2>5, <2>6, <2>8 DEF Wire, Answer, Between, Asked, Served, Busy
  <2> QED
    BY <2>7, <2>8
<1>2. CASE SendChunk \/ Terminal
  <2>1. serving # None /\ toS' = toS
    BY <1>2 DEF SendChunk, Terminal
  <2>2. PICK m \in Msg :
           /\ Send(m) /\ m.req = serving.req
           /\ \/ /\ m.type = "chunk" /\ m.arg = serving.next
                 /\ serving' = [serving EXCEPT !.next = @ + 1]
              \/ m.type \in {"complete", "error"} /\ serving' = None
    <3>1. CASE SendChunk
      <4>1. Message("chunk", serving.req, serving.next) \in Msg
        BY <1>s, <2>1, MessageTyped DEF Types
      <4> QED
        BY <3>1, <4>1 DEF SendChunk, Message
    <3>2. CASE Terminal
      <4>1. Message("complete", serving.req, 0) \in Msg
        BY <1>s, <2>1, MessageTyped DEF Types
      <4>2. \A e \in SourceFaults : Message("error", serving.req, e) \in Msg
        BY <1>s, <2>1, MessageTyped DEF Types
      <4> QED
        BY <3>2, <4>1, <4>2 DEF Terminal, Message
    <3> QED
      BY <1>2, <3>1, <3>2
  <2>3. m.type \notin Endings
    BY <2>2 DEF Endings
  <2>4. EndLast'
    BY <1>e, <2>2, <2>3
  <2>5. worker \notin {"pop", "rejoin"}
    BY <1>w, <2>1 DEF Between
  <2>6. CASE Busy
    <3>1. /\ \A i \in 1 .. Len(toR) : toR[i].type \notin Endings \cup {"complete", "error"}
          /\ toS = <<>> /\ serving.req = req
          /\ worker = "await" => toR # <<>> /\ serving.next = Len(toR)
          /\ worker = "stream" => serving.next = written + Len(toR) + 1
      BY <1>w, <2>1, <2>6 DEF Served
    <3>2. Answer'
      <4> USE SMT
      <4> SUFFICES ASSUME NEW i \in 1 .. Len(toR')
                   PROVE  /\ Fitting(i)'
                          /\ toR'[i].type \in {"complete", "error"} => i = Len(toR')
        BY DEF Answer
      <4>0. /\ Len(toR') = Len(toR) + 1 /\ toR'[Len(toR) + 1] = m
            /\ \A j \in 1 .. Len(toR) : toR'[j] = toR[j]
        BY <1>a, <2>2
      <4>1. CASE i \in 1 .. Len(toR)
        <5>1. toR'[i] = toR[i] /\ Fitting(i) /\ toR'[1] = toR[1]
          BY <4>0, <4>1, <1>0, <1>t, <1>w, <2>6 DEF Answer
        <5> QED
          BY <5>1, <4>1, <3>1, <1>0, SMTT(20) DEF Fitting
      <4>2. CASE i = Len(toR) + 1
        <5>1. toR'[i] = m /\ i = Len(toR')
          BY <4>0, <4>2
        <5>2. CASE worker = "await"
          <6> Len(toR) \in Nat \ {0} /\ 1 \in 1 .. Len(toR)
            BY <3>1, <5>2, <1>t
          <6>2. Fitting(1) /\ toR[1].type # "error"
            BY <3>1, <1>0, <1>w, <2>6 DEF Answer
          <6>3. toR'[1].type = "header"
            BY <6>2, <4>0, <5>2 DEF Fitting
          <6>4. i > 1 /\ i - 1 = Len(toR)
            BY <4>2
          <6> QED
            BY <5>1, <5>2, <6>3, <6>4, <2>2, <3>1, <1>0 DEF Fitting
        <5>3. CASE worker = "stream"
          <6>1. written + i = written + Len(toR) + 1
            BY <4>2, <1>t
          <6> QED
            BY <5>1, <5>3, <6>1, <2>2, <3>1, <1>0 DEF Fitting
        <5> QED
          BY <5>2, <5>3, <2>6 DEF Busy
      <4> QED
        BY <4>0, <4>1, <4>2, <1>t
    <3>3. Asked' /\ Between'
      BY <1>0, <2>1, <2>5, <3>1 DEF Asked, Between
    <3>4. Served'
      <4>1. CASE serving' = None
        BY <4>1 DEF Served
      <4>2. CASE m.type = "chunk" /\ serving' = [serving EXCEPT !.next = @ + 1]
        <5> USE SMT
        <5>1. serving'.req = serving.req /\ serving'.next = serving.next + 1
          BY <4>2, <2>1 DEF Typed
        <5>2. Len(toR') = Len(toR) + 1 /\ toR' # <<>>
          BY <1>a, <2>2, <1>t
        <5>3. \A i \in 1 .. Len(toR') : toR'[i].type \notin Endings \cup {"complete", "error"}
          BY <1>a, <2>2, <2>3, <3>1, <4>2
        <5> QED
          BY <1>0, <1>t, <1>s, <2>1, <3>1, <5>1, <5>2, <5>3 DEF Served
      <4> QED
        BY <2>2, <4>1, <4>2
    <3> QED
      BY <2>4, <3>2, <3>3, <3>4 DEF Wire
  <2>7. CASE ~Busy
    BY <1>0, <2>4, <2>5, <2>7 DEF Wire, Answer, Between, Asked, Served, Busy
  <2> QED
    BY <2>6, <2>7
<1> QED
  BY <1>1, <1>2 DEF Servicer

\* The fetcher has taken the header or a chunk.
LEMMA TakenWire ==
    ASSUME Typed, Wire, Busy, toR # <<>>, Head(toR).type \in {"header", "chunk"},
           worker' = "stream", toR' = Tail(toR), toS' = toS, reset' = reset,
           serving' = serving, req' = req,
           written' = IF worker = "await" THEN 0 ELSE written + 1
    PROVE  Wire'
<1>t. /\ Len(toR) \in Nat \ {0} /\ Len(toR') = Len(toR) - 1 /\ toR[1] = Head(toR)
      /\ \A i \in 1 .. Len(toR') : toR'[i] = toR[i + 1] /\ i + 1 \in 1 .. Len(toR)
  BY TailTyped, SMT
<1> EndLast /\ Answer /\ Between /\ Asked /\ Served /\ written \in Nat
  BY DEF Wire, Typed
<1>0. 1 \in 1 .. Len(toR) /\ toR[1].type \notin Endings
  BY <1>t, SMT DEF Endings
<1>1. toS = <<>>
  BY <1>0 DEF Asked
<1>2. EndLast'
  <2>1. \A i \in 1 .. Len(toR') : toR'[i].type \in Endings => i + 1 = Len(toR)
    BY <1>t DEF EndLast
  <2>2. \A i \in 1 .. Len(toR') : toR'[i].type = "RESET" => reset
    BY <1>t DEF EndLast
  <2>3. \A i \in 1 .. Len(toR') : toR'[i].type \in Endings => i = Len(toR')
    <3> USE SMT
    <3> SUFFICES ASSUME NEW i \in 1 .. Len(toR'), toR'[i].type \in Endings PROVE i = Len(toR')
      OBVIOUS
    <3>1. i \in Int /\ i + 1 = Len(toR)
      BY <2>1
    <3>2. Len(toR') = Len(toR) - 1 /\ Len(toR) \in Int
      BY <1>t
    <3> QED
      BY <3>1, <3>2
  <2> QED
    BY <2>2, <2>3 DEF EndLast
<1>3. Answer'
  <2> USE SMT
  <2> SUFFICES ASSUME NEW i \in 1 .. Len(toR'), toR'[i].type \notin Endings
               PROVE  /\ Fitting(i)'
                      /\ toR'[i].type \in {"complete", "error"} /\ i < Len(toR')
                            => toR'[i + 1].type \in Endings
    BY DEF Answer
  <2> /\ Fitting(i + 1) /\ toR'[i] = toR[i + 1] /\ i + 1 > 1 /\ (i + 1) - 1 = i
      /\ toR[i + 1].type \in {"complete", "error"} /\ i + 1 < Len(toR)
            => toR[(i + 1) + 1].type \in Endings
    BY <1>t DEF Answer
  <2>2. i < Len(toR') => i + 1 < Len(toR) /\ toR'[i + 1] = toR[(i + 1) + 1]
    BY <1>t
  <2>3. Fitting(i)'
    <3>1. CASE worker = "await"
      <4>1. written' = 0 /\ 0 + i = i
        BY <3>1, SMTT(20)
      <4> QED
        BY <3>1, <4>1 DEF Fitting
    <3>2. CASE worker = "stream"
      <4>1. written' + i = written + (i + 1)
        BY <3>2
      <4> QED
        BY <3>2, <4>1 DEF Fitting
    <3> QED
      BY <3>1, <3>2 DEF Busy
  <2> QED
    BY <2>2, <2>3
<1>4. Between' /\ Asked'
  BY <1>1 DEF Between, Asked
<1>5. Served'
  <2> SUFFICES ASSUME serving # None
               PROVE  /\ \A i \in 1 .. Len(toR') : toR'[i].type \notin Endings \cup {"complete", "error"}
                      /\ serving.req = req
                      /\ serving.next = written' + Len(toR') + 1
    BY <1>1 DEF Served
  <2>1. /\ \A i \in 1 .. Len(toR) : toR[i].type \notin Endings \cup {"complete", "error"}
        /\ serving.req = req
        /\ worker = "await" => serving.next = Len(toR)
        /\ worker = "stream" => serving.next = written + Len(toR) + 1
    BY DEF Served
  <2>2. serving.next = written' + Len(toR') + 1
    BY <1>t, <2>1, SMT DEF Busy
  <2> QED
    BY <1>t, <2>1, <2>2
<1> QED
  BY <1>2, <1>3, <1>4, <1>5 DEF Wire

LEMMA FetcherWire == Typed /\ Wire /\ Fetcher => Wire'
<1> SUFFICES ASSUME Typed, Wire, Fetcher PROVE Wire'
  OBVIOUS
<1>w. EndLast /\ Answer /\ Between /\ Asked /\ Served
  BY DEF Wire
<1>t. toR \in Seq(Msg) /\ Len(toR) \in Nat /\ (worker = "stream") \in BOOLEAN
  BY SMT DEF Typed
<1>1. ASSUME NEW f \in File, Request(f) PROVE Wire'
  <2> worker = "pop" /\ toS = <<>> /\ serving = None /\ req' = req + 1
    BY <1>1, <1>w DEF Request, Between
  <2>2. \A i \in 1 .. Len(toR) : toR[i].type \in Endings /\ i = Len(toR) /\ (toR[i].type = "RESET" => reset)
    BY <1>w DEF EndLast, Between
  <2>3. CASE ~reset
    <3>1. /\ worker' = "await" /\ toS' = Append(toS, Message("request", req + 1, f))
          /\ toR' = toR /\ reset' = reset /\ serving' = serving
      BY <1>1, <2>3 DEF Request, serveVars
    <3>2. Len(toS') = 1 /\ toS'[1] = Message("request", req + 1, f)
      BY <3>1, SMT
    <3>3. toS'[1].req = req'
      BY <3>2, SMT DEF Message
    <3> QED
      BY <2>2, <2>3, <3>1, <3>2, <3>3 DEF Wire, EndLast, Answer, Between,
         Asked, Served
  <2>4. CASE reset
    <3>1. FetchError(f, "E3003", FALSE, toR)
      BY <1>1, <2>4 DEF Request
    <3> QED
      BY <3>1, <2>2, <1>t, FetchErrorWire
  <2> QED
    BY <2>3, <2>4
<1>2. CASE Header
  <2>1. Busy /\ worker = "await" /\ toR # <<>> /\ Head(toR).type = "header" /\ req' = req
    BY <1>2 DEF Header, Next1, Busy
  <2>2. CASE /\ worker' = "stream" /\ written' = 0 /\ toR' = Tail(toR)
             /\ toS' = toS /\ reset' = reset /\ serving' = serving
    BY <2>1, <2>2, TakenWire
  <2>3. CASE \E e \in DestFaults : FetchError(item, e, TRUE, Tail(toR))
    BY <2>1, <2>3, TailTyped, FetchErrorWire
  <2> QED
    BY <1>2, <2>2, <2>3 DEF Header, serveVars
<1>3. CASE Other
  <2>1. Busy /\ toR # <<>>
    BY <1>3 DEF Other, Busy
  <2>2. CASE Head(toR).type = "error"
    <3>1. FetchError(item, Head(toR).arg, FALSE, Tail(toR))
      BY <1>3, <2>2 DEF Other
    <3> QED
      BY <2>1, <2>2, <3>1, ReadOut, FetchErrorWire
  <2>3. CASE Head(toR).type # "error"
    <3>1. FetchError(item, "E5001", worker = "stream", Tail(toR)) /\ "E5001" \in Fatal
      BY <1>3, <2>3 DEF Other, Fatal
    <3> QED
      BY <2>1, <3>1, <1>t, TailTyped, FetchErrorWire
  <2> QED
    BY <2>2, <2>3
<1>4. CASE Chunk
  <2>1. Busy /\ worker = "stream" /\ toR # <<>> /\ Head(toR).type = "chunk" /\ req' = req
    BY <1>4 DEF Chunk, Next1, Busy
  <2>2. CASE /\ worker' = worker /\ written' = written + 1 /\ toR' = Tail(toR)
             /\ toS' = toS /\ reset' = reset /\ serving' = serving
    BY <2>1, <2>2, TakenWire
  <2>3. CASE \E e : FetchError(item, e, TRUE, Tail(toR))
    BY <2>1, <2>3, TailTyped, FetchErrorWire
  <2> QED
    BY <1>4, <2>2, <2>3 DEF Chunk, serveVars
<1>5. CASE Complete
  <2>1. Busy /\ toR # <<>> /\ Head(toR).type = "complete"
    BY <1>5 DEF Complete, Next1, Busy
  <2>2. CASE Leave(FALSE, Tail(toR))
    <3>1. /\ worker' = "pop" /\ toR' = Tail(toR) /\ toS' = toS /\ serving' = serving /\ reset' = reset
      BY <2>2 DEF Leave
    <3> QED
      BY <2>1, <3>1, ReadOut, LeftWire
  <2>3. CASE \E e : FetchError(item, e, FALSE, Tail(toR))
    BY <2>1, <2>3, ReadOut, FetchErrorWire
  <2> QED
    BY <1>5, <2>2, <2>3 DEF Complete
<1>6. CASE ReadEnd
  <2>1. Busy
    BY <1>6 DEF ReadEnd, Busy
  <2>2. CASE ChannelLost(item)
    <3>1. worker' = "rejoin" /\ toS' = <<>> /\ serving' = None /\ toR' = <<>>
      BY <2>2 DEF ChannelLost, Leave
    <3>2. 1 .. Len(toR') = {}
      BY <3>1, SMT
    <3> QED
      BY <3>1, <3>2, LeftWire
  <2>3. CASE FetchError(item, "E4005", worker = "stream", toR)
    <3>1. "E4005" \in Fatal
      BY DEF Fatal
    <3> QED
      BY <2>3, <3>1, <1>t, FetchErrorWire
  <2>4. CASE Next1("RESET") /\ FetchError(item, "E3003", worker = "stream", toR)
    <3>1. 1 \in 1 .. Len(toR) /\ toR[1].type = "RESET"
      BY <2>4, TailTyped, SMT DEF Next1
    <3>2. 1 = Len(toR) /\ reset /\ toS = <<>> /\ serving = None
      BY <3>1, <1>w DEF EndLast, Endings
    <3>3. \A i \in 1 .. Len(toR) : toR[i].type \in Endings /\ i = Len(toR)
      <4> SUFFICES ASSUME NEW i \in 1 .. Len(toR) PROVE toR[i].type \in Endings /\ i = Len(toR)
        OBVIOUS
      <4>0. Len(toR) = 1
        BY <3>2
      <4>1. i = 1
        BY <4>0, SMT
      <4> QED
        BY <4>0, <4>1, <3>1 DEF Endings
    <3> QED
      BY <2>4, <3>2, <3>3, <1>t, FetchErrorWire
  <2> QED
    BY <1>6, <2>2, <2>3, <2>4 DEF ReadEnd
<1>7. CASE Rejoin
  <2>1. /\ worker = "rejoin" /\ worker' = "pop" /\ toS' = toS /\ toR' = toR
        /\ serving' = serving /\ reset' = reset
    BY <1>7 DEF Rejoin, wireVars, serveVars
  <2>2. toS = <<>> /\ serving = None /\ \A i \in 1 .. Len(toR) : toR[i].type \in Endings
    BY <2>1, <1>w DEF Between
  <2> QED
    BY <2>1, <2>2, <1>w, LeftWire DEF EndLast
<1>8. CASE SenderFails
  <2>1. /\ worker' = "ended" /\ toS' = toS /\ toR' = toR
        /\ serving' = serving /\ reset' = reset
    BY <1>8 DEF SenderFails, wireVars, serveVars
  <2> QED
    BY <2>1, OverWire
<1> QED
  BY <1>1, <1>2, <1>3, <1>4, <1>5, <1>6, <1>7, <1>8 DEF Fetcher

\* What a break leaves of what was written, and its end.
LEMMA CutWire ==
    ASSUME Typed, Wire, Up, UNCHANGED fetchVars, toS' = <<>>, serving' = None,
           NEW n \in 0 .. Len(toR), NEW t \in Endings,
           Len(toR') = n + 1, toR'[n + 1] = Ending(t),
           \A i \in 1 .. n : toR'[i] = toR[i],
           t = "RESET" => reset'
    PROVE  Wire'
<1> USE SMT
<1> worker' = worker /\ written' = written /\ req' = req /\ Len(toR) \in Nat
  BY DEF fetchVars, Typed
<1>w. EndLast /\ Answer /\ Between /\ Asked /\ Served
  BY DEF Wire
<1>1. \A i \in 1 .. Len(toR') : (i \in 1 .. n /\ i \in 1 .. Len(toR)) \/ i = n + 1
  OBVIOUS
<1>2. \A i \in 1 .. n : toR'[i].type \notin Endings
  BY SMTT(20) DEF Up
<1> toR'[n + 1].type = t
  BY DEF Ending, Message
<1>4. EndLast'
  BY <1>1, <1>2 DEF EndLast, Endings
<1>5. Answer'
  <2> SUFFICES ASSUME Busy, NEW i \in 1 .. n
               PROVE  /\ Fitting(i)'
                      /\ toR'[i].type \in {"complete", "error"} => toR'[i + 1].type \in Endings
    BY <1>1 DEF Answer, Busy
  <2>1. i \in 1 .. Len(toR) /\ toR[i].type \notin Endings /\ 1 \in 1 .. n
    BY <1>2
  <2>2. Fitting(i) /\ toR'[i] = toR[i] /\ toR'[1] = toR[1]
    BY <1>w, <2>1, Zenon DEF Answer
  <2>3. Fitting(i)'
    BY <2>2, Zenon DEF Fitting
  <2>4. CASE i = n
    BY <2>3, <2>4, Zenon
  <2>5. CASE i < n
    <3>1. i + 1 \in 1 .. n /\ i < Len(toR)
      BY <2>5
    <3> QED
      BY <1>w, <2>1, <2>2, <2>3, <3>1, SMTT(20) DEF Answer
  <2> QED
    BY <2>4, <2>5
<1>6. Between'
  <2> SUFFICES ASSUME worker \in {"pop", "rejoin"} PROVE n = 0
    BY <1>1 DEF Between
  <2> QED
    BY <1>w DEF Between, Up
<1> QED
  BY <1>4, <1>5, <1>6, SMTT(20) DEF Wire, Asked, Served

LEMMA BreakWire ==
    ASSUME Typed, Wire,
           (\E how \in Breaks : Break(how)) \/ OrphanEnds \/ Stall \/ UNCHANGED vars
    PROVE  Wire'
<1> toR \in Seq(Msg) /\ Len(toR) \in Nat /\ (worker = "stream") \in BOOLEAN
  BY SMT DEF Typed
<1>1. ASSUME NEW how \in Breaks, Break(how) PROVE Wire'
  <2>1. Up /\ toS' = <<>> /\ serving' = None /\ UNCHANGED fetchVars
    BY <1>1 DEF Break
  <2>2. ASSUME NEW t \in {"CLOSE", "FIN"}, Send(Ending(t)) PROVE Wire'
    <3> USE SMT
    <3>1. Len(toR') = Len(toR) + 1 /\ toR'[Len(toR) + 1] = Ending(t)
      BY <2>2 DEF Send
    <3>2. \A i \in 1 .. Len(toR) : toR'[i] = toR[i]
      BY <2>2 DEF Send
    <3>3. t \in Endings /\ t # "RESET" /\ Len(toR) \in 0 .. Len(toR)
      BY DEF Endings
    <3> QED
      BY <2>1, <3>1, <3>2, <3>3, CutWire
  <2>3. ASSUME NEW n \in 0 .. Len(toR), reset' = TRUE,
               toR' = Append(SubSeq(toR, 1, n), Ending("RESET"))
        PROVE  Wire'
    <3> USE SMT
    <3>1. Len(SubSeq(toR, 1, n)) = n /\ \A i \in 1 .. n : SubSeq(toR, 1, n)[i] = toR[i]
      OBVIOUS
    <3>2. SubSeq(toR, 1, n) \in Seq(Msg)
      OBVIOUS
    <3>3. /\ Len(toR') = n + 1 /\ toR'[n + 1] = Ending("RESET")
          /\ \A i \in 1 .. n : toR'[i] = toR[i]
      BY <2>3, <3>1, <3>2
    <3>4. "RESET" \in Endings
      BY DEF Endings
    <3> QED
      BY <2>1, <2>3, <3>3, <3>4, CutWire
  <2> QED
    BY <1>1, <2>2, <2>3 DEF Break
<1>2. CASE OrphanEnds \/ UNCHANGED vars
  <2>1. /\ worker' = worker /\ written' = written /\ req' = req /\ toR' = toR /\ toS' = toS
        /\ reset' = reset /\ serving' = serving
    BY <1>2 DEF OrphanEnds, fetchVars, wireVars, serveVars, vars
  <2> QED
    BY <2>1 DEF Wire, EndLast, Answer, Between, Asked, Served, Busy, Fitting
<1>3. CASE Stall
  <2>1. FetchError(item, "E3005", worker = "stream", toR) /\ "E3005" \in Fatal
    BY <1>3 DEF Stall, Fatal
  <2> QED
    BY <2>1, FetchErrorWire
<1> QED
  BY <1>1, <1>2, <1>3

-----------------------------------------------------------------------------
(***************************************************************************)
(* What is written, and what is published.                                 *)
(***************************************************************************)
LEMMA FirstChunks ==
    ASSUME NEW f, NEW n \in Nat, NEW s \in Seq(File \X Nat),
           s = [i \in 1 .. n |-> <<f, i>>]
    PROVE  Append(s, <<f, n + 1>>) = [i \in 1 .. n + 1 |-> <<f, i>>]
<1> USE SMT
<1>1. Len(s) = n
  OBVIOUS
<1> QED
  BY <1>1

LEMMA NoChunks == \A f : <<>> = [i \in 1 .. 0 |-> <<f, i>>]
BY SMT

\* Nothing is published by an error.
LEMMA FetchErrorParts ==
    ASSUME Typed, PartsTrue, NEW f \in File, NEW code, NEW desynced \in BOOLEAN, NEW stays,
           FetchError(f, code, desynced, stays), dest' = dest
    PROVE  PartsTrue'
<1>1. /\ worker' # "stream"
      /\ status' = [status EXCEPT ![f] = "failed"] \/ status' = [status EXCEPT ![f] = "queued"]
  BY DEF FetchError, Leave
<1>2. \A g \in File : status'[g] = "done" => status[g] = "done"
  BY <1>1 DEF Typed
<1> QED
  BY <1>1, <1>2 DEF PartsTrue, PublishedWhole

LEMMA NextParts ==
    ASSUME Typed, PartsTrue, [Next]_vars
    PROVE  PartsTrue'
<1> /\ Busy => item \in File /\ status[item] = "taken"
    /\ status \in [File -> {"queued", "taken", "done", "failed"}]
    /\ part \in [File -> Seq(File \X Nat)] /\ dest \in [File -> Seq(File \X Nat)]
    /\ written \in Nat /\ (worker = "stream") \in BOOLEAN
  BY DEF Typed
<1>1. CASE Servicer \/ OrphanEnds \/ (\E how \in Breaks : Break(how)) \/ UNCHANGED vars
  <2>1. /\ worker' = worker /\ item' = item /\ written' = written /\ part' = part
        /\ status' = status /\ dest' = dest
    BY <1>1 DEF Servicer, Serve, SendChunk, Terminal, OrphanEnds, Break,
       fetchVars, vars
  <2> QED
    BY <2>1 DEF PartsTrue, PublishedWhole
<1>2. ASSUME NEW f \in File, Request(f) PROVE PartsTrue'
  <2>1. CASE ~reset
    <3>1. worker' = "await" /\ dest' = dest /\ status' = [status EXCEPT ![f] = "taken"]
      BY <1>2, <2>1 DEF Request
    <3>2. \A g \in File : status'[g] = "done" => status[g] = "done"
      BY <3>1
    <3> QED
      BY <3>1, <3>2 DEF PartsTrue, PublishedWhole
  <2>2. CASE reset
    <3>1. FetchError(f, "E3003", FALSE, toR) /\ dest' = dest
      BY <1>2, <2>2 DEF Request
    <3> QED
      BY <3>1, FetchErrorParts
  <2> QED
    BY <2>1, <2>2
<1>3. CASE Header
  <2> Busy /\ item \in File /\ dest' = dest
    BY <1>3 DEF Header, Busy
  <2>2. CASE /\ worker' = "stream" /\ written' = 0 /\ item' = item /\ status' = status
             /\ part' = [part EXCEPT ![item] = <<>>]
    <3>1. part'[item'] = [i \in 1 .. written' |-> <<item', i>>]
      BY <2>2, NoChunks, SMT
    <3> QED
      BY <2>2, <3>1 DEF PartsTrue, PublishedWhole
  <2>3. CASE \E e : FetchError(item, e, TRUE, Tail(toR))
    BY <2>3, FetchErrorParts
  <2> QED
    BY <1>3, <2>2, <2>3 DEF Header
<1>4. CASE Chunk
  <2> Busy /\ item \in File /\ dest' = dest /\ worker = "stream"
    BY <1>4 DEF Chunk, Busy
  <2>2. CASE /\ Head(toR).arg = written + 1
             /\ part' = [part EXCEPT ![item] = Append(@, <<item, Head(toR).arg>>)]
             /\ written' = written + 1
             /\ worker' = worker /\ item' = item /\ status' = status
    <3>1. part[item] = [i \in 1 .. written |-> <<item, i>>] /\ part[item] \in Seq(File \X Nat)
      BY DEF PartsTrue
    <3>2. Append(part[item], <<item, written + 1>>) = [i \in 1 .. written + 1 |-> <<item, i>>]
      BY <3>1, FirstChunks, SMT
    <3>3. part'[item] = Append(part[item], <<item, written + 1>>)
      BY <2>2
    <3> QED
      BY <2>2, <3>2, <3>3 DEF PartsTrue, PublishedWhole
  <2>3. CASE \E e : FetchError(item, e, TRUE, Tail(toR))
    BY <2>3, FetchErrorParts
  <2> QED
    BY <1>4, <2>2, <2>3 DEF Chunk
<1>5. CASE Complete
  <2>1. Busy /\ item \in File /\ worker = "stream"
    BY <1>5 DEF Complete, Busy
  <2>2. CASE /\ written = Chunks[item]
             /\ dest' = [dest EXCEPT ![item] = part[item]]
             /\ status' = [status EXCEPT ![item] = "done"]
             /\ Leave(FALSE, Tail(toR))
    <3>1. worker' # "stream"
      BY <2>2 DEF Leave
    <3>2. dest'[item] = [i \in 1 .. Chunks[item] |-> <<item, i>>]
      BY <2>1, <2>2 DEF PartsTrue
    <3>3. \A g \in File : g # item => status'[g] = status[g] /\ dest'[g] = dest[g]
      BY <2>2
    <3> QED
      BY <3>1, <3>2, <3>3 DEF PartsTrue, PublishedWhole
  <2>3. CASE (\E e : FetchError(item, e, FALSE, Tail(toR))) /\ dest' = dest
    BY <2>1, <2>3, FetchErrorParts
  <2> QED
    BY <1>5, <2>2, <2>3 DEF Complete
<1>6. CASE Other \/ Stall
  <2>1. item \in File /\ dest' = dest
    BY <1>6 DEF Other, Stall, Busy
  <2>2. \/ \E code, stays : FetchError(item, code, FALSE, stays)
        \/ \E code, stays : FetchError(item, code, worker = "stream", stays)
    BY <1>6 DEF Other, Stall
  <2> QED
    BY <2>1, <2>2, FetchErrorParts
<1>7. CASE ReadEnd
  <2>1. item \in File /\ dest' = dest
    BY <1>7 DEF ReadEnd, Busy
  <2>2. CASE ChannelLost(item)
    <3>1. worker' # "stream" /\ status' = [status EXCEPT ![item] = "queued"]
      BY <2>2 DEF ChannelLost, Leave
    <3>2. \A g \in File : status'[g] = "done" => status[g] = "done"
      BY <3>1
    <3> QED
      BY <2>1, <3>1, <3>2 DEF PartsTrue, PublishedWhole
  <2>3. CASE \E code, stays : FetchError(item, code, worker = "stream", stays)
    BY <2>1, <2>3, FetchErrorParts
  <2> QED
    BY <1>7, <2>2, <2>3 DEF ReadEnd
<1>8. CASE Rejoin \/ SenderFails
  <2>1. worker' # "stream" /\ status' = status /\ dest' = dest
    BY <1>8 DEF Rejoin, SenderFails
  <2> QED
    BY <2>1 DEF PartsTrue, PublishedWhole
<1> QED
  BY <1>1, <1>2, <1>3, <1>4, <1>5, <1>6, <1>7, <1>8 DEF Next, Fetcher

-----------------------------------------------------------------------------
(***************************************************************************)
(* What a file fails for.                                                  *)
(***************************************************************************)
\* A file's share of FailsForCause, while no connection was reset.
Own(f) ==
    /\ attempt[f] <= errors[f]
    /\ status[f] = "failed" /\ ~fatal => errors[f] > attempt[f]

NoReset == \A how \in Breaks : how = "reset" => breaks[how] = 0

\* An error is counted for its file: an attempt more, or the end.
LEMMA FetchErrorCause ==
    ASSUME Typed, FailsForCause, NEW f \in File, NEW code, NEW desynced \in BOOLEAN, NEW stays,
           FetchError(f, code, desynced, stays),
           NoReset => code # "E3003"
    PROVE  FailsForCause'
<1> /\ attempt \in [File -> Nat] /\ errors \in [File -> Nat]
    /\ status \in [File -> {"queued", "taken", "done", "failed"}]
    /\ fatal \in BOOLEAN
  BY DEF Typed
<1>1. CASE code \in Fatal
  <2>1. fatal' = TRUE /\ attempt' = attempt /\ errors' = errors /\ breaks' = breaks
    BY <1>1 DEF FetchError
  <2> QED
    BY <2>1 DEF FailsForCause
<1>2. CASE code \notin Fatal
  <2>1. breaks' = breaks /\ fatal' = fatal
    BY <1>2 DEF FetchError, Leave
  <2> SUFFICES ASSUME NoReset, NEW g \in File PROVE Own(g)'
    BY <2>1 DEF FailsForCause, Own, NoReset
  <2>2. Own(g) /\ attempt[g] \in Nat /\ errors[g] \in Nat
    BY DEF FailsForCause, Own, NoReset
  <2>3. errors' = [errors EXCEPT ![f] = @ + 1]
    BY <1>2 DEF FetchError
  <2>4. \/ /\ attempt' = [attempt EXCEPT ![f] = @ + 1]
           /\ status' = [status EXCEPT ![f] = "queued"]
        \/ /\ attempt' = attempt
           /\ status' = [status EXCEPT ![f] = "failed"]
    BY <1>2 DEF FetchError
  <2>5. CASE g # f
    <3>1. errors'[g] = errors[g] /\ attempt'[g] = attempt[g] /\ status'[g] = status[g]
      BY <2>3, <2>4, <2>5
    <3> QED
      BY <2>1, <2>2, <3>1 DEF Own
  <2>6. CASE g = f
    <3>1. errors'[g] = errors[g] + 1
      BY <2>3, <2>6
    <3>2. \/ attempt'[g] = attempt[g] + 1 /\ status'[g] = "queued"
          \/ attempt'[g] = attempt[g]
      BY <2>4, <2>6
    <3> QED
      BY <2>2, <3>1, <3>2, SMT DEF Own
  <2> QED
    BY <2>5, <2>6
<1> QED
  BY <1>1, <1>2

\* What leaves the counts alone and fails no file.
LEMMA QuietCause ==
    ASSUME Typed, FailsForCause, attempt' = attempt, errors' = errors,
           fatal => fatal', NoReset' => NoReset,
           \A f \in File : status'[f] = "failed" => status[f] = "failed"
    PROVE  FailsForCause'
BY DEF FailsForCause, NoReset

\* Where the answers on the wire come from.
LEMMA FetchErrorStay ==
    ASSUME NEW f, NEW code, NEW desynced \in BOOLEAN, NEW stays, FetchError(f, code, desynced, stays)
    PROVE  /\ toR' \in {toR, <<>>, stays}
           /\ reset' = reset \/ reset' = FALSE
           /\ breaks' = breaks
<1>1. CASE code \in Fatal
  BY <1>1 DEF FetchError, wireVars
<1>2. CASE code \notin Fatal
  BY <1>2 DEF FetchError, Leave
<1> QED
  BY <1>1, <1>2

LEMMA FetcherStay ==
    ASSUME Typed, Fetcher \/ Stall
    PROVE  /\ toR' = toR \/ toR' = <<>> \/ (toR # <<>> /\ toR' = Tail(toR))
           /\ reset' = reset \/ reset' = FALSE
           /\ breaks' = breaks
<1>t. (worker = "stream") \in BOOLEAN
  OBVIOUS
<1>1. ASSUME NEW f \in File, Request(f)
      PROVE  /\ toR' = toR \/ toR' = <<>>
             /\ reset' = reset \/ reset' = FALSE
             /\ breaks' = breaks
  <2>1. CASE ~reset
    BY <1>1, <2>1 DEF Request
  <2>2. CASE reset
    <3>1. FetchError(f, "E3003", FALSE, toR)
      BY <1>1, <2>2 DEF Request
    <3> QED
      BY <3>1, FetchErrorStay
  <2> QED
    BY <2>1, <2>2
<1>2. ASSUME NEW code, NEW desynced \in BOOLEAN, NEW stays \in {toR, Tail(toR)}, toR # <<>> \/ stays = toR,
             FetchError(item, code, desynced, stays)
      PROVE  /\ toR' = toR \/ toR' = <<>> \/ (toR # <<>> /\ toR' = Tail(toR))
             /\ reset' = reset \/ reset' = FALSE
             /\ breaks' = breaks
  BY <1>2, FetchErrorStay
<1>3. CASE Header
  BY <1>2, <1>3 DEF Header, Next1
<1>4. CASE Chunk
  BY <1>2, <1>4 DEF Chunk, Next1
<1>5. CASE Complete
  BY <1>2, <1>5 DEF Complete, Next1, Leave
<1>6. CASE Other
  BY <1>2, <1>6, <1>t DEF Other
<1>7. CASE ReadEnd
  BY <1>2, <1>7, <1>t DEF ReadEnd, ChannelLost, Leave
<1>8. CASE Rejoin \/ SenderFails
  BY <1>8 DEF Rejoin, SenderFails, wireVars
<1>9. CASE Stall
  BY <1>2, <1>9, <1>t DEF Stall
<1> QED
  BY <1>1, <1>3, <1>4, <1>5, <1>6, <1>7, <1>8, <1>9 DEF Fetcher

LEMMA NextCodes ==
    ASSUME Typed, Codes, [Next]_vars
    PROVE  Codes'
<1> toR \in Seq(Msg) /\ Len(toR) \in Nat
  BY SMT DEF Typed
<1>1. CASE Fetcher \/ Stall
  <2>1. CASE toR' = toR
    BY <2>1 DEF Codes
  <2>2. CASE toR' = <<>>
    <3>1. 1 .. Len(toR') = {}
      BY <2>2, SMT
    <3> QED
      BY <3>1 DEF Codes
  <2>3. CASE toR # <<>> /\ toR' = Tail(toR)
    <3>1. \A i \in 1 .. Len(toR') : toR'[i] = toR[i + 1] /\ i + 1 \in 1 .. Len(toR)
      BY <2>3, TailTyped, SMT
    <3> QED
      BY <3>1 DEF Codes
  <2> QED
    BY <1>1, <2>1, <2>2, <2>3, FetcherStay
<1>2. ASSUME NEW m, toR' = Append(toR, m),
             m.type = "error" => m.arg \in {"E6001", "E6003", "E6004", "E8003"}
      PROVE  Codes'
  <2> USE SMT
  <2>1. /\ Len(toR') = Len(toR) + 1 /\ toR'[Len(toR) + 1] = m
        /\ \A i \in 1 .. Len(toR) : toR'[i] = toR[i]
    BY <1>2
  <2>2. \A i \in 1 .. Len(toR') : i \in 1 .. Len(toR) \/ i = Len(toR) + 1
    BY <2>1
  <2> QED
    BY <1>2, <2>1, <2>2 DEF Codes
<1>3. CASE Servicer
  <2>1. CASE Serve
    BY <2>1, <1>2 DEF Serve, Send, Message, EarlyFaults
  <2>2. CASE SendChunk
    BY <2>2, <1>2 DEF SendChunk, Send, Message
  <2>3. CASE Terminal
    BY <2>3, <1>2 DEF Terminal, Send, Message
  <2> QED
    BY <1>3, <2>1, <2>2, <2>3 DEF Servicer
<1>4. ASSUME NEW how \in Breaks, Break(how) PROVE Codes'
  <2>1. CASE Send(Ending("CLOSE")) \/ Send(Ending("FIN"))
    BY <2>1, <1>2 DEF Send, Ending, Message
  <2>2. ASSUME NEW n \in 0 .. Len(toR), toR' = Append(SubSeq(toR, 1, n), Ending("RESET"))
        PROVE  Codes'
    <3> USE SMT
    <3>1. Len(SubSeq(toR, 1, n)) = n /\ \A i \in 1 .. n : SubSeq(toR, 1, n)[i] = toR[i]
      OBVIOUS
    <3>2. SubSeq(toR, 1, n) \in Seq(Msg)
      OBVIOUS
    <3> /\ Len(toR') = n + 1 /\ toR'[n + 1] = Ending("RESET")
        /\ \A i \in 1 .. n : toR'[i] = toR[i]
      BY <2>2, <3>1, <3>2
    <3>4. \A i \in 1 .. Len(toR') : (i \in 1 .. n /\ i \in 1 .. Len(toR)) \/ i = n + 1
      OBVIOUS
    <3>5. toR'[n + 1].type # "error"
      BY DEF Ending, Message
    <3> QED
      BY <3>4, <3>5 DEF Codes
  <2> QED
    BY <1>4, <2>1, <2>2 DEF Break
<1>5. CASE OrphanEnds \/ UNCHANGED vars
  <2>1. toR' = toR
    BY <1>5 DEF OrphanEnds, wireVars, vars
  <2> QED
    BY <2>1 DEF Codes
<1> QED
  BY <1>1, <1>3, <1>4, <1>5 DEF Next

\* Breaks are only ever added.
LEMMA NextCounted ==
    ASSUME Typed, Counted, [Next]_vars
    PROVE  Counted' /\ (NoReset' => NoReset)
<1>t. breaks \in [Breaks -> Nat]
  BY DEF Typed
<1>1. CASE Fetcher \/ Stall
  <2> breaks' = breaks /\ (reset' = reset \/ reset' = FALSE)
    BY <1>1, FetcherStay
  <2>2. NoReset' => NoReset
    BY DEF NoReset
  <2>3. CASE reset' = reset
    BY <2>2, <2>3 DEF Counted
  <2>4. CASE reset' = FALSE
    BY <2>2, <2>4 DEF Counted
  <2> QED
    BY <2>3, <2>4
<1>2. CASE Servicer \/ OrphanEnds \/ UNCHANGED vars
  <2>1. reset' = reset /\ breaks' = breaks
    BY <1>2 DEF Servicer, Serve, SendChunk, Terminal, OrphanEnds, wireVars,
       vars
  <2> QED
    BY <2>1 DEF Counted, NoReset
<1>3. ASSUME NEW how \in Breaks, Break(how) PROVE Counted' /\ (NoReset' => NoReset)
  <2>1. breaks' = [breaks EXCEPT ![how] = @ + 1] /\ breaks[how] \in Nat
    BY <1>3, <1>t DEF Break
  <2> \A b \in Breaks : breaks[b] \in Nat /\ breaks'[b] = IF b = how THEN breaks[b] + 1 ELSE breaks[b]
    BY <2>1, <1>t
  <2>3. NoReset' => NoReset
    BY SMT DEF NoReset
  <2>4. CASE how = "reset"
    BY <2>3, <2>4, SMT DEF Counted
  <2>5. CASE how # "reset"
    <3>1. reset' = reset
      BY <1>3, <2>5 DEF Break
    <3> QED
      BY <2>3, <2>5, <3>1 DEF Counted
  <2> QED
    BY <2>4, <2>5
<1> QED
  BY <1>1, <1>2, <1>3 DEF Next

LEMMA NextCause ==
    ASSUME Typed, Wire, Cause, [Next]_vars
    PROVE  Cause'
<1>c. Codes /\ Counted /\ FailsForCause /\ Codes' /\ Counted' /\ (NoReset' => NoReset)
  BY NextCodes, NextCounted DEF Cause
<1> SUFFICES FailsForCause'
  BY <1>c DEF Cause
<1> /\ Busy => item \in File /\ status[item] = "taken"
    /\ status \in [File -> {"queued", "taken", "done", "failed"}]
    /\ fatal \in BOOLEAN /\ (worker = "stream") \in BOOLEAN
  BY DEF Typed
<1>r. reset => ~NoReset
  BY <1>c, SMT DEF Counted, NoReset, Typed
<1>e. ASSUME NEW f \in File, NEW code, NEW desynced \in BOOLEAN, NEW stays,
             FetchError(f, code, desynced, stays), code # "E3003"
      PROVE  FailsForCause'
  BY <1>c, <1>e, FetchErrorCause
<1>q. ASSUME attempt' = attempt, errors' = errors, fatal' = fatal \/ fatal' = TRUE, status' = status
      PROVE  FailsForCause'
  BY <1>c, <1>q, QuietCause, SMT
<1>1. CASE Servicer \/ OrphanEnds \/ (\E how \in Breaks : Break(how)) \/ Rejoin \/ UNCHANGED vars
  <2>1. attempt' = attempt /\ errors' = errors /\ status' = status /\ fatal' = fatal
    BY <1>1 DEF Servicer, Serve, SendChunk, Terminal, OrphanEnds, Break,
       Rejoin, fetchVars, vars
  <2> QED
    BY <1>c, <2>1, QuietCause DEF Cause
<1>2. ASSUME NEW f \in File, Request(f) PROVE FailsForCause'
  <2>1. CASE ~reset
    <3>1. /\ status' = [status EXCEPT ![f] = "taken"]
          /\ attempt' = attempt /\ errors' = errors /\ fatal' = fatal
      BY <1>2, <2>1 DEF Request
    <3>2. \A g \in File : status'[g] = "failed" => status[g] = "failed"
      BY <3>1
    <3> QED
      BY <1>c, <3>1, <3>2, QuietCause
  <2>2. CASE reset
    <3>1. FetchError(f, "E3003", FALSE, toR)
      BY <1>2, <2>2 DEF Request
    <3> QED
      BY <3>1, <2>2, <1>r, <1>c, FetchErrorCause
  <2> QED
    BY <2>1, <2>2
<1>3. CASE Header
  <2>1. item \in File
    BY <1>3 DEF Header, Busy
  <2>2. CASE status' = status /\ attempt' = attempt /\ fatal' = fatal /\ errors' = errors
    BY <2>2, <1>q
  <2>3. ASSUME NEW e \in {"E7001", "E7004"}, FetchError(item, e, TRUE, Tail(toR)) PROVE FailsForCause'
    <3>1. e # "E3003"
      OBVIOUS
    <3> QED
      BY <2>1, <2>3, <3>1, <1>e
  <2> QED
    BY <1>3, <2>2, <2>3 DEF Header
<1>4. CASE Chunk
  <2>1. item \in File
    BY <1>4 DEF Chunk, Busy
  <2>2. CASE status' = status /\ attempt' = attempt /\ fatal' = fatal /\ errors' = errors
    BY <2>2, <1>q
  <2>3. ASSUME NEW e \in {"E5006", "E7003", "E7004"}, FetchError(item, e, TRUE, Tail(toR)) PROVE FailsForCause'
    <3>1. e # "E3003"
      OBVIOUS
    <3> QED
      BY <2>1, <2>3, <3>1, <1>e
  <2> QED
    BY <1>4, <2>2, <2>3 DEF Chunk
<1>5. CASE Complete
  <2>1. item \in File
    BY <1>5 DEF Complete, Busy
  <2>2. CASE /\ status' = [status EXCEPT ![item] = "done"]
             /\ attempt' = attempt /\ fatal' = fatal /\ errors' = errors
    <3>1. \A g \in File : status'[g] = "failed" => status[g] = "failed"
      BY <2>2
    <3> QED
      BY <1>c, <2>2, <3>1, QuietCause
  <2>3. ASSUME NEW e \in {"E8002", "E7004", "E7005", "E8001", "E8003"}, FetchError(item, e, FALSE, Tail(toR)) PROVE FailsForCause'
    <3>1. e # "E3003"
      OBVIOUS
    <3> QED
      BY <2>1, <2>3, <3>1, <1>e
  <2> QED
    BY <1>5, <2>2, <2>3 DEF Complete
<1>6. CASE Other
  <2> item \in File /\ toR # <<>>
    BY <1>6 DEF Other, Busy
  <2>2. CASE Head(toR).type = "error"
    <3>1. FetchError(item, Head(toR).arg, FALSE, Tail(toR))
      BY <1>6, <2>2 DEF Other
    <3>2. 1 \in 1 .. Len(toR) /\ Head(toR) = toR[1]
      BY TailTyped, SMT
    <3>3. Head(toR).arg # "E3003"
      BY <2>2, <3>2, <1>c DEF Codes
    <3> QED
      BY <3>1, <3>3, <1>e
  <2>3. CASE Head(toR).type # "error"
    <3>1. FetchError(item, "E5001", worker = "stream", Tail(toR)) /\ "E5001" # "E3003"
      BY <1>6, <2>3 DEF Other
    <3> QED
      BY <3>1, <1>e
  <2> QED
    BY <2>2, <2>3
<1>7. CASE ReadEnd
  <2>1. item \in File
    BY <1>7 DEF ReadEnd, Busy
  <2>2. CASE ChannelLost(item)
    <3>1. /\ status' = [status EXCEPT ![item] = "queued"]
          /\ attempt' = attempt /\ fatal' = fatal /\ errors' = errors
      BY <2>2 DEF ChannelLost
    <3>2. \A g \in File : status'[g] = "failed" => status[g] = "failed"
      BY <3>1
    <3> QED
      BY <1>c, <3>1, <3>2, QuietCause
  <2>3. CASE FetchError(item, "E4005", worker = "stream", toR)
    <3>1. "E4005" # "E3003"
      OBVIOUS
    <3> QED
      BY <2>1, <2>3, <3>1, <1>e
  <2>4. CASE Next1("RESET") /\ FetchError(item, "E3003", worker = "stream", toR)
    <3>1. 1 \in 1 .. Len(toR) /\ toR[1].type = "RESET"
      BY <2>4, TailTyped, SMT DEF Next1
    <3>2. reset
      BY <3>1 DEF Wire, EndLast
    <3> QED
      BY <2>1, <2>4, <3>2, <1>r, <1>c, FetchErrorCause
  <2> QED
    BY <1>7, <2>2, <2>3, <2>4 DEF ReadEnd
<1>8. CASE SenderFails
  <2>1. attempt' = attempt /\ errors' = errors /\ status' = status /\ fatal' = TRUE
    BY <1>8 DEF SenderFails
  <2> QED
    BY <2>1, <1>q
<1>9. CASE Stall
  <2>1. /\ item \in File /\ FetchError(item, "E3005", worker = "stream", toR)
        /\ "E3005" # "E3003"
    BY <1>9 DEF Stall, Busy
  <2> QED
    BY <2>1, <1>e
<1> QED
  BY <1>c, <1>1, <1>2, <1>3, <1>4, <1>5, <1>6, <1>7, <1>8, <1>9, SMT DEF Next,
     Fetcher

-----------------------------------------------------------------------------
LEMMA InitInv == Init => IInv
<1> SUFFICES ASSUME Init PROVE IInv
  OBVIOUS
<1>1. Typed
  BY InitTyped
<1>2. Len(toR) = 0
  BY DEF Init
<1>3. Wire
  BY <1>2, SMT DEF Init, Wire, EndLast, Answer, Between, Asked, Served, Busy
<1>4. PartsTrue
  BY DEF Init, PartsTrue, PublishedWhole
<1>5. Cause
  BY <1>2, SMT DEF Init, Cause, Codes, Counted, FailsForCause
<1> QED
  BY <1>1, <1>3, <1>4, <1>5 DEF IInv

LEMMA Invariance == Spec => []IInv
<1>1. IInv /\ [Next]_vars => IInv'
  <2> SUFFICES ASSUME IInv, [Next]_vars PROVE IInv'
    OBVIOUS
  <2> Typed /\ Wire /\ PartsTrue /\ Cause
    BY DEF IInv
  <2>1. Typed'
    <3>1. CASE UNCHANGED vars
      BY <3>1 DEF vars, fetchVars, wireVars, serveVars, Typed, Busy
    <3> QED
      BY <3>1, ServicerTyped, FetcherTyped, BreakTyped DEF Next
  <2>2. Wire'
    BY ServicerWire, FetcherWire, BreakWire DEF Next
  <2>3. PartsTrue'
    BY NextParts
  <2>4. Cause'
    BY NextCause
  <2> QED
    BY <2>1, <2>2, <2>3, <2>4 DEF IInv
<1> QED
  BY <1>1, InitInv, PTL DEF Spec

\* A fetcher reads the answer to its own request, from the header on and chunk
\* by chunk (fetchOne, serve): for any files, retries, errors and breaks.
THEOREM InStep == Spec => []InSync
<1>1. IInv => InSync
  <2> SUFFICES ASSUME IInv, Busy, toR # <<>>, Head(toR).type \notin Endings
               PROVE  /\ Head(toR).req = req
                      /\ worker = "await" => Head(toR).type \in {"header", "error"}
                      /\ worker = "stream" => Head(toR).type # "header"
                      /\ Head(toR).type = "chunk" => Head(toR).arg = written + 1
    BY DEF InSync, Busy
  <2>1. 1 \in 1 .. Len(toR) /\ Head(toR) = toR[1]
    BY TailTyped, SMT DEF IInv
  <2>2. Fitting(1)
    BY <2>1 DEF IInv, Wire, Answer
  <2> QED
    BY <2>1, <2>2 DEF Fitting, Busy
<1> QED
  BY <1>1, Invariance, PTL

\* What is published is whole (finish, PublishPart), whatever earlier attempts
\* wrote and however their connections ended.
THEOREM WholeOnly == Spec => []PublishedWhole
<1>1. IInv => PublishedWhole
  BY DEF IInv, PartsTrue
<1> QED
  BY <1>1, Invariance, PTL

\* While no connection is reset a file fails only for errors of its own
\* (loop, channelLost): an authenticated close never uses up its retries.
THEOREM OwnErrors == Spec => []FailsForCause
<1>1. IInv => FailsForCause
  BY DEF IInv, Cause
<1> QED
  BY <1>1, Invariance, PTL

-----------------------------------------------------------------------------
(***************************************************************************)
(* HardlinkMap.  No entry of a hardlink key is stranded and no link is     *)
(* made to missing content, for every number of entries and decide         *)
(* workers.  The four conjuncts of KeyInv are inductive together: an entry *)
(* may park because SeenHasPrimary finds a primary that has yet to report, *)
(* and a primary that reports takes the whole list with it.                *)
(***************************************************************************)

LEMMA KeyInitInv == KeyInit => KeyInv
<1> QED
  BY HardlinkAssumption DEF KeyInit, KeyInv, KeyTypeOK, State, Deciding,
     NobodyStranded, SeenHasPrimary, LinkTargetsInPlace, InPlace, Outstanding

\* A step that leaves the map alone keeps the invariant if it moves one entry
\* that is neither parked nor put on the list, takes no content away and no
\* primary out of the running.
LEMMA MoveIInv ==
    ASSUME KeyInv, NEW e \in LinkEntry, NEW s \in State, NEW t \in LinkEntry \cup {NoEntry},
           stage' = [stage EXCEPT ![e] = s], target' = [target EXCEPT ![e] = t],
           UNCHANGED mapVars,
           stage[e] # "parked", s # "parked",
           e \in InPlace => s \in {"skip", "published", "placed"},
           e \in Outstanding => s \in {"content", "skip", "queued", "published", "failing"},
           s \in {"link", "linking"} => t \in InPlace
    PROVE  KeyInv'
<1> KeyTypeOK /\ NobodyStranded /\ SeenHasPrimary /\ LinkTargetsInPlace
  BY DEF KeyInv
<1>2. KeyTypeOK'
  BY DEF KeyTypeOK, mapVars
<1>3. Outstanding \subseteq Outstanding'
  BY DEF KeyTypeOK, mapVars, Outstanding
<1>4. InPlace \subseteq InPlace'
  BY DEF KeyTypeOK, InPlace
<1>5. NobodyStranded' /\ SeenHasPrimary'
  BY <1>3 DEF NobodyStranded, SeenHasPrimary, mapVars
<1>6. LinkTargetsInPlace'
  <2>1. (keyToPath # NoEntry => keyToPath \in InPlace)'
    BY <1>4 DEF LinkTargetsInPlace, mapVars
  <2>2. ASSUME NEW f \in LinkEntry, stage'[f] \in {"link", "linking"}
        PROVE  target'[f] \in InPlace'
    BY <1>4, <2>2 DEF LinkTargetsInPlace, KeyTypeOK
  <2> QED
    BY <2>1, <2>2 DEF LinkTargetsInPlace
<1> QED
  BY <1>2, <1>5, <1>6 DEF KeyInv

\* pathFor reads a registered path, whose content is in place.
LEMMA PathForIInv == ASSUME KeyInv, NEW e \in LinkEntry, PathFor(e) PROVE KeyInv'
<1> DEFINE s == IF keyToPath = NoEntry THEN "claim" ELSE "link"
<1>1. s \in State /\ s # "parked" /\ keyToPath \in LinkEntry \cup {NoEntry}
  BY DEF State, Deciding, KeyInv, KeyTypeOK
<1>2. e \notin InPlace /\ e \notin Outstanding /\ stage[e] # "parked"
  BY DEF PathFor, InPlace, Outstanding
<1>3. s \in {"link", "linking"} => keyToPath \in InPlace
  BY DEF KeyInv, LinkTargetsInPlace
<1>4. stage' = [stage EXCEPT ![e] = s] /\ target' = [target EXCEPT ![e] = keyToPath]
      /\ UNCHANGED mapVars
  BY DEF PathFor
<1> HIDE DEF s
<1> QED
  BY <1>1, <1>2, <1>3, <1>4, MoveIInv

LEMMA MakeHardlinkIInv == ASSUME KeyInv, NEW e \in LinkEntry, MakeHardlink(e) PROVE KeyInv'
<1>1. PICK s \in {"placed", "clear", "queued", "failed"} : stage' = [stage EXCEPT ![e] = s]
  BY DEF MakeHardlink, FetchInstead
<1>2. s \in State /\ s \notin {"parked", "link", "linking"}
  BY DEF State, Deciding
<1>3. e \notin InPlace /\ e \notin Outstanding /\ stage[e] # "parked"
  BY DEF MakeHardlink, InPlace, Outstanding
<1>4. target' = [target EXCEPT ![e] = NoEntry] /\ UNCHANGED mapVars
  BY DEF MakeHardlink
<1> QED
  BY <1>1, <1>2, <1>3, <1>4, MoveIInv

\* Deciding a primary's content, and fetching it, keep it in the running.
LEMMA ContentIInv ==
    ASSUME KeyInv, NEW e \in LinkEntry, DecideFileContent(e) \/ Fetch(e)
    PROVE  KeyInv'
<1>1. PICK s \in {"queued", "skip", "published", "failing"} : stage' = [stage EXCEPT ![e] = s]
  BY DEF DecideFileContent, Fetch
<1>2. s \in State /\ s \notin {"parked", "link", "linking"}
  BY DEF State, Deciding
<1>3. e \notin InPlace /\ stage[e] # "parked"
  BY DEF DecideFileContent, Fetch, InPlace
<1>4. target' = [target EXCEPT ![e] = target[e]] /\ UNCHANGED mapVars
  BY DEF DecideFileContent, Fetch, KeyInv, KeyTypeOK
<1>5. target[e] \in LinkEntry \cup {NoEntry}
  BY DEF KeyInv, KeyTypeOK
<1> QED
  BY <1>1, <1>2, <1>3, <1>4, <1>5, MoveIInv

\* claimSecondary parks an entry only beside a primary that has yet to report.
LEMMA ClaimIInv == ASSUME KeyInv, NEW e \in LinkEntry, ClaimSecondary(e) PROVE KeyInv'
<1> KeyTypeOK /\ NobodyStranded /\ SeenHasPrimary /\ LinkTargetsInPlace
  BY DEF KeyInv
<1>2. KeyTypeOK'
  BY DEF ClaimSecondary, KeyTypeOK, State, Deciding
<1>3. Outstanding' = Outstanding /\ InPlace' = InPlace
  BY DEF ClaimSecondary, KeyTypeOK, Outstanding, InPlace
<1>4. NobodyStranded' /\ SeenHasPrimary'
  BY <1>3 DEF ClaimSecondary, NobodyStranded, SeenHasPrimary
<1>5. LinkTargetsInPlace'
  BY <1>3 DEF ClaimSecondary, LinkTargetsInPlace, KeyTypeOK
<1> QED
  BY <1>2, <1>4, <1>5 DEF KeyInv

LEMMA MarkIInv == ASSUME KeyInv, NEW e \in LinkEntry, MarkPrimary(e) PROVE KeyInv'
<1> KeyTypeOK /\ LinkTargetsInPlace
  BY DEF KeyInv
<1>2. KeyTypeOK'
  BY DEF MarkPrimary, KeyTypeOK, State, Deciding
<1>3. e \in Outstanding' /\ InPlace' = InPlace
  BY DEF MarkPrimary, KeyTypeOK, Outstanding, InPlace
<1>4. LinkTargetsInPlace'
  BY <1>3 DEF MarkPrimary, LinkTargetsInPlace, KeyTypeOK
<1> QED
  BY <1>2, <1>3, <1>4 DEF KeyInv, NobodyStranded, SeenHasPrimary

\* clear empties the list, so nobody can be stranded by the retired key.
LEMMA ClearIInv == ASSUME KeyInv, NEW e \in LinkEntry, Clear(e) PROVE KeyInv'
<1> KeyTypeOK /\ LinkTargetsInPlace
  BY DEF KeyInv
<1>2. PICK s \in [pending -> FetchInstead] :
          stage' = [f \in LinkEntry |-> IF f = e THEN "mark"
                                 ELSE IF f \in pending THEN s[f] ELSE stage[f]]
  BY DEF Clear
<1>3. \A f \in pending : s[f] \in {"queued", "failed"}
  BY <1>2 DEF FetchInstead
<1>4. KeyTypeOK'
  BY <1>2, <1>3 DEF Clear, KeyTypeOK, State, Deciding
<1>5. InPlace \subseteq InPlace'
  BY <1>2 DEF Clear, KeyTypeOK, InPlace
<1>6. \A f \in LinkEntry : stage'[f] \in {"link", "linking"} => stage'[f] = stage[f]
  BY <1>2, <1>3 DEF KeyTypeOK
<1>7. LinkTargetsInPlace'
  BY <1>5, <1>6 DEF Clear, LinkTargetsInPlace, KeyTypeOK
<1> QED
  BY <1>4, <1>7 DEF KeyInv, NobodyStranded, SeenHasPrimary, Clear

\* A primary that registers takes everyone off the list, and its content is
\* there for them to be linked to.
LEMMA RegisterIInv == ASSUME KeyInv, NEW e \in LinkEntry, RegisterMaterialised(e) PROVE KeyInv'
<1> KeyTypeOK /\ NobodyStranded /\ SeenHasPrimary /\ LinkTargetsInPlace
  BY DEF KeyInv
<1> e \in InPlace /\ e \notin pending
  BY DEF RegisterMaterialised, KeyTypeOK, InPlace
<1>3. KeyTypeOK'
  BY DEF RegisterMaterialised, KeyTypeOK, State, Deciding
<1>4. InPlace \subseteq InPlace'
  BY DEF RegisterMaterialised, KeyTypeOK, InPlace
<1>5. NobodyStranded' /\ SeenHasPrimary'
  <2>1. CASE e \in fileKey
    BY <2>1, HardlinkAssumption DEF RegisterMaterialised, KeyTypeOK,
       NobodyStranded, SeenHasPrimary
  <2>2. CASE e \notin fileKey
    <3>1. Outstanding \subseteq Outstanding'
      BY <2>2 DEF RegisterMaterialised, KeyTypeOK, Outstanding
    <3> QED
      BY <2>2, <3>1 DEF RegisterMaterialised, NobodyStranded, SeenHasPrimary
  <2> QED
    BY <2>1, <2>2
<1>6. LinkTargetsInPlace'
  <2>1. (keyToPath # NoEntry => keyToPath \in InPlace)'
    BY <1>4 DEF RegisterMaterialised, LinkTargetsInPlace
  <2>2. ASSUME NEW f \in LinkEntry, stage'[f] \in {"link", "linking"}
        PROVE  target'[f] \in InPlace'
    BY <1>4, <2>2 DEF RegisterMaterialised, LinkTargetsInPlace, KeyTypeOK
  <2> QED
    BY <2>1, <2>2 DEF LinkTargetsInPlace
<1> QED
  BY <1>3, <1>5, <1>6 DEF KeyInv

\* A primary that fails takes the key out of use and everyone off its list.
LEMMA AbandonIInv == ASSUME KeyInv, NEW e \in LinkEntry, Abandon(e) PROVE KeyInv'
<1> KeyTypeOK /\ NobodyStranded /\ SeenHasPrimary /\ LinkTargetsInPlace
  BY DEF KeyInv
<1>2. KeyTypeOK'
  BY HardlinkAssumption DEF Abandon, KeyTypeOK, State, Deciding
<1>3. InPlace \subseteq InPlace'
  BY DEF Abandon, KeyTypeOK, InPlace
<1>4. NobodyStranded' /\ SeenHasPrimary'
  <2>1. CASE e \in fileKey
    BY <2>1 DEF Abandon, KeyTypeOK, NobodyStranded, SeenHasPrimary
  <2>2. CASE e \notin fileKey
    <3>1. Outstanding \subseteq Outstanding'
      BY <2>2 DEF Abandon, KeyTypeOK, Outstanding
    <3> QED
      BY <2>2, <3>1 DEF Abandon, NobodyStranded, SeenHasPrimary
  <2> QED
    BY <2>1, <2>2
<1>5. \A f \in LinkEntry : stage'[f] \in {"link", "linking"} => stage'[f] = stage[f]
  BY DEF Abandon, KeyTypeOK
<1>6. LinkTargetsInPlace'
  BY <1>3, <1>5 DEF Abandon, LinkTargetsInPlace, KeyTypeOK
<1> QED
  BY <1>2, <1>4, <1>6 DEF KeyInv

LEMMA KeyNextInv == KeyInv /\ [KeyNext]_keyVars => KeyInv'
<1> SUFFICES ASSUME KeyInv, [KeyNext]_keyVars PROVE KeyInv'
  OBVIOUS
<1>1. ASSUME NEW e \in LinkEntry, Step(e) PROVE KeyInv'
  BY <1>1, PathForIInv, MakeHardlinkIInv, ClearIInv, ClaimIInv, MarkIInv, ContentIInv,
     RegisterIInv, AbandonIInv, ZenonT(30) DEF Step
<1>2. CASE UNCHANGED keyVars
  BY <1>2, SMT DEF keyVars, mapVars, KeyInv, KeyTypeOK, NobodyStranded,
     SeenHasPrimary, LinkTargetsInPlace, Outstanding, InPlace
<1> QED
  BY <1>1, <1>2 DEF KeyNext, Drained

-----------------------------------------------------------------------------
\* The hardlink map's inductive invariant holds however the decide workers
\* and the fetchers interleave between two of its methods.
THEOREM HardlinkSafe == KeySpec => []KeyInv
<1> QED
  BY KeyInitInv, KeyNextInv, PTL DEF KeySpec

\* While an entry is parked on the key, some primary of the key will still
\* register its path or abandon the list (registerMaterialised, abandon).
THEOREM ParkedAreServed == KeySpec => []NobodyStranded
<1>1. KeyInv => NobodyStranded
  BY DEF KeyInv
<1> QED
  BY <1>1, HardlinkSafe, PTL

\* Every path a link is made to holds published content, also when the path
\* was read before the key was cleared or abandoned (MakeHardlink).
THEOREM LinksHaveContent == KeySpec => []LinkTargetsInPlace
<1>1. KeyInv => LinkTargetsInPlace
  BY DEF KeyInv
<1> QED
  BY <1>1, HardlinkSafe, PTL

\* A key that makes entries park has a primary under way or a path
\* (claimSecondary, clear).
THEOREM KeysHavePrimaries == KeySpec => []SeenHasPrimary
<1>1. KeyInv => SeenHasPrimary
  BY DEF KeyInv
<1> QED
  BY <1>1, HardlinkSafe, PTL
=============================================================================
