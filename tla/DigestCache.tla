----------------------------- MODULE DigestCache -----------------------------
(***************************************************************************)
(* The digest cache (digest/cache.go) and its only user, HashFile          *)
(* (digest/hash.go): a map from the identity of a file version to its      *)
(* digest, loaded at the start of a run and appended to a file that all    *)
(* runs on a machine share, while somebody else writes the files that are  *)
(* being hashed.  "The cache is advisory for speed but authoritative for   *)
(* [the] skip decision" of the receiver.                                   *)
(*                                                                         *)
(* The cache file is a sequence of items: the header Magic, entries, and   *)
(* Torn, what a failed write leaves.  A record that is out of step with    *)
(* the others fails its checksum, so reading stops at the first item that  *)
(* is not an entry.  A digest tells contents apart; it is the content.     *)
(*                                                                         *)
(* External: a change of a file gives it a ctime it never had, whatever    *)
(* becomes of its mtime.                                                   *)
(***************************************************************************)
EXTENDS Naturals, Sequences

CONSTANTS
    Process,    \* runs of esync on this machine, one after the other in each
    Worker,     \* goroutines that hash
    Owner,      \* Owner[w]: the process of w
    Algo,       \* hash algorithms (--hash)
    Inode,      \* files
    Block, Content,  \* contents are sequences of blocks
    Magic, Torn, NoJob,
    MaxWrites,  \* bound: changes of files
    MaxRuns,    \* bound: runs
    MaxFaults   \* bound: calls on the cache file that fail

ASSUME CacheAssumption ==
    /\ Owner \in [Worker -> Process]
    /\ Content \subseteq Seq(Block)
    /\ Magic # Torn
    /\ {MaxWrites, MaxRuns, MaxFaults} \subseteq Nat

VARIABLES
    content, mtime, ctime,  \* the files
    clock,                  \* the last ctime given
    exists, db,             \* the cache file
    spoilt,                 \* writing the header of a new file has failed half
                            \* way, or was left out (history)
    at,                     \* at[p]: where p is in OpenCache
    algo,                   \* algo[p]: the algorithm of its runs
    mem,                    \* mem[p]: Cache.m, a set of entries
    handle,                 \* handle[p]: Cache.f is not nil
    job,                    \* job[w]: where w is in HashFile, with the key of
                            \* the file and its digest so far, or NoJob
    runs, faults

fileVars == <<content, mtime, ctime, clock>>
dbVars == <<exists, db, spoilt>>
cacheVars == <<at, algo, mem, handle>>
digestVars == <<fileVars, dbVars, cacheVars, job, runs, faults>>

Key == [file : Inode, size : Nat, mtime : Nat, ctime : Nat, algo : Algo]
Digest == [algo : Algo, data : Seq(Block)]
Entry == [key : Key, digest : Digest]
Job == [at : {"get", "read", "put", "done"}, key : Key, sum : Digest]

ASSUME DistinctAssumption == Magic \notin Entry /\ Torn \notin Entry /\ NoJob \notin Job

\* CacheKey; device and inode are the file itself.
StatKey(f, a) ==
    [file |-> f, size |-> Len(content[f]), mtime |-> mtime[f], ctime |-> ctime[f], algo |-> a]

Sum(a, data) == [algo |-> a, data |-> data]

CacheInit ==
    /\ content \in [Inode -> Content]
    /\ mtime = [f \in Inode |-> 0] /\ ctime = [f \in Inode |-> 0] /\ clock = 0
    /\ exists = FALSE /\ db = <<>> /\ spoilt = FALSE
    /\ at = [p \in Process |-> "down"] /\ algo \in [Process -> Algo]
    /\ mem = [p \in Process |-> {}] /\ handle = [p \in Process |-> FALSE]
    /\ job = [w \in Worker |-> NoJob]
    /\ runs = 0 /\ faults = 0

Fault == faults < MaxFaults /\ faults' = faults + 1

-----------------------------------------------------------------------------
(* Somebody changes a file, and may set its mtime back.                    *)

Write(f) ==
    /\ clock < MaxWrites
    /\ clock' = clock + 1
    /\ \E c \in Content : content' = [content EXCEPT ![f] = c]
    /\ \E m \in {mtime[f], clock + 1} : mtime' = [mtime EXCEPT ![f] = m]
    /\ ctime' = [ctime EXCEPT ![f] = clock + 1]
    /\ UNCHANGED <<dbVars, cacheVars, job, runs, faults>>

-----------------------------------------------------------------------------
(* A run opens the cache, and ends.                                        *)

Begin(p) ==
    /\ at[p] = "down" /\ runs < MaxRuns
    /\ at' = [at EXCEPT ![p] = "load"]
    /\ runs' = runs + 1
    /\ UNCHANGED <<fileVars, dbVars, algo, mem, handle, job, faults>>

\* The positions load gets to, and the entries it leaves in the map: of two
\* with one key the later.
Parsed == {i \in 2 .. Len(db) : \A j \in 2 .. i : db[j] \notin {Magic, Torn}}
Loaded == {db[i] : i \in {i \in Parsed : \A j \in Parsed : j > i => db[j].key # db[i].key}}

\* A file that cannot be read or has no header is not used, not even for
\* writing.
Load(p) ==
    /\ at[p] = "load"
    /\ \/ /\ exists => db # <<>> /\ db[1] = Magic
          /\ at' = [at EXCEPT ![p] = "open"]
          /\ mem' = [mem EXCEPT ![p] = Loaded]
       \/ /\ at' = [at EXCEPT ![p] = "ready"]
          /\ UNCHANGED mem
    /\ UNCHANGED <<fileVars, dbVars, algo, handle, job, runs, faults>>

\* The directory or the file may not be writable.
OpenFile(p) ==
    /\ at[p] = "open"
    /\ \/ exists' = TRUE /\ at' = [at EXCEPT ![p] = "stat"]
       \/ UNCHANGED exists /\ at' = [at EXCEPT ![p] = "ready"]
    /\ UNCHANGED <<fileVars, db, spoilt, algo, mem, handle, job, runs, faults>>

\* Mutant of StatSize: a file that exists has its header.
StatSizeTrusts(p) ==
    /\ at[p] = "stat"
    /\ at' = [at EXCEPT ![p] = "ready"]
    /\ handle' = [handle EXCEPT ![p] = TRUE]
    /\ UNCHANGED <<fileVars, dbVars, algo, mem, job, runs, faults>>

\* f.Stat: an empty file gets its header.  If the call fails the file is used
\* as it is.
StatSize(p) ==
    /\ at[p] = "stat"
    /\ \/ /\ at' = [at EXCEPT ![p] = IF db = <<>> THEN "magic" ELSE "ready"]
          /\ handle' = [handle EXCEPT ![p] = db # <<>>]
          /\ UNCHANGED <<spoilt, faults>>
       \/ /\ Fault
          /\ at' = [at EXCEPT ![p] = "ready"]
          /\ handle' = [handle EXCEPT ![p] = TRUE]
          /\ spoilt' = (spoilt \/ db = <<>>)
    /\ UNCHANGED <<fileVars, exists, db, algo, mem, job, runs>>

\* The header may not be written, or not all of it: the file is then closed.
WriteMagic(p) ==
    /\ at[p] = "magic"
    /\ \/ /\ db' = Append(db, Magic) /\ handle' = [handle EXCEPT ![p] = TRUE]
          /\ UNCHANGED <<spoilt, faults>>
       \/ Fault /\ UNCHANGED <<db, spoilt, handle>>
       \/ /\ Fault
          /\ db' = Append(db, Torn) /\ UNCHANGED handle
          /\ spoilt' = (spoilt \/ db = <<>>)
    /\ at' = [at EXCEPT ![p] = "ready"]
    /\ UNCHANGED <<fileVars, exists, algo, mem, job, runs>>

\* The run ends, by Close or because the process dies.
End(p) ==
    /\ at[p] # "down"
    /\ at' = [at EXCEPT ![p] = "down"]
    /\ mem' = [mem EXCEPT ![p] = {}]
    /\ handle' = [handle EXCEPT ![p] = FALSE]
    /\ job' = [w \in Worker |-> IF Owner[w] = p THEN NoJob ELSE job[w]]
    /\ UNCHANGED <<fileVars, dbVars, algo, runs, faults>>

-----------------------------------------------------------------------------
(* HashFile.                                                               *)

In(w, step) == job[w] # NoJob /\ job[w].at = step
Goes(w, step) == job' = [job EXCEPT ![w].at = step]
Returns(w, digest) == job' = [job EXCEPT ![w].at = "done", ![w].sum = digest]

Stat(w, f) ==
    LET a == algo[Owner[w]] IN
    /\ at[Owner[w]] = "ready" /\ (job[w] = NoJob \/ In(w, "done"))
    /\ job' = [job EXCEPT ![w] = [at |-> "get", key |-> StatKey(f, a), sum |-> Sum(a, <<>>)]]
    /\ UNCHANGED <<fileVars, dbVars, cacheVars, runs, faults>>

Hits(w) == {e \in mem[Owner[w]] : e.key = job[w].key}

\* Mutant of Get: the ctime is not compared.
GetOldest(w) ==
    LET hits == {e \in mem[Owner[w]] : e.key = [job[w].key EXCEPT !.ctime = e.key.ctime]} IN
    /\ In(w, "get")
    /\ \/ hits = {} /\ Goes(w, "read")
       \/ \E e \in hits : Returns(w, e.digest)
    /\ UNCHANGED <<fileVars, dbVars, cacheVars, runs, faults>>

Get(w) ==
    /\ In(w, "get")
    /\ \/ Hits(w) = {} /\ Goes(w, "read")
       \/ \E e \in Hits(w) : Returns(w, e.digest)
    /\ UNCHANGED <<fileVars, dbVars, cacheVars, runs, faults>>

\* The next block of the file as it is now, or its end.
Read(w) ==
    /\ In(w, "read")
    /\ LET now == content[job[w].key.file]
           n == Len(job[w].sum.data) + 1
       IN  \/ n <= Len(now) /\ job' = [job EXCEPT ![w].sum.data = Append(@, now[n])]
           \/ n > Len(now) /\ Goes(w, "put")
    /\ UNCHANGED <<fileVars, dbVars, cacheVars, runs, faults>>

\* A read error, or the session is cancelled.
ReadFails(w) ==
    /\ In(w, "read")
    /\ job' = [job EXCEPT ![w] = NoJob]
    /\ UNCHANGED <<fileVars, dbVars, cacheVars, runs, faults>>

\* An entry goes into the map, and to the file while that can be written.
Insert(p, e) ==
    /\ mem' = [mem EXCEPT ![p] = @ \cup {e}]
    /\ \/ ~handle[p] /\ UNCHANGED <<db, handle, faults>>
       \/ handle[p] /\ db' = Append(db, e) /\ UNCHANGED <<handle, faults>>
       \/ /\ handle[p] /\ Fault
          /\ db' \in {db, Append(db, Torn)}
          /\ handle' = [handle EXCEPT ![p] = FALSE]

\* Mutant of Put: the file is examined after it was read.
PutRestat(w) ==
    LET now == StatKey(job[w].key.file, job[w].key.algo) IN
    /\ In(w, "put")
    /\ Insert(Owner[w], [key |-> now, digest |-> job[w].sum])
    /\ Goes(w, "done")
    /\ UNCHANGED <<fileVars, exists, spoilt, at, algo, runs>>

Put(w) ==
    /\ In(w, "put")
    /\ \/ Hits(w) # {} /\ UNCHANGED <<mem, db, handle, faults>>
       \/ Hits(w) = {} /\ Insert(Owner[w], [key |-> job[w].key, digest |-> job[w].sum])
    /\ Goes(w, "done")
    /\ UNCHANGED <<fileVars, exists, spoilt, at, algo, runs>>

-----------------------------------------------------------------------------
Hash(w) == Get(w) \/ Read(w) \/ ReadFails(w) \/ Put(w)
Opening(p) == Load(p) \/ OpenFile(p) \/ StatSize(p) \/ WriteMagic(p)

CacheNext ==
    \/ \E f \in Inode : Write(f) \/ \E w \in Worker : Stat(w, f)
    \/ \E p \in Process : Begin(p) \/ Opening(p) \/ End(p)
    \/ \E w \in Worker : Hash(w)

CacheSpec == CacheInit /\ [][CacheNext]_digestVars

-----------------------------------------------------------------------------
(* Properties. *)

Recorded == {db[i] : i \in {i \in DOMAIN db : db[i] \notin {Magic, Torn}}}
Entries == Recorded \cup UNION {mem[p] : p \in Process}

\* Every variable has its type; a worker hashes with its session's algorithm.
TypeOK ==
    /\ content \in [Inode -> Content]
    /\ mtime \in [Inode -> Nat] /\ ctime \in [Inode -> Nat]
    /\ clock \in Nat /\ runs \in Nat /\ faults \in Nat
    /\ exists \in BOOLEAN /\ spoilt \in BOOLEAN /\ db \in Seq({Magic, Torn} \cup Entry)
    /\ at \in [Process -> {"down", "load", "open", "stat", "magic", "ready"}]
    /\ algo \in [Process -> Algo]
    /\ mem \in [Process -> SUBSET Entry] /\ handle \in [Process -> BOOLEAN]
    /\ job \in [Worker -> {NoJob} \cup Job]
    /\ \A w \in Worker : job[w] # NoJob => job[w].key.algo = algo[Owner[w]]

\* "no incorrect skip" (doc/ARCHITECTURE.md, F-CACHE-01): an entry, in any
\* map or in the file, whose key a file has now holds the digest of what the
\* file holds now, although files change while they are hashed and entries of
\* hashes that a change ran into are kept.
CacheTrue ==
    \A e \in Entries, f \in Inode :
        e.key = StatKey(f, e.key.algo) => e.digest = Sum(e.key.algo, content[f])

\* What HashFile returns, from the cache or not, is the digest of the file,
\* with the algorithm of the session, unless the file has changed since it
\* was examined.
ResultTrue ==
    \A w \in Worker, f \in Inode :
        LET now == StatKey(f, algo[Owner[w]]) IN
        In(w, "done") /\ job[w].key = now => job[w].sum = Sum(now.algo, content[f])

\* A file that a run writes to, or that holds a record, starts with the
\* header.  The code does not ensure it: of two runs that create the file one
\* may fail in the middle of the header, and the other then finds a file that
\* is not empty and appends to it; no run will ever read it.
HeadedAlways ==
    (\E p \in Process : handle[p]) \/ Recorded # {} => db # <<>> /\ db[1] = Magic

\* HeadedAlways, as long as no header was torn and no size unknown: two runs
\* that create the file at the same time, in any order of their steps, do not
\* write records into a file without a header (OpenCache: the size is tested
\* and the header written without a lock).
Headed == ~spoilt => HeadedAlways

\* Every record is one that a later load gets to.  Not so, even when nothing
\* fails: two runs that create the file both write the header, and load stops
\* at the second, as at a torn record.
RecordsReadable == \A i \in DOMAIN db : db[i] \notin {Magic, Torn} => i \in Parsed
=============================================================================
