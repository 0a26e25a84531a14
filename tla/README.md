# esync in TLA+

esync copies a directory tree once from a *sender* to a *receiver* over a LAN.
This directory holds TLA+ models of its concurrent core, the TLC instances that
check them, and TLAPS proofs of the central invariants. Paths below are relative
to `src/internal/`; "ARCH" is `src/doc/ARCHITECTURE.md`.

## 1. The system

A session has one control connection and N data connections.

| Part | Code | State | Operations | Talks to |
|---|---|---|---|---|
| walk, plan | `sender/walk.go`, `plan/` | entries, group boundaries | one scan before pairing | publisher |
| manifest publisher | `sender/manifest.go`, `creditGate` | credit | acquire, hash, publish a group | decide pool |
| decide pool | `receiver/decide.go` | hardlink map, metadata | decide a group: GROUP_DECISION, push, CREDIT | queue, tracker |
| hardlink map | `receiver/decide.go`, `hlfallback.go` | paths, seen keys, primaries, parked entries | pathFor, claimSecondary, markPrimary, clear, abandon, registerMaterialised | decide pool, fetchers |
| need queue | `receiver/queue.go` | items, inflight, closed, two condition variables | pushGroup, pushFallback, requeue, pop, done, close, waitDrained | decide pool, fetchers, pipeline |
| fetch workers | `receiver/fetch.go` | the file in hand, its attempts | request, stream, verify, publish, retry, fail | queue, servicers |
| data channels, tuner | `receiver/run.go`, `tune.go` | live workers | add, lose, rejoin, retire, E3005 | queue |
| servicers | `sender/serve.go` | the open request | stream a file or say why not | tracker |
| completion tracker | `sender/state.go` | decisions, open requests, resolved files | decision, reqStarted/Completed/Failed/Cancelled, wait | main goroutine |
| session end | `sender/run.go`, `receiver/run.go` | contexts, first error, exit codes | summary, acknowledgement, comparison, abort | both processes |
| journal, destination | `fsx/` | complete.log, part files | append, sync, publish, clear | fetchers |
| channel, record layer, handshake | `channel/`, `crypto/` | sequence numbers, keepalive clock | send, receive, ping, close | everything |
| digest cache | `digest/` | map, cache file shared by all runs | load, get, put; HashFile | publisher, decide pool, other runs |
| pairing, wire codec, obs, CLI | rest | | conversions and I/O | |

What makes it hard: queue operations, channel loss, rejoin and the tuner run
concurrently; the sender and the receiver account for the same files separately
and compare only at the end; nothing orders the control channel with the data
channels; a hardlink that cannot be made becomes a request nobody announced;
either process may be interrupted or killed at any point. `PROJECT.json` lists
these hazards at the lines where they bite.

## 2. Modules

| Module | Models | Proofs | Instances |
|---|---|---|---|
| `WorkPool` | abstract: what the need queue promises | | via `NeedQueue!Pool` |
| `NeedQueue` | queue, fetch loop, decide workers as pushers, channels and tuner, pipeline.wait | `NeedQueueProofs` | `MCNeedQueue` |
| `Tracker` | tracker, servicers as its callers, tracker.wait | `BookkeepingProofs` | `MCTracker` |
| `HardlinkMap` | the map for one key, decideFile, fetchers as its callers | `ContentProofs` | `MCHardlinkMap` |
| `Session` | both processes from the first decision to their exit codes | `SessionProofs`, `SessionEndProofs` | `MCSession` |
| `CreditFlow` | manifest publisher, credit gate, both control readers, decide workers, space guard | `BookkeepingProofs` | `MCCreditFlow` |
| `Resume` | journal, part files and publication over a sequence of runs | `LinkingProofs` | `MCResume` |
| `Linking` | dialling, handshake, channel joins, loss, rejoin and tuning of data channels | `LinkingProofs` | `MCLinking` |
| `DataStream` | the stream of one data channel, its errors and its ends | `ContentProofs` | `MCDataStream` |
| `Scan` | the walk of the source, filters, order and groups of the plan | `ScanProofs`, `PlanProofs` | `MCScan` |
| `DigestCache` | the digest cache and HashFile, over runs that share one cache file | `ContentProofs` | `MCDigestCache` |

**Composition.** `NeedQueue` is shown to implement `WorkPool` (refinement
mapping at its end), and `Session` uses the queue as such a pool (`pool[f]`).
`Tracker` shows the tracker's methods to be sound as atomic steps, and `Session`
uses them so. `HardlinkMap` interleaves what `Session` decides in one step.
`CreditFlow` composes publisher, wire, decide pool, space guard and queue, with
the queue as a bounded counter; the channel events `NeedQueue` takes as given
(loss, rejoin, retirement) come about in `Linking`, and the ends of a fetch in
`DataStream` and, for what they leave on disk, in `Resume`. The comparison of
digests by which `Resume` finds a file in place is what `DigestCache` justifies.

**Definitions marked "Mutant of X"** are wrong variants of X. No specification
uses them; each shows that some property would notice that mistake.

### NeedQueue

A goroutine's stretch between taking the mutex and releasing it (or `Wait`) is
one action. Sleepers are explicit: `worker[w] = "asleep"` runs again only after
a broadcast (`WokenWorkers`, `WokenPipeline`, `WokenGroups`). Cancellation wakes
a sleeper by `context.AfterFunc`, a later step (`WakeNotEmpty`, `WakeNotFull`).
`Pop`, `Done`, `Requeue`, `PushGroup`, `PushFallback`, `Close`, `WaitDrained`
are the methods. `FetchEnds` is how the fetch loop leaves a file: published,
failed, retried, channel lost, cancelled, fatal. `AddChannel`, `RejoinEnds`,
`LastChannelRetired` and `Retire` are the channel lifecycle.

Abstractions: a data channel is a slot, and the replacement connection reuses
it; leaving the loop and removal from the worker list are one step; a worker
being retired still counts as live, as in the code; which channel the tuner
opens or retires follows the code (the newest), when it does is arbitrary; the
retry delay is not a state. Bounds: `MaxRequeues`, `MaxLosses`, `MaxRetires`.

### Tracker

One action per method. `reqStarted`, `reqCompleted`, ... are followed by `Bump`
as a step of its own, since the code bumps after the unlock. `progress` is kept
as `moved`: whether it changed since `wait` last read it. `WaitTimer` and
`WaitSample` separate the expiry of the timer from the reading of the counter.
FILE_CANCEL is modelled as the sender handles it, although this receiver never
sends one (`src/ROI-fixes-Review-20260922.md:115`). A request for an unknown
file (E5007) is not modelled: a receiver with the same plan never makes one.

### HardlinkMap

One key. An entry's `stage` is where it is in `decideFile` or what became of it.
`PathFor`, `ClaimSecondary`, `MarkPrimary`, `Clear`, `RegisterMaterialised` and
`Abandon` are the methods; between them anything may happen. `MakeHardlink` may
fail (`LinkFails`), and content may fail for good or find no space
(`FetchFails`). Dry runs, which use no links, are left out. `Drained` does not
ask whether entries are still parked: neither does the code.

### Session

Sender: `ReadRequest`, `Serve`, `Record` per data channel, in this order, so
that a reply is on its way before the tracker knows of it; `SenderReads` is the
control reader; `SendSummary`, `WaitFails`, `AwaitAck` the main goroutine.
Receiver: `Decide`, `Fetch`, `Consume`, `Publish`, `Retry`, `FileFails`,
`FetchFatal`, `Cancelled`; `ReceiverReads`; `PipelineEnds`, `ReceiverFails`,
`Reconcile`. `SenderMishap` and `ReceiverMishap` are a signal, a kill, a reset
and a cut. Where a Go `select` has several ready cases, any is taken.

A cancelled context stops nobody at once: deciders and fetchers finish the step
they are in, as in the code. A completion digest is the set it is a digest of.
Fault codes are the representatives of their classes: E6003 (source gone for
good), E6004 (source unreadable, retryable), E8001 (verification, retryable),
E7002 (destination, not retryable), E7003 (no space, fatal), E7009 (link).

Left out here: manifests and credit (a group may be decided at any time); loss
of a data channel; the journal; unreadable source entries (they only turn an
exit 0 into 1); the wait for SCAN_COMPLETE. There is one hardlink key, with at
most one entry in a group. `Patient = TRUE` lets timeouts expire only when the
session stands still; `FALSE` lets them expire at any time.

### CreditFlow

`Loop`, `SendScan`, `Acquire`, `AcquireWoken` and `Publish` are the publisher,
asleep on the gate where the code sleeps; `SenderReads` applies GROUP_DECISION
and CREDIT. On the receiver `ReadScan` and `ReadManifest` feed `manifestCh`,
which the later of SCAN_COMPLETE and the last manifest closes (`Complete`). A
decide worker goes through `Take`, `SendDecision`, `ReserveGroup` (or
`SyncFails`), `PushGroup` and `SendCredit`, one step each. `FetchFallback` is a
link that failed and claims space of its own. `FetchFile` makes room in the queue.
`SenderFails` and `ReceiverFails` are failures from elsewhere, at most
`MaxFailures`; contexts then end every party as in the code.

Manifests travel in plan order over a FIFO, so that direction is three counters;
the answers, which several workers write, are a sequence. A plan has up to
`MaxGroups` groups, each with a need from `Needs`, chosen when it is decided.

### Resume

One destination, and one receiver process after another. `OpenJournal` has the four
outcomes of the code (no journal, unreadable, same manifest, other manifest);
session.json is created and filled in two steps; a removal takes the entries of
`.esync` one by one in any order. `DecideGroup` skips what the journal or the
tree has, `OpenPart`, `Receive`, `PublishPart` and `MarkComplete` follow a file,
`Stop`, `Reconciled` and `Exit` end a run. Between two runs the source may
change (`Begin`): other entries, and so another manifest digest, or another
content under the same digest, which is made of paths, sizes and times
(`Sources`, `Plan[m][i].contents`). Faults: `kill` at any step, removals
included, `fatal`, `item` (a file fails), `short` (half a record is written) and
`remove`: `RemoveAll` stops at an entry, which is fatal for Open and is logged
by Clear (`RemoveFails`). Two history variables tell what a run was up against:
`orphaned` is set when a removal is cut short between session.json and
complete.log, `uncleared` when Clear has failed. Contents are told apart by
their digests. Sync is not an action: a killed process loses
nothing it wrote, and a loss of power is not modelled.

### Linking

A connection is a candidate dial, a data connection or a stranger's; `phase`
is the last message exchanged on it and `open` the ends that hold it. Sender:
`Accept`, `ServerHello`, `RejectHandshake`, `Paired`, `AcceptChannel`,
`RejectJoin`, `ListenerDeadline`, `ServicerEnds`, `ServicerFails`. Receiver: `DialEndpoint`,
`ClientConfirm`, `TakeOutcome` with the drain of the losers, `Params`,
`DialInitial`, then `AddChannel`, `Joined`, `GiveUp`, `JoinFails`,
`WorkerLost`, `StreamEnds`, `WorkerEnds`, `RejoinAttempt`, `RejoinExhausted`, `RampUp`,
`RampDown`, `TunerAdds`, `Drain`, `PipelineDone`, `Done`. `Id` wraps at
`IdSpace` (256 in the code). Who has the code passes a handshake and who has
not fails; a stranger speaks or closes. Once the session runs, a connection
accepted for a join has no deadline, so a silent one parks the accept loop until
it speaks (`Parked`, `StrangerSpeaks`). A channel that breaks (`Lose`, or a
dial given up after the sender has accepted it, is `cut`) is noticed by either
end in either way the code has: as a loss, after which the receiver rejoins, or
with a code, which is fatal to that side (`ServicerFails`, `StreamEnds`). Goodput, which decides when the tuner
ramps, is a choice. Backoff delays are not states. `MaxDials` follows from the
other bounds and never stops a dial that they allow. A worker that ends is
removed by its channel id, as in `removeWorker`.

### DataStream

One fetcher and one servicer at a time. `Serve` answers with an error or a
header, `SendChunk`, `Terminal`; `Request`, `Header`, `Chunk`, `Complete`,
`Other` are the fetcher; `FetchError` and `ChannelLost` are the two ways out of
`fetcher.loop` for a file that was not published. `Break` ends the connection
with a CLOSE, a bare end of stream or a reset, or stalls it; a servicer left in
the middle of an answer is an orphan until its next write fails
(`OrphanEnds`). Files are sequences of chunks `<<f, i>>`; a part file keeps what
an earlier attempt wrote until it is truncated. Codes are those the code
distinguishes (`Fatal`, `Retryable`); E7001 also stands for E7008, which has the
same class.

### Scan

`Enter`, `WalkDirectory`, `WalkLeaf`, `FollowLink`, `Ignore` and `Return` walk
an arbitrary tree whose objects may be unreadable or vanish between `ReadDir`
and `Lstat`; `Build` is `plan.Build` in one step: decisions with pruning, order
and groups. The sort puts each entry in the place its rank gives it (no two
paths are equal, so stability does not matter); the loops of `filterAdmits` and `computeGroups` are
recursive functions, one turn of the loop each. `PlanExact` and `GroupsExact`
compare with definitions that are not algorithms: an entry is planned iff it was
walked and neither it nor a directory above it is excluded (a directory with a
name that the system set has for files does not count as one above it, section
6); the groups run from the first entry to the last without a gap, each a
longest run within the limits. Names are
numbers with a normal form, patterns are sets of what they match. A source that
is a single file, `skipAbs` (nothing sets it), the plan digest, and FileID and
GroupID (used by tests only) are left out.

### DigestCache

Processes start runs, open the cache in four steps (`Load`, `OpenFile`,
`StatSize`, `WriteMagic`) and end at any time; workers go through HashFile
(`Stat`, `Get`, `Read` block by block, `Put`), while `Write` changes a file
between any two of these steps. A key is what `statKey` takes: the inode, size,
mtime, ctime and algorithm. The cache file is a sequence of the header, records
and torn records. A failed write leaves nothing or a torn record, and disables
writing; a failed `Stat` leaves the file as it is and in use. `spoilt` remembers
that a header was torn or left out. The records of two runs interleave, since each is one append. As in the
code, two runs that create the file may both write a header, a record behind
the second header or a torn record is not loaded any more, and a file without a
header is not used.

Assumed of the file system: a change and its ctime are one step, and no version
of a file has the ctime of an earlier one; mtime may be set back. So two changes
within one tick of the clock that stamps ctime are left out: the code compares
nanoseconds and relies on the same (`digest/cache.go:33`). A digest is the
content it was computed from.

## 3. Runs

| Run | Shows |
|---|---|
| `queue` | no file lost or duplicated, no lost wake-up, while channels are lost and rejoined and the tuner retires and opens others; the queue implements `WorkPool`; it is left without a worker only if a loss meets a retirement (`StarvingTakesBoth`), and otherwise the pipeline ends with all workers gone |
| `tracker_session` | the end of the session is declared exactly when it is reached; `tracker.wait` returns unless the session keeps moving |
| `links_key` | nobody parks behind a primary that will not report; links only to content in place; every entry is placed or counted |
| `session_faults` | every fault of both sides, hardlinks that fail: exit 0 or 1 accounts for every missing file; a disagreement is never a success |
| `session_plain` | sources that vanish or cannot be read, failed verifications, failed links, rejected entries, no mishap: a process exits 2 only for one of the causes the code has (`FatalForCause`), an acknowledged exit 0 means delivered; without failures everything is in place and the exit codes say so |
| `session_mishaps` | kills, signals, resets and cuts at any point, with hardlinks and every kind of fault: a receiver's exit 0 means every file is there, except after a sender that a signal ended, and then what can be missing is bounded (`SuccessIsComplete`); both processes end |
| `credit_flow` | outstanding manifests stay within the credit (INV-2); the pool gets every group before its channel closes; the claims of concurrent groups fit the disk; publisher, pool and queue never wait for each other in a circle, whoever fails |
| `resume_runs` | what a run compared or fetched has the content of the source, and what it skips on the word of the journal has a content the digest allows; no path shows a partial file; repeated runs end with everything in place |
| `linking` | both processes agree on one session; no channel id is admitted twice; a connection that is kept has a reader, and the WaitGroup covers every worker; both get linked and end |
| `stream` | what a fetcher reads answers its own request; what is published is whole; a file fails only for errors of its own; every file is delivered or reported, or the session fails |
| `scan` | the walk ends whatever links point to, owes nothing, and each path leads to the object it names; the plan is exactly what was walked and not excluded, parents included, in one strict order (but for directories named like system files); its groups partition the plan into the longest runs within the limits |
| `digest_cache` | no entry of the cache is stale, although files change while they are hashed; HashFile returns the digest of the file unless it changed since it was examined; no run writes records into a cache file without a header, unless a header was torn or left out |

**Bounds.** Two channels are needed for one to be lost or busy while the other
works, three files in two groups for a group to be decided late, one retry for
exhaustion to be reached. A queue of two entries with a group of two fills up at
once. The tracker has three request ids for two files, so a file can be
requested again. The map has four entries and three decide workers.
`session_plain` has four files: a hardlinked pair, one more and one that is
rejected. `session_mishaps` has the pair and one data channel to keep the graph small
enough for liveness. `credit_flow` has more groups than credit, a queue one
group fills, and a disk two groups overrun. `resume_runs` has two plans with one
path in common under another id and with another content, an entry of which two
contents have the size and time, three faults and two changes of
the source, so that a run for the other plan comes between two for one.
`linking` has two endpoints, a stranger, ids that wrap after the third
connection, and one loss, one ramp and one expired deadline, which all
interleave. `stream` has a file of two chunks and an empty one, one retry, and
each way to break once. `scan` takes every tree of four objects with up to two
links; fewer objects admit no link cycle beside a pruned directory.
`digest_cache` has two processes that may use different algorithms, one file of
two blocks so that a change can come between them, one failed write, and two
runs, so that one may load what the other wrote or both create the file.
`DepthBound` is not met by an instance of such a size and is left to its proof.
Symmetry is used only in runs without liveness, over sets whose members the
specifications do not tell apart.

**Fairness.** Weak fairness of each goroutine's steps (the Go scheduler), of
fetches (every receive has a stall timeout), of rejoin (three timed attempts)
and of timers. In `Session` and `Linking`, where everything that can repeat is bounded
and a behaviour comes to rest, one condition on all these steps together says the
same. In `Resume` the operator repeats a run that was not a success,
which is what the program tells them to do. Nothing is assumed of
cancellations, losses, retirements, failures, kills or mishaps, which their
bounds make finite. `links_key` assumes that a fetch ends one way or another.

**Deadlock** is checked except in `linking`, `stream`, `scan` and
`digest_cache`, whose behaviours end; their liveness properties, or the exactness of the
result, say that they end in the right place. Elsewhere a finished system
stutters.

## 4. Proofs

For every value of the constants that satisfies the modules' assumptions
(finite sets, groups with disjoint needs; see each `ASSUME`). Eight modules hold
the proofs. Where one holds the proofs of several components these share no
variable or constant. Each begins with `USE ZenonT(30)`: Zenon checks the leaves that
name no prover, and `SMT` marks those that need arithmetic, sequences or updates
of functions. A step without a number is a fact that the rest of its level uses
throughout.

- **`NeedQueueProofs`**: `QueueSafe` (`Spec => []IInv`), and from it
  `QueueTypes`, `ItemsConserved`, `WakeupsSuffice`, `DrainReportFinal`,
  `InflightCounted`, `ClosedBehindDeciders`, `DepthBounded`. `EachItemOnce`
  alone is not inductive: that a push adds new files needs `ClosedLast` and the
  state of the group; that "drained" is final needs the exact in-flight
  counter, since a fallback comes from a holder; `NoLostWakeup` needs it too,
  because `done` broadcasts only when it drains.
  Its second part builds on that. `QueueImplementsPool` is the refinement of
  `WorkPool`: under `IInv` each action moves files between the three sets the
  mapping is made of as one step of the pool does, or leaves them alone
  (`PoolAdds` and its companions, then one case per action). `DrainedForGood`:
  a drained queue stays drained. `StarvationNeedsBoth`: the invariant `Manned`
  says that, while the session is well and has work, some channel is not out as
  long as none was retired, and that as long as none was lost the oldest channel
  is up and not retired. The second half needs that ages order the channels and
  that `retireOne` takes the newest; the first, that the last worker to give up
  rejoining fails the session.
- **`BookkeepingProofs`** has two parts.
  *CreditFlow*: `CreditBound`, `Conservation`, `BufferBound`,
  `ClosedInOrder`, `Typed`. The bound follows from conservation and from
  `Exchange`: every group that was taken has its answers in exactly one place
  (with a worker, on the wire, or applied), and its CREDIT behind its decision.
  `BufferBound` is why the control reader never blocks on `manifestCh`.
  `PoolDecides` adds `Duty`: in a session that is well, a group that was taken
  has been told to the sender or is with a worker that will tell it, and a
  worker that has left saw the channel closed and empty. `DiskNeverOverrun`
  needs a sum over the workers between `reserve` and `pushGroup`, which would be
  a recursion; `Space` replaces it by disjoint sets of places on the disk, below
  the running requirement, one set per worker and one for the bytes pushed.
  *Tracker*: `TrackerSafe`, and from it `TrackerTypes`,
  `CountersAgree`, `EndIsSound`, `EndIsNotMissed`, `NothingForgotten`,
  `EndsAreResolved`, `EndIsFinal`. The strengthening is `ServingAsked` (who
  works on which request) with `WorkTracked`: only so does completing a request
  that was cancelled before leave the file resolved.
- **`LinkingProofs`** has two parts.
  *Linking*: `KeysAreFresh` (the sender's set of accepted ids holds
  the id of every accepted connection), `WaitIsFinal`, and `SessionShared` with
  its invariant `SInv` (`LinkSafe`). `Alone` is the heart of it: without an
  expired deadline the connection the sender has answered is the only one past
  CLIENT_HELLO, and stays open on the sender's side. `Race` counts the outcomes
  against the endpoints that are done, so that losing is declared only when all
  have lost.
  On top of that, `NothingLeaks`: a data connection is dialled once, so it is
  a pending join, then one worker, then gone (`Members`); with that the count of
  `chWg` follows every path (`Counted`). Removal by channel id takes the right
  worker because ids are fresh.
  *Resume*: `SkipsAreTrue`, `LogIsTrue`, `WholeFiles`,
  `SuccessIsComplete`, for any plans and any number of runs, kills, failed
  removals and changes of the source. The invariant ties the log to the digest
  of session.json, also while no process runs, and says that a log without one
  is either about to be removed or known to be orphaned (`NoOrphan`). Records
  are believed as far as the digest goes: `Here(i).contents`, not `source[i]`.
- **`ContentProofs`** has three parts.
  *DataStream*: `InStep`, `WholeOnly`, `OwnErrors`. The invariant
  describes all that may be on the wire: nothing, or a prefix of the answer to
  the one request that is open, its chunks counted from what was written.
  *DigestCache*: `CacheIsTrue`, `ResultIsTrue`, `FileIsHeaded`. No key that
  was ever taken has a ctime after the last one given, so a change takes a file
  out of reach of every key there is; and what a worker has read of a file that
  still has the worker's key is a prefix of it. That a run with a handle has
  seen the file nonempty, or has written the header itself, keeps records from
  coming first, as long as no header was `spoilt`.
  *HardlinkMap*: `HardlinkSafe`, `ParkedAreServed`, `LinksHaveContent`,
  `KeysHavePrimaries`. `SeenHasPrimary` is the strengthening: an entry parks
  because a primary has yet to report, and a primary that reports takes the
  whole list.
- **`ScanProofs`** and **`PlanProofs`**, for every finite tree, every rule, limit and option
  (`SourceAssumption` says what a file system guarantees: one parent and one name
  for every object, no directory below itself, resolved links;
  `OptionsAssumption` gives types):
  `ScanKeeps` (`ScanSpec => []ScanInv`) in the first, and from it `WalkIsExact`,
  `PlanIsExact` and `GroupsAreExact` in the second. None of the three is inductive.
  That a path leads to its object needs the same of every call under way
  (`Resolve`). That no path is sent twice needs `Nested`, by which what an outer
  call has still to look at has another name than the way the inner calls went,
  and `Fresh`, by which nothing was sent at or below it. The bound on the depth
  needs `Jumping`: a call whose directory is not in the one of the call around
  it came through a link, and to a directory no other such call has, so every
  call is determined by its directory and the last such call outside it. That
  nothing owed is missing follows from `Sending` (what is in a readable directory
  that was sent is sent or still to be looked at) by going down from the root:
  of the objects above a missing one that are missing too, one has its parent
  not missing. `Planned` ties the plan to the functions `Build` computes, and the
  rest is about these: the order is strict and total on distinct paths, so ranks
  are a bijection onto the places; `underPruned` and the last matching filter
  agree with the rules; the loop of `computeGroups` carries the sums of the open
  group and has closed the earlier ones as late as possible.
  Induction and recursion come from three lemmas at the start: a nonempty set of
  numbers has a least element (`Least`), hence what holds of 0 and is passed on
  holds up to n (`Upto`), and a recursive definition over `0 .. n` has the value
  its equation says (`Recursion`).
- **`SessionProofs`**: `Inductive` (`Spec => []IInv`) and `DisagreementFailsBoth`,
  for any plan, number of data channels, retries, faults, mishaps and patience.
  `Held` ties a data channel's request, service and reply to one file; `Books`
  says that a file of a decided group is in place, queued, parked behind a
  primary that is still to come, or counted as failed (`Gone`); `Protocol` says
  what either side can have heard. Its core is `Disputed`: once the receiver has
  found the digests different, the sender hears of that, in this order, before
  it can hear anything on which it would exit 0 or 1. That needs `Well` (while
  the receiver runs, it has sent decisions only) and `Warned` (a CLOSE on the
  wire follows an ERROR).
- **`SessionEndProofs`**, on top of it, with the invariant `EndInv`, which
  relates the books of the two processes: `Underway` (the decisions on the wire
  are those the sender does not know) and `AllHeard` (every decided group is
  known to it or on its way), `Accounts` (its claim covers everything it was
  asked for, and what is resolved is what was completed or failed), `Served`
  (what the servicers have recorded was fetched, and what the receiver has
  completed they have recorded or are about to) and `Noticed` (the tracker
  declares the end when it has come).
  `SuccessMeansComplete` holds with every fault and mishap. Where the receiver
  was not disturbed everything is `Settled` before it reconciles; where it was,
  it exits 0 only on the sender's word, and `MissingIsStranded` follows a file
  that is missing to one the sender has counted, to a fallback, or to the primary
  it is parked behind. `AckedIsDelivered` assumes that no link fails
  (`"E7009" \notin DestFaults`; `Covered`): a link that fails makes a request
  nobody announced. `CountIsHonest` assumes `Mishaps = {}`, with every fault
  of the files and every timeout: `Calm` says that then no side leaves for a
  dead peer before all is decided.
  `FatalEndsHaveCause` assumes `Mishaps = {}` and timeouts that expire only when
  both processes stand still (`Patient`; the other timeouts are a fact about the
  network), and allows every fault of a file. Its invariant is: a cause has
  arisen, which no step takes back (`CauseStays`), or `PlainInv` holds, by which
  the session neither fails nor stands still before its end: `Known` (the sender is
  asked only for files that are queued), `Final` (a file found gone is given up,
  or about to be) and `Smooth` (whatever either side waits for is in its box or
  on the wire). `QuietIsOver` is the heart of it: when all is drained and nothing
  is on its way the tracker has declared the end; and then the completion
  sets are equal (`BothAgree`), so that no timer expires and no digests differ.

`ItemsConserved`, `WakeupsSuffice`, `QueueImplementsPool`,
`StarvationNeedsBoth`, `EndIsSound`, `EndIsNotMissed`, `ParkedAreServed`,
`LinksHaveContent`, `CreditBound`, `PoolDecides`, `DiskNeverOverrun`,
`SkipsAreTrue`, `WholeFiles`, `KeysAreFresh`, `SessionShared`, `NothingLeaks`,
those of `ContentProofs` about `DataStream` and `DigestCache`, those of the two
session modules but `Inductive`, and those of `PlanProofs`, are about properties
a run checks too; the others are proved only.
Every invariant a run checks is proved, under the assumptions named above. (The
theorem `SuccessIsComplete` of `LinkingProofs` is about one destination over
many runs, the property of that name in `Session` about one session.)
Model-checked only: the liveness properties (fairness and ENABLED are outside
the prover). That a walk ends, for instance, is proved only as far as a bound on
its depth; `scan` explores every walk of its instance to the end.

## 5. Not modelled

- *Wire codec, pairing code, hash functions*: conversions without state. The models
  exchange records, tell contents apart by identity, and take endpoints as given.
- *Cryptography of handshake and records*: keys, tags and sequence numbers. A
  peer has the code or has not; a stream is a FIFO that may end.
- *Keepalive*: two timers; what they do, ending the control connection, is a
  mishap that `Session` and `Linking` allow at any time.
- *Destination rules per name*: path validation, case collisions, directories,
  symlinks, metadata. They decide single entries and nothing waits for them.
- *Loss of power*: what is on disk after it is not determined by the code alone.
- *Logging and command line*: no state these properties are about. Flags are
  constants.

## 6. Where code and documents part

Met while modelling. None is among the runs of section 3; for some of them a
configuration is kept that TLC finds violated.

- `sender/run.go:324`: one part file cannot be written (E7004); the receiver
  leaves the channel in the middle of the answer and would rejoin; the servicer's
  next write fails with E3003 (`crypto/record/record.go:145`), and the sender
  ends the session because the error has a code, against the comment at lines
  325-329 ("This is not a session failure"; `SessionSurvives` in
  `MCDataStream_survives.cfg`). On the other side
  (`receiver/fetch.go:359`) a reset before the first answer is E3003 as well, not
  a lost channel: the worker keeps its dead connection and spends the retries of
  the files it pops. `FailsForCause` therefore speaks of behaviours without
  resets. A bare end of stream is E4005 and fatal. `Linking` allows both outcomes
  of a broken channel on both sides.
- `receiver/run.go:300`: the last-channel test runs at the end of a rejoin loop
  only. If the tuner retires the other channel after that, no worker is left and
  nobody reports E3005, against the comment at line 272 (`NotStarved` in
  `MCNeedQueue_starved.cfg`).
- `sender/run.go:440`: the end of the stream can win the `select` against the
  acknowledgement, and the sender exits 0 with failed files (ARCH:1482;
  `ZeroMeansDelivered` in `MCSession_exit0.cfg`).
- ARCH:1359 says of the failures of single files "Count it, continue, surface it
  in the summary, exit 1 at the end". The code ends a session fatally for some of
  them; `FatalForCause` says for which and that there are no others. A source
  that never reads is reported as a cancelled request (`sender/serve.go:190`) and
  ends in E9002, exit 2, not as one failed file (ARCH:1452; `NoFatalEnd` in
  `MCSession_exhausted_source.cfg`). A link that fails becomes a request the
  sender's tracker does not know (`receiver/hlfallback.go:33`), and the digests
  can differ, exit 2 (ARCH:1360; `NoFatalEnd` in `MCSession_fallback.cfg`). A
  file the receiver rejects until its attempts are used up stays complete in the
  sender's books, and the digests differ.
- `receiver/run.go:782`: after an interrupted sender a fallback may be missing
  and the receiver exits 0 with the journal cleared (`ZeroMeansComplete` in
  `MCSession_abandoned.cfg`, against ARCH:1482). So may a file whose source was
  gone (the same configuration with `SourceFaults = {"E6003"}` and no hardlink):
  a fetcher that reads its FILE_ERROR after the root context is done puts it back
  in the queue, the digests agree because it was never moved, and nobody counts
  it. `SuccessIsComplete` says that nothing else can be missing.
- `fsx/journal.go:150`: a run killed while `.esync` is being removed, or a
  removal that fails, can leave complete.log without session.json. The next run
  keeps that log under its own digest and, after another kill, a third run
  believes it (`SkipCurrent` in `MCResume_orphan.cfg`). `SkipSound` and
  `RecordsTrue` except a log taken over in this way (`orphaned`).
- `receiver/decide.go:263`: a record is believed if the manifest digest matches,
  and that digest is made of paths, types, sizes and times (`plan/plan.go:343`). A
  content that has changed under the same size and time since the record was
  written is skipped (`SkipCurrent` in `MCResume_quiet.cfg`).
- `receiver/run.go:814`: an error of Clear is logged and the run still exits 0;
  what is left of `.esync` is met by the next run (`uncleared` in `Converges`).
- `digest/cache.go:90`: the size of a new cache file is tested and its header
  written without a lock. One of two runs may fail in the middle of the header
  while the other finds a file that is not empty and appends to it, and no run
  ever reads that file (`HeadedAlways` in `MCDigestCache_header.cfg`). Two runs
  that both write the header leave records behind the second, where load stops
  (`RecordsReadable` in `MCDigestCache_twice.cfg`). Results stay right; the cache
  is of no use from there on.
- `plan/plan.go:152`: a directory with a name that the system set has for files,
  such as `.DS_Store`, is excluded without being pruned, so its contents are
  planned without their parent, against the comment at lines 108-110 and ARCH:795
  ("its whole subtree is dropped"; `PlanDocumented` in `MCScan_filerule.cfg`).
- `fsx/journal.go:180`: a half-written line is completed by the next append, so
  the record after it is lost too; its file is fetched again. The journal is also
  cleared when files failed, and the containing directory is not synced after a
  rename.
- `receiver/run.go:286`: the ceiling is tested before the dial, so a rejoin and
  the tuner together can exceed it. Ids only grow, and the sender frees none:
  after `MaxChannels` joins every rejoin is refused.
- `sender/run.go:353`: the connections that rejoin get no deadline for their
  CHANNEL_JOIN, unlike the first ones (`acceptData`, lines 520-525): one that
  stays silent holds up every join behind it (`Parked` in `Linking`).
- `sender/walk.go:155`: a followed link crosses file systems under
  `--one-file-system` (ARCH:789).
