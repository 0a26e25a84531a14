----------------------------- MODULE NeedQueue ------------------------------
(***************************************************************************)
(* The receiver's need queue (internal/receiver/queue.go) with the         *)
(* goroutines that use it:                                                 *)
(*                                                                         *)
(*  - the decide worker of each group, which may push hardlink fallbacks   *)
(*    while it decides and then pushes the group's needed files            *)
(*    (decide.go, decideGroup);                                            *)
(*  - the fetch workers, one per data channel, which pop, fetch, and then  *)
(*    call done or requeue (fetch.go, loop);                               *)
(*  - the pipeline.wait goroutine, which closes the queue once the decide  *)
(*    pool has returned and then blocks in waitDrained (run.go).           *)
(*                                                                         *)
(* Every operation holds the queue's mutex from its first access to its    *)
(* return or to a Wait, so each such stretch is one action.  The two       *)
(* condition variables are explicit: a goroutine asleep in Wait runs       *)
(* again only when somebody broadcasts, so a missing wake-up is a          *)
(* behaviour of this model.  A cancelled context wakes sleepers through    *)
(* context.AfterFunc, that is, in a later step of another goroutine.       *)
(*                                                                         *)
(* Channels come and go: a worker whose channel is lost is replaced by     *)
(* rejoinLoop, the tuner retires workers and opens new ones, and when the  *)
(* last channel is gone the session fails with E3005.  A worker is a slot  *)
(* here: the connection that replaces it reuses the name.                  *)
(***************************************************************************)
EXTENDS Integers, Sequences, FiniteSets, Functions

CONSTANTS
    Worker,         \* the data-channel slots, one fetch worker each
    File,           \* the file ids of the plan
    NumGroups,      \* groups are 0 .. NumGroups-1
    Need,           \* Need[g]: the needed files of group g, in decide order
    Size,           \* Size[f]: the declared size of f
    Secondary,      \* hardlink secondaries, only ever enqueued as a fallback
    Capacity,       \* needQueueDepth
    ChannelsPinned, \* --channels given: the tuner does not run
    MaxRequeues,    \* bound: how often an item is handed back
    MaxLosses,      \* bound: how often a channel is lost
    MaxRetires,     \* bound: how often the tuner retires a channel
    None            \* "holds no item"

Group == 0 .. NumGroups - 1

(***************************************************************************)
(* File ids are unique in a plan, and a group (at most 1024 entries) fits  *)
(* in the queue (4096 entries).                                            *)
(***************************************************************************)
ASSUME QueueAssumption ==
    /\ NumGroups \in Nat
    /\ Capacity \in Nat
    /\ MaxRequeues \in Nat
    /\ MaxLosses \in Nat
    /\ MaxRetires \in Nat
    /\ ChannelsPinned \in BOOLEAN
    /\ IsFiniteSet(Worker) /\ Worker # {}
    /\ IsFiniteSet(File)
    /\ None \notin File
    /\ Secondary \subseteq File
    /\ Size \in [File -> Nat]

ASSUME NeedAssumption ==
    /\ Need \in [Group -> Seq(File \ Secondary)]
    /\ \A g \in Group : IsInjective(Need[g]) /\ Len(Need[g]) <= Capacity
    /\ \A g, h \in Group : g # h => Range(Need[g]) \cap Range(Need[h]) = {}

VARIABLES
    items,      \* needQueue.items
    inflight,   \* needQueue.inflight
    closed,     \* needQueue.closed
    pending,    \* needQueue.pending; 0 stands for an absent key
    under,      \* under[f]: the groupID the item of f carries, -1 before it exists
    group,      \* group[g]: where the decide worker of group g is
    worker,     \* worker[w]: where the fetch worker of slot w is
    held,       \* held[w]: the item worker w has popped
    pipeline,   \* where the pipeline.wait goroutine is
    rootDone,   \* the session's root context is cancelled
    retired,    \* slots whose own context the tuner has cancelled
    older,      \* older[w]: the slots whose channel was opened before w's
    finished,   \* files terminally resolved with done
    fallen,     \* secondaries pushed as a fallback
    told,       \* a caller of pop or waitDrained was told "nothing left"
    requeues,   \* hand-backs so far
    losses,     \* lost channels so far
    retires     \* retired channels so far

queueVars == <<items, inflight, closed, pending, under>>
ctxVars == <<rootDone, retired, older>>
boundVars == <<requeues, losses, retires>>
vars == <<queueVars, group, worker, held, pipeline, ctxVars, finished, fallen,
          told, boundVars>>

GroupState == {"decide", "push", "asleep", "pushed", "dropped"}
HoldState == {"fetch", "publish", "fatal"}
LiveState == {"pop", "asleep"} \cup HoldState
WorkerState == LiveState \cup {"rejoin", "last", "out"}
PipelineState == {"decide", "drain", "asleep", "done"}

Holders == {w \in Worker : worker[w] \in HoldState}
Live == {w \in Worker : worker[w] \in LiveState} \* session.workers
Queued == Range(items)
HeldFiles == {held[w] : w \in Holders}
PushedGroups == {g \in Group : group[g] = "pushed"}
Enqueued == (UNION {Range(Need[g]) : g \in PushedGroups}) \cup fallen

\* A fetch worker's context is a child of the root context.
CtxDone(w) == rootDone \/ w \in retired

-----------------------------------------------------------------------------
\* sort.SliceStable with "size greater than": an element's position is one
\* more than the number of elements that go before it.
Before(s, i, j) ==
    \/ Size[s[i]] > Size[s[j]]
    \/ Size[s[i]] = Size[s[j]] /\ i < j

Rank(s, i) == Cardinality({j \in DOMAIN s : Before(s, j, i)}) + 1

LargestFirst(s) ==
    [k \in DOMAIN s |-> s[CHOOSE i \in DOMAIN s : Rank(s, i) = k]]

\* needQueue.drained, and the condition pop and waitDrained wait for.
Drained == closed /\ items = <<>> /\ inflight = 0

\* notEmpty.Broadcast: the sleeping fetch workers and, if it sleeps, the
\* goroutine in waitDrained go back to re-checking their conditions.
WokenWorkers == [w \in Worker |-> IF worker[w] = "asleep" THEN "pop" ELSE worker[w]]
WokenPipeline == IF pipeline = "asleep" THEN "drain" ELSE pipeline

\* notFull.Broadcast: the sleeping decide workers re-check.
WokenGroups == [g \in Group |-> IF group[g] = "asleep" THEN "push" ELSE group[g]]

\* "if n > 0 { n-- }"
Less(n) == IF n > 0 THEN n - 1 ELSE n

-----------------------------------------------------------------------------
\* The order in which the first channels were dialled: some linear order.
DialOrder(before) ==
    \A v, w \in Worker :
        /\ v \in before[w] => v # w /\ before[v] \subseteq before[w]
        /\ v # w => (v \in before[w] <=> w \notin before[v])

Init ==
    /\ items = <<>>
    /\ inflight = 0
    /\ closed = FALSE
    /\ pending = [g \in Group |-> 0]
    /\ under = [f \in File |-> -1]
    /\ group = [g \in Group |-> "decide"]
    /\ worker = [w \in Worker |-> "pop"]
    /\ held = [w \in Worker |-> None]
    /\ pipeline = "decide"
    /\ rootDone = FALSE
    /\ retired = {}
    /\ older \in [Worker -> SUBSET Worker] /\ DialOrder(older)
    /\ finished = {}
    /\ fallen = {}
    /\ told = FALSE
    /\ requeues = 0
    /\ losses = 0
    /\ retires = 0

(***************************************************************************)
(* The decide worker of a group.                                           *)
(***************************************************************************)
\* decideGroup gets to pushGroup, which returns at once when nothing is
\* needed; or the group is never decided or its decision fails, which only
\* happens in a session that is cancelled.
Decide(g) ==
    /\ group[g] = "decide"
    /\ \/ group' = [group EXCEPT ![g] = IF Need[g] = <<>> THEN "pushed" ELSE "push"]
       \/ rootDone /\ group' = [group EXCEPT ![g] = "dropped"]
    /\ UNCHANGED <<queueVars, ctxVars, worker, held, pipeline, finished,
                   fallen, told, boundVars>>

Full(g) == Len(items) + Len(Need[g]) > Capacity

\* pushGroup's loop: push the whole group, give up, or sleep on notFull.
PushGroup(g) ==
    /\ group[g] = "push"
    /\ \/ /\ ~Full(g)
          /\ ~closed
          /\ items' = items \o LargestFirst(Need[g])
          /\ under' = [f \in File |-> IF f \in Range(Need[g]) THEN g ELSE under[f]]
          /\ pending' = [pending EXCEPT ![g] = @ + Len(Need[g])]
          /\ group' = [group EXCEPT ![g] = "pushed"]
          /\ worker' = WokenWorkers
          /\ pipeline' = WokenPipeline
       \/ /\ closed \/ (Full(g) /\ rootDone)
          /\ group' = [group EXCEPT ![g] = "dropped"]
          /\ UNCHANGED <<items, under, pending, worker, pipeline>>
       \/ /\ Full(g)
          /\ ~closed
          /\ ~rootDone
          /\ group' = [group EXCEPT ![g] = "asleep"]
          /\ UNCHANGED <<items, under, pending, worker, pipeline>>
    /\ UNCHANGED <<inflight, closed, ctxVars, held, finished, fallen, told,
                   boundVars>>

\* pushFallback: never blocks, and works on a closed queue.
PushFallback(f, g) ==
    /\ f \in Secondary \ fallen
    /\ items' = Append(items, f)
    /\ under' = [under EXCEPT ![f] = g]
    /\ pending' = [pending EXCEPT ![g] = @ + 1]
    /\ fallen' = fallen \cup {f}
    /\ worker' = WokenWorkers
    /\ pipeline' = WokenPipeline
    /\ UNCHANGED <<inflight, closed, ctxVars, group, held, finished, told,
                   boundVars>>

\* decider.fallbackFetch: a link failed while group g is being decided.
DeciderFallback(g) ==
    group[g] = "decide" /\ \E f \in Secondary : PushFallback(f, g)

(***************************************************************************)
(* A fetch worker.                                                         *)
(***************************************************************************)
\* Mutant of Pop: a worker whose context is done takes an item off the queue
\* and counts it as finished.
PopDiscards(w) ==
    /\ worker[w] = "pop"
    /\ \/ /\ items # <<>>
          /\ items' = Tail(items)
          /\ group' = WokenGroups
          /\ IF CtxDone(w)
             THEN /\ worker' = [worker EXCEPT ![w] = "out"]
                  /\ pending' = [pending EXCEPT ![under[Head(items)]] = Less(@)]
                  /\ finished' = finished \cup {Head(items)}
                  /\ pipeline' = WokenPipeline
                  /\ UNCHANGED <<inflight, held>>
             ELSE /\ worker' = [worker EXCEPT ![w] = "fetch"]
                  /\ inflight' = inflight + 1
                  /\ held' = [held EXCEPT ![w] = Head(items)]
                  /\ UNCHANGED <<pending, finished, pipeline>>
          /\ UNCHANGED told
       \/ /\ items = <<>>
          /\ worker' = [worker EXCEPT ![w] = IF CtxDone(w) \/ Drained THEN "out" ELSE "asleep"]
          /\ told' = (told \/ (~CtxDone(w) /\ Drained))
          /\ UNCHANGED <<items, inflight, held, group, pending, finished, pipeline>>
    /\ UNCHANGED <<closed, under, ctxVars, fallen, boundVars>>

\* pop's loop: the context is checked first, then the queue, then whether
\* it is drained; otherwise sleep on notEmpty.
Pop(w) ==
    /\ worker[w] = "pop"
    /\ \/ /\ CtxDone(w)
          /\ worker' = [worker EXCEPT ![w] = "out"]
          /\ UNCHANGED <<items, inflight, held, group, told>>
       \/ /\ ~CtxDone(w)
          /\ items # <<>>
          /\ items' = Tail(items)
          /\ inflight' = inflight + 1
          /\ held' = [held EXCEPT ![w] = Head(items)]
          /\ worker' = [worker EXCEPT ![w] = "fetch"]
          /\ group' = WokenGroups
          /\ UNCHANGED told
       \/ /\ ~CtxDone(w)
          /\ Drained
          /\ worker' = [worker EXCEPT ![w] = "out"]
          /\ told' = TRUE
          /\ UNCHANGED <<items, inflight, held, group>>
       \/ /\ ~CtxDone(w)
          /\ items = <<>>
          /\ ~Drained
          /\ worker' = [worker EXCEPT ![w] = "asleep"]
          /\ UNCHANGED <<items, inflight, held, group, told>>
    /\ UNCHANGED <<closed, pending, under, ctxVars, pipeline, finished,
                   fallen, boundVars>>

\* Mutant of Done: it never broadcasts.
DoneSilently(w, from, next) ==
    /\ worker[w] = from
    /\ inflight' = Less(inflight)
    /\ pending' = [pending EXCEPT ![under[held[w]]] = Less(@)]
    /\ finished' = finished \cup {held[w]}
    /\ held' = [held EXCEPT ![w] = None]
    /\ worker' = [worker EXCEPT ![w] = next]
    /\ UNCHANGED <<items, closed, under, ctxVars, group, fallen, told, pipeline,
                   requeues, retires>>

\* done(groupID), called in state "from" and leaving the worker in "next".
\* It broadcasts only when it leaves the queue drained.
Done(w, from, next) ==
    /\ worker[w] = from
    /\ inflight' = Less(inflight)
    /\ pending' = [pending EXCEPT ![under[held[w]]] = Less(@)]
    /\ finished' = finished \cup {held[w]}
    /\ held' = [held EXCEPT ![w] = None]
    /\ IF closed /\ items = <<>> /\ inflight' = 0
       THEN /\ worker' = [WokenWorkers EXCEPT ![w] = next]
            /\ pipeline' = WokenPipeline
       ELSE /\ worker' = [worker EXCEPT ![w] = next]
            /\ UNCHANGED pipeline
    /\ UNCHANGED <<items, closed, under, ctxVars, group, fallen, told,
                   requeues, retires>>

\* requeue(it): to the tail, whatever the capacity.
Requeue(w, next) ==
    /\ worker[w] = "fetch"
    /\ requeues < MaxRequeues
    /\ requeues' = requeues + 1
    /\ inflight' = Less(inflight)
    /\ items' = Append(items, held[w])
    /\ held' = [held EXCEPT ![w] = None]
    /\ worker' = [WokenWorkers EXCEPT ![w] = next]
    /\ pipeline' = WokenPipeline
    /\ UNCHANGED <<closed, pending, under, ctxVars, group, finished, fallen, told,
                   retires>>

\* fetchOne has published and journalled the file; its parked secondaries
\* are linked next, and each one whose link fails is pushed as a fallback.
Publish(w) ==
    /\ worker[w] = "fetch"
    /\ worker' = [worker EXCEPT ![w] = "publish"]
    /\ UNCHANGED <<queueVars, ctxVars, group, held, pipeline, finished,
                   fallen, told, boundVars>>
FetcherFallback(w) ==
    /\ worker[w] = "publish"
    /\ \E f \in Secondary : PushFallback(f, under[held[w]])
Published(w) == Done(w, "publish", "pop") /\ UNCHANGED losses

\* The file failed for good, or is tried again.
FileFailed(w) == Done(w, "fetch", "pop") /\ UNCHANGED losses
Retry(w) == Requeue(w, "pop") /\ UNCHANGED losses

\* The channel is lost (item handed back) or desynchronised (item handed
\* back or failed for good): the worker ends and rejoinLoop starts.
LoseChannel(w) ==
    /\ losses < MaxLosses
    /\ losses' = losses + 1
    /\ LET next == IF rootDone THEN "out" ELSE "rejoin"
       IN Requeue(w, next) \/ Done(w, "fetch", next)

\* Mutant of Cancelled: the worker leaves without handing its item back.
CancelledLeaves(w) ==
    /\ CtxDone(w)
    /\ worker[w] = "fetch"
    /\ inflight' = Less(inflight)
    /\ held' = [held EXCEPT ![w] = None]
    /\ worker' = [worker EXCEPT ![w] = "out"]
    /\ UNCHANGED <<items, closed, pending, under, ctxVars, group, pipeline,
                   finished, fallen, told, boundVars>>

\* The worker's context ended while it was fetching.
Cancelled(w) == CtxDone(w) /\ Requeue(w, "out") /\ UNCHANGED losses

\* A fatal fault: session.fail cancels the root context, then done.
Fatal(w) ==
    /\ worker[w] = "fetch"
    /\ worker' = [worker EXCEPT ![w] = "fatal"]
    /\ rootDone' = TRUE
    /\ UNCHANGED <<queueVars, group, held, pipeline, retired, older, finished,
                   fallen, told, boundVars>>
FatalDone(w) == Done(w, "fatal", "out") /\ UNCHANGED losses

FetchEnds(w) ==
    \/ Publish(w)
    \/ FetcherFallback(w)
    \/ Published(w)
    \/ FileFailed(w)
    \/ Retry(w)
    \/ LoseChannel(w)
    \/ Cancelled(w)
    \/ Fatal(w)
    \/ FatalDone(w)

(***************************************************************************)
(* Channels coming and going.                                              *)
(***************************************************************************)
\* addChannel starts a worker with a fresh context in slot w, for
\* rejoinLoop, or for the tuner, which only acts while some channel is up.
AddChannel(w) ==
    /\ \/ worker[w] = "rejoin"
       \/ worker[w] = "out" /\ ~ChannelsPinned /\ Live # {}
    /\ pipeline # "done"
    /\ ~rootDone
    /\ worker' = [worker EXCEPT ![w] = "pop"]
    /\ retired' = retired \ {w}
    /\ older' = [v \in Worker |-> IF v = w THEN Worker \ {w} ELSE older[v] \ {w}]
    /\ UNCHANGED <<queueVars, group, held, pipeline, rootDone, finished,
                   fallen, told, boundVars>>

\* Mutant of RejoinEnds: the end of the pipeline is not noticed.
RejoinEndsUnaware(w) ==
    /\ worker[w] = "rejoin"
    /\ rootDone \/ pipeline # "done"
    /\ worker' = [worker EXCEPT
                    ![w] = IF ~rootDone /\ Live = {} THEN "last" ELSE "out"]
    /\ UNCHANGED <<queueVars, ctxVars, group, held, pipeline, finished,
                   fallen, told, boundVars>>

\* rejoinLoop gives up: the session is ending, or three attempts failed; in
\* that case it looks whether any channel is left ...
RejoinEnds(w) ==
    /\ worker[w] = "rejoin"
    /\ worker' = [worker EXCEPT
                    ![w] = IF ~rootDone /\ Live = {} THEN "last" ELSE "out"]
    /\ UNCHANGED <<queueVars, ctxVars, group, held, pipeline, finished,
                   fallen, told, boundVars>>

\* ... and, if none was, whether the queue still has work: E3005.
LastChannelRetired(w) ==
    /\ worker[w] = "last"
    /\ worker' = [worker EXCEPT ![w] = "out"]
    /\ rootDone' = (rootDone \/ ~Drained)
    /\ UNCHANGED <<queueVars, group, held, pipeline, retired, older, finished,
                   fallen, told, boundVars>>

\* Mutant of Retire: the loop over the workers goes on.
RetireAll(w) ==
    /\ ~ChannelsPinned
    /\ ~rootDone
    /\ retires < MaxRetires
    /\ retires' = retires + 1
    /\ w \in Live \ retired
    /\ Live # {w}
    /\ retired' = retired \cup Live
    /\ UNCHANGED <<queueVars, group, worker, held, pipeline, rootDone, older,
                   finished, fallen, told, requeues, losses>>

\* retireOne: the tuner cancels the context of the newest of several workers;
\* it stays in the list until it has finished what it is doing.
Retire(w) ==
    /\ ~ChannelsPinned
    /\ ~rootDone
    /\ retires < MaxRetires
    /\ retires' = retires + 1
    /\ w \in Live \ retired
    /\ Live # {w}
    /\ Live \ {w} \subseteq older[w]
    /\ retired' = retired \cup {w}
    /\ UNCHANGED <<queueVars, group, worker, held, pipeline, rootDone, older,
                   finished, fallen, told, requeues, losses>>

(***************************************************************************)
(* pipeline.wait.                                                          *)
(***************************************************************************)

\* decideWg.Wait(); q.close()
Close ==
    /\ pipeline = "decide"
    /\ \A g \in Group : group[g] \in {"pushed", "dropped"}
    /\ closed' = TRUE
    /\ pipeline' = "drain"
    /\ worker' = WokenWorkers
    /\ group' = WokenGroups
    /\ UNCHANGED <<items, inflight, pending, under, ctxVars, held, finished,
                   fallen, told, boundVars>>

\* waitDrained's loop; "done" is pipelineDone = true.
WaitDrained ==
    /\ pipeline = "drain"
    /\ pipeline' = IF rootDone \/ Drained THEN "done" ELSE "asleep"
    /\ told' = (told \/ (~rootDone /\ Drained))
    /\ UNCHANGED <<queueVars, ctxVars, group, worker, held, finished, fallen,
                   boundVars>>

(***************************************************************************)
(* Cancellation.                                                           *)
(***************************************************************************)
\* A signal, the control reader or a decide worker cancels the session.
CancelRoot ==
    /\ ~rootDone
    /\ rootDone' = TRUE
    /\ UNCHANGED <<queueVars, group, worker, held, pipeline, retired, older,
                   finished, fallen, told, boundVars>>

\* The AfterFunc of a blocked call whose context is done broadcasts.
WakeNotEmpty ==
    /\ \/ \E w \in Worker : worker[w] = "asleep" /\ CtxDone(w)
       \/ pipeline = "asleep" /\ rootDone
    /\ worker' = WokenWorkers
    /\ pipeline' = WokenPipeline
    /\ UNCHANGED <<queueVars, ctxVars, group, held, finished, fallen, told,
                   boundVars>>
WakeNotFull ==
    /\ rootDone
    /\ \E g \in Group : group[g] = "asleep"
    /\ group' = WokenGroups
    /\ UNCHANGED <<queueVars, ctxVars, worker, held, pipeline, finished,
                   fallen, told, boundVars>>

Finished ==
    /\ pipeline = "done"
    /\ \A w \in Worker : worker[w] = "out"

\* chWg.Wait() has returned: nothing more happens.
Terminated == Finished /\ UNCHANGED vars

-----------------------------------------------------------------------------
GroupStep(g) == Decide(g) \/ PushGroup(g) \/ DeciderFallback(g)
ChannelStep(w) == AddChannel(w) \/ RejoinEnds(w) \/ LastChannelRetired(w) \/ Retire(w)

Next ==
    \/ \E g \in Group : GroupStep(g)
    \/ \E w \in Worker : Pop(w) \/ FetchEnds(w) \/ ChannelStep(w)
    \/ Close
    \/ WaitDrained
    \/ CancelRoot
    \/ WakeNotEmpty
    \/ WakeNotFull
    \/ Terminated

Spec == Init /\ [][Next]_vars

(***************************************************************************)
(* Go schedules every runnable goroutine, every receive of a fetch has a   *)
(* stall timeout, and a rejoin makes three timed attempts.  Nothing makes  *)
(* a channel get lost, a retirement or a cancellation happen.              *)
(***************************************************************************)
Fairness ==
    /\ \A g \in Group : WF_vars(Decide(g)) /\ WF_vars(PushGroup(g))
    /\ \A w \in Worker :
          /\ WF_vars(Pop(w))
          /\ WF_vars(FetchEnds(w))
          /\ WF_vars(AddChannel(w) \/ RejoinEnds(w))
          /\ WF_vars(LastChannelRetired(w))
    /\ WF_vars(Close) /\ WF_vars(WaitDrained)
    /\ WF_vars(WakeNotEmpty) /\ WF_vars(WakeNotFull)

FairSpec == Spec /\ Fairness

-----------------------------------------------------------------------------
\* Every variable has its type, and a worker holds an item exactly while it
\* is between pop and done or requeue.
TypeOK ==
    /\ items \in Seq(File)
    /\ inflight \in Nat
    /\ closed \in BOOLEAN
    /\ pending \in [Group -> Nat]
    /\ under \in [File -> Group \cup {-1}]
    /\ \A f \in Enqueued : under[f] \in Group
    /\ group \in [Group -> GroupState]
    /\ worker \in [Worker -> WorkerState]
    /\ held \in [Worker -> File \cup {None}]
    /\ \A w \in Worker : held[w] # None <=> w \in Holders
    /\ pipeline \in PipelineState
    /\ rootDone \in BOOLEAN
    /\ retired \subseteq Worker
    /\ older \in [Worker -> SUBSET Worker]
    /\ finished \subseteq File
    /\ fallen \subseteq Secondary
    /\ told \in BOOLEAN
    /\ requeues \in Nat
    /\ losses \in Nat
    /\ retires \in Nat

\* "It never drops an item and never yields the same item twice"
\* (queue.go:20): an enqueued file is queued once, or held by one worker, or
\* finished, and never two of these.
EachItemOnce ==
    /\ IsInjective(items)
    /\ \A v, w \in Holders : held[v] = held[w] => v = w
    /\ Queued \cap HeldFiles = {}
    /\ finished \cap (Queued \cup HeldFiles) = {}
    /\ Queued \cup HeldFiles \cup finished = Enqueued

\* The in-flight counter, which two code paths silently clamp at zero, is
\* exact: it is the number of workers between pop and done or requeue.
InflightExact == inflight = Cardinality(Holders)

\* No wake-up is lost: whoever sleeps on a condition variable still has to,
\* or has a done context whose AfterFunc will broadcast.  In particular
\* done, which broadcasts only when it drains the queue, broadcasts enough.
NoLostWakeup ==
    /\ \A w \in Worker : worker[w] = "asleep" => items = <<>> /\ ~Drained
    /\ pipeline = "asleep" => ~Drained
    /\ \A g \in Group : group[g] = "asleep" => Full(g) /\ ~closed

\* The queue is closed only behind the decide pool: from then on no group is
\* being decided or pushed.
ClosedLast ==
    /\ closed <=> pipeline # "decide"
    /\ closed => \A g \in Group : group[g] \in {"pushed", "dropped"}

\* "nothing left" is final: once pop or waitDrained has said so, every file
\* handed to the queue is finished and no fallback can still arrive.
DrainedIsFinal == told => Drained /\ finished = Enqueued

\* The queue's real ceiling.  requeue and pushFallback ignore the capacity,
\* so what is bounded is the queue together with what is in flight, by the
\* capacity plus one item per worker plus the fallbacks.
DepthBound ==
    Len(items) + inflight <= Capacity + Cardinality(Worker) + Cardinality(fallen)

\* The inductive invariant behind the theorems of NeedQueueProofs.
IInv ==
    /\ TypeOK
    /\ ClosedLast
    /\ EachItemOnce
    /\ InflightExact
    /\ NoLostWakeup
    /\ DrainedIsFinal
    /\ DepthBound

\* Every worker is gone and the queue has work, but nobody has failed the
\* session.
Starved == ~rootDone /\ ~Drained /\ \A w \in Worker : worker[w] = "out"

\* rejoinLoop: "if that leaves zero live channels while the need queue still
\* has work, the last-retired condition is fatal E3005" (run.go:272).
NotStarved == ~Starved

\* Neither losses alone nor the tuner alone leave the queue without a worker:
\* it takes a channel that is retired while the other one is lost.
StarvingTakesBoth == Starved => losses > 0 /\ retires > 0

\* The pipeline ends with all its workers gone, unless it is starved.
Terminates == <>(Finished \/ Starved)

Pool == INSTANCE WorkPool WITH
    status <- [f \in File |-> IF f \in finished THEN "finished"
                              ELSE IF f \in HeldFiles THEN "taken"
                              ELSE IF f \in Queued THEN "ready"
                              ELSE "absent"],
    drained <- told

\* The queue implements the work pool.
ImplementsPool == Pool!Spec
=============================================================================
