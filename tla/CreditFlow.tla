----------------------------- MODULE CreditFlow -----------------------------
(***************************************************************************)
(* The flow of group manifests and credit over the control channel:        *)
(*                                                                         *)
(*  - the sender's manifest publisher, which takes one unit of credit per  *)
(*    group before it hashes and sends it (sender/manifest.go), and the    *)
(*    creditGate it sleeps on (sender/state.go);                           *)
(*  - the receiver's control reader, which moves manifests into the        *)
(*    buffered channel manifestCh and closes it after the last one         *)
(*    (receiver/run.go);                                                   *)
(*  - the decide workers, which answer each group with a GROUP_DECISION,   *)
(*    reserve its bytes with the space guard, push its files into the      *)
(*    bounded need queue and only then return a CREDIT                     *)
(*    (receiver/decide.go, receiver/space.go);                             *)
(*  - the sender's control reader, which applies decisions and credit      *)
(*    (sender/run.go).                                                     *)
(*                                                                         *)
(* Manifests are published, received and taken in plan order over a FIFO,  *)
(* so that direction is three counters: groups next .. are still to be     *)
(* published, received .. next-1 are on the wire, taken .. received-1 in   *)
(* manifestCh.  The other direction is written by several workers, and is  *)
(* a sequence.  The wake-ups of the need queue are NeedQueue's subject:    *)
(* here a full queue is a guard.                                           *)
(***************************************************************************)
EXTENDS Integers, Sequences, FiniteSets

CONSTANTS
    Decider,        \* the decide workers
    MaxGroups,      \* bound: the plans have 0 .. MaxGroups groups
    GroupCredit,    \* SESSION_READY.GroupCredit, the initial credit
    Needs,          \* what a group may need: numbers of files with their bytes
    Capacity,       \* needQueueDepth
    Free,           \* the destination's free bytes, measured at startup
    Margin,         \* spaceMarginBytes
    FallbackSizes,  \* sizes of hardlink secondaries whose link fails
    MaxFallbacks,   \* bound: how many of them there are
    MaxFailures     \* bound: failures from outside this module

ASSUME CreditAssumption ==
    /\ IsFiniteSet(Decider) /\ Decider # {}
    /\ MaxGroups \in Nat
    /\ GroupCredit \in Nat \ {0}
    /\ Needs \subseteq [files : 0 .. Capacity, bytes : Nat]
    /\ Capacity \in Nat /\ Free \in Nat /\ Margin \in Nat
    /\ FallbackSizes \subseteq Nat
    /\ MaxFallbacks \in Nat /\ MaxFailures \in Nat

VARIABLES
    groups,     \* the plan's number of groups
    publisher,  \* where the manifest goroutine is
    avail,      \* creditGate.avail
    next,       \* groups published so far
    senderDone, \* the sender's root context is cancelled
    senderGone, \* the sender has returned and closed the control channel
    scan,       \* SCAN_COMPLETE: "unsent", "wire", "read"
    total,      \* the control reader's total, -1 before SCAN_COMPLETE
    received,   \* the control reader's seen
    reader,     \* the receiver's control reader runs
    closed,     \* manifestCh is closed
    taken,      \* manifests taken out of manifestCh
    started,    \* Run has SCAN_COMPLETE and has started the decide workers
    decider,    \* decider[w]: where worker w is, with its group and its need
    queued,     \* the number of items in the need queue
    required,   \* spaceGuard.required
    warned,     \* spaceGuard.warned
    claimed,    \* bytes of every item ever pushed into the need queue
    cancelled,  \* the receiver's root context is cancelled
    recvGone,   \* the receiver has returned and closed the control channel
    answers,    \* decisions and credit on the way to the sender
    decided,    \* groups whose decision the sender has applied
    credited,   \* groups whose credit the sender has added
    fallbacks,  \* hardlink fallbacks so far
    failures    \* outside failures so far

senderVars == <<publisher, avail, next, senderDone, senderGone, decided, credited>>
readerVars == <<total, received, reader, closed>>
spaceVars == <<required, warned>>
failureVars == <<fallbacks, failures>>
creditVars == <<groups, senderVars, scan, readerVars, taken, started, decider, queued,
                spaceVars, claimed, cancelled, recvGone, answers, failureVars>>

GroupId == 0 .. MaxGroups - 1
PublisherState == {"scan", "acquire", "asleep", "publish", "done", "stopped"}
DeciderState == {"idle", "decide", "reserve", "push", "credit", "gone"}
Nothing == [files |-> 0, bytes |-> 0]
Idle == [at |-> "idle", g |-> 0, need |-> Nothing]

Answer == [type : {"decision", "credit"}, g : GroupId]

\* A group a worker has taken and not yet finished with.
Busy == {"decide", "reserve", "push", "credit"}
AtWork(w) == decider[w].at \in Busy

\* The capacity of manifestCh: make(chan, 2*GroupCredit+8).
ManifestCap == 2 * GroupCredit + 8

CreditTypeOK ==
    /\ groups \in 0 .. MaxGroups
    /\ publisher \in PublisherState
    /\ avail \in Nat
    /\ next \in 0 .. groups
    /\ received \in 0 .. next
    /\ taken \in 0 .. received
    /\ scan \in {"unsent", "wire", "read"}
    /\ total \in -1 .. MaxGroups
    /\ senderDone \in BOOLEAN /\ senderGone \in BOOLEAN
    /\ reader \in BOOLEAN /\ closed \in BOOLEAN /\ started \in BOOLEAN
    /\ decider \in [Decider -> [at : DeciderState, g : 0 .. MaxGroups, need : Needs \cup {Nothing}]]
    /\ queued \in Nat /\ required \in Nat /\ claimed \in Nat
    /\ warned \in BOOLEAN /\ cancelled \in BOOLEAN /\ recvGone \in BOOLEAN
    /\ answers \in Seq(Answer)
    /\ decided \subseteq GroupId /\ credited \subseteq GroupId
    /\ fallbacks \in 0 .. MaxFallbacks /\ failures \in 0 .. MaxFailures

CreditInit ==
    /\ groups \in 0 .. MaxGroups
    /\ publisher = "scan" /\ avail = GroupCredit /\ next = 0
    /\ senderDone = FALSE /\ senderGone = FALSE
    /\ scan = "unsent"
    /\ total = -1 /\ received = 0 /\ reader = TRUE /\ closed = FALSE
    /\ taken = 0 /\ started = FALSE
    /\ decider = [w \in Decider |-> Idle]
    /\ queued = 0 /\ required = 0 /\ warned = FALSE /\ claimed = 0
    /\ cancelled = FALSE /\ recvGone = FALSE
    /\ answers = <<>> /\ decided = {} /\ credited = {}
    /\ fallbacks = 0 /\ failures = 0

-----------------------------------------------------------------------------
(* The sender. *)

\* After the last group the publisher's loop ends.
Loop(n) == IF n = groups THEN "done" ELSE "acquire"

\* run: SCAN_COMPLETE carries the number of groups.
SendScan ==
    /\ publisher = "scan" /\ ~senderGone
    /\ \/ /\ scan' = "wire"
          /\ publisher' = Loop(next)
          /\ UNCHANGED senderDone
       \/ /\ recvGone
          /\ publisher' = "stopped"
          /\ senderDone' = TRUE
          /\ UNCHANGED scan
    /\ UNCHANGED <<groups, avail, next, senderGone, decided, credited,
                   readerVars, taken, started, decider, queued, spaceVars, claimed,
                   cancelled, recvGone, answers, failureVars>>

\* creditGate.acquire under its mutex: consume a unit, return the context's
\* error, or sleep.  The context is looked at only when there is no credit.
Acquire ==
    /\ publisher = "acquire" /\ ~senderGone
    /\ \/ /\ avail > 0
          /\ avail' = avail - 1
          /\ publisher' = "publish"
       \/ /\ avail <= 0
          /\ publisher' = IF senderDone THEN "stopped" ELSE "asleep"
          /\ UNCHANGED avail
    /\ UNCHANGED <<groups, next, senderDone, senderGone, decided, credited, scan,
                   readerVars, taken, started, decider, queued, spaceVars, claimed,
                   cancelled, recvGone, answers, failureVars>>

\* context.AfterFunc: once the context is cancelled its own goroutine
\* broadcasts the gate's condition.
AcquireWoken ==
    /\ publisher = "asleep" /\ senderDone /\ ~senderGone
    /\ publisher' = "acquire"
    /\ UNCHANGED <<groups, avail, next, senderDone, senderGone, decided, credited, scan,
                   readerVars, taken, started, decider, queued, spaceVars, claimed,
                   cancelled, recvGone, answers, failureVars>>

\* publishGroup: hash the group's files, then send GROUP_MANIFEST.  On a
\* control channel the receiver has left, the send may fail, and then the
\* manifest goroutine cancels the root context.
Publish ==
    /\ publisher = "publish" /\ ~senderGone
    /\ \/ /\ next' = next + 1
          /\ publisher' = Loop(next + 1)
          /\ UNCHANGED senderDone
       \/ /\ recvGone
          /\ publisher' = "stopped"
          /\ senderDone' = TRUE
          /\ UNCHANGED next
    /\ UNCHANGED <<groups, avail, senderGone, decided, credited, scan, readerVars,
                   taken, started, decider, queued, spaceVars, claimed, cancelled,
                   recvGone, answers, failureVars>>

\* Mutant of Credited: add does not broadcast.
CreditedSilently(n) ==
    /\ avail' = avail + n
    /\ UNCHANGED publisher

\* creditGate.add.
Credited(n) ==
    /\ avail' = avail + n
    /\ publisher' = IF publisher = "asleep" THEN "acquire" ELSE publisher

\* The sender's control.reader: a decision goes to the tracker, a credit to
\* the gate.
SenderReads ==
    /\ answers # <<>> /\ ~senderGone
    /\ LET m == Head(answers) IN
         \/ /\ m.type = "decision"
            /\ decided' = decided \cup {m.g}
            /\ UNCHANGED <<credited, avail, publisher>>
         \/ /\ m.type = "credit"
            /\ credited' = credited \cup {m.g}
            /\ Credited(1)
            /\ UNCHANGED decided
    /\ answers' = Tail(answers)
    /\ UNCHANGED <<groups, next, senderDone, senderGone, scan, readerVars, taken,
                   started, decider, queued, spaceVars, claimed, cancelled, recvGone,
                   failureVars>>

\* Behind the last answer of a receiver that has returned comes its ERROR or
\* the end of the stream: the reader cancels the root context.
SenderReadsEnd ==
    /\ answers = <<>> /\ recvGone /\ ~senderDone
    /\ senderDone' = TRUE
    /\ UNCHANGED <<groups, publisher, avail, next, senderGone, decided, credited, scan,
                   readerVars, taken, started, decider, queued, spaceVars, claimed,
                   cancelled, recvGone, answers, failureVars>>

\* Anything else that cancels the sender's root context (a servicer's coded
\* error, a signal, the keepalive).
SenderFails ==
    /\ ~senderDone /\ failures < MaxFailures
    /\ senderDone' = TRUE
    /\ failures' = failures + 1
    /\ UNCHANGED <<groups, publisher, avail, next, senderGone, decided, credited, scan,
                   readerVars, taken, started, decider, queued, spaceVars, claimed,
                   cancelled, recvGone, answers, fallbacks>>

\* tr.wait returns the context's error and Run closes the control channel.
SenderReturns ==
    /\ senderDone /\ ~senderGone
    /\ senderGone' = TRUE
    /\ UNCHANGED <<groups, publisher, avail, next, senderDone, decided, credited, scan,
                   readerVars, taken, started, decider, queued, spaceVars, claimed,
                   cancelled, recvGone, answers, failureVars>>

-----------------------------------------------------------------------------
(* The receiver's control reader and Run. *)

\* The count that closes manifestCh: total is known and reached.
Complete(t, s) == t >= 0 /\ s >= t

\* case *wire.ScanComplete.
ReadScan ==
    /\ reader /\ ~recvGone /\ scan = "wire"
    /\ scan' = "read"
    /\ total' = groups
    /\ closed' = (closed \/ groups = 0)
    /\ UNCHANGED <<groups, senderVars, received, reader, taken, started, decider, queued,
                   spaceVars, claimed, cancelled, recvGone, answers, failureVars>>

\* case *wire.GroupManifest: the reader blocks while manifestCh is full, and
\* leaves the loop, closing manifestCh, if the root context ends first.
ReadManifest ==
    /\ reader /\ ~recvGone /\ scan = "read" /\ received < next
    /\ \/ /\ received - taken < ManifestCap
          /\ received' = received + 1
          /\ closed' = (closed \/ Complete(total, received + 1))
          /\ UNCHANGED reader
       \/ /\ cancelled
          /\ reader' = FALSE
          /\ closed' = TRUE
          /\ UNCHANGED received
    /\ UNCHANGED <<groups, senderVars, scan, total, taken, started, decider, queued,
                   spaceVars, claimed, cancelled, recvGone, answers, failureVars>>

\* The sender's ERROR or the end of its stream, behind its last manifest:
\* fail, cancel, and the deferred closeManifest.
ReadEnd ==
    /\ reader /\ ~recvGone /\ senderGone
    /\ scan # "wire" /\ received = next
    /\ reader' = FALSE
    /\ closed' = TRUE
    /\ cancelled' = TRUE
    /\ UNCHANGED <<groups, senderVars, scan, total, received, taken, started, decider,
                   queued, spaceVars, claimed, recvGone, answers, failureVars>>

\* Run has waited for SCAN_COMPLETE, opens the journal and starts the pool.
\* With the root context cancelled as well the select may take either branch:
\* this one, or ReceiverReturns.
Start ==
    /\ ~started /\ ~recvGone /\ scan = "read"
    /\ started' = TRUE
    /\ UNCHANGED <<groups, senderVars, scan, readerVars, taken, decider, queued,
                   spaceVars, claimed, cancelled, recvGone, answers, failureVars>>

\* A failure from outside (a fetch worker's coded error, a signal).
ReceiverFails ==
    /\ ~cancelled /\ ~recvGone /\ failures < MaxFailures
    /\ cancelled' = TRUE
    /\ failures' = failures + 1
    /\ UNCHANGED <<groups, senderVars, scan, readerVars, taken, started, decider,
                   queued, spaceVars, claimed, recvGone, answers, fallbacks>>

\* With the root context cancelled Run waits at most workerStopGrace, tells
\* the peer and returns; the process ends with its goroutines.
ReceiverReturns ==
    /\ cancelled /\ ~recvGone
    /\ recvGone' = TRUE
    /\ UNCHANGED <<groups, senderVars, scan, readerVars, taken, started, decider,
                   queued, spaceVars, claimed, cancelled, answers, failureVars>>

-----------------------------------------------------------------------------
(* The decide workers: decideGroup, one action per stretch between sends. *)

Advance(w, at) ==
    decider' = [decider EXCEPT ![w] =
                  [(IF at \in Busy THEN decider[w] ELSE Idle) EXCEPT !.at = at]]

\* decideGroup returned an error: s.fail, and the worker leaves the pool.
Fails(w) ==
    /\ Advance(w, "gone")
    /\ cancelled' = TRUE

\* for gm := range manifestCh, and the evaluation of the group's entries.
Take(w) ==
    /\ started /\ ~recvGone
    /\ decider[w].at = "idle" /\ taken < received
    /\ \E need \in Needs :
         decider' = [decider EXCEPT ![w] = [at |-> "decide", g |-> taken, need |-> need]]
    /\ taken' = taken + 1
    /\ UNCHANGED <<groups, senderVars, scan, readerVars, started, queued, spaceVars,
                   claimed, cancelled, recvGone, answers, failureVars>>

\* Mutant of Leave: a worker leaves when manifestCh is empty for the moment.
LeaveEmpty(w) ==
    /\ started /\ ~recvGone
    /\ decider[w].at = "idle" /\ taken = received
    /\ Advance(w, "gone")
    /\ UNCHANGED <<groups, senderVars, scan, readerVars, taken, started, queued,
                   spaceVars, claimed, cancelled, recvGone, answers, failureVars>>

\* manifestCh is closed and empty.
Leave(w) ==
    /\ started /\ ~recvGone
    /\ decider[w].at = "idle" /\ taken = received /\ closed
    /\ Advance(w, "gone")
    /\ UNCHANGED <<groups, senderVars, scan, readerVars, taken, started, queued,
                   spaceVars, claimed, cancelled, recvGone, answers, failureVars>>

\* A send on the control channel; it may fail once the sender has closed it.
Send(w, type, at) ==
    \/ /\ answers' = Append(answers, [type |-> type, g |-> decider[w].g])
       /\ Advance(w, at)
       /\ UNCHANGED cancelled
    \/ /\ senderGone
       /\ Fails(w)
       /\ UNCHANGED answers

\* Mutant of SendDecision: a credit goes out ahead of the decision.
SendCreditFirst(w) ==
    /\ decider[w].at = "decide" /\ ~recvGone
    /\ answers' = answers \o <<[type |-> "credit", g |-> decider[w].g],
                               [type |-> "decision", g |-> decider[w].g]>>
    /\ Advance(w, "reserve")
    /\ UNCHANGED <<groups, senderVars, scan, readerVars, taken, started, queued,
                   spaceVars, claimed, cancelled, recvGone, failureVars>>

\* GROUP_DECISION, sent before anything is reserved or pushed.
SendDecision(w) ==
    /\ decider[w].at = "decide" /\ ~recvGone
    /\ Send(w, "decision", "reserve")
    /\ UNCHANGED <<groups, senderVars, scan, readerVars, taken, started, queued,
                   spaceVars, claimed, recvGone, failureVars>>

\* spaceGuard.reserve: the running requirement grows in every case; the
\* result is fatal once the deficit exceeds the margin.
Over(bytes) == required + bytes - (Free - Margin)

Reserve(bytes) ==
    /\ required' = required + bytes
    /\ warned' = (warned \/ Over(bytes) > 0)

\* Mutant of FatalDeficit: a deficit of twice the margin is let through.
FatalDeficitLate(bytes) == Over(bytes) > 2 * Margin

FatalDeficit(bytes) == Over(bytes) > Margin

\* journal.Sync, which may fail, then the guard, asked only for a group that
\* needs bytes.
ReserveGroup(w) ==
    /\ decider[w].at = "reserve" /\ ~recvGone
    /\ LET bytes == decider[w].need.bytes IN
         \/ /\ bytes = 0
            /\ Advance(w, "push")
            /\ UNCHANGED <<spaceVars, cancelled>>
         \/ /\ bytes > 0
            /\ Reserve(bytes)
            /\ IF FatalDeficit(bytes) THEN Fails(w)
               ELSE Advance(w, "push") /\ UNCHANGED cancelled
    /\ UNCHANGED <<groups, senderVars, scan, readerVars, taken, started, queued,
                   claimed, recvGone, answers, failureVars>>

SyncFails(w) ==
    /\ decider[w].at = "reserve" /\ ~recvGone /\ failures < MaxFailures
    /\ Fails(w)
    /\ failures' = failures + 1
    /\ UNCHANGED <<groups, senderVars, scan, readerVars, taken, started, queued,
                   spaceVars, claimed, recvGone, answers, fallbacks>>

\* pushGroup: the group's files go in together once they fit.  A full queue
\* holds the worker until a pop or the end of the context; in the second
\* case decideGroup returns nil without the credit.
PushGroup(w) ==
    /\ decider[w].at = "push" /\ ~recvGone
    /\ LET need == decider[w].need IN
         \/ /\ need.files = 0 \/ queued + need.files <= Capacity
            /\ queued' = queued + need.files
            /\ claimed' = claimed + need.bytes
            /\ Advance(w, "credit")
         \/ /\ need.files > 0 /\ queued + need.files > Capacity /\ cancelled
            /\ Advance(w, "idle")
            /\ UNCHANGED <<queued, claimed>>
    /\ UNCHANGED <<groups, senderVars, scan, readerVars, taken, started, spaceVars,
                   cancelled, recvGone, answers, failureVars>>

\* CREDIT, the last thing a group's worker does.
SendCredit(w) ==
    /\ decider[w].at = "credit" /\ ~recvGone
    /\ Send(w, "credit", "idle")
    /\ UNCHANGED <<groups, senderVars, scan, readerVars, taken, started, queued,
                   spaceVars, claimed, recvGone, failureVars>>

\* fetchInstead, from a decide worker or from the fetch of a primary: a
\* secondary the guard refuses counts as failed, and nothing is cancelled.
FetchFallback ==
    /\ fallbacks < MaxFallbacks /\ ~recvGone
    /\ (\E w \in Decider : decider[w].at = "decide") \/ queued > 0
    /\ \E bytes \in FallbackSizes :
         /\ Reserve(bytes)
         /\ \/ /\ FatalDeficit(bytes)
               /\ UNCHANGED <<queued, claimed>>
            \/ /\ ~FatalDeficit(bytes)
               /\ queued' = queued + 1
               /\ claimed' = claimed + bytes
    /\ fallbacks' = fallbacks + 1
    /\ UNCHANGED <<groups, senderVars, scan, readerVars, taken, started, decider,
                   cancelled, recvGone, answers, failures>>

\* A fetch worker takes an item off the queue and finishes it.
FetchFile ==
    /\ queued > 0 /\ ~cancelled /\ ~recvGone
    /\ queued' = queued - 1
    /\ UNCHANGED <<groups, senderVars, scan, readerVars, taken, started, decider,
                   spaceVars, claimed, cancelled, recvGone, answers, failureVars>>

-----------------------------------------------------------------------------
\* Every manifest decided, its files fetched, its credit home; or both ends
\* have returned.
Finished ==
    \/ /\ publisher = "done" /\ decided = 0 .. groups - 1 /\ answers = <<>>
       /\ \A w \in Decider : decider[w].at = "gone"
       /\ queued = 0
    \/ senderGone /\ recvGone

Decide(w) ==
    \/ Take(w) \/ Leave(w) \/ SendDecision(w) \/ ReserveGroup(w)
    \/ PushGroup(w) \/ SendCredit(w)

Receiver == ReadScan \/ ReadManifest \/ ReadEnd \/ Start \/ ReceiverReturns
Publisher == SendScan \/ Acquire \/ AcquireWoken \/ Publish

CreditNext ==
    \/ SendScan \/ Acquire \/ AcquireWoken \/ Publish
    \/ SenderReads \/ SenderReadsEnd \/ SenderFails \/ SenderReturns
    \/ ReadScan \/ ReadManifest \/ ReadEnd \/ Start
    \/ ReceiverFails \/ ReceiverReturns
    \/ \E w \in Decider :
         \/ Take(w) \/ Leave(w) \/ SendDecision(w) \/ ReserveGroup(w)
         \/ SyncFails(w) \/ PushGroup(w) \/ SendCredit(w)
    \/ FetchFallback \/ FetchFile
    \/ Finished /\ UNCHANGED creditVars

\* Every goroutine that can run does: the Go scheduler starves none of them.
\* Failures and fallbacks are not owed.
CreditFairness ==
    /\ WF_creditVars(Publisher)
    /\ WF_creditVars(SenderReads \/ SenderReadsEnd)
    /\ WF_creditVars(SenderReturns)
    /\ WF_creditVars(ReadScan \/ ReadManifest \/ ReadEnd)
    /\ WF_creditVars(Start)
    /\ WF_creditVars(ReceiverReturns)
    /\ \A w \in Decider : WF_creditVars(Decide(w))
    /\ WF_creditVars(FetchFile)

CreditSpec == CreditInit /\ [][CreditNext]_creditVars /\ CreditFairness

-----------------------------------------------------------------------------
(* Properties. *)

\* INV-2: the publisher never has more undecided manifests outstanding than
\* the credit it was granted, counted at the sender, where a group is decided
\* once its GROUP_DECISION has been read (sender/state.go, creditGate).
OutstandingWithinCredit == next - Cardinality(decided) <= GroupCredit

\* The credit in the gate, the credit spent on groups whose CREDIT has not
\* been added yet, and nothing else make up the initial grant: no path
\* duplicates or loses a unit while the publisher runs.
CreditConserved ==
    publisher # "stopped" =>
        avail + next + (IF publisher = "publish" THEN 1 ELSE 0)
            = GroupCredit + Cardinality(credited)

\* The manifests waiting in manifestCh never exceed the credit, so the
\* channel's buffer of 2*GroupCredit+8 never fills and the receiver's control
\* reader is always free to read an ERROR or the SESSION_SUMMARY.
ManifestsFit == received - taken <= GroupCredit

\* manifestCh is closed only behind the last manifest, unless the reader has
\* ended: another manifest would be a send on a closed channel.
ClosedAfterLast == closed /\ reader => received = groups

\* A decide pool that has returned in a session that has not failed has
\* decided every group (receiver/run.go, pipeline.wait closes the queue on
\* this signal).
PoolDecidesAll ==
    started /\ ~cancelled /\ (\A w \in Decider : decider[w].at = "gone") =>
        \A g \in 0 .. groups - 1 :
            \/ g \in decided
            \/ \E i \in DOMAIN answers : answers[i] = [type |-> "decision", g |-> g]

\* The bytes pushed for fetching never exceed the free space measured at
\* startup, whatever the interleaving of decide workers and fallbacks: the
\* guard stops the session "before writing rather than after filling the
\* disk" (receiver/space.go).
ClaimsFitDisk == claimed <= Free

\* Every session ends: all groups are decided and fetched and all credit is
\* back at the gate, or both ends return after a failure of either.  In
\* particular a full need queue, withheld credit and a sleeping publisher
\* never wait for each other.
Ends == <>Finished

=============================================================================
