------------------------------ MODULE Tracker -------------------------------
(***************************************************************************)
(* The sender's session-completion accounting (internal/sender/state.go,   *)
(* tracker) with the goroutines that drive it:                             *)
(*                                                                         *)
(*  - the control reader, which records GROUP_DECISIONs (sender/run.go);   *)
(*  - the servicers, one per data channel, which start a request, stream   *)
(*    chunks and end the request in one of several ways (serve.go);        *)
(*  - the main goroutine in wait, which learns that the session is over,   *)
(*    is cancelled, or gives up with E9002 after a silent drain window.    *)
(*                                                                         *)
(* Each method holds the tracker's mutex throughout and is one action; the *)
(* bump that follows the unlock is a step of its own.  The progress        *)
(* counter is only ever compared with an earlier reading of itself, so the *)
(* model keeps whether it moved since that reading.                        *)
(***************************************************************************)
EXTENDS Integers, FiniteSets

CONSTANTS
    File,     \* the file ids of the plan
    Group,    \* the group ids of the plan
    Members,  \* Members[g]: the file ids first+0, first+1, ... of group g
    Servicer, \* data-channel slots, one servicer each
    Request,  \* request ids; the receiver never reuses one
    None

ASSUME TrackerAssumption ==
    /\ IsFiniteSet(File)
    /\ IsFiniteSet(Group)
    /\ IsFiniteSet(Request)
    /\ None \notin File \cup Request
    /\ Members \in [Group -> SUBSET File]

VARIABLES
    decidedSet,    \* groups with a recorded decision
    groupsDecided, \* how many
    needed,        \* file ids some decision asked for
    resolved,      \* file ids completed, failed for good, or cancelled
    reqToFile,     \* the open requests' files; None for an absent key
    inflight,      \* the counter of open requests
    completed,     \* completed (a list without duplicates) = completedSet
    failedSet,
    decidedDone,   \* allDecidedCh is closed
    doneClosed,    \* doneCh is closed
    moved,         \* progress # the value wait read last
    asked,         \* asked[r]: the file request r named; None before it came
    serving,       \* serving[s]: the request servicer s is working on
    at,            \* at[s]: where servicer s is
    waiter,        \* where tracker.wait is, or what it returned
    rootDone       \* the session's root context is cancelled

requestVars == <<reqToFile, inflight, resolved>>
decisionVars == <<decidedSet, groupsDecided, needed>>
countVars == <<completed, failedSet>>
closeVars == <<decidedDone, doneClosed>>
servicerVars == <<asked, serving, at>>
trackerVars == <<requestVars, decisionVars, countVars, closeVars>>
vars == <<trackerVars, moved, servicerVars, waiter, rootDone>>

ServicerState == {"idle", "started", "serve", "ended"}
Returned == {"done", "cancelled", "E9002"}
WaiterState == {"groups", "drain", "sample"} \cup Returned

Open == {r \in Request : reqToFile[r] # None}
Total == Cardinality(Group)

-----------------------------------------------------------------------------
\* Mutant of Reeval: the files that are still needed are not looked at.
ReevalHasty ==
    /\ decidedDone' = (decidedDone \/ groupsDecided' >= Total)
    /\ doneClosed' = (doneClosed \/ (groupsDecided' >= Total /\ inflight' <= 0))

\* reevalLocked, which every method that ends something calls last.
Reeval ==
    /\ decidedDone' = (decidedDone \/ groupsDecided' >= Total)
    /\ doneClosed' = \/ doneClosed
                     \/ /\ groupsDecided' >= Total
                        /\ inflight' <= 0
                        /\ needed' \subseteq resolved'

\* finishLocked: a request that is not (or no longer) open changes nothing.
FinishLocked(r, resolve) ==
    IF r \in Open
    THEN /\ reqToFile' = [reqToFile EXCEPT ![r] = None]
         /\ inflight' = inflight - 1
         /\ resolved' = IF resolve THEN resolved \cup {reqToFile[r]} ELSE resolved
    ELSE UNCHANGED requestVars

-----------------------------------------------------------------------------
Init ==
    /\ decidedSet = {}
    /\ groupsDecided = 0
    /\ needed = {}
    /\ resolved = {}
    /\ reqToFile = [r \in Request |-> None]
    /\ inflight = 0
    /\ completed = {}
    /\ failedSet = {}
    /\ decidedDone = (Total = 0)
    /\ doneClosed = (Total = 0)
    /\ moved = FALSE
    /\ asked = [r \in Request |-> None]
    /\ serving = [s \in Servicer |-> None]
    /\ at = [s \in Servicer |-> "idle"]
    /\ waiter = "groups"
    /\ rootDone = FALSE

(***************************************************************************)
(* The control reader.                                                     *)
(***************************************************************************)

\* tracker.decision for a group not decided before.
Decision(g, N) ==
    /\ g \notin decidedSet
    /\ decidedSet' = decidedSet \cup {g}
    /\ groupsDecided' = groupsDecided + 1
    /\ needed' = needed \cup N
    /\ UNCHANGED <<requestVars, countVars>>
    /\ Reeval

ReadDecision(g) ==
    /\ \E N \in SUBSET Members[g] : Decision(g, N)
    /\ UNCHANGED <<moved, servicerVars, waiter, rootDone>>

\* A second decision for one group is E5009: fatal, and nothing is recorded.
DuplicateDecision(g) ==
    /\ g \in decidedSet
    /\ ~rootDone
    /\ rootDone' = TRUE
    /\ UNCHANGED <<trackerVars, moved, servicerVars, waiter>>

(***************************************************************************)
(* The servicers.                                                          *)
(***************************************************************************)
\* reqStarted: the one method without a re-evaluation.
ReqStarted(s, r, f) ==
    /\ at[s] = "idle"
    /\ asked[r] = None
    /\ asked' = [asked EXCEPT ![r] = f]
    /\ serving' = [serving EXCEPT ![s] = r]
    /\ reqToFile' = [reqToFile EXCEPT ![r] = f]
    /\ inflight' = inflight + 1
    /\ at' = [at EXCEPT ![s] = "started"]
    /\ UNCHANGED <<resolved, decisionVars, countVars, closeVars>>

\* reqCompleted, after FILE_COMPLETE went out.
ReqCompleted(s) ==
    /\ at[s] = "serve"
    /\ FinishLocked(serving[s], TRUE)
    /\ completed' = completed \cup {asked[serving[s]]}
    /\ at' = [at EXCEPT ![s] = "ended"]
    /\ UNCHANGED <<asked, serving, failedSet, decisionVars>>
    /\ Reeval

\* reqFailed.  Its callers pass resolve = permanent: TRUE for a failure that
\* a retry cannot mend, FALSE for one that the receiver retries and for a
\* request that died with its channel.
ReqFailed(s, permanent) ==
    /\ at[s] = "serve"
    /\ FinishLocked(serving[s], permanent)
    /\ failedSet' = IF permanent /\ serving[s] \in Open
                    THEN failedSet \cup {reqToFile[serving[s]]} ELSE failedSet
    /\ at' = [at EXCEPT ![s] = "ended"]
    /\ UNCHANGED <<asked, serving, completed, decisionVars>>
    /\ Reeval

\* Mutant of ReqCancelled: the termination condition is not re-evaluated.
ReqCancelledOnly(s, r) ==
    /\ at[s] = "idle"
    /\ FinishLocked(r, TRUE)
    /\ at' = [at EXCEPT ![s] = "ended"]
    /\ UNCHANGED <<asked, serving, countVars, decisionVars, closeVars>>

\* reqCancelled: FILE_CANCEL, read between two requests of a channel, may
\* name a request another channel is still serving.
ReqCancelled(s, r) ==
    /\ at[s] = "idle"
    /\ FinishLocked(r, TRUE)
    /\ at' = [at EXCEPT ![s] = "ended"]
    /\ UNCHANGED <<asked, serving, countVars, decisionVars>>
    /\ Reeval

\* bump, after the unlock ...
Bump(s) ==
    /\ \/ at[s] = "started" /\ at' = [at EXCEPT ![s] = "serve"] /\ UNCHANGED serving
       \/ /\ at[s] = "ended"
          /\ at' = [at EXCEPT ![s] = "idle"]
          /\ serving' = [serving EXCEPT ![s] = None]
    /\ moved' = TRUE
    /\ UNCHANGED <<trackerVars, asked, waiter, rootDone>>

\* ... and once per streamed chunk.
Chunk(s) ==
    /\ at[s] = "serve"
    /\ moved' = TRUE
    /\ UNCHANGED <<trackerVars, servicerVars, waiter, rootDone>>

ServicerStep(s) ==
    \/ /\ \/ \E r \in Request, f \in File : ReqStarted(s, r, f)
          \/ ReqCompleted(s)
          \/ \E permanent \in BOOLEAN : ReqFailed(s, permanent)
          \/ \E r \in Request : ReqCancelled(s, r)
       /\ UNCHANGED <<moved, waiter, rootDone>>
    \/ Bump(s)
    \/ Chunk(s)

(***************************************************************************)
(* tracker.wait.                                                           *)
(***************************************************************************)
\* A select with several ready cases takes any of them.
WaitReturns ==
    /\ waiter \in {"groups", "drain"}
    /\ \/ doneClosed /\ waiter' = "done"
       \/ rootDone /\ waiter' = "cancelled"
    /\ UNCHANGED <<trackerVars, moved, servicerVars, rootDone>>

\* Every group is decided: the drain watchdog is armed.
WaitArms ==
    /\ waiter = "groups"
    /\ decidedDone
    /\ waiter' = "drain"
    /\ moved' = FALSE
    /\ UNCHANGED <<trackerVars, servicerVars, rootDone>>

\* drainTimeout passed since the select was entered, before anything else in
\* it became ready ...
WaitTimer ==
    /\ waiter = "drain"
    /\ ~doneClosed
    /\ ~rootDone
    /\ waiter' = "sample"
    /\ UNCHANGED <<trackerVars, moved, servicerVars, rootDone>>

\* Mutant of WaitSample: the watchdog never gives up.
WaitSamplePatient ==
    /\ waiter = "sample"
    /\ waiter' = "drain"
    /\ moved' = FALSE
    /\ UNCHANGED <<trackerVars, servicerVars, rootDone>>

\* ... and now the progress counter is compared with its last reading.
WaitSample ==
    /\ waiter = "sample"
    /\ waiter' = IF moved THEN "drain" ELSE "E9002"
    /\ moved' = FALSE
    /\ UNCHANGED <<trackerVars, servicerVars, rootDone>>

CancelRoot ==
    /\ ~rootDone
    /\ rootDone' = TRUE
    /\ UNCHANGED <<trackerVars, moved, servicerVars, waiter>>

\* wait has returned and no channel is busy: Run goes on without the tracker.
Terminated ==
    /\ waiter \in Returned
    /\ \A s \in Servicer : at[s] = "idle"
    /\ UNCHANGED vars

-----------------------------------------------------------------------------
Next ==
    \/ \E g \in Group : ReadDecision(g) \/ DuplicateDecision(g)
    \/ \E s \in Servicer : ServicerStep(s)
    \/ WaitReturns
    \/ WaitArms
    \/ WaitTimer
    \/ WaitSample
    \/ CancelRoot
    \/ Terminated

Spec == Init /\ [][Next]_vars

\* The runtime schedules the main goroutine and its timers expire.
FairSpec ==
    /\ Spec
    /\ WF_vars(WaitReturns)
    /\ WF_vars(WaitArms)
    /\ WF_vars(WaitTimer)
    /\ WF_vars(WaitSample)

-----------------------------------------------------------------------------
\* Every variable has its type; the in-flight counter never goes negative.
TypeOK ==
    /\ decidedSet \subseteq Group
    /\ groupsDecided \in Nat
    /\ needed \subseteq File
    /\ resolved \subseteq File
    /\ reqToFile \in [Request -> File \cup {None}]
    /\ inflight \in Nat
    /\ completed \subseteq File
    /\ failedSet \subseteq File
    /\ decidedDone \in BOOLEAN
    /\ doneClosed \in BOOLEAN
    /\ moved \in BOOLEAN
    /\ asked \in [Request -> File \cup {None}]
    /\ serving \in [Servicer -> Request \cup {None}]
    /\ at \in [Servicer -> ServicerState]
    /\ waiter \in WaiterState
    /\ rootDone \in BOOLEAN

\* Both counters agree with the maps they shadow, however completions,
\* failures and cancellations of the same request interleave.
CountersExact ==
    /\ inflight = Cardinality(Open)
    /\ groupsDecided = Cardinality(decidedSet)

\* A servicer works on a request it was asked for, alone, and an open
\* request's file is the one it asked for.
ServingAsked ==
    /\ \A s \in Servicer : serving[s] # None => asked[serving[s]] # None
    /\ \A s \in Servicer : at[s] \in {"started", "serve"} => serving[s] # None
    /\ \A s, t \in Servicer : serving[s] # None /\ serving[s] = serving[t] => s = t
    /\ \A r \in Open : reqToFile[r] = asked[r]

\* A request a servicer is working on is open, or was cancelled and its file
\* is resolved: whichever way it ends, its file is not forgotten.
WorkTracked ==
    \A s \in Servicer :
        at[s] \in {"started", "serve"} =>
            serving[s] \in Open \/ asked[serving[s]] \in resolved

\* The session ends only when every group is decided and every file the
\* receiver needs is resolved (reevalLocked; ARCHITECTURE 13.7).
DoneIsSound ==
    doneClosed => decidedSet = Group /\ needed \subseteq resolved

\* The end is not missed: doneCh is closed as soon as its condition holds,
\* although reqStarted does not re-evaluate.
DoneNotMissed ==
    decidedSet = Group /\ needed \subseteq resolved /\ Open = {} => doneClosed

\* A completed or permanently failed file is resolved.
CompletedResolved == completed \cup failedSet \subseteq resolved

\* Once the session is over nothing becomes needed any more, and it stays
\* over.
DoneIsFinal ==
    [][doneClosed => /\ doneClosed'
                     /\ UNCHANGED decisionVars]_vars

\* wait does not hang: once every group is decided it returns, unless the
\* session keeps moving for ever.
NoHang == decidedDone ~> (waiter \in Returned \/ moved)

\* The inductive invariant behind the theorems of TrackerProofs.
IInv ==
    /\ TypeOK
    /\ CountersExact
    /\ ServingAsked
    /\ WorkTracked
    /\ DoneIsSound
    /\ DoneNotMissed
    /\ CompletedResolved
=============================================================================
