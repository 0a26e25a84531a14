------------------------------ MODULE Session -------------------------------
(***************************************************************************)
(* One transfer, end to end: how a session of a sender and a receiver      *)
(* comes to its end (internal/sender/run.go, internal/receiver/run.go and  *)
(* the servicers and fetchers between them).                               *)
(*                                                                         *)
(*  - The receiver decides groups, requests the needed files on its data   *)
(*    channels, verifies and publishes them, retries, and links hardlink   *)
(*    secondaries or fetches their content instead.                        *)
(*  - The sender serves requests, records how each ended in its tracker,   *)
(*    and when the tracker says the session is over sends SESSION_SUMMARY  *)
(*    with the set of files it completed (a digest of it).                 *)
(*  - The receiver, once its queue is drained, answers with its own set;   *)
(*    each side compares and chooses its exit code.                        *)
(*                                                                         *)
(* The control channel is a FIFO in each direction; nothing orders it with *)
(* the data channels.  The need queue is the work pool it implements       *)
(* (WorkPool), the tracker's methods are the atomic steps Tracker shows    *)
(* them to be.  Manifests and credit are not here: a group may be decided  *)
(* at any time.  A data channel does not break here.                       *)
(***************************************************************************)
EXTENDS Integers, Sequences, FiniteSets

CONSTANTS
    File,         \* the regular files of the plan
    Group,        \* the plan's groups: a partition of File
    Link,         \* the files that share one hardlink key
    Invalid,      \* entries the receiver rejects (path rules, collisions)
    Channel,      \* data channels
    MaxRetries,   \* --max-retries
    SourceFaults, \* of {"E6003", "E6004"}: faults the servicers meet
    DestFaults,   \* of {"E8001", "E7002", "E7003", "E7009"}: the receiver's
    Mishaps,      \* of {"signal", "reset", "cut"}: what may befall a process
    Patient,      \* timeouts expire only when the session stands still
    None

ASSUME SessionAssumption ==
    /\ IsFiniteSet(File)
    /\ UNION Group = File
    /\ \A g, h \in Group : g # h => g \cap h = {}
    /\ \A g \in Group : Cardinality(g \cap Link) <= 1
    /\ Link \subseteq File /\ Invalid \subseteq File
    /\ MaxRetries \in Nat
    /\ SourceFaults \subseteq {"E6003", "E6004"}
    /\ DestFaults \subseteq {"E8001", "E7002", "E7003", "E7009"}
    /\ Mishaps \subseteq {"signal", "reset", "cut"}
    /\ Patient \in BOOLEAN

\* None is no file, no set of files, no claim, no outcome or fault of a stream,
\* no error and no exit code.
ASSUME NoneAssumption ==
    /\ None \notin File
    /\ \A S \in SUBSET File : S # None
    /\ \A S, T \in SUBSET File : [done |-> S, failed |-> T] # None
    /\ None \notin {"complete", "E6003", "E6004"}
    /\ None \notin {"signal", "peer", "cancelled", "E3003", "E3005", "E4005",
                     "E5005", "E7003", "E9002"}
    /\ None \notin {0, 1, 2, 5, 137}

VARIABLES
    \* The wires.
    toSender, toReceiver, \* the control channel
    request,     \* request[c]: FILE_REQUEST on its way on channel c
    reply,       \* reply[c]: how the stream sent for it ends
    \* The sender.
    serving,     \* serving[c]: the file c's servicer has an open request for
    outcome,     \* outcome[c]: the reply it sent but has not recorded yet
    sDecided, needed, resolved, sCompleted, sFailed, over, \* the tracker
    sMain,       \* "wait", "ack" or "exited"
    sRoot,       \* its root context is cancelled
    sFatal,      \* its first fatal error
    claimed,     \* what it put into SESSION_SUMMARY
    ackBox,      \* the SESSION_SUMMARY_ACK it has received
    sExit,       \* its exit code
    \* The receiver.
    decided,     \* groups decided
    pool,        \* pool[f]: the need queue's view of f
    attempt,     \* attempt[f]: retries of f so far
    fetch,       \* fetch[c]: the file c's fetcher holds
    onDest,      \* files whose content is in place
    rCompleted,  \* files recorded as complete
    failed,      \* FilesFailed
    primaries, seen, placed, parked, \* the hardlink map, for the one key
    rMain,       \* "pipeline", "summary" or "exited"
    rRoot, rFault, summaryBox, rExit

trackerVars == <<sDecided, needed, resolved, sCompleted, sFailed, over>>
servicerVars == <<serving, outcome>>
senderVars == <<sMain, sRoot, sFatal, claimed, ackBox, sExit>>
linkVars == <<primaries, seen, placed, parked>>
fileVars == <<pool, attempt, onDest, rCompleted, failed, linkVars>>
receiverVars == <<rMain, rRoot, rFault, summaryBox, rExit>>
wireVars == <<toSender, toReceiver, request, reply>>
vars == <<wireVars, servicerVars, trackerVars, senderVars, decided, fetch,
          fileVars, receiverVars>>

\* fault.ExitCode: E3003 is an Item-class code wherever it turns up.
ExitCode(fault) == CASE fault = "signal" -> 5
                     [] fault = "E3003" -> 1
                     [] OTHER -> 2

Killed == 137

Message(type) == [type |-> type]

Init ==
    /\ toSender = <<>> /\ toReceiver = <<>>
    /\ request = [c \in Channel |-> None]
    /\ reply = [c \in Channel |-> None]
    /\ serving = [c \in Channel |-> None]
    /\ outcome = [c \in Channel |-> None]
    /\ sDecided = {} /\ needed = {} /\ resolved = {} /\ sCompleted = {} /\ sFailed = {}
    /\ over = (Group = {})
    /\ sMain = "wait" /\ sRoot = FALSE /\ sFatal = None
    /\ claimed = None /\ ackBox = None /\ sExit = None
    /\ decided = {}
    /\ pool = [f \in File |-> "absent"]
    /\ attempt = [f \in File |-> 0]
    /\ fetch = [c \in Channel |-> None]
    /\ onDest = {} /\ rCompleted = {} /\ failed = 0
    /\ primaries = {} /\ seen = FALSE /\ placed = FALSE /\ parked = {}
    /\ rMain = "pipeline" /\ rRoot = FALSE /\ rFault = None
    /\ summaryBox = None /\ rExit = None

-----------------------------------------------------------------------------
(***************************************************************************)
(* The sender's servicers and tracker.                                     *)
(***************************************************************************)

\* reevalLocked.
Reeval ==
    over' = \/ over
            \/ /\ sDecided' = Group
               /\ \A c \in Channel : serving'[c] = None
               /\ needed' \subseteq resolved'

\* servicer.run reads a FILE_REQUEST: reqStarted.
ReadRequest(c) ==
    /\ sMain # "exited"
    /\ serving[c] = None
    /\ request[c] # None
    /\ serving' = [serving EXCEPT ![c] = request[c]]
    /\ request' = [request EXCEPT ![c] = None]
    /\ UNCHANGED <<toSender, toReceiver, reply, outcome, trackerVars, senderVars,
                   decided, fetch, fileVars, receiverVars>>

\* serve streams the file and ends with FILE_COMPLETE, or with a FILE_ERROR:
\* E6003 stands for the faults a retry cannot mend, E6004 for the others.
Serve(c) ==
    /\ sMain # "exited"
    /\ serving[c] # None
    /\ outcome[c] = None
    /\ \E o \in {"complete"} \cup SourceFaults :
          /\ outcome' = [outcome EXCEPT ![c] = o]
          /\ reply' = [reply EXCEPT ![c] = o]
    /\ UNCHANGED <<toSender, toReceiver, request, serving, trackerVars, senderVars,
                   decided, fetch, fileVars, receiverVars>>

\* Mutants of Resolves and Permanent: a file whose source is gone waits for a
\* request that never comes; it is not tallied as failed.
ResolvesComplete(o) == o = "complete"
PermanentNever(o) == FALSE

\* The arguments resolve and permanent of reqFailed.
Resolves(o) == o # "E6004"
Permanent(o) == o = "E6003"

\* ... and only then are reqCompleted or reqFailed called.
Record(c) ==
    /\ sMain # "exited"
    /\ outcome[c] # None
    /\ LET o == outcome[c]
           f == serving[c]
       IN /\ resolved' = IF Resolves(o) THEN resolved \cup {f} ELSE resolved
          /\ sCompleted' = IF o = "complete" THEN sCompleted \cup {f} ELSE sCompleted
          /\ sFailed' = IF Permanent(o) THEN sFailed \cup {f} ELSE sFailed
    /\ serving' = [serving EXCEPT ![c] = None]
    /\ outcome' = [outcome EXCEPT ![c] = None]
    /\ UNCHANGED <<sDecided, needed>>
    /\ Reeval
    /\ UNCHANGED <<wireVars, senderVars, decided, fetch, fileVars, receiverVars>>

\* setFatal keeps the first error.
SetFatal(fault) == sFatal' = IF sFatal = None THEN fault ELSE sFatal

\* The sender's control.reader.
SenderReads ==
    /\ sMain # "exited"
    /\ toSender # <<>>
    /\ toSender' = Tail(toSender)
    /\ LET m == Head(toSender) IN
       \/ /\ m.type = "decision"
          /\ sDecided' = sDecided \cup {m.group}
          /\ needed' = needed \cup m.needed
          /\ UNCHANGED <<resolved, sCompleted, sFailed, serving>>
          /\ Reeval
          /\ UNCHANGED <<sRoot, sFatal, ackBox>>
       \/ /\ m.type = "ack"
          /\ ackBox' = m.done
          /\ UNCHANGED <<trackerVars, serving, sRoot, sFatal>>
       \/ /\ m.type = "error"
          /\ SetFatal("peer")
          /\ sRoot' = TRUE
          /\ UNCHANGED <<trackerVars, serving, ackBox>>
       \/ /\ m.type = "close"
          /\ sRoot' = TRUE
          /\ UNCHANGED <<trackerVars, serving, sFatal, ackBox>>
       \/ /\ m.type \in {"E3003", "E4005"}
          /\ IF sRoot THEN UNCHANGED sFatal ELSE SetFatal(m.type)
          /\ sRoot' = TRUE
          /\ UNCHANGED <<trackerVars, serving, ackBox>>
    /\ UNCHANGED <<toReceiver, request, reply, outcome, sMain, claimed, sExit,
                   decided, fetch, fileVars, receiverVars>>

(***************************************************************************)
(* The sender's main goroutine.                                            *)
(***************************************************************************)
\* A timeout may expire at any time, or, if Patient, only when both sides
\* wait and nothing is on its way.
Quiet ==
    /\ sMain # "exited" =>
          /\ toSender = <<>> /\ ~sRoot
          /\ IF sMain = "wait" THEN ~over ELSE ackBox = None
          /\ \A c \in Channel : request[c] = None /\ serving[c] = None
    /\ rMain # "exited" =>
          toReceiver = <<>> /\ ~rRoot /\ rMain = "summary" /\ summaryBox = None
Timeout == Patient => Quiet

\* finish, with the fatal error the run ends with, if any, and whether files
\* failed.  The peer is told unless a signal ended the run; then the control
\* channel is closed.
SenderFinish(fault, partial) ==
    /\ sMain' = "exited"
    /\ sFatal' = fault
    /\ sExit' = IF fault # None THEN ExitCode(fault) ELSE IF partial THEN 1 ELSE 0
    /\ toReceiver' = toReceiver
                       \o (IF fault \in {None, "signal"} THEN <<>> ELSE <<Message("error")>>)
                       \o <<Message("close")>>

First(old, fault) == IF old = None THEN fault ELSE old

\* tracker.wait returns nil: the summary goes out, or cannot be sent any more.
SendSummary ==
    /\ sMain = "wait"
    /\ over
    /\ \/ /\ claimed' = [done |-> sCompleted, failed |-> sFailed]
          /\ toReceiver' = Append(toReceiver, [type |-> "summary", done |-> sCompleted])
          /\ sMain' = "ack"
          /\ UNCHANGED <<sFatal, sExit>>
       \/ /\ rMain = "exited"
          /\ SenderFinish(First(sFatal, "E3003"), FALSE)
          /\ UNCHANGED claimed
    /\ UNCHANGED <<toSender, request, reply, servicerVars, trackerVars, sRoot, ackBox,
                   decided, fetch, fileVars, receiverVars>>

\* tracker.wait returns an error: the context's, or E9002.
WaitFails ==
    /\ sMain = "wait"
    /\ \/ sRoot /\ SenderFinish(First(sFatal, "cancelled"), FALSE)
       \/ sDecided = Group /\ ~over /\ Timeout /\ SenderFinish(First(sFatal, "E9002"), FALSE)
    /\ UNCHANGED <<toSender, request, reply, servicerVars, trackerVars, sRoot, claimed,
                   ackBox, decided, fetch, fileVars, receiverVars>>

\* Mutant of SenderAgrees: the acknowledged digest is not compared.
SenderTrusts == TRUE

SenderAgrees == ackBox = claimed.done

\* The select after SESSION_SUMMARY: any ready case is taken.
AwaitAck ==
    /\ sMain = "ack"
    /\ \/ /\ ackBox # None
          /\ IF SenderAgrees
             THEN SenderFinish(sFatal, claimed.failed # {})
             ELSE SenderFinish(First(sFatal, "E5005"), FALSE)
       \/ sRoot /\ SenderFinish(sFatal, FALSE)
       \/ Timeout /\ SenderFinish(First(sFatal, "E9002"), FALSE)
    /\ UNCHANGED <<toSender, request, reply, servicerVars, trackerVars, sRoot, claimed,
                   ackBox, decided, fetch, fileVars, receiverVars>>

SenderMain == SendSummary \/ WaitFails \/ AwaitAck

-----------------------------------------------------------------------------
(***************************************************************************)
(* The receiver's decide pool.                                             *)
(***************************************************************************)
\* session.fail keeps the first error and cancels the root context.
RFail(fault) == rFault' = First(rFault, fault) /\ rRoot' = TRUE

\* Cancelling the root context makes pop return; it interrupts neither a
\* decision pass nor a fetch under way.
Running == rMain # "exited"
Working == Running /\ ~rRoot

\* decideFile for the entries L of a group that carry the hardlink key (at
\* most one): an entry is linked to a placed file, or becomes the key's
\* primary (the first one, or one whose link failed), or is parked until the
\* primary is placed; one the journal of an earlier run lists is skipped and
\* the hardlink map hears nothing of it.  present: entries whose content is
\* already there; need: those to fetch; here: those in place now.  A decision
\* is atomic here (HardlinkMap interleaves them), so nobody is parked where a
\* primary begins.
LinkDecision(L, present, need, here) ==
    \/ /\ placed \/ L \subseteq present
       /\ need = {} /\ here = L
       /\ UNCHANGED linkVars
    \/ /\ L # {}
       /\ IF placed THEN "E7009" \in DestFaults ELSE ~seen
       /\ need = L \ present /\ here = L \cap present
       /\ primaries' = primaries \cup L
       /\ seen' = TRUE
       /\ placed' = (here # {})
       /\ UNCHANGED parked
    \/ /\ L # {} /\ ~placed /\ seen
       /\ need = {} /\ here = {}
       /\ parked' = parked \cup L
       /\ UNCHANGED <<primaries, seen, placed>>

\* decideGroup: the entries are decided, GROUP_DECISION is sent, the needed
\* files are queued (or the space guard fails the session with E7003).
Decide(g) ==
    /\ Running
    /\ rFault # "signal"
    /\ g \notin decided
    /\ decided' = decided \cup {g}
    /\ LET valid == g \ Invalid IN
       \E present \in SUBSET valid :
       \E need \in SUBSET (valid \cap Link) : \E here \in SUBSET (valid \cap Link) :
          LET N == ((valid \ Link) \ present) \cup need IN
          /\ LinkDecision(valid \cap Link, present, need, here)
          /\ onDest' = onDest \cup (present \ Link) \cup here
          /\ toSender' = Append(toSender, [type |-> "decision", group |-> g, needed |-> N])
          /\ \/ /\ pool' = [f \in File |-> IF f \in N THEN "ready" ELSE pool[f]]
                /\ UNCHANGED <<rFault, rRoot>>
             \/ /\ "E7003" \in DestFaults /\ N # {}
                /\ RFail("E7003")
                /\ UNCHANGED pool
    /\ UNCHANGED <<toReceiver, request, reply, servicerVars, trackerVars, senderVars,
                   fetch, attempt, rCompleted, failed, rMain, summaryBox, rExit>>

\* GROUP_DECISION or CREDIT cannot be sent: the peer's process is gone, or the
\* signal handler has closed the control channel.
DecideSendFails ==
    /\ Running
    /\ decided # Group
    /\ sMain = "exited" \/ rFault = "signal"
    /\ RFail("E3003")
    /\ UNCHANGED <<wireVars, servicerVars, trackerVars, senderVars, decided, fetch,
                   fileVars, rMain, summaryBox, rExit>>

(***************************************************************************)
(* The receiver's fetchers.                                                *)
(***************************************************************************)
\* pop, then FILE_REQUEST.
Fetch(c) ==
    /\ Working
    /\ fetch[c] = None
    /\ \E f \in File :
          /\ pool[f] = "ready"
          /\ pool' = [pool EXCEPT ![f] = "taken"]
          /\ fetch' = [fetch EXCEPT ![c] = f]
          /\ request' = [request EXCEPT ![c] = f]
    /\ UNCHANGED <<toSender, toReceiver, reply, servicerVars, trackerVars, senderVars,
                   decided, attempt, onDest, rCompleted, failed, linkVars, receiverVars>>

\* The fetcher has read the terminal message of its request.
Consume(c) ==
    /\ Running
    /\ reply[c] # None
    /\ reply' = [reply EXCEPT ![c] = None]
    /\ fetch' = [fetch EXCEPT ![c] = None]
    /\ UNCHANGED <<toSender, toReceiver, request, servicerVars, trackerVars, senderVars,
                   decided, rMain, summaryBox, rExit>>

\* The secondaries that wait for f (registerMaterialised, abandon).
Waiting(f) == IF f \in primaries THEN parked ELSE {}

\* fetcher.finish: verified, published, journalled.  If the file is its
\* key's primary the parked secondaries are linked to it; one whose link
\* fails (E7009) is queued as content, or counted if there is no space.
Publish(c) ==
    /\ Consume(c)
    /\ reply[c] = "complete"
    /\ LET f == fetch[c]
           waiting == Waiting(f)
       IN \E linked \in SUBSET waiting : \E queued \in SUBSET waiting :
             /\ linked \cap queued = {}
             /\ queued # {} => "E7009" \in DestFaults
             /\ linked \cup queued # waiting => {"E7009", "E7003"} \subseteq DestFaults
             /\ onDest' = onDest \cup {f} \cup linked
             /\ rCompleted' = rCompleted \cup {f}
             /\ failed' = failed + Cardinality(waiting \ (linked \cup queued))
             /\ pool' = [h \in File |-> IF h = f THEN "finished"
                                        ELSE IF h \in queued THEN "ready" ELSE pool[h]]
             /\ parked' = parked \ waiting
             /\ placed' = (placed \/ f \in primaries)
    /\ UNCHANGED <<attempt, primaries, seen, rRoot, rFault>>

\* The item faults a fetch can end with: the sender's, or, after a complete
\* stream, a failed verification or publication.
ItemFaults(c) == IF reply[c] = "complete" THEN DestFaults \cap {"E8001", "E7002"}
                 ELSE {reply[c]}
Retryable == {"E6004", "E8001"}

\* Mutant of Tally: nothing is counted.
TallyNone(f) == 0

RetriesLeft(f) == attempt[f] + 1 <= MaxRetries

\* FilesFailed grows by the file and the secondaries that fail with it.
Tally(f) == 1 + Cardinality(Waiting(f))

Retry(c) ==
    /\ Consume(c)
    /\ ~rRoot
    /\ \E e \in ItemFaults(c) : e \in Retryable
    /\ RetriesLeft(fetch[c])
    /\ attempt' = [attempt EXCEPT ![fetch[c]] = @ + 1]
    /\ pool' = [pool EXCEPT ![fetch[c]] = "ready"]
    /\ UNCHANGED <<onDest, rCompleted, failed, linkVars, rRoot, rFault>>

\* The file has failed; so have the secondaries parked on it (abandon).
FileFails(c) ==
    /\ Consume(c)
    /\ ~rRoot
    /\ \E e \in ItemFaults(c) : e \in Retryable => ~RetriesLeft(fetch[c])
    /\ pool' = [pool EXCEPT ![fetch[c]] = "finished"]
    /\ failed' = failed + Tally(fetch[c])
    /\ parked' = parked \ Waiting(fetch[c])
    /\ IF fetch[c] \in primaries THEN seen' = FALSE /\ placed' = FALSE
       ELSE UNCHANGED <<seen, placed>>
    /\ UNCHANGED <<attempt, onDest, rCompleted, primaries, rRoot, rFault>>

\* A fatal fault while writing, or no message for the stall timeout.
FetchFatal(c) ==
    \/ /\ Consume(c)
       /\ ~rRoot
       /\ "E7003" \in DestFaults
       /\ reply[c] = "complete"
       /\ RFail("E7003")
       /\ pool' = [pool EXCEPT ![fetch[c]] = "finished"]
       /\ UNCHANGED <<attempt, onDest, rCompleted, failed, linkVars>>
    \/ /\ Working
       /\ fetch[c] # None /\ reply[c] = None
       /\ Timeout
       /\ RFail("E3005")
       /\ UNCHANGED <<wireVars, servicerVars, trackerVars, senderVars, decided, fetch,
                      fileVars, rMain, summaryBox, rExit>>

\* Any fault once the root context is done: the file goes back to the queue,
\* neither counted nor resolved.
Cancelled(c) ==
    /\ Consume(c)
    /\ rRoot
    /\ ItemFaults(c) # {}
    /\ pool' = [pool EXCEPT ![fetch[c]] = "ready"]
    /\ UNCHANGED <<attempt, onDest, rCompleted, failed, linkVars, rRoot, rFault>>

Fetcher(c) ==
    Fetch(c) \/ Publish(c) \/ Retry(c) \/ FileFails(c) \/ FetchFatal(c) \/ Cancelled(c)

(***************************************************************************)
(* The receiver's control.reader and main goroutine.                       *)
(***************************************************************************)
ReceiverReads ==
    /\ rMain # "exited"
    /\ toReceiver # <<>>
    /\ toReceiver' = Tail(toReceiver)
    /\ LET m == Head(toReceiver) IN
       \/ m.type = "summary" /\ summaryBox' = m.done /\ UNCHANGED <<rRoot, rFault>>
       \/ m.type = "error" /\ RFail("peer") /\ UNCHANGED summaryBox
       \/ m.type = "close" /\ rRoot' = TRUE /\ UNCHANGED <<rFault, summaryBox>>
       \/ /\ m.type \in {"E3003", "E4005"}
          /\ IF rRoot THEN UNCHANGED <<rRoot, rFault>> ELSE RFail(m.type)
          /\ UNCHANGED summaryBox
    /\ UNCHANGED <<toSender, request, reply, servicerVars, trackerVars, senderVars,
                   decided, fetch, fileVars, rMain, rExit>>

\* Mutant of Partial: rejected entries are left out.
PartialFailed == failed > 0

\* "sum.FilesFailed > 0 || sum.FilesRejected > 0"
Partial == failed > 0 \/ Invalid \cap UNION decided # {}

\* finish, as on the sender; a signal handler has closed the channel already.
ReceiverFinish(fault, told) ==
    /\ rMain' = "exited"
    /\ rFault' = fault
    /\ rExit' = IF fault # None THEN ExitCode(fault)
                ELSE IF Partial THEN 1 ELSE 0
    /\ toSender' = toSender \o told
                     \o (IF fault \in {None, "signal"} THEN <<>> ELSE <<Message("error")>>)
                     \o (IF fault = "signal" THEN <<>> ELSE <<Message("close")>>)

Drained == decided = Group /\ \A f \in File : pool[f] \notin {"ready", "taken"}

\* Mutant of PipelineDone: the cancelled root context is not watched.
PipelineDoneDrained == Drained

\* The pipeline is drained (waitDrained, chWg), or the root context is done.
PipelineDone == rRoot \/ Drained

PipelineEnds ==
    /\ rMain = "pipeline"
    /\ rFault = None
    /\ PipelineDone
    /\ rMain' = "summary"
    /\ UNCHANGED <<wireVars, servicerVars, trackerVars, senderVars, decided, fetch,
                   fileVars, rRoot, rFault, summaryBox, rExit>>

\* "if s.err() != nil { return finish() }"
ReceiverFails ==
    /\ rMain = "pipeline"
    /\ rFault # None
    /\ ReceiverFinish(rFault, <<>>)
    /\ UNCHANGED <<toReceiver, request, reply, servicerVars, trackerVars, senderVars,
                   decided, fetch, fileVars, rRoot, summaryBox>>

\* Mutant of ReceiverAgrees: the sender's digest is not compared.
ReceiverTrusts == TRUE

ReceiverAgrees == summaryBox = rCompleted

\* The select for SESSION_SUMMARY, where any ready case is taken; then the
\* acknowledgement, if it can still be sent, and the verdict.
Reconcile ==
    /\ rMain = "summary"
    /\ \/ /\ summaryBox # None
          /\ \/ /\ rFault # "signal"
                /\ ReceiverFinish(IF ReceiverAgrees THEN rFault
                                  ELSE First(rFault, "E5005"),
                                  <<[type |-> "ack", done |-> rCompleted]>>)
             \/ /\ rFault = "signal" \/ sMain = "exited"
                /\ ReceiverFinish(First(rFault, "E3003"), <<>>)
       \/ rRoot /\ ReceiverFinish(First(rFault, "E4005"), <<>>)
       \/ Timeout /\ ReceiverFinish(First(rFault, "E9002"), <<>>)
    /\ UNCHANGED <<toReceiver, request, reply, servicerVars, trackerVars, senderVars,
                   decided, fetch, fileVars, rRoot, summaryBox>>

ReceiverMain == PipelineEnds \/ ReceiverFails \/ Reconcile

-----------------------------------------------------------------------------
(***************************************************************************)
(* Mishaps: a process is interrupted, or dies and its sockets are reset    *)
(* (the peer reads E3003) or just end (E4005, no CLOSE record).            *)
(***************************************************************************)
SocketFault == [reset |-> "E3003", cut |-> "E4005"]

SenderMishap ==
    /\ sMain # "exited"
    /\ \/ /\ "signal" \in Mishaps
          /\ ~sRoot
          /\ SetFatal("signal")
          /\ sRoot' = TRUE
          /\ UNCHANGED <<sMain, sExit, toReceiver>>
       \/ \E how \in Mishaps \cap DOMAIN SocketFault :
             /\ sMain' = "exited"
             /\ sExit' = Killed
             /\ toReceiver' = Append(toReceiver, Message(SocketFault[how]))
             /\ UNCHANGED <<sRoot, sFatal>>
    /\ UNCHANGED <<toSender, request, reply, servicerVars, trackerVars, claimed, ackBox,
                   decided, fetch, fileVars, receiverVars>>

\* The receiver's signal handler also closes the control channel.
ReceiverMishap ==
    /\ rMain # "exited"
    /\ \/ /\ "signal" \in Mishaps
          /\ ~rRoot
          /\ RFail("signal")
          /\ toSender' = Append(toSender, Message("close"))
          /\ UNCHANGED <<rMain, rExit>>
       \/ \E how \in Mishaps \cap DOMAIN SocketFault :
             /\ rMain' = "exited"
             /\ rExit' = Killed
             /\ toSender' = Append(toSender, Message(SocketFault[how]))
             /\ UNCHANGED <<rRoot, rFault>>
    /\ UNCHANGED <<toReceiver, request, reply, servicerVars, trackerVars, senderVars,
                   decided, fetch, fileVars, summaryBox>>

BothExited == sMain = "exited" /\ rMain = "exited"
Ended == BothExited /\ UNCHANGED vars

-----------------------------------------------------------------------------
Servicer(c) == ReadRequest(c) \/ Serve(c) \/ Record(c)
Decider == (\E g \in Group : Decide(g)) \/ DecideSendFails

Next ==
    \/ \E c \in Channel : Servicer(c) \/ Fetcher(c)
    \/ SenderReads
    \/ SenderMain
    \/ Decider
    \/ ReceiverReads
    \/ ReceiverMain
    \/ SenderMishap
    \/ ReceiverMishap
    \/ Ended

Spec == Init /\ [][Next]_vars

\* Go schedules every goroutine, TCP delivers or reports a failure, and
\* timeouts expire; no mishap has to happen.  Retries are bounded, so every
\* behaviour comes to rest, and to be fair to all of them together is to be
\* fair to each.
FairSpec ==
    /\ Spec
    /\ WF_vars(\/ \E c \in Channel : Servicer(c) \/ Fetcher(c)
               \/ SenderReads \/ SenderMain
               \/ Decider
               \/ ReceiverReads \/ ReceiverMain)

-----------------------------------------------------------------------------
(***************************************************************************)
(* What each side knows of a file that is not in place.                    *)
(***************************************************************************)
\* The files GROUP_DECISIONs ask the sender for, read already or on their way.
Asked ==
    needed \cup
    UNION {toSender[i].needed : i \in {k \in 1 .. Len(toSender) : toSender[k].type = "decision"}}

\* Files fetched that no decision asked for: hardlink secondaries whose link failed.
Fallbacks == {f \in File : pool[f] # "absent"} \ Asked

\* Files the sender has found gone at the source, recorded or not.
GoneAtSource == sFailed \cup {serving[c] : c \in {x \in Channel : outcome[x] = "E6003"}}

\* Files the receiver has fetched in vain and will not ask for again.
GivenUp == {f \in File : pool[f] = "finished"} \ rCompleted

\* Files that will not come, with the secondaries parked behind them.
Stranded(S) == S \cup UNION {Waiting(f) : f \in S}

\* A receiver that exits 0 has every file of the plan in place, whatever was
\* retried, linked, fetched instead of linked, cut off or killed.  The one way
\* round it is a sender that a signal ends after it has sent its summary
\* (the select at receiver/run.go:781 may prefer that summary to the closed
\* channel): then what can be missing are files the sender has counted as
\* failed, fallbacks it was never asked for, and secondaries of these.
SuccessIsComplete ==
    rExit = 0 /\ ~(File \subseteq onDest) =>
        /\ sFatal = "signal"
        /\ File \ onDest \subseteq Stranded((sFailed \cup Fallbacks) \ onDest)

\* Exit 0 on the receiver: "Everything planned was transferred or correctly
\* skipped; no failures" (ARCHITECTURE 14.6), signals included.
ZeroMeansComplete == rExit = 0 => File \subseteq onDest

\* A receiver that exits 0 or 1 has counted every file that is not in place
\* ("Completed, but with Item failures", ARCHITECTURE 14.6), hardlink
\* secondaries abandoned with their primary included.
Honest ==
    rExit \in {0, 1} =>
        failed + Cardinality(Invalid \cap UNION decided) = Cardinality(File \ onDest)

\* A disagreement about what was moved fails both sides ("E5005, exit code 2
\* on both", ARCHITECTURE 9.3): neither reports success.
DisagreementOnBoth ==
    /\ rFault = "E5005" => sExit \notin {0, 1}
    /\ sFatal = "E5005" => rFault = "E5005"

\* A sender whose exit 0 rests on the acknowledgement, and not on a cancelled
\* wait for it, has delivered every file the receiver accepts, unless the
\* receiver fetched files it had not asked for in a decision.  (DestFaults has
\* not both E7009 and E7003: a failed link for which there is no space is not
\* even fetched, and only the receiver knows.)
AckMeansDelivered ==
    sExit = 0 /\ ~sRoot /\ Fallbacks = {} => File \ Invalid \subseteq onDest

\* Why a session may have to end fatally: the destination is full; a link
\* failed and its content was fetched behind the tracker's back; or the receiver
\* gave up on a file that the sender believes delivered, or still waits for.
FatalCause ==
    \/ rFault = "E7003"
    \/ Fallbacks # {}
    \/ \E f \in GivenUp : f \in sCompleted \/ f \notin GoneAtSource

\* While both processes and their connection live, neither side exits 2 for any
\* other reason: files gone at the source, retries that succeed after all,
\* rejected entries, abandoned secondaries, a stale resolution or a summary sent
\* before the last retry lead neither to E5005 nor to a wait that only its
\* timeout ends.
FatalForCause == sExit = 2 \/ rExit = 2 => FatalCause

\* "Count it, continue, surface it in the summary, exit 1 at the end"
\* (ARCHITECTURE 14.1, of all failures of single files).
NoFatalEnd == sExit # 2 /\ rExit # 2

\* Exit 0 on the sender: "Everything planned was transferred or correctly
\* skipped; no failures" (ARCHITECTURE 14.6).
ZeroMeansDelivered == sExit = 0 => File \subseteq onDest

\* Both processes end, whatever happens to them or to the files.
BothEnd == <>BothExited

\* A session in which no file fails for good, however often it was retried, and
\* no link fails, ends with every file the receiver accepts in place, fetched or
\* linked, and with exit 0, or 1 on the side that rejected entries.
CleanEnd ==
    <>(BothExited /\ (failed = 0 /\ ~FatalCause =>
          /\ sExit = 0 /\ rExit = (IF Invalid = {} THEN 0 ELSE 1)
          /\ File \ Invalid \subseteq onDest))
=============================================================================
