------------------------------ MODULE Linking -------------------------------
(***************************************************************************)
(* How two processes get linked and keep their data channels: the race of  *)
(* the candidate endpoints (channel.Dial), the handshake, the sender's     *)
(* single accept loop (pair, acceptData, join.accept), SESSION_PARAMS and  *)
(* SESSION_READY, CHANNEL_JOIN, and, while the transfer runs, channels     *)
(* that are lost, rejoined, opened and retired by the tuner.               *)
(*                                                                         *)
(* A connection is <<"dial", e>> (endpoint e of the pairing code),         *)
(* <<"join", k>> (the k-th data connection) or <<"stray", s>> (someone     *)
(* without the pairing code).  phase[c] is the last message exchanged on   *)
(* it, open[c] the ends that have not closed it ("R" receiver, "S"         *)
(* sender).  Keys follow from the nonces of a handshake, so a session is   *)
(* named by its control connection; the record keys of a data channel      *)
(* follow from the session and the channel's id.                           *)
(***************************************************************************)
EXTENDS Naturals, Sequences, FiniteSets

CONSTANTS
    Endpoint,        \* the endpoints of the pairing code
    Reachable,       \* those that lead to the sender
    Stray,           \* connections of peers without the code
    MaxPairAttempts, \* sender: handshakes that may fail (--max-pair-attempts)
    MaxChannels,     \* sender: the largest channel id it admits
    Start,           \* receiver: data channels opened at SESSION_READY
    MinChannels,     \* receiver: the tuner's floor
    Ceiling,         \* receiver: dataCeiling()
    Pinned,          \* receiver: --channels given, no tuner
    IdSpace,         \* a channel id is a uint8: 256 in the code
    None,
    MaxRamps,        \* bound: ramps up of the tuner
    MaxLosses,       \* bound: data connections that break
    MaxTimeouts      \* bound: deadlines that expire on a peer that is alive

ASSUME LinkAssumption ==
    /\ Reachable \subseteq Endpoint /\ IsFiniteSet(Endpoint)
    /\ {MaxPairAttempts, MaxChannels, Start, MinChannels, Ceiling, IdSpace} \subseteq Nat \ {0}
    /\ {MaxRamps, MaxLosses, MaxTimeouts} \subseteq Nat
    /\ Start <= MaxChannels /\ MaxChannels < IdSpace
    /\ Start <= Ceiling /\ MinChannels <= Ceiling /\ Ceiling <= MaxChannels
    /\ Pinned \in BOOLEAN

\* The data connections that can be dialled within the bounds: the first
\* batch, three for every loss, two for every ramp.
MaxDials == Start + 3 * MaxLosses + 2 * MaxRamps

Conn == ({"dial"} \X Endpoint) \cup ({"stray"} \X Stray) \cup ({"join"} \X (1 .. MaxDials))
Dial(e) == <<"dial", e>>
Join(k) == <<"join", k>>

ASSUME NoneAssumption == None \notin Conn

VARIABLES
    phase,       \* phase[c]: see above
    open,        \* open[c]: the ends that have not closed c
    backlog,     \* connections the kernel completed and nobody accepted yet
    reading,     \* the connection the accept loop is reading from
    sMain,       \* sender: "pair", "params", "accept", "run", "over", "failed"
    sess,        \* sender: the control connection
    attempts,    \* sender: handshakes that failed
    accepted,    \* sender: Session.accepted, the ids that ever joined
    serving,     \* sender: data connections with a servicer
    dial,        \* dial[e]: "idle", "busy" or "done"
    results,     \* receiver: outcomes of the dials, in order of arrival
    lost,        \* receiver: how many outcomes were failures
    chosen,      \* receiver: the endpoint that won
    rMain,       \* receiver: "dial", "params", "join", "run", "done", "failed"
    dials,       \* receiver: data connections dialled; nextChID is dials % IdSpace
    pending,     \* receiver: [conn, by]: joins not yet answered
    workers,     \* receiver: live workers, oldest first
    cancelled,   \* receiver: workers the tuner has cancelled
    rejoin,      \* rejoin[k]: attempts the rejoin loop of k has made, or None
    ramp,        \* receiver: channels the tuner still wants to open now
    unproductive,\* receiver: ramps down in a row
    drained,     \* receiver: the need queue is closed and empty
    pipelineDone,\* receiver: set before chWg.Wait
    cut,         \* data connections that end without an authenticated CLOSE
    wg,          \* receiver: the count of chWg
    losses, ramps, timeouts  \* how much of the bounds is used

connVars == <<phase, open, backlog>>
senderVars == <<reading, sMain, sess, attempts, accepted, serving>>
dialVars == <<dial, results, lost, chosen>>
poolVars == <<dials, pending, workers, cancelled, rejoin, ramp, unproductive, wg>>
endVars == <<drained, pipelineDone, cut>>
budget == <<losses, ramps, timeouts>>
vars == <<connVars, senderVars, dialVars, rMain, poolVars, endVars, budget>>

Init ==
    /\ phase = [c \in Conn |-> "none"]
    /\ open = [c \in Conn |-> {}]
    /\ backlog = <<>>
    /\ reading = None
    /\ sMain = "pair"
    /\ sess = None
    /\ attempts = 0
    /\ accepted = {}
    /\ serving = {}
    /\ dial = [e \in Endpoint |-> "idle"]
    /\ results = <<>>
    /\ lost = 0
    /\ chosen = None
    /\ rMain = "dial"
    /\ dials = 0
    /\ pending = {}
    /\ workers = <<>>
    /\ cancelled = {}
    /\ rejoin = [k \in 1 .. MaxDials |-> None]
    /\ ramp = 0
    /\ unproductive = 0
    /\ drained = FALSE
    /\ pipelineDone = FALSE
    /\ cut = {}
    /\ wg = 0
    /\ losses = 0
    /\ ramps = 0
    /\ timeouts = 0

Listening == sMain \notin {"over", "failed"}

\* A deadline expires although the peer is alive.
Late ==
    /\ timeouts < MaxTimeouts
    /\ timeouts' = timeouts + 1
    /\ UNCHANGED <<losses, ramps>>

\* A new connection: the kernel completes it and the client writes at once.
Connect(c, first) ==
    /\ phase' = [phase EXCEPT ![c] = first]
    /\ open' = [open EXCEPT ![c] = {"R", "S"}]
    /\ backlog' = Append(backlog, c)

CloseEnd(end, C) == open' = [c \in Conn |-> IF c \in C THEN open[c] \ {end} ELSE open[c]]

-----------------------------------------------------------------------------
(***************************************************************************)
(* Sender.                                                                 *)
(***************************************************************************)
\* A fatal error, or the end of Run: the listener and every connection close.
SenderEnds(how) ==
    /\ sMain' = how
    /\ reading' = None
    /\ backlog' = <<>>
    /\ serving' = {}
    /\ CloseEnd("S", Conn)
    /\ UNCHANGED <<phase, sess, accepted>>

Accept ==
    /\ sMain \in {"pair", "accept", "run"}
    /\ reading = None
    /\ backlog # <<>>
    /\ reading' = Head(backlog)
    /\ backlog' = Tail(backlog)
    /\ UNCHANGED <<phase, open, sMain, sess, attempts, accepted, serving,
                   dialVars, rMain, poolVars, endVars, budget>>

\* Mutant of ServerHello: a goroutine per connection answers them all.
ServerHelloEach ==
    /\ sMain = "pair"
    /\ \E c \in Conn :
          /\ phase[c] = "hello"
          /\ phase' = [phase EXCEPT ![c] = "answered"]
    /\ UNCHANGED <<open, backlog, senderVars, dialVars, rMain, poolVars, endVars, budget>>

\* ServerHandshake: SERVER_HELLO and SERVER_CONFIRM answer a CLIENT_HELLO.
ServerHello ==
    /\ sMain = "pair"
    /\ reading # None
    /\ phase[reading] = "hello"
    /\ phase' = [phase EXCEPT ![reading] = "answered"]
    /\ UNCHANGED <<open, backlog, senderVars, dialVars, rMain, poolVars, endVars, budget>>

\* CLIENT_CONFIRM arrives: paired; SESSION_PARAMS goes out.
Paired ==
    /\ sMain = "pair"
    /\ reading # None
    /\ phase[reading] = "confirmed"
    /\ phase' = [phase EXCEPT ![reading] = "params"]
    /\ sess' = reading
    /\ sMain' = "params"
    /\ reading' = None
    /\ UNCHANGED <<open, backlog, attempts, accepted, serving,
                   dialVars, rMain, poolVars, endVars, budget>>

\* A handshake fails: the peer has no code, has left, or is too late.
RejectHandshake ==
    /\ sMain = "pair"
    /\ reading # None
    /\ \/ phase[reading] = "stray" /\ UNCHANGED budget
       \/ phase[reading] = "answered" /\ "R" \notin open[reading] /\ UNCHANGED budget
       \/ phase[reading] = "answered" /\ Late
    /\ attempts' = attempts + 1
    /\ IF attempts + 1 >= MaxPairAttempts
       THEN SenderEnds("failed")  \* E2007
       ELSE /\ CloseEnd("S", {reading})
            /\ reading' = None
            /\ UNCHANGED <<phase, backlog, sMain, sess, accepted, serving>>
    /\ UNCHANGED <<dialVars, rMain, poolVars, endVars>>

\* Mutant of ListenerDeadline: the wait for the data channels has none.
ListenerDeadlinePair ==
    /\ sMain = "pair"
    /\ reading = None
    /\ backlog = <<>>
    /\ IF rMain = "failed" THEN UNCHANGED budget ELSE Late
    /\ SenderEnds("failed")
    /\ UNCHANGED <<attempts, dialVars, rMain, poolVars, endVars>>

\* The listener's deadline: E2006 while pairing, E4002 while the initial data
\* channels are awaited.  A receiver that is gone will never call.
ListenerDeadline ==
    /\ sMain \in {"pair", "accept"}
    /\ reading = None
    /\ backlog = <<>>
    /\ IF rMain = "failed" THEN UNCHANGED budget ELSE Late
    /\ SenderEnds("failed")
    /\ UNCHANGED <<attempts, dialVars, rMain, poolVars, endVars>>

\* SESSION_READY: from now on data channels are accepted.
Ready ==
    /\ sMain = "params"
    /\ phase[sess] = "ready"
    /\ sMain' = "accept"
    /\ UNCHANGED <<connVars, reading, sess, attempts, accepted, serving,
                   dialVars, rMain, poolVars, endVars, budget>>

ControlLost ==
    /\ \/ sMain = "params" /\ phase[sess] # "ready" /\ "R" \notin open[sess]
       \/ sMain = "run" /\ "R" \notin open[sess]
    /\ SenderEnds(IF rMain = "done" THEN "over" ELSE "failed")
    /\ UNCHANGED <<attempts, dialVars, rMain, poolVars, endVars, budget>>

\* The tracker's drain watchdog: no request moves any more.
SenderWatchdog ==
    /\ sMain = "run"
    /\ rMain = "run" /\ workers = <<>> /\ pending = {} /\ \A k \in DOMAIN rejoin : rejoin[k] = None
    /\ SenderEnds("failed")
    /\ UNCHANGED <<attempts, dialVars, rMain, poolVars, endVars, budget>>

Id(k) == k % IdSpace
Limit == IF sMain = "accept" THEN Start ELSE MaxChannels

\* Mutant of Admits: an id may be used again.
AdmitsAgain(k) ==
    /\ phase[Join(k)] = "join"
    /\ Id(k) \in 1 .. Limit

\* AcceptChannel admits the join: its id is in range and new.
Admits(k) ==
    /\ phase[Join(k)] = "join"
    /\ Id(k) \in 1 .. Limit
    /\ Id(k) \notin accepted

\* CHANNEL_ACCEPT is written and a servicer started; acceptData is over once
\* it has the announced number of channels.
AcceptChannel ==
    /\ sMain \in {"accept", "run"}
    /\ \E k \in 1 .. MaxDials :
          /\ reading = Join(k)
          /\ Admits(k)
          /\ accepted' = accepted \cup {Id(k)}
          /\ phase' = [phase EXCEPT ![reading] = "accepted"]
          /\ serving' = serving \cup {k}
    /\ sMain' = IF Cardinality(serving') >= Start THEN "run" ELSE sMain
    /\ reading' = None
    /\ UNCHANGED <<open, backlog, sess, attempts,
                   dialVars, rMain, poolVars, endVars, budget>>

\* The id is spent but CHANNEL_ACCEPT cannot be written: the peer has left.
AcceptUnsent ==
    /\ sMain \in {"accept", "run"}
    /\ \E k \in 1 .. MaxDials :
          /\ reading = Join(k)
          /\ Admits(k)
          /\ "R" \notin open[reading]
          /\ accepted' = accepted \cup {Id(k)}
    /\ CloseEnd("S", {reading})
    /\ reading' = None
    /\ UNCHANGED <<phase, backlog, sMain, sess, attempts, serving,
                   dialVars, rMain, poolVars, endVars, budget>>

\* What the accept loop reads from is not a join it may admit: another peer,
\* an endpoint that lost the race and still says CLIENT_HELLO, an id out of
\* range or used.
Foreign ==
    /\ sMain \in {"accept", "run"}
    /\ reading # None
    /\ \A k \in 1 .. MaxDials : reading = Join(k) => ~Admits(k)

\* join.accept sets no deadline, unlike acceptData: it waits as long as a
\* stranger says nothing.
Parked == sMain = "run" /\ reading # None /\ phase[reading] = "stray"

\* Mutant of TurnAway: the first foreign connection ends the session.
TurnAwayFatal == SenderEnds("failed")

\* The connection is closed and the loop goes on.
TurnAway ==
    /\ CloseEnd("S", {reading})
    /\ reading' = None
    /\ UNCHANGED <<phase, backlog, sMain, sess, accepted, serving>>

RejectJoin ==
    /\ Foreign /\ ~Parked
    /\ TurnAway
    /\ UNCHANGED <<attempts, dialVars, rMain, poolVars, endVars, budget>>

\* The stranger says something after all, or leaves.
StrangerSpeaks ==
    /\ Parked
    /\ TurnAway
    /\ UNCHANGED <<attempts, dialVars, rMain, poolVars, endVars, budget>>

\* A servicer reads the CLOSE of its channel.
ServicerEnds(k) ==
    /\ k \in serving \ cut
    /\ sMain = "run"
    /\ "R" \notin open[Join(k)]
    /\ serving' = serving \ {k}
    /\ CloseEnd("S", {Join(k)})
    /\ UNCHANGED <<phase, backlog, reading, sMain, sess, attempts, accepted,
                   dialVars, rMain, poolVars, endVars, budget>>

\* A servicer's read or write fails: package record gives every such error a
\* code, and a coded fault is fatal to the session.  One that waits for a
\* request on a connection gone silent may never notice.
ServicerFails(k) ==
    /\ k \in serving \cap cut
    /\ sMain = "run"
    /\ SenderEnds("failed")
    /\ UNCHANGED <<attempts, dialVars, rMain, poolVars, endVars, budget>>

-----------------------------------------------------------------------------
(***************************************************************************)
(* Receiver: the race of the endpoints, and the session's parameters.      *)
(***************************************************************************)
\* A fatal error: every connection of the receiver closes.
ReceiverFails == rMain' = "failed" /\ CloseEnd("R", Conn)

Outcome(e, won) ==
    /\ dial' = [dial EXCEPT ![e] = "done"]
    /\ results' = Append(results, <<e, won>>)

DialEndpoint(e) ==
    /\ dial[e] = "idle"
    /\ rMain = "dial"
    /\ e \in Reachable
    /\ Listening
    /\ Connect(Dial(e), "hello")
    /\ dial' = [dial EXCEPT ![e] = "busy"]
    /\ UNCHANGED <<senderVars, results, lost, chosen, rMain, poolVars, endVars, budget>>

\* Nobody there, or the race is over before this endpoint was tried.
DialRefused(e) ==
    /\ dial[e] = "idle"
    /\ e \notin Reachable \/ ~Listening \/ rMain # "dial"
    /\ Outcome(e, FALSE)
    /\ UNCHANGED <<connVars, senderVars, lost, chosen, rMain, poolVars, endVars, budget>>

\* ClientHandshake: the confirmation is verified and answered.  The sender
\* may have given up on the connection meanwhile.
ClientConfirm(e) ==
    /\ dial[e] = "busy"
    /\ phase[Dial(e)] = "answered"
    /\ phase' = [phase EXCEPT ![Dial(e)] = "confirmed"]
    /\ Outcome(e, TRUE)
    /\ UNCHANGED <<open, backlog, senderVars, lost, chosen, rMain, poolVars, endVars, budget>>

ClientGivesUp(e) ==
    /\ dial[e] = "busy"
    /\ IF "S" \notin open[Dial(e)] THEN UNCHANGED budget ELSE Late
    /\ CloseEnd("R", {Dial(e)})
    /\ Outcome(e, FALSE)
    /\ UNCHANGED <<phase, backlog, senderVars, lost, chosen, rMain, poolVars, endVars>>

\* Dial takes the outcomes as they come: the first success wins, and
\* dial.drain closes the connections that succeed after it.
TakeOutcome ==
    /\ results # <<>>
    /\ results' = Tail(results)
    /\ LET e == Head(results)[1]
           won == Head(results)[2] IN
          \/ /\ won /\ rMain = "dial"
             /\ chosen' = Dial(e)
             /\ rMain' = "params"
             /\ UNCHANGED <<open, lost>>
          \/ /\ ~won
             /\ lost' = lost + 1
             /\ IF lost' = Cardinality(Endpoint) /\ rMain = "dial"
                THEN ReceiverFails
                ELSE UNCHANGED <<open, rMain>>
             /\ UNCHANGED chosen
          \/ /\ won /\ rMain # "dial"
             /\ CloseEnd("R", {Dial(e)})
             /\ UNCHANGED <<lost, chosen, rMain>>
    /\ UNCHANGED <<phase, backlog, senderVars, dial, poolVars, endVars, budget>>

\* SESSION_PARAMS is there: SESSION_READY goes out.
Params ==
    /\ rMain = "params"
    /\ phase[chosen] = "params"
    /\ phase' = [phase EXCEPT ![chosen] = "ready"]
    /\ rMain' = "join"
    /\ UNCHANGED <<open, backlog, senderVars, dialVars, poolVars, endVars, budget>>

\* The control connection ends before or while the session runs.
PeerLost ==
    /\ \/ rMain = "params" /\ phase[chosen] # "params" /\ "S" \notin open[chosen]
       \/ rMain = "run" /\ "S" \notin open[chosen]
    /\ ReceiverFails
    /\ UNCHANGED <<phase, backlog, senderVars, dialVars, poolVars, endVars, budget>>

\* A stranger calls.  One that calls during the setup may be read by
\* join.accept when the transfer runs, so later calls are left out.
StrayCalls(s) ==
    /\ phase[<<"stray", s>>] = "none"
    /\ sMain \in {"pair", "params", "accept"}
    /\ Connect(<<"stray", s>>, "stray")
    /\ UNCHANGED <<senderVars, dialVars, rMain, poolVars, endVars, budget>>

-----------------------------------------------------------------------------
(***************************************************************************)
(* Receiver: data channels.                                                *)
(***************************************************************************)
\* dialOneData, up to the wait for CHANNEL_ACCEPT.  A dial is by the rejoin
\* loop of a lost channel, or by 0: dialData, and later the tuner.
DialData(by) ==
    /\ dials < MaxDials
    /\ dials' = dials + 1
    /\ pending' = pending \cup {[conn |-> dials + 1, by |-> by]}
    /\ IF Listening
       THEN Connect(Join(dials + 1), "join")
       ELSE UNCHANGED connVars

\* addChannel: refused once the pipeline is draining, under the lock that
\* also guards the count.
AddChannel(by) ==
    /\ ~pipelineDone
    /\ DialData(by)
    /\ wg' = wg + 1

\* dialData opens channels 1 .. Start one after another.
DialInitial ==
    /\ rMain = "join"
    /\ pending = {}
    /\ dials < Start
    /\ DialData(0)
    /\ UNCHANGED <<senderVars, dialVars, rMain, workers, cancelled, rejoin, ramp,
                   unproductive, wg, endVars, budget>>

\* CHANNEL_ACCEPT is verified: one more connection of the initial batch, whose
\* workers all start when it is complete, or one more worker.
Joined(p) ==
    /\ p \in pending
    /\ phase[Join(p.conn)] = "accepted"
    /\ rMain \in {"join", "run"}
    /\ pending' = pending \ {p}
    /\ workers' = Append(workers, p.conn)
    /\ rMain' = IF Len(workers') >= Start THEN "run" ELSE rMain
    /\ wg' = IF rMain = "join" THEN wg + 1 ELSE wg
    /\ ramp' = IF rMain = "run" /\ p.by = 0 THEN ramp - 1 ELSE ramp
    /\ rejoin' = IF p.by = 0 THEN rejoin ELSE [rejoin EXCEPT ![p.by] = None]
    /\ UNCHANGED <<connVars, senderVars, dialVars, dials, cancelled, unproductive,
                   endVars, budget>>

\* Mutant of GiveUp: the socket of a failed join is leaked.
GiveUpLeaky(k) == UNCHANGED <<open, cut>>

\* dialOneData closes the socket of a join that failed, with no CLOSE: a
\* servicer the sender may have started for it reads a bare end.
GiveUp(k) ==
    /\ CloseEnd("R", {Join(k)})
    /\ cut' = cut \cup {k}

\* The join is refused, or not answered in time: fatal for the initial batch,
\* the end of this ramp for the tuner, one attempt for a rejoin loop.
JoinFails(p) ==
    /\ p \in pending
    /\ rMain \in {"join", "run"}
    /\ \/ phase[Join(p.conn)] # "accepted" /\ "S" \notin open[Join(p.conn)] /\ UNCHANGED budget
       \/ phase[Join(p.conn)] # "accepted" /\ Parked /\ UNCHANGED budget
       \/ Late
    /\ pending' = pending \ {p}
    /\ IF rMain = "join"
       THEN ReceiverFails /\ UNCHANGED <<wg, ramp, rejoin, cut>>
       ELSE /\ GiveUp(p.conn)
            /\ wg' = wg - 1
            /\ ramp' = IF p.by = 0 THEN 0 ELSE ramp
            /\ rejoin' = IF p.by = 0 THEN rejoin
                         ELSE [rejoin EXCEPT ![p.by] = rejoin[p.by] + 1]
            /\ UNCHANGED rMain
    /\ UNCHANGED <<phase, backlog, senderVars, dialVars, dials, workers, cancelled,
                   unproductive, drained, pipelineDone>>

-----------------------------------------------------------------------------
Live == {workers[i] : i \in 1 .. Len(workers)}

\* removeWorker takes the first worker with the channel id out of the list.
Others(k) ==
    LET at == CHOOSE i \in DOMAIN workers :
                 /\ Id(workers[i]) = Id(k)
                 /\ \A j \in 1 .. i - 1 : Id(workers[j]) # Id(k)
    IN  SubSeq(workers, 1, at - 1) \o SubSeq(workers, at + 1, Len(workers))

\* A worker's loop returns: its connection is closed, the worker removed and
\* counted off.
WorkerLeaves(k) ==
    /\ workers' = Others(k)
    /\ cancelled' = cancelled \ {k}
    /\ wg' = wg - 1

\* A data connection breaks: it is reset, cut off between the two ends, or
\* goes silent.
Lose(k) ==
    /\ rMain = "run"
    /\ k \in Live \ cut
    /\ losses < MaxLosses
    /\ losses' = losses + 1
    /\ cut' = cut \cup {k}
    /\ UNCHANGED <<connVars, senderVars, dialVars, rMain, poolVars, drained, pipelineDone,
                   ramps, timeouts>>

\* The worker's loop ends: it has read the sender's CLOSE; or a reset or an
\* error of its own (of the part file, say) has struck in the middle of a
\* stream, which leaves the channel out of step.  The file goes back to the
\* queue and a rejoin loop is left behind, unless the tuner had cancelled the
\* worker.  A sender still writing when the worker closes is one to which the
\* connection broke, by Lose.  A reset outside of a stream is a failed attempt
\* at the file, and the worker keeps the dead connection.
WorkerLost(k) ==
    /\ rMain = "run"
    /\ k \in Live
    /\ ~drained
    /\ \/ /\ "S" \notin open[Join(k)] \/ k \in cut
          /\ UNCHANGED losses
       \/ /\ losses < MaxLosses
          /\ losses' = losses + 1
    /\ WorkerLeaves(k)
    /\ CloseEnd("R", {Join(k)})
    /\ rejoin' = IF k \in cancelled THEN rejoin ELSE [rejoin EXCEPT ![k] = 0]
    /\ UNCHANGED <<phase, backlog, senderVars, dialVars, rMain, dials, pending, ramp,
                   unproductive, endVars, ramps, timeouts>>

\* A worker reads a bare end of its stream (E4005), or nothing until the
\* stall timeout (E3005): both are fatal.
StreamEnds(k) ==
    /\ rMain = "run"
    /\ k \in Live \cap cut
    /\ ~drained
    /\ ReceiverFails
    /\ UNCHANGED <<phase, backlog, senderVars, dialVars, poolVars, endVars, budget>>

\* A worker that is cancelled, or that finds the queue drained, leaves.
WorkerEnds(k) ==
    /\ rMain = "run"
    /\ k \in Live
    /\ k \in cancelled \/ drained
    /\ WorkerLeaves(k)
    /\ CloseEnd("R", {Join(k)})
    /\ UNCHANGED <<phase, backlog, senderVars, dialVars, rMain, dials, pending, rejoin,
                   ramp, unproductive, endVars, budget>>

\* The queue runs empty: the last file was fetched by some worker.
Drain ==
    /\ rMain = "run"
    /\ ~drained
    /\ workers # <<>>
    /\ drained' = TRUE
    /\ UNCHANGED <<connVars, senderVars, dialVars, rMain, poolVars, pipelineDone, cut, budget>>

\* pipeline.wait, first half: no channel is added from now on.
PipelineDone ==
    /\ rMain = "run"
    /\ drained
    /\ ~pipelineDone
    /\ pipelineDone' = TRUE
    /\ UNCHANGED <<connVars, senderVars, dialVars, rMain, poolVars, drained, cut, budget>>

\* chWg.Wait returns: the transfer is over.
Done ==
    /\ rMain = "run"
    /\ pipelineDone
    /\ wg = 0
    /\ rMain' = "done"
    /\ CloseEnd("R", Conn)
    /\ UNCHANGED <<phase, backlog, senderVars, dialVars, poolVars, endVars, budget>>

-----------------------------------------------------------------------------
\* One round of a rejoin loop after its pause: the slot may have been filled
\* or the pool be closing, and then the loop ends; otherwise it dials.
Idle(k) == rejoin[k] # None /\ \A p \in pending : p.by # k

RejoinAttempt(k) ==
    /\ rMain = "run"
    /\ Idle(k)
    /\ rejoin[k] < 3
    /\ \/ /\ Len(workers) >= Ceiling \/ pipelineDone
          /\ rejoin' = [rejoin EXCEPT ![k] = None]
          /\ UNCHANGED <<connVars, dials, pending, wg>>
       \/ /\ Len(workers) < Ceiling
          /\ AddChannel(k)
          /\ UNCHANGED rejoin
    /\ UNCHANGED <<senderVars, dialVars, rMain, workers, cancelled, ramp, unproductive,
                   endVars, budget>>

\* Three attempts failed: the channel is retired, and with the last one the
\* session fails (E3005).
RejoinExhausted(k) ==
    /\ rMain = "run"
    /\ Idle(k)
    /\ rejoin[k] = 3
    /\ rejoin' = [rejoin EXCEPT ![k] = None]
    /\ IF workers = <<>> /\ ~drained
       THEN ReceiverFails
       ELSE UNCHANGED <<open, rMain>>
    /\ UNCHANGED <<phase, backlog, senderVars, dialVars, dials, pending, workers, cancelled,
                   ramp, unproductive, wg, endVars, budget>>

\* The tuner's window: how far to ramp up.
Target == IF Len(workers) + 2 < Ceiling THEN Len(workers) + 2 ELSE Ceiling

\* One window of the tuner.  Which way the goodput points is left open; three
\* ramps down without a ramp up between them settle it for good.
Tuning == ~Pinned /\ rMain = "run" /\ ramp = 0 /\ workers # <<>> /\ unproductive < 3

RampUp ==
    /\ Tuning
    /\ Len(workers) < Ceiling
    /\ ramps < MaxRamps
    /\ ramps' = ramps + 1
    /\ ramp' = Target - Len(workers)
    /\ unproductive' = 0
    /\ UNCHANGED <<connVars, senderVars, dialVars, rMain, dials, pending, workers, cancelled,
                   rejoin, wg, endVars, losses, timeouts>>

\* retireOne cancels the youngest worker and never the last.
RampDown ==
    /\ Tuning
    /\ Len(workers) > MinChannels
    /\ Len(workers) > 1
    /\ cancelled' = cancelled \cup {workers[Len(workers)]}
    /\ unproductive' = unproductive + 1
    /\ UNCHANGED <<connVars, senderVars, dialVars, rMain, dials, pending, workers,
                   rejoin, ramp, wg, endVars, budget>>

\* The tuner opens the channels of a ramp one by one and stops at an error.
TunerAdds ==
    /\ rMain = "run"
    /\ ramp > 0
    /\ \A p \in pending : p.by # 0
    /\ \/ /\ AddChannel(0)
          /\ UNCHANGED ramp
       \/ /\ pipelineDone
          /\ ramp' = 0
          /\ UNCHANGED <<connVars, dials, pending, wg>>
    /\ UNCHANGED <<senderVars, dialVars, rMain, workers, cancelled, rejoin, unproductive,
                   endVars, budget>>

-----------------------------------------------------------------------------
Sender ==
    \/ Accept \/ ServerHello \/ Paired \/ RejectHandshake \/ ListenerDeadline
    \/ Ready \/ ControlLost \/ SenderWatchdog \/ AcceptChannel \/ AcceptUnsent \/ RejectJoin
    \/ \E k \in serving : ServicerEnds(k)

Linker ==
    \/ \E e \in Endpoint : DialEndpoint(e) \/ DialRefused(e) \/ ClientConfirm(e) \/ ClientGivesUp(e)
    \/ TakeOutcome \/ Params \/ PeerLost \/ DialInitial
    \/ \E p \in pending : Joined(p) \/ JoinFails(p)

Pool ==
    \/ \E k \in Live : WorkerEnds(k)
    \/ PipelineDone \/ Done
    \/ \E k \in 1 .. MaxDials : RejoinAttempt(k) \/ RejoinExhausted(k)
    \/ TunerAdds

\* A connection breaks, and what either end makes of it.
Breaks ==
    \/ \E k \in Live : Lose(k) \/ WorkerLost(k) \/ StreamEnds(k)
    \/ \E k \in serving : ServicerFails(k)

Next ==
    \/ Sender
    \/ Linker
    \/ Pool
    \/ Breaks
    \/ RampUp \/ RampDown \/ Drain
    \/ StrangerSpeaks
    \/ \E s \in Stray : StrayCalls(s)

Spec == Init /\ [][Next]_vars

\* Every goroutine of the two processes runs on, deadlines expire, and the
\* queue runs empty while there are workers; nobody has to call, to speak, to
\* break, to notice a break or to ramp.  Within the bounds every step uses
\* something up, so a behaviour comes to rest; fairness of all goroutines
\* together says that none of them can move then, and so is fairness of each.
FairSpec == Spec /\ WF_vars(Sender \/ Linker \/ Pool \/ Drain)
-----------------------------------------------------------------------------
\* The two processes never go on with different sessions: a sender that has
\* read SESSION_READY shares its control connection with the receiver; and
\* as long as no deadline has expired, the endpoint that won the receiver's
\* race is the one connection whose handshake the sender completed, although
\* several endpoints reach it.
OneSession ==
    /\ sMain \in {"accept", "run"} => chosen = sess
    /\ timeouts = 0 /\ sess # None /\ chosen # None => chosen = sess

\* "a fresh id means fresh per-channel keys and sequence numbers, so a rejoin
\* never reuses crypto state across physical connections" (receiver/run.go):
\* no two connections ever carry the same channel id, even when the receiver's
\* counter has wrapped around or the sender's accept was lost.
FreshKeys ==
    \A j, k \in 1 .. MaxDials :
        j # k /\ phase[Join(j)] = "accepted" /\ phase[Join(k)] = "accepted" => Id(j) # Id(k)

\* A data connection the receiver keeps open has somebody who reads it or who
\* waits for its CHANNEL_ACCEPT; every other one is closed: one that was lost
\* or retired, and one whose accept came after the receiver had given up.
ConnsHeld ==
    \A k \in 1 .. MaxDials :
        "R" \in open[Join(k)] => k \in Live \/ \E p \in pending : p.conn = k

\* chWg counts the workers and the joins under way, on every path through
\* addChannel: what chWg.Wait waits for is what may still touch the session.
WaitCovers ==
    rMain \in {"run", "done"} => wg = Len(workers) + Cardinality(pending)

\* No connection and no goroutine of the receiver is left behind: it closes
\* every data connection it has given up, and chWg.Wait waits for all that is
\* left.
NoLeak == ConnsHeld /\ WaitCovers

\* "pipelineDone and every chWg.Add(1) are both under chMu, so no Add can start
\* after this point" (pipeline.wait), whatever rejoin loop or ramp is under way.
NoAddAfterDone == [][pipelineDone => wg' <= wg]_vars

\* Without expired deadlines the processes get linked, over whichever endpoint,
\* with the endpoints that lost the race and strangers still on the listener.
Links == <>(timeouts > 0 \/ (sMain = "run" /\ rMain = "run"))

\* Nobody waits for ever ("no code path may wait forever", REQ-NET-010): in
\* the setup and afterwards, each process ends, linked or with an error.
Ends == <>(rMain \in {"done", "failed"} /\ sMain \in {"over", "failed"})
=============================================================================
