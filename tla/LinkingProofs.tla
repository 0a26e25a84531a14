--------------------------- MODULE LinkingProofs ----------------------------
(***************************************************************************)
(* Proofs about what a session starts from.                                *)
(*                                                                         *)
(* Channel ids, the wait group and the one session both processes go on    *)
(* with, for any number of endpoints, strangers, dials, losses and ramps,  *)
(* and for any size of the id space (Linking).                             *)
(*                                                                         *)
(* What a resumed run takes from the journal is true (Resume, the last     *)
(* part).  Zenon checks the leaves that name no prover.                    *)
(***************************************************************************)
EXTENDS Linking, Resume, Integers, FiniteSetTheorems, TLAPS

USE ZenonT(30)

Phases == {"none", "hello", "answered", "confirmed", "params", "ready",
           "join", "accepted", "stray"}

\* Session.accepted remembers the id of every connection that was accepted:
\* that is why no second connection gets the same id.
Remembered ==
    \A k \in 1 .. MaxDials : phase[Join(k)] = "accepted" => Id(k) \in accepted

IInv ==
    /\ phase \in [Conn -> Phases]
    /\ Remembered
    /\ FreshKeys

\* What the wait group's argument needs: a number, and a pipeline that is only
\* over once the initial batch is.
WaitInv ==
    /\ wg \in Int
    /\ pipelineDone => rMain \notin {"dial", "params", "join"}

-----------------------------------------------------------------------------
LEMMA MaxDialsNat == MaxDials \in Nat
BY LinkAssumption, SMT DEF MaxDials

LEMMA JoinConn == \A k \in 1 .. MaxDials : Join(k) \in Conn
BY DEF Join, Conn

LEMMA JoinDistinct == \A j, k : Join(j) = Join(k) => j = k
BY DEF Join

\* A step that accepts no connection keeps the invariant: phases only move
\* away from "accepted", and ids are never taken out of Session.accepted.
LEMMA Quiet ==
    ASSUME IInv,
           phase' \in [Conn -> Phases],
           accepted \subseteq accepted',
           \A k \in 1 .. MaxDials : phase'[Join(k)] = "accepted" => phase[Join(k)] = "accepted"
    PROVE  IInv'
BY DEF IInv, Remembered, FreshKeys, Id

LEMMA Moved ==
    ASSUME IInv, NEW c, NEW p \in Phases \ {"accepted"},
           phase' = [phase EXCEPT ![c] = p]
    PROVE  /\ phase' \in [Conn -> Phases]
           /\ \A k \in 1 .. MaxDials : phase'[Join(k)] = "accepted" => phase[Join(k)] = "accepted"
<1>1. phase \in [Conn -> Phases]
  BY DEF IInv
<1>2. phase' \in [Conn -> Phases]
  BY <1>1 DEF Phases
<1>3. ASSUME NEW k \in 1 .. MaxDials, phase'[Join(k)] = "accepted"
      PROVE  phase[Join(k)] = "accepted"
  BY <1>1, <1>3, JoinConn
<1> QED
  BY <1>2, <1>3

\* The one step that accepts a connection: its id was not in Session.accepted,
\* so no accepted connection has it.
LEMMA AcceptFresh == IInv /\ AcceptChannel => IInv'
<1> SUFFICES ASSUME IInv, AcceptChannel PROVE IInv'
  OBVIOUS
<1>1. PICK n \in 1 .. MaxDials :
         /\ reading = Join(n)
         /\ Admits(n)
         /\ accepted' = accepted \cup {Id(n)}
         /\ phase' = [phase EXCEPT ![reading] = "accepted"]
  BY DEF AcceptChannel
<1>2. phase \in [Conn -> Phases]
  BY DEF IInv
<1>3. phase' \in [Conn -> Phases]
  BY <1>1, <1>2 DEF Phases
<1>4. \A k \in 1 .. MaxDials : k # n => phase'[Join(k)] = phase[Join(k)]
  BY <1>1, <1>2, JoinConn, JoinDistinct
<1>5. \A k \in 1 .. MaxDials : k # n /\ phase[Join(k)] = "accepted" => Id(k) # Id(n)
  BY <1>1 DEF IInv, Remembered, Admits
<1>6. Remembered'
  <2> SUFFICES ASSUME NEW k \in 1 .. MaxDials, phase'[Join(k)] = "accepted"
               PROVE  Id(k) \in accepted'
    BY DEF Remembered, Id
  <2>1. CASE k = n
    BY <2>1, <1>1
  <2>2. CASE k # n
    BY <2>2, <1>1, <1>4 DEF IInv, Remembered
  <2> QED
    BY <2>1, <2>2
<1>7. FreshKeys'
  <2> SUFFICES ASSUME NEW j \in 1 .. MaxDials, NEW k \in 1 .. MaxDials, j # k,
                      phase'[Join(j)] = "accepted", phase'[Join(k)] = "accepted"
               PROVE  Id(j) # Id(k)
    BY DEF FreshKeys, Id
  <2>1. CASE j = n
    BY <2>1, <1>4, <1>5
  <2>2. CASE k = n
    BY <2>2, <1>4, <1>5
  <2>3. CASE j # n /\ k # n
    BY <2>3, <1>4 DEF IInv, FreshKeys
  <2> QED
    BY <2>1, <2>2, <2>3
<1> QED
  BY <1>3, <1>6, <1>7 DEF IInv

LEMMA StepKeeps == IInv /\ [Next]_vars => IInv'
<1> SUFFICES ASSUME IInv, [Next]_vars PROVE IInv'
  OBVIOUS
<1> DEFINE Same == phase' = phase /\ accepted' = accepted
<1>0. ASSUME Same PROVE IInv'
  BY <1>0, Quiet DEF IInv
<1>m. ASSUME NEW c, NEW p \in Phases \ {"accepted"},
             phase' = [phase EXCEPT ![c] = p], accepted' = accepted
      PROVE  IInv'
  BY <1>m, Moved, Quiet
<1>1. CASE Sender
  <2>1. CASE Accept
    BY <1>0, <2>1 DEF Accept
  <2>2. CASE ServerHello
    BY <1>m, <2>2 DEF ServerHello, senderVars, Phases
  <2>3. CASE Paired
    BY <1>m, <2>3 DEF Paired, Phases
  <2>4. CASE RejectHandshake
    BY <1>0, <2>4 DEF RejectHandshake, SenderEnds
  <2>5. CASE ListenerDeadline
    BY <1>0, <2>5 DEF ListenerDeadline, SenderEnds
  <2>6. CASE Ready
    BY <1>0, <2>6 DEF Ready, connVars
  <2>7. CASE ControlLost
    BY <1>0, <2>7 DEF ControlLost, SenderEnds
  <2>8. CASE SenderWatchdog
    BY <1>0, <2>8 DEF SenderWatchdog, SenderEnds
  <2>9. CASE AcceptChannel
    BY <2>9, AcceptFresh
  <2>10. CASE AcceptUnsent
    BY <2>10, Quiet DEF AcceptUnsent, IInv
  <2>11. CASE RejectJoin
    BY <1>0, <2>11 DEF RejectJoin, TurnAway
  <2>12. CASE \E k \in serving : ServicerEnds(k)
    BY <1>0, <2>12 DEF ServicerEnds
  <2> QED
    BY <1>1, <2>1, <2>2, <2>3, <2>4, <2>5, <2>6, <2>7, <2>8, <2>9, <2>10,
       <2>11, <2>12, SMT DEF Sender
<1>d. ASSUME NEW by, DialData(by), accepted' = accepted PROVE IInv'
  <2>1. CASE Listening
    BY <1>d, <1>m, <2>1 DEF DialData, Connect, Phases
  <2>2. CASE ~Listening
    BY <1>d, <1>0, <2>2 DEF DialData, connVars
  <2> QED
    BY <2>1, <2>2
<1>2. CASE Linker
  <2>1. CASE \E e \in Endpoint : DialEndpoint(e)
    BY <1>m, <2>1 DEF DialEndpoint, Connect, senderVars, Phases
  <2>2. CASE \E e \in Endpoint : DialRefused(e)
    BY <1>0, <2>2 DEF DialRefused, connVars, senderVars
  <2>3. CASE \E e \in Endpoint : ClientConfirm(e)
    BY <1>m, <2>3 DEF ClientConfirm, senderVars, Phases
  <2>4. CASE \E e \in Endpoint : ClientGivesUp(e)
    BY <1>0, <2>4 DEF ClientGivesUp, senderVars
  <2>5. CASE TakeOutcome
    BY <1>0, <2>5 DEF TakeOutcome, senderVars
  <2>6. CASE Params
    BY <1>m, <2>6 DEF Params, senderVars, Phases
  <2>7. CASE PeerLost
    BY <1>0, <2>7 DEF PeerLost, senderVars
  <2>8. CASE DialInitial
    BY <1>d, <2>8 DEF DialInitial, senderVars
  <2>9. CASE \E p \in pending : Joined(p)
    BY <1>0, <2>9 DEF Joined, connVars, senderVars
  <2>10. CASE \E p \in pending : JoinFails(p)
    BY <1>0, <2>10 DEF JoinFails, senderVars
  <2> QED
    BY <1>2, <2>1, <2>2, <2>3, <2>4, <2>5, <2>6, <2>7, <2>8, <2>9, <2>10 DEF Linker
<1>3. CASE Pool
  <2>1. CASE \E k \in Live : WorkerEnds(k)
    BY <1>0, <2>1 DEF WorkerEnds, senderVars
  <2>2. CASE PipelineDone \/ Done
    BY <1>0, <2>2 DEF PipelineDone, Done, connVars, senderVars
  <2>3. CASE \E k \in 1 .. MaxDials : RejoinAttempt(k)
    BY <1>0, <1>d, <2>3 DEF RejoinAttempt, AddChannel, connVars, senderVars
  <2>4. CASE \E k \in 1 .. MaxDials : RejoinExhausted(k)
    BY <1>0, <2>4 DEF RejoinExhausted, senderVars
  <2>5. CASE TunerAdds
    BY <1>0, <1>d, <2>5 DEF TunerAdds, AddChannel, connVars, senderVars
  <2> QED
    BY <1>3, <2>1, <2>2, <2>3, <2>4, <2>5 DEF Pool
<1>4. CASE RampUp \/ RampDown \/ Drain \/ StrangerSpeaks
  BY <1>0, <1>4 DEF RampUp, RampDown, Drain, StrangerSpeaks, TurnAway, connVars, senderVars
<1>7. CASE Breaks
  <2>1. CASE \E k \in Live : Lose(k) \/ WorkerLost(k) \/ StreamEnds(k)
    BY <1>0, <2>1 DEF Lose, WorkerLost, StreamEnds, connVars, senderVars
  <2>2. CASE \E k \in serving : ServicerFails(k)
    BY <1>0, <2>2 DEF ServicerFails, SenderEnds
  <2> QED
    BY <1>7, <2>1, <2>2 DEF Breaks
<1>5. CASE \E s \in Stray : StrayCalls(s)
  BY <1>m, <1>5 DEF StrayCalls, Connect, senderVars, Phases
<1>6. CASE UNCHANGED vars
  BY <1>0, <1>6 DEF vars, connVars, senderVars
<1> QED
  BY <1>1, <1>2, <1>3, <1>4, <1>5, <1>6, <1>7 DEF Next

\* No two connections ever carry the same channel id, however often the
\* receiver's counter wraps, whatever is lost, rejoined or dialled at the same
\* time: the keys and sequence numbers of a data channel are never reused.
THEOREM KeysAreFresh == Spec => []FreshKeys
<1>1. Init => IInv
  BY SMT DEF Init, IInv, Remembered, FreshKeys, Phases, Join, Conn
<1>2. IInv => FreshKeys
  BY DEF IInv
<1> QED
  BY <1>1, <1>2, StepKeeps, PTL DEF Spec

-----------------------------------------------------------------------------
(***************************************************************************)
(* The wait group.                                                         *)
(***************************************************************************)
NoAdd == pipelineDone => wg' <= wg

\* One step keeps WaitInv and adds nothing to the count once the pipeline is
\* done.
LEMMA WaitStep == WaitInv /\ [Next]_vars => WaitInv' /\ NoAdd
<1> SUFFICES ASSUME WaitInv, [Next]_vars PROVE WaitInv' /\ NoAdd
  OBVIOUS
<1>w. wg \in Int /\ (pipelineDone => rMain \notin {"dial", "params", "join"})
  BY DEF WaitInv
<1> DEFINE Early == {"dial", "params", "join"}
\* Neither the count nor the flag changes, and the receiver does not go back.
<1>0. ASSUME wg' = wg, pipelineDone' = pipelineDone, rMain' \in Early => rMain \in Early
      PROVE  WaitInv' /\ NoAdd
  BY <1>w, <1>0, SMT DEF WaitInv, NoAdd
<1>1. CASE Sender
  <2>1. UNCHANGED <<rMain, poolVars, endVars>>
    BY <1>1 DEF Sender, Accept, ServerHello, Paired, RejectHandshake,
       ListenerDeadline, Ready, ControlLost, SenderWatchdog, AcceptChannel,
       AcceptUnsent, RejectJoin, ServicerEnds
  <2> QED
    BY <1>0, <2>1 DEF poolVars, endVars
<1>a. ASSUME NEW by, AddChannel(by), pipelineDone' = pipelineDone, rMain' = rMain
      PROVE  WaitInv' /\ NoAdd
  BY <1>w, <1>a, SMT DEF AddChannel, WaitInv, NoAdd
<1>2. CASE Linker
  <2>1. CASE \E e \in Endpoint : DialEndpoint(e) \/ DialRefused(e) \/ ClientConfirm(e) \/ ClientGivesUp(e)
    BY <1>0, <2>1 DEF DialEndpoint, DialRefused, ClientConfirm, ClientGivesUp,
       poolVars, endVars
  <2>2. CASE TakeOutcome
    BY <1>0, <2>2 DEF TakeOutcome, ReceiverFails, poolVars, endVars
  <2>3. CASE Params
    BY <1>0, <2>3 DEF Params, poolVars, endVars
  <2>4. CASE PeerLost
    BY <1>0, <2>4 DEF PeerLost, ReceiverFails, poolVars, endVars
  <2>5. CASE DialInitial
    BY <1>0, <2>5 DEF DialInitial, endVars
  <2>6. CASE \E p \in pending : Joined(p)
    <3>1. PICK p \in pending : Joined(p)
      BY <2>6
    <3>2. CASE rMain = "join"
      BY <1>w, <3>1, <3>2, SMT DEF Joined, WaitInv, NoAdd, endVars
    <3>3. CASE rMain = "run"
      BY <1>0, <3>1, <3>3 DEF Joined, endVars
    <3> QED
      BY <3>1, <3>2, <3>3 DEF Joined
  <2>7. CASE \E p \in pending : JoinFails(p)
    <3>1. PICK p \in pending : JoinFails(p)
      BY <2>7
    <3>2. CASE rMain = "join"
      BY <1>0, <3>1, <3>2 DEF JoinFails, ReceiverFails
    <3>3. CASE rMain # "join"
      BY <1>w, <3>1, <3>3, SMT DEF JoinFails, WaitInv, NoAdd
    <3> QED
      BY <3>2, <3>3
  <2> QED
    BY <1>2, <2>1, <2>2, <2>3, <2>4, <2>5, <2>6, <2>7 DEF Linker
<1>3. CASE Pool
  <2>1. CASE \E k \in Live : WorkerEnds(k)
    BY <1>w, <2>1, SMT DEF WorkerEnds, WorkerLeaves, WaitInv, NoAdd, endVars
  <2>2. CASE PipelineDone
    BY <1>w, <2>2 DEF PipelineDone, WaitInv, NoAdd, poolVars
  <2>3. CASE Done
    BY <1>0, <2>3 DEF Done, poolVars, endVars
  <2>4. CASE \E k \in 1 .. MaxDials : RejoinAttempt(k)
    BY <1>0, <1>a, <2>4 DEF RejoinAttempt, endVars
  <2>5. CASE \E k \in 1 .. MaxDials : RejoinExhausted(k)
    BY <1>0, <2>5 DEF RejoinExhausted, ReceiverFails, endVars
  <2>6. CASE TunerAdds
    BY <1>0, <1>a, <2>6 DEF TunerAdds, endVars
  <2> QED
    BY <1>3, <2>1, <2>2, <2>3, <2>4, <2>5, <2>6 DEF Pool
<1>4. CASE RampUp \/ RampDown \/ StrangerSpeaks
  BY <1>0, <1>4 DEF RampUp, RampDown, StrangerSpeaks, poolVars, endVars
<1>8. CASE Breaks
  <2>1. CASE \E k \in Live : Lose(k) \/ StreamEnds(k)
    BY <1>0, <2>1 DEF Lose, StreamEnds, ReceiverFails, poolVars, endVars
  <2>2. CASE \E k \in Live : WorkerLost(k)
    BY <1>w, <2>2, SMT DEF WorkerLost, WorkerLeaves, WaitInv, NoAdd, endVars
  <2>3. CASE \E k \in serving : ServicerFails(k)
    BY <1>0, <2>3 DEF ServicerFails, poolVars, endVars
  <2> QED
    BY <1>8, <2>1, <2>2, <2>3 DEF Breaks
<1>5. CASE Drain
  BY <1>0, <1>5 DEF Drain, poolVars
<1>6. CASE \E s \in Stray : StrayCalls(s)
  BY <1>0, <1>6 DEF StrayCalls, poolVars, endVars
<1>7. CASE UNCHANGED vars
  BY <1>0, <1>7 DEF vars, poolVars, endVars
<1> QED
  BY <1>1, <1>2, <1>3, <1>4, <1>5, <1>6, <1>7, <1>8 DEF Next

\* Once pipelineDone is set nobody adds to chWg any more, so the Wait that
\* follows waits for a set that only shrinks; whatever rejoin loops and ramps
\* are under way.
THEOREM WaitIsFinal == Spec => NoAddAfterDone
<1>1. Init => WaitInv
  BY SMT DEF Init, WaitInv
<1>2. WaitInv /\ [Next]_vars => [NoAdd]_vars
  BY WaitStep
<1> QED
  BY <1>1, <1>2, WaitStep, PTL DEF Spec, NoAddAfterDone, NoAdd
-----------------------------------------------------------------------------
(***************************************************************************)
(* One session.  The sender reads one connection at a time, so without an  *)
(* expired deadline the connection it has answered stays the only one that *)
(* is confirmed: nobody else closes it.  SESSION_PARAMS is sent on one     *)
(* connection only, and SESSION_READY answers it on the one that won the   *)
(* race; the two meet when the sender reads it.                            *)
(***************************************************************************)
Shaking == {"hello", "answered"}
Confirmed == {"confirmed", "params", "ready"}

ConnTypes ==
    /\ open \in [Conn -> SUBSET {"R", "S"}]
    /\ backlog \in Seq(Conn)
    /\ {reading, sess, chosen} \subseteq Conn \cup {None}
    /\ timeouts \in Nat /\ dials \in Nat

DoneDials == {e \in Endpoint : dial[e] = "done"}

\* Every outcome is of another endpoint, and a success is a confirmation.
Race ==
    /\ dial \in [Endpoint -> {"idle", "busy", "done"}]
    /\ lost \in Nat
    /\ results \in Seq(Endpoint \X BOOLEAN)
    /\ lost + Len(results) <= Cardinality(DoneDials)
    /\ \A i \in 1 .. Len(results) : results[i][2] => phase[Dial(results[i][1])] \in Confirmed
    /\ \A e \in Endpoint : dial[e] = "idle" => phase[Dial(e)] = "none"

\* How far the processes are, and on which connections.
Roles ==
    /\ sMain = "pair" => sess = None
    /\ sMain \in {"params", "accept", "run"} => sess # None
    /\ sMain \in {"accept", "run"} => chosen = sess
    /\ rMain = "dial" => chosen = None
    /\ rMain \in {"params", "join", "run", "done"} => chosen # None
    /\ rMain \in {"join", "run", "done"} => phase[chosen] = "ready"
    /\ chosen # None => phase[chosen] \in Confirmed
    /\ \A c \in Conn :
          /\ phase[c] \in {"params", "ready"} => c = sess
          /\ phase[c] = "ready" => c = chosen
          /\ phase[c] \in Shaking \cup Confirmed => \E e \in Endpoint : c = Dial(e)

\* Without an expired deadline, one connection gets past CLIENT_HELLO.
Alone ==
    timeouts = 0 =>
      /\ sess # None => \A c \in Conn : phase[c] \in Confirmed \cup {"answered"} => c = sess
      /\ sMain = "pair" =>
           /\ \A c \in Conn : phase[c] \in Confirmed \cup {"answered"} => c = reading
           /\ \A e \in Endpoint :
                /\ phase[Dial(e)] \in Shaking \cup Confirmed => "S" \in open[Dial(e)]
                /\ phase[Dial(e)] \in Shaking => dial[e] = "busy" /\ "R" \in open[Dial(e)]

SInv == ConnTypes /\ Race /\ Roles /\ Alone

LEMMA DialConn == \A e \in Endpoint : Dial(e) \in Conn
BY DEF Dial, Conn

LEMMA DialFacts ==
    /\ \A d, e : Dial(d) = Dial(e) => d = e
    /\ \A e, k : Dial(e) # Join(k)
    /\ \A e, s : Dial(e) # <<"stray", s>>
    /\ \A k, s : Join(k) # <<"stray", s>>
BY DEF Dial, Join

LEMMA CloseTyped ==
    ASSUME ConnTypes, NEW end, NEW C, CloseEnd(end, C)
    PROVE  open' \in [Conn -> SUBSET {"R", "S"}]
BY DEF ConnTypes, CloseEnd

\* A success that was taken wins the race once: from then on the receiver has
\* its control connection, and when it has answered SESSION_PARAMS that is
\* the sender's too.
LEMMA JoinedSession ==
    ASSUME SInv, rMain \in {"join", "run", "done"}
    PROVE  chosen \in Conn /\ chosen = sess /\ sess # None /\ sMain # "pair"
<1>1. chosen \in Conn /\ phase[chosen] = "ready"
  BY DEF SInv, Roles, ConnTypes
<1>2. chosen = sess
  BY <1>1 DEF SInv, Roles
<1> QED
  BY <1>1, <1>2, NoneAssumption DEF SInv, Roles

\* A step that touches no handshake, when the sender is past pairing.
LEMMA PastPairing ==
    ASSUME SInv, ConnTypes',
           UNCHANGED <<sess, chosen, dial, results, lost>>,
           timeouts' = 0 => timeouts = 0,
           \A e \in Endpoint : phase'[Dial(e)] = phase[Dial(e)],
           \A c \in Conn : \/ phase'[c] = phase[c]
                           \/ {phase[c], phase'[c]} \cap (Shaking \cup Confirmed) = {},
           sMain' # "pair",
           sMain' \in {"params", "accept", "run"} => sess # None,
           sMain' \in {"accept", "run"} => chosen = sess,
           \/ rMain' = rMain
           \/ rMain \in {"join", "run"} /\ rMain' \in {"join", "run", "done", "failed"}
           \/ rMain' = "failed"
    PROVE  SInv'
<1>1. Race'
  <2>1. DoneDials' = DoneDials
    BY DEF DoneDials
  <2>2. \A i \in 1 .. Len(results) : results[i][1] \in Endpoint
    BY SMT DEF SInv, Race
  <2> QED
    BY <2>1, <2>2 DEF SInv, Race
<1>2. \A c \in Conn : phase'[c] \in Shaking \cup Confirmed => phase'[c] = phase[c]
  OBVIOUS
<1>3. chosen # None => chosen \in Conn /\ phase'[chosen] = phase[chosen]
  BY DEF SInv, Roles, ConnTypes
<1>4. Roles'
  <2>1. \A c \in Conn :
          /\ phase'[c] \in {"params", "ready"} => c = sess'
          /\ phase'[c] = "ready" => c = chosen'
          /\ phase'[c] \in Shaking \cup Confirmed => \E e \in Endpoint : c = Dial(e)
    BY <1>2 DEF SInv, Roles, Confirmed
  <2> QED
    BY <1>3, <2>1 DEF SInv, Roles
<1>5. Alone'
  BY <1>2 DEF SInv, Alone, Shaking
<1> QED
  BY <1>1, <1>4, <1>5 DEF SInv
\* The race goes on when a handshake does, and no outcome is added or taken.
LEMMA RaceKept ==
    ASSUME Race, UNCHANGED <<dial, lost, results>>,
           \A e \in Endpoint :
              /\ phase[Dial(e)] = "none" => phase'[Dial(e)] = "none"
              /\ phase[Dial(e)] \in Confirmed => phase'[Dial(e)] \in Confirmed
    PROVE  Race'
<1>1. DoneDials' = DoneDials
  BY DEF DoneDials
<1>2. \A i \in 1 .. Len(results) : results[i][1] \in Endpoint
  BY SMT DEF Race
<1> QED
  BY <1>1, <1>2 DEF Race

\* One more outcome, of an endpoint that had none.
LEMMA RaceOutcome ==
    ASSUME Race, NEW e \in Endpoint, NEW won \in BOOLEAN, dial[e] # "done",
           Outcome(e, won), UNCHANGED lost,
           won => phase'[Dial(e)] \in Confirmed,
           \A d \in Endpoint \ {e} : phase'[Dial(d)] = phase[Dial(d)],
           phase[Dial(e)] \in Confirmed => phase'[Dial(e)] \in Confirmed
    PROVE  Race' /\ DoneDials' = DoneDials \cup {e}
<1> /\ dial \in [Endpoint -> {"idle", "busy", "done"}] /\ results \in Seq(Endpoint \X BOOLEAN)
    /\ lost \in Nat /\ lost + Len(results) <= Cardinality(DoneDials)
    /\ dial' = [dial EXCEPT ![e] = "done"] /\ results' = Append(results, <<e, won>>)
  BY DEF Race, Outcome
<1>2. DoneDials' = DoneDials \cup {e} /\ e \notin DoneDials
  BY DEF DoneDials
<1>3. IsFiniteSet(DoneDials)
  BY LinkAssumption, FS_Subset DEF DoneDials
<1>4. Cardinality(DoneDials') = Cardinality(DoneDials) + 1 /\ Cardinality(DoneDials) \in Nat
  BY <1>2, <1>3, FS_AddElement, FS_CardinalityType
<1>5. /\ results' \in Seq(Endpoint \X BOOLEAN) /\ Len(results') = Len(results) + 1
      /\ Len(results) \in Nat
      /\ \A i \in 1 .. Len(results) : results'[i] = results[i] /\ results[i][1] \in Endpoint
      /\ results'[Len(results) + 1] = <<e, won>>
  BY SMT
<1>6. \A i \in 1 .. Len(results') : results'[i][2] => phase'[Dial(results'[i][1])] \in Confirmed
  <2> USE SMT
  <2> SUFFICES ASSUME NEW i \in 1 .. Len(results'), results'[i][2]
               PROVE  phase'[Dial(results'[i][1])] \in Confirmed
    OBVIOUS
  <2>1. CASE i = Len(results) + 1
    BY <1>5, <2>1
  <2>2. CASE i \in 1 .. Len(results)
    <3> USE Zenon
    <3>1. results'[i] = results[i] /\ results[i][1] \in Endpoint
      BY <1>5, <2>2
    <3>2. phase[Dial(results[i][1])] \in Confirmed
      BY <2>2, <3>1 DEF Race
    <3> QED
      BY <3>1, <3>2
  <2> QED
    BY <1>5, <2>1, <2>2
<1>7. \A d \in Endpoint : dial'[d] = "idle" => phase'[Dial(d)] = "none"
  BY DEF Race
<1>8. lost' + Len(results') <= Cardinality(DoneDials')
  BY <1>4, <1>5, SMT
<1>9. dial' \in [Endpoint -> {"idle", "busy", "done"}] /\ lost' \in Nat
  OBVIOUS
<1> QED
  BY <1>2, <1>5, <1>6, <1>7, <1>8, <1>9 DEF Race

\* Sender, in ServerHandshake.
LEMMA PairingSess ==
    ASSUME IInv, SInv, Accept \/ ServerHello \/ Paired \/ RejectHandshake
    PROVE  SInv'
<1> /\ phase \in [Conn -> Phases] /\ None \notin Conn
    /\ ConnTypes /\ Race /\ Roles /\ Alone
  BY NoneAssumption DEF IInv, SInv
<1>1. CASE Accept
  <2> /\ UNCHANGED <<phase, open, sMain, sess, rMain, chosen, dial, results, lost, timeouts, dials>>
      /\ backlog # <<>> /\ reading' = Head(backlog) /\ backlog' = Tail(backlog)
      /\ reading = None /\ sMain \in {"pair", "accept", "run"}
    BY <1>1 DEF Accept, dialVars, poolVars, budget
  <2>2. ConnTypes'
    BY SMT DEF ConnTypes
  <2>3. CASE sMain # "pair"
    BY <2>2, <2>3, PastPairing DEF Roles
  <2>4. CASE sMain = "pair"
    <3>1. Race'
      BY RaceKept
    <3>2. Roles'
      BY DEF Roles
    <3>3. Alone'
      BY DEF Alone
    <3> QED
      BY <2>2, <3>1, <3>2, <3>3 DEF SInv
  <2> QED
    BY <2>3, <2>4
<1>2. CASE ServerHello
  <2> /\ UNCHANGED <<open, backlog, reading, sMain, sess, rMain, chosen, dial, results, lost,
                     timeouts, dials>>
      /\ reading # None /\ phase[reading] = "hello" /\ sMain = "pair"
      /\ phase' = [phase EXCEPT ![reading] = "answered"]
    BY <1>2 DEF ServerHello, senderVars, dialVars, poolVars, budget
  <2> /\ reading \in Conn /\ phase'[reading] = "answered"
      /\ \A c \in Conn \ {reading} : phase'[c] = phase[c]
    BY DEF ConnTypes
  <2>3. ConnTypes'
    BY DEF ConnTypes
  <2>4. Race'
    BY RaceKept, DialConn DEF Confirmed
  <2>5. Roles'
    BY DEF Roles, ConnTypes, Shaking, Confirmed
  <2>6. Alone'
    BY DialConn, SMT DEF Alone, Roles, Shaking, Confirmed
  <2> QED
    BY <2>3, <2>4, <2>5, <2>6 DEF SInv
<1>3. CASE Paired
  <2> /\ UNCHANGED <<open, backlog, rMain, chosen, dial, results, lost, timeouts, dials>>
      /\ reading # None /\ phase[reading] = "confirmed" /\ sMain = "pair"
      /\ phase' = [phase EXCEPT ![reading] = "params"]
      /\ sess' = reading /\ reading' = None /\ sMain' = "params"
    BY <1>3 DEF Paired, dialVars, poolVars, budget
  <2> /\ reading \in Conn /\ phase'[reading] = "params"
      /\ \A c \in Conn \ {reading} : phase'[c] = phase[c]
    BY DEF ConnTypes
  <2>3. ConnTypes'
    BY DEF ConnTypes
  <2>4. Race'
    BY RaceKept, DialConn DEF Confirmed
  <2>5. rMain \notin {"join", "run", "done"} /\ \A c \in Conn : phase[c] \notin {"params", "ready"}
    BY JoinedSession DEF SInv, Roles
  <2>6. Roles'
    BY <2>5 DEF Roles, ConnTypes, Shaking, Confirmed
  <2>7. Alone'
    BY DEF Alone
  <2> QED
    BY <2>3, <2>4, <2>6, <2>7 DEF SInv
<1>4. CASE RejectHandshake
  <2> /\ UNCHANGED <<phase, sess, rMain, chosen, dial, results, lost, dials>>
      /\ reading # None /\ sMain = "pair"
    BY <1>4 DEF RejectHandshake, SenderEnds, dialVars, poolVars
  <2> /\ timeouts' \in Nat
      /\ timeouts' = 0 => /\ timeouts = 0
                          /\ \/ phase[reading] = "stray"
                             \/ phase[reading] = "answered" /\ "R" \notin open[reading]
    BY <1>4, SMT DEF RejectHandshake, ConnTypes, budget, Late
  <2>3. CASE SenderEnds("failed")
    <3>1. sMain' = "failed" /\ reading' = None /\ backlog' = <<>> /\ CloseEnd("S", Conn)
      BY <2>3 DEF SenderEnds
    <3>2. ConnTypes'
      BY <3>1, CloseTyped, SMT DEF ConnTypes
    <3> QED
      BY <3>1, <3>2, PastPairing DEF SInv
  <2>4. CASE /\ CloseEnd("S", {reading}) /\ reading' = None
             /\ UNCHANGED <<phase, backlog, sMain, sess, accepted, serving>>
    <3>1. ConnTypes'
      BY <2>4, CloseTyped DEF ConnTypes
    <3>2. Race' /\ Roles'
      BY <2>4, RaceKept DEF Roles
    <3>3. ASSUME timeouts' = 0 PROVE phase[reading] = "stray"
      <4>1. CASE phase[reading] = "answered" /\ "R" \notin open[reading]
        <5>1. PICK e \in Endpoint : reading = Dial(e)
          BY <4>1 DEF ConnTypes, Roles, Shaking
        <5> QED
          BY <3>3, <4>1, <5>1 DEF Alone, Shaking
      <4> QED
        BY <3>3, <4>1
    <3>4. ASSUME timeouts' = 0, NEW c \in Conn, phase[c] \in Shaking \cup Confirmed
          PROVE  c # reading /\ open'[c] = open[c]
      BY <2>4, <3>3, <3>4 DEF CloseEnd, Shaking, Confirmed
    <3>5. Alone'
      <4> SUFFICES ASSUME timeouts' = 0
                   PROVE  /\ \A c \in Conn : phase[c] \notin Confirmed \cup {"answered"}
                          /\ \A e \in Endpoint :
                              /\ phase[Dial(e)] \in Shaking \cup Confirmed => "S" \in open'[Dial(e)]
                              /\ phase[Dial(e)] \in Shaking => dial[e] = "busy" /\ "R" \in open'[Dial(e)]
        BY <2>4 DEF Alone, Roles
      <4>1. \A c \in Conn : phase[c] \notin Confirmed \cup {"answered"}
        BY <3>4 DEF Alone, Shaking
      <4>2. \A e \in Endpoint :
               /\ phase[Dial(e)] \in Shaking \cup Confirmed => "S" \in open[Dial(e)]
               /\ phase[Dial(e)] \in Shaking => dial[e] = "busy" /\ "R" \in open[Dial(e)]
        BY DEF Alone
      <4> QED
        BY <3>4, <4>1, <4>2, DialConn
    <3> QED
      BY <3>1, <3>2, <3>5 DEF SInv
  <2> QED
    BY <1>4, <2>3, <2>4 DEF RejectHandshake
<1> QED
  BY <1>1, <1>2, <1>3, <1>4
\* Sender, past ServerHandshake or giving it up.
LEMMA SenderSess ==
    IInv /\ SInv /\ (Sender \/ StrangerSpeaks \/ \E k \in serving : ServicerFails(k))
        => SInv'
<1> SUFFICES ASSUME IInv, SInv,
                    Sender \/ StrangerSpeaks \/ \E k \in serving : ServicerFails(k)
             PROVE  SInv'
  OBVIOUS
<1> /\ phase \in [Conn -> Phases] /\ None \notin Conn
    /\ ConnTypes /\ Race /\ Roles /\ Alone
  BY NoneAssumption DEF IInv, SInv
<1>e. ASSUME NEW how \in {"over", "failed"}, SenderEnds(how),
             UNCHANGED <<dialVars, rMain, poolVars>>,
             timeouts' \in Nat, timeouts' = 0 => timeouts = 0
      PROVE  SInv'
  <2>1. /\ UNCHANGED <<phase, sess, rMain, chosen, dial, results, lost, dials>>
        /\ sMain' = how /\ reading' = None /\ backlog' = <<>> /\ CloseEnd("S", Conn)
    BY <1>e DEF SenderEnds, dialVars, poolVars
  <2>2. ConnTypes'
    BY <1>e, <2>1, CloseTyped, SMT DEF ConnTypes
  <2> QED
    BY <1>e, <2>1, <2>2, PastPairing
<1>1. CASE ListenerDeadline
  <2>1. timeouts' \in Nat /\ (timeouts' = 0 => timeouts = 0)
    BY <1>1, SMT DEF ListenerDeadline, Late, budget, ConnTypes
  <2> QED
    BY <1>e, <1>1, <2>1 DEF ListenerDeadline
<1>2. CASE ControlLost \/ SenderWatchdog \/ \E k \in serving : ServicerFails(k)
  <2>1. UNCHANGED <<dialVars, rMain, poolVars, timeouts>>
    BY <1>2 DEF ControlLost, SenderWatchdog, ServicerFails, budget
  <2>2. SenderEnds("over") \/ SenderEnds("failed")
    BY <1>2 DEF ControlLost, SenderWatchdog, ServicerFails
  <2> QED
    BY <1>e, <2>1, <2>2 DEF ConnTypes
<1>3. CASE Ready
  <2> /\ UNCHANGED <<phase, open, backlog, reading, sess, rMain, chosen, dial, results, lost,
                     timeouts, dials>>
      /\ sMain = "params" /\ sMain' = "accept" /\ phase[sess] = "ready"
    BY <1>3 DEF Ready, connVars, dialVars, poolVars, budget
  <2>2. sess \in Conn /\ chosen = sess
    BY DEF Roles, ConnTypes
  <2>3. ConnTypes'
    BY DEF ConnTypes
  <2> QED
    BY <2>2, <2>3, PastPairing
<1>4. CASE AcceptChannel
  <2>1. PICK n \in 1 .. MaxDials :
           /\ reading = Join(n) /\ phase[Join(n)] = "join"
           /\ phase' = [phase EXCEPT ![reading] = "accepted"]
    BY <1>4 DEF AcceptChannel, Admits
  <2>2. /\ UNCHANGED <<open, backlog, sess, rMain, chosen, dial, results, lost, timeouts, dials>>
        /\ sMain \in {"accept", "run"} /\ sMain' \in {"accept", "run"} /\ reading' = None
    BY <1>4 DEF AcceptChannel, dialVars, poolVars, budget
  <2>3. ConnTypes'
    BY <2>2 DEF ConnTypes
  <2>4. /\ \A e \in Endpoint : phase'[Dial(e)] = phase[Dial(e)]
        /\ \A c \in Conn : \/ phase'[c] = phase[c]
                           \/ phase[c] = "join" /\ phase'[c] = "accepted"
    BY <2>1, DialConn, DialFacts, JoinConn
  <2> QED
    BY <2>2, <2>3, <2>4, PastPairing DEF Roles, Shaking, Confirmed
<1>5. CASE AcceptUnsent \/ RejectJoin \/ StrangerSpeaks \/ \E k \in serving : ServicerEnds(k)
  <2>1. /\ UNCHANGED <<phase, backlog, sMain, sess, rMain, chosen, dial, results, lost,
                       timeouts, dials>>
        /\ sMain \in {"accept", "run"} /\ reading' \in {reading, None}
    BY <1>5 DEF AcceptUnsent, RejectJoin, Foreign, StrangerSpeaks, Parked, TurnAway,
       ServicerEnds, dialVars, poolVars, budget
  <2>2. \E C : CloseEnd("S", C)
    BY <1>5 DEF AcceptUnsent, RejectJoin, StrangerSpeaks, TurnAway, ServicerEnds
  <2>3. ConnTypes'
    BY <2>1, <2>2, CloseTyped DEF ConnTypes
  <2> QED
    BY <2>1, <2>3, PastPairing DEF Roles
<1> QED
  BY <1>1, <1>2, <1>3, <1>4, <1>5, PairingSess DEF Sender

\* Receiver, in channel.Dial: an endpoint is dialled, or its dial ends.
LEMMA DialSess ==
    ASSUME IInv, SInv, NEW e \in Endpoint,
           DialEndpoint(e) \/ DialRefused(e) \/ ClientConfirm(e) \/ ClientGivesUp(e)
    PROVE  SInv'
<1> /\ phase \in [Conn -> Phases] /\ None \notin Conn
    /\ ConnTypes /\ Race /\ Roles /\ Alone /\ Dial(e) \in Conn
  BY NoneAssumption, DialConn DEF IInv, SInv
<1>1. CASE DialEndpoint(e)
  <2> /\ UNCHANGED <<reading, sMain, sess, rMain, chosen, results, lost, timeouts, dials>>
      /\ dial[e] = "idle" /\ rMain = "dial" /\ dial' = [dial EXCEPT ![e] = "busy"]
      /\ phase' = [phase EXCEPT ![Dial(e)] = "hello"]
      /\ open' = [open EXCEPT ![Dial(e)] = {"R", "S"}]
      /\ backlog' = Append(backlog, Dial(e))
    BY <1>1 DEF DialEndpoint, Connect, senderVars, poolVars, budget
  <2>2. /\ phase[Dial(e)] = "none" /\ phase'[Dial(e)] = "hello" /\ open'[Dial(e)] = {"R", "S"}
        /\ \A c \in Conn \ {Dial(e)} : phase'[c] = phase[c] /\ open'[c] = open[c]
    BY DEF Race, ConnTypes
  <2>3. ConnTypes'
    BY SMT DEF ConnTypes
  <2>4. Race'
    <3>1. DoneDials' = DoneDials
      BY DEF DoneDials, Race
    <3>2. /\ dial' \in [Endpoint -> {"idle", "busy", "done"}]
          /\ \A d \in Endpoint : dial'[d] = "idle" => phase'[Dial(d)] = "none"
      BY <2>2, DialConn, DialFacts DEF Race
    <3>3. \A i \in 1 .. Len(results) : results[i][1] \in Endpoint
      <4>1. results \in Seq(Endpoint \X BOOLEAN)
        BY DEF Race
      <4> QED
        BY <4>1, SMT
    <3>4. \A i \in 1 .. Len(results) : results[i][2] => phase'[Dial(results[i][1])] \in Confirmed
      BY <2>2, <3>3, DialConn DEF Race, Confirmed
    <3> QED
      BY <3>1, <3>2, <3>4 DEF Race
  <2>5. Roles'
    BY <2>2 DEF Roles, Shaking, Confirmed
  <2>6. Alone'
    <3>1. \A c \in Conn : phase'[c] \in Confirmed \cup {"answered"} => phase'[c] = phase[c]
      BY <2>2 DEF Confirmed
    <3>2. \A d \in Endpoint \ {e} : /\ Dial(d) \in Conn \ {Dial(e)} /\ dial'[d] = dial[d]
      BY DialConn, DialFacts DEF Race
    <3>3. dial'[e] = "busy"
      BY DEF Race
    <3> QED
      BY <2>2, <3>1, <3>2, <3>3, SMT DEF Alone
  <2> QED
    BY <2>3, <2>4, <2>5, <2>6 DEF SInv
<1>2. CASE DialRefused(e)
  <2> /\ UNCHANGED <<phase, open, backlog, reading, sMain, sess, rMain, chosen, lost, timeouts, dials>>
      /\ dial[e] = "idle" /\ Outcome(e, FALSE)
    BY <1>2 DEF DialRefused, connVars, senderVars, poolVars, budget
  <2>2. ConnTypes' /\ Roles'
    BY DEF ConnTypes, Roles
  <2>3. Race'
    BY RaceOutcome
  <2>4. phase[Dial(e)] = "none" /\ \A d \in Endpoint \ {e} : dial'[d] = dial[d]
    BY DEF Race, Outcome
  <2>5. Alone'
    BY <2>4 DEF Alone, Shaking
  <2> QED
    BY <2>2, <2>3, <2>5 DEF SInv
<1>3. CASE ClientConfirm(e)
  <2> /\ UNCHANGED <<open, backlog, reading, sMain, sess, rMain, chosen, lost, timeouts, dials>>
      /\ dial[e] = "busy" /\ Outcome(e, TRUE) /\ phase[Dial(e)] = "answered"
      /\ phase' = [phase EXCEPT ![Dial(e)] = "confirmed"]
    BY <1>3 DEF ClientConfirm, senderVars, poolVars, budget
  <2> /\ phase'[Dial(e)] = "confirmed"
      /\ \A c \in Conn \ {Dial(e)} : phase'[c] = phase[c]
      /\ \A d \in Endpoint \ {e} : Dial(d) \in Conn \ {Dial(e)} /\ dial'[d] = dial[d]
    BY DialConn, DialFacts DEF Race, Outcome
  <2>3. ConnTypes'
    BY DEF ConnTypes
  <2>4. Race'
    <3>1. /\ dial[e] # "done" /\ phase'[Dial(e)] \in Confirmed
          /\ \A d \in Endpoint \ {e} : phase'[Dial(d)] = phase[Dial(d)]
      BY DEF Confirmed
    <3> QED
      BY <3>1, RaceOutcome
  <2>5. Roles'
    BY ZenonT(30) DEF Roles, ConnTypes, Shaking, Confirmed
  <2>6. Alone'
    BY ZenonT(30) DEF Alone, Shaking, Confirmed
  <2> QED
    BY <2>3, <2>4, <2>5, <2>6 DEF SInv
<1>4. CASE ClientGivesUp(e)
  <2> /\ UNCHANGED <<phase, backlog, reading, sMain, sess, rMain, chosen, lost, dials>>
      /\ dial[e] = "busy" /\ Outcome(e, FALSE) /\ CloseEnd("R", {Dial(e)})
    BY <1>4 DEF ClientGivesUp, senderVars, poolVars
  <2>2. timeouts' \in Nat /\ (timeouts' = 0 => timeouts = 0 /\ "S" \notin open[Dial(e)])
    BY <1>4, SMT DEF ClientGivesUp, ConnTypes, budget, Late
  <2>3. ConnTypes' /\ Roles'
    BY <2>2, CloseTyped DEF ConnTypes, Roles
  <2>4. Race'
    BY RaceOutcome
  <2>5. \A d \in Endpoint \ {e} : dial'[d] = dial[d] /\ open'[Dial(d)] = open[Dial(d)]
    BY DialConn, DialFacts DEF Race, Outcome, CloseEnd
  <2>6. Alone'
    BY <2>2, <2>5 DEF Alone
  <2> QED
    BY <2>3, <2>4, <2>6 DEF SInv
<1> QED
  BY <1>1, <1>2, <1>3, <1>4
\* An outcome is taken: the race is won, all endpoints have failed (and then
\* no handshake is under way), or a late success is closed.
LEMMA OutcomeSess == IInv /\ SInv /\ TakeOutcome => SInv'
<1> SUFFICES ASSUME IInv, SInv, TakeOutcome PROVE SInv'
  OBVIOUS
<1> /\ phase \in [Conn -> Phases] /\ None \notin Conn
    /\ ConnTypes /\ Race /\ Roles /\ Alone
  BY NoneAssumption DEF IInv, SInv
<1> DEFINE e == Head(results)[1]
           won == Head(results)[2]
<1>1. \/ /\ won /\ rMain = "dial" /\ chosen' = Dial(e) /\ rMain' = "params"
         /\ UNCHANGED <<open, lost>>
      \/ /\ ~won
         /\ lost' = lost + 1
         /\ IF lost' = Cardinality(Endpoint) /\ rMain = "dial"
            THEN ReceiverFails
            ELSE UNCHANGED <<open, rMain>>
         /\ UNCHANGED chosen
      \/ /\ won /\ rMain # "dial" /\ CloseEnd("R", {Dial(e)})
         /\ UNCHANGED <<lost, chosen, rMain>>
  BY DEF TakeOutcome
<1> /\ UNCHANGED <<phase, backlog, reading, sMain, sess, dial, timeouts, dials>>
    /\ results # <<>> /\ results' = Tail(results)
  BY DEF TakeOutcome, senderVars, poolVars, budget
<1>3. /\ e \in Endpoint /\ Dial(e) \in Conn
      /\ won => phase[Dial(e)] \in Confirmed
      /\ results' \in Seq(Endpoint \X BOOLEAN) /\ Len(results') = Len(results) - 1
      /\ Len(results) \in Nat \ {0}
      /\ \A i \in 1 .. Len(results') : results'[i] = results[i + 1] /\ i + 1 \in 1 .. Len(results)
  <2> USE SMT
  <2>1. Head(results) = results[1] /\ 1 \in 1 .. Len(results) /\ results \in Seq(Endpoint \X BOOLEAN)
    BY DEF Race
  <2>2. results[1] \in Endpoint \X BOOLEAN
    BY <2>1
  <2> QED
    BY <1>1, <2>1, <2>2, DialConn DEF Race
<1> HIDE DEF e, won
<1>4. IsFiniteSet(Endpoint) /\ IsFiniteSet(DoneDials) /\ DoneDials' = DoneDials
      /\ Cardinality(DoneDials) \in Nat /\ Cardinality(Endpoint) \in Nat
      /\ Cardinality(DoneDials) <= Cardinality(Endpoint)
      /\ (Cardinality(DoneDials) = Cardinality(Endpoint) => DoneDials = Endpoint)
  <2>1. DoneDials \subseteq Endpoint /\ IsFiniteSet(Endpoint) /\ DoneDials' = DoneDials
    BY LinkAssumption DEF DoneDials
  <2> QED
    BY <2>1, FS_Subset, FS_CardinalityType
<1>5. lost' \in {lost, lost + 1} /\ lost \in Nat
  BY <1>1 DEF Race
<1>6. Race'
  <2>1. \A i \in 1 .. Len(results') : results'[i][2] => phase[Dial(results'[i][1])] \in Confirmed
    BY <1>3 DEF Race
  <2>2. lost' \in Nat /\ lost' + Len(results') <= Cardinality(DoneDials)
    BY <1>3, <1>4, <1>5, SMT DEF Race
  <2> QED
    BY <1>3, <1>4, <2>1, <2>2 DEF Race
<1>7. CASE won /\ rMain = "dial" /\ chosen' = Dial(e) /\ rMain' = "params" /\ UNCHANGED open
  <2>1. ConnTypes'
    BY <1>3, <1>7 DEF ConnTypes
  <2>2. chosen = None /\ \A c \in Conn : phase[c] # "ready"
    BY <1>7 DEF Roles
  <2>3. Roles'
    BY <1>3, <1>7, <2>2 DEF Roles
  <2>4. Alone'
    BY <1>7 DEF Alone
  <2> QED
    BY <1>6, <2>1, <2>3, <2>4 DEF SInv
<1>8. CASE UNCHANGED <<open, rMain, chosen>>
  <2>1. ConnTypes' /\ Roles' /\ Alone'
    BY <1>8 DEF ConnTypes, Roles, Alone
  <2> QED
    BY <1>6, <2>1 DEF SInv
<1>9. CASE /\ lost' = lost + 1 /\ lost' = Cardinality(Endpoint) /\ rMain = "dial"
           /\ ReceiverFails /\ UNCHANGED chosen
  <2>1. DoneDials = Endpoint
    <3>1. lost + Len(results) <= Cardinality(DoneDials) /\ Len(results) \in Nat \ {0}
      BY <1>3 DEF Race
    <3>2. lost + 1 = Cardinality(Endpoint) /\ lost \in Nat
      BY <1>5, <1>9
    <3>3. /\ Cardinality(DoneDials) \in Nat /\ Cardinality(Endpoint) \in Nat
          /\ Cardinality(DoneDials) <= Cardinality(Endpoint)
      BY <1>4
    <3>4. Cardinality(DoneDials) = Cardinality(Endpoint)
      BY <3>1, <3>2, <3>3, SMT
    <3> QED
      BY <1>4, <3>4
  <2>2. rMain' = "failed" /\ CloseEnd("R", Conn)
    BY <1>9 DEF ReceiverFails
  <2>3. ConnTypes' /\ Roles'
    BY <1>9, <2>2, CloseTyped DEF ConnTypes, Roles
  <2>4. \A c \in Conn : "S" \in open[c] => "S" \in open'[c]
    BY <2>2 DEF CloseEnd
  <2>5. \A d \in Endpoint : dial[d] # "busy"
    BY <2>1 DEF DoneDials
  <2>6. Alone'
    BY <2>4, <2>5, DialConn DEF Alone
  <2> QED
    BY <1>6, <2>3, <2>6 DEF SInv
<1>10. CASE won /\ CloseEnd("R", {Dial(e)}) /\ UNCHANGED <<chosen, rMain>>
  <2>1. ConnTypes' /\ Roles'
    BY <1>10, CloseTyped DEF ConnTypes, Roles
  <2>2. \A c \in Conn : /\ "S" \in open[c] => "S" \in open'[c]
                        /\ phase[c] \in Shaking => open'[c] = open[c]
    BY <1>3, <1>10 DEF CloseEnd, Shaking, Confirmed
  <2>3. Alone'
    BY <2>2, DialConn DEF Alone
  <2> QED
    BY <1>6, <2>1, <2>3 DEF SInv
<1> QED
  BY <1>1, <1>7, <1>8, <1>9, <1>10

\* SESSION_PARAMS is answered, the control connection is lost, or a stranger
\* calls.
LEMMA ParamsSess ==
    ASSUME IInv, SInv, Params \/ PeerLost \/ \E s \in Stray : StrayCalls(s)
    PROVE  SInv'
<1> /\ phase \in [Conn -> Phases] /\ None \notin Conn
    /\ ConnTypes /\ Race /\ Roles /\ Alone
  BY NoneAssumption DEF IInv, SInv
<1>1. CASE Params
  <2> /\ UNCHANGED <<open, backlog, reading, sMain, sess, chosen, dial, results, lost,
                     timeouts, dials>>
      /\ rMain = "params" /\ rMain' = "join" /\ phase[chosen] = "params"
      /\ phase' = [phase EXCEPT ![chosen] = "ready"]
    BY <1>1 DEF Params, senderVars, dialVars, poolVars, budget
  <2> /\ chosen \in Conn /\ chosen = sess /\ phase'[chosen] = "ready"
      /\ \A c \in Conn \ {chosen} : phase'[c] = phase[c]
    BY DEF Roles, ConnTypes
  <2>3. ConnTypes'
    BY DEF ConnTypes
  <2>4. Race'
    BY RaceKept, DialConn DEF Confirmed
  <2>5. Roles'
    BY DEF Roles, Confirmed
  <2>6. Alone'
    BY DEF Alone, Roles, Confirmed
  <2> QED
    BY <2>3, <2>4, <2>5, <2>6 DEF SInv
<1>2. CASE PeerLost
  <2> /\ UNCHANGED <<phase, backlog, reading, sMain, sess, chosen, dial, results, lost,
                     timeouts, dials>>
      /\ rMain \in {"params", "run"} /\ "S" \notin open[chosen]
      /\ rMain' = "failed" /\ CloseEnd("R", Conn)
    BY <1>2 DEF PeerLost, ReceiverFails, senderVars, dialVars, poolVars, budget
  <2>2. ConnTypes'
    BY CloseTyped DEF ConnTypes
  <2>3. CASE sMain # "pair"
    BY <2>2, <2>3, PastPairing DEF Roles
  <2>4. CASE sMain = "pair"
    <3>1. PICK e \in Endpoint : chosen = Dial(e)
      BY DEF Roles, ConnTypes
    <3>2. phase[chosen] \in Confirmed
      BY DEF Roles
    <3>3. timeouts # 0
      BY <2>4, <3>1, <3>2 DEF Alone
    <3>4. Race' /\ Roles' /\ Alone'
      BY <3>3, RaceKept DEF Roles, Alone
    <3> QED
      BY <2>2, <3>4 DEF SInv
  <2> QED
    BY <2>3, <2>4
<1>3. ASSUME NEW s \in Stray, StrayCalls(s) PROVE SInv'
  <2>1. PICK x \in Conn : x = <<"stray", s>>
    BY DEF Conn
  <2> /\ UNCHANGED <<reading, sMain, sess, rMain, chosen, dial, results, lost, timeouts, dials>>
      /\ phase[x] = "none" /\ phase' = [phase EXCEPT ![x] = "stray"]
      /\ open' = [open EXCEPT ![x] = {"R", "S"}]
      /\ backlog' = Append(backlog, x)
    BY <1>3, <2>1 DEF StrayCalls, Connect, senderVars, dialVars, poolVars, budget
  <2>3. /\ phase'[x] = "stray" /\ \A c \in Conn \ {x} : phase'[c] = phase[c] /\ open'[c] = open[c]
        /\ \A e \in Endpoint : Dial(e) \in Conn \ {x}
    BY <2>1, DialConn, DialFacts, SMT DEF ConnTypes
  <2>4. ConnTypes'
    BY SMT DEF ConnTypes
  <2>5. Race'
    BY <2>3, RaceKept
  <2>6. \A c \in Conn : phase'[c] \in Shaking \cup Confirmed => phase'[c] = phase[c]
    BY <2>3 DEF Shaking, Confirmed
  <2>7. Roles'
    <3>1. chosen # None => phase'[chosen] = phase[chosen]
      BY <2>3 DEF Roles, ConnTypes, Confirmed
    <3>2. \A c \in Conn :
            /\ phase'[c] \in {"params", "ready"} => c = sess
            /\ phase'[c] = "ready" => c = chosen
            /\ phase'[c] \in Shaking \cup Confirmed => \E e \in Endpoint : c = Dial(e)
      BY <2>6 DEF Roles, Confirmed
    <3> QED
      BY <3>1, <3>2 DEF Roles
  <2>8. Alone'
    BY <2>3, <2>6 DEF Alone, Shaking
  <2> QED
    BY <2>4, <2>5, <2>7, <2>8 DEF SInv
<1> QED
  BY <1>1, <1>2, <1>3
\* Receiver, once SESSION_READY is out: joins, losses, rejoins, ramps and the
\* end touch no handshake, and the sender is past its own.
LEMMA PoolSess ==
    ASSUME IInv, SInv, rMain \in {"join", "run"},
           UNCHANGED <<senderVars, dialVars>>,
           rMain' \in {"join", "run", "done", "failed"},
           \/ UNCHANGED <<connVars, dials>>
           \/ \E by : DialData(by)
           \/ /\ UNCHANGED <<phase, backlog, dials>>
              /\ \E C : CloseEnd("R", C) \/ \E k : open' = [open EXCEPT ![Join(k)] = {}],
           timeouts' \in {timeouts, timeouts + 1}
    PROVE  SInv'
<1> /\ phase \in [Conn -> Phases] /\ None \notin Conn
    /\ ConnTypes /\ Race /\ Roles /\ Alone
  BY NoneAssumption DEF IInv, SInv
<1> UNCHANGED <<reading, sMain, sess, chosen, dial, results, lost>>
  BY DEF senderVars, dialVars
<1> timeouts' \in Nat /\ (timeouts' = 0 => timeouts = 0)
  BY SMT DEF ConnTypes
<1>3. chosen = sess /\ sess # None /\ sMain' # "pair"
  BY JoinedSession
<1> DEFINE NoHandshake ==
             /\ \A e \in Endpoint : phase'[Dial(e)] = phase[Dial(e)]
             /\ \A c \in Conn : \/ phase'[c] = phase[c]
                                \/ {phase[c], phase'[c]} \cap (Shaking \cup Confirmed) = {}
<1>4. ConnTypes' /\ NoHandshake
  <2>1. CASE UNCHANGED <<connVars, dials>>
    BY <2>1 DEF ConnTypes, connVars
  <2>2. ASSUME NEW by, DialData(by), Listening PROVE ConnTypes' /\ NoHandshake
    <3>1. dials + 1 \in 1 .. MaxDials /\ dials' = dials + 1
      <4>1. dials \in Nat /\ dials < MaxDials /\ dials' = dials + 1
        BY <2>2 DEF DialData, ConnTypes
      <4>2. MaxDials \in Nat
        BY MaxDialsNat
      <4> QED
        BY <4>1, <4>2, SMT
    <3>2. PICK x \in Conn : x = Join(dials + 1)
      BY <3>1, JoinConn
    <3> /\ phase' = [phase EXCEPT ![x] = "join"]
        /\ open' = [open EXCEPT ![x] = {"R", "S"}]
        /\ backlog' = Append(backlog, x)
      BY <2>2, <3>2 DEF DialData, Connect
    <3>4. ConnTypes'
      BY <3>1, SMT DEF ConnTypes
    <3>5. \A e \in Endpoint : x # Dial(e)
      BY <3>2, DialFacts
    <3>6. phase[x] \notin Shaking \cup Confirmed /\ phase'[x] = "join"
      BY <3>5 DEF Roles
    <3> QED
      BY <3>4, <3>5, <3>6, DialConn DEF Shaking, Confirmed
  <2>3. ASSUME NEW by, DialData(by), ~Listening PROVE ConnTypes' /\ NoHandshake
    <3>1. UNCHANGED <<phase, open, backlog>> /\ dials' = dials + 1
      BY <2>3 DEF DialData, connVars
    <3> QED
      BY <3>1, SMT DEF ConnTypes
  <2>4. ASSUME NEW C, CloseEnd("R", C), UNCHANGED <<phase, backlog, dials>> PROVE ConnTypes' /\ NoHandshake
    BY <2>4, CloseTyped DEF ConnTypes
  <2>5. ASSUME NEW k, open' = [open EXCEPT ![Join(k)] = {}], UNCHANGED <<phase, backlog, dials>>
        PROVE  ConnTypes' /\ NoHandshake
    BY <2>5 DEF ConnTypes
  <2> QED
    BY <2>1, <2>2, <2>3, <2>4, <2>5
<1> QED
  BY <1>3, <1>4, PastPairing

LEMMA NextSess == IInv /\ SInv /\ [Next]_vars => SInv'
<1> SUFFICES ASSUME IInv, SInv, [Next]_vars PROVE SInv'
  OBVIOUS
<1>1. CASE Linker
  <2>1. CASE DialInitial
    BY <2>1, PoolSess DEF DialInitial, budget
  <2>2. CASE \E p \in pending : Joined(p)
    BY <2>2, PoolSess DEF Joined, budget, connVars
  <2>3. ASSUME NEW p \in pending, JoinFails(p) PROVE SInv'
    <3>1. /\ rMain \in {"join", "run"} /\ UNCHANGED <<senderVars, dialVars, phase, backlog, dials>>
          /\ timeouts' \in {timeouts, timeouts + 1}
      BY <2>3 DEF JoinFails, Late, budget
    <3>2. rMain' \in {"run", "failed"} /\ \E C : CloseEnd("R", C)
      BY <2>3 DEF JoinFails, ReceiverFails, GiveUp
    <3> QED
      BY <3>1, <3>2, PoolSess
  <2> QED
    BY <1>1, <2>1, <2>2, <2>3, DialSess, OutcomeSess, ParamsSess DEF Linker
<1>2. CASE Pool
  <2>1. CASE \E k \in Live : WorkerEnds(k)
    BY <2>1, PoolSess DEF WorkerEnds, budget
  <2>2. CASE PipelineDone \/ Done
    BY <2>2, PoolSess DEF PipelineDone, Done, budget, connVars, poolVars
  <2>3. ASSUME NEW k, RejoinAttempt(k) PROVE SInv'
    BY <2>3, PoolSess DEF RejoinAttempt, AddChannel, budget
  <2>4. ASSUME NEW k, RejoinExhausted(k) PROVE SInv'
    <3>1. rMain = "run" /\ UNCHANGED <<senderVars, dialVars, phase, backlog, dials, timeouts>>
      BY <2>4 DEF RejoinExhausted, budget
    <3>2. \/ rMain' = "failed" /\ CloseEnd("R", Conn)
          \/ UNCHANGED <<open, rMain>>
      BY <2>4 DEF RejoinExhausted, ReceiverFails
    <3> QED
      BY <3>1, <3>2, PoolSess DEF connVars
  <2>5. CASE TunerAdds
    BY <2>5, PoolSess DEF TunerAdds, AddChannel, budget
  <2> QED
    BY <1>2, <2>1, <2>2, <2>3, <2>4, <2>5 DEF Pool
<1>3. CASE RampUp \/ RampDown \/ Drain
  BY <1>3, PoolSess DEF RampUp, RampDown, Tuning, Drain, budget, connVars, poolVars
<1>4. CASE Breaks
  <2>1. CASE \E k \in Live : Lose(k)
    BY <2>1, PoolSess DEF Lose, budget, poolVars, connVars
  <2>2. CASE \E k \in Live : WorkerLost(k)
    BY <2>2, PoolSess DEF WorkerLost, budget
  <2>3. CASE \E k \in Live : StreamEnds(k)
    BY <2>3, PoolSess DEF StreamEnds, ReceiverFails, budget, poolVars
  <2> QED
    BY <1>4, <2>1, <2>2, <2>3, SenderSess DEF Breaks
<1>5. CASE UNCHANGED vars
  <2>1. UNCHANGED <<phase, open, backlog, reading, sMain, sess, rMain, chosen, dial, results, lost,
                    timeouts, dials>>
    BY <1>5 DEF vars, connVars, senderVars, dialVars, poolVars, budget
  <2>2. ConnTypes' /\ Roles' /\ Alone'
    BY <2>1 DEF SInv, ConnTypes, Roles, Alone
  <2>3. Race'
    BY <2>1, RaceKept DEF SInv
  <2> QED
    BY <2>2, <2>3 DEF SInv
<1> QED
  BY <1>1, <1>2, <1>3, <1>4, <1>5, SenderSess, ParamsSess DEF Next

LEMMA InitSess == Init => SInv
<1> SUFFICES ASSUME Init PROVE SInv
  OBVIOUS
<1> /\ phase = [c \in Conn |-> "none"] /\ open = [c \in Conn |-> {}] /\ backlog = <<>>
    /\ reading = None /\ sMain = "pair" /\ sess = None /\ lost = 0 /\ results = <<>>
    /\ dial = [e \in Endpoint |-> "idle"] /\ chosen = None /\ rMain = "dial"
    /\ dials = 0 /\ timeouts = 0
  BY DEF Init
<1>2. ConnTypes
  BY SMT DEF ConnTypes
<1>3. DoneDials = {} /\ Cardinality(DoneDials) = 0
  BY FS_EmptySet DEF DoneDials
<1>4. Race
  BY <1>3, DialConn, SMT DEF Race
<1>5. Roles
  BY DEF Roles, Shaking, Confirmed
<1>6. Alone
  BY DialConn DEF Alone, Shaking, Confirmed
<1> QED
  BY <1>2, <1>4, <1>5, <1>6 DEF SInv

\* The invariant of the linking.
THEOREM LinkSafe == Spec => [](IInv /\ SInv)
<1>1. Init => IInv
  BY SMT DEF Init, IInv, Remembered, FreshKeys, Phases, Join, Conn
<1> QED
  BY <1>1, InitSess, StepKeeps, NextSess, PTL DEF Spec

\* A sender that has read SESSION_READY shares its control connection with
\* the receiver; and without an expired deadline the endpoint that won the
\* receiver's race (channel.Dial) is the connection the sender paired with,
\* for any number of endpoints and strangers.
THEOREM SessionShared == Spec => []OneSession
<1>1. SInv => OneSession
  <2> SUFFICES ASSUME SInv PROVE OneSession
    OBVIOUS
  <2>1. chosen # None => chosen \in Conn /\ phase[chosen] \in Confirmed
    BY DEF SInv, ConnTypes, Roles
  <2> QED
    BY <2>1 DEF SInv, Roles, Alone, OneSession
<1> QED
  BY <1>1, LinkSafe, PTL

-----------------------------------------------------------------------------
(***************************************************************************)
(* Every data connection the receiver keeps open has a worker or a pending *)
(* join, and chWg counts them.  A data connection is dialled once, so it   *)
(* is a pending join, then one worker, then gone; the count of chWg        *)
(* follows.  Workers are removed by their channel id, which is theirs      *)
(* alone (FreshKeys, above).                                               *)
(***************************************************************************)
Elements(s) == {s[i] : i \in 1 .. Len(s)}
Unique(s) == \A i, j \in 1 .. Len(s) : s[i] = s[j] => i = j

\* Data connections the receiver knows.
Members ==
    /\ dials <= MaxDials
    /\ workers \in Seq(Nat) /\ Unique(workers)
    /\ \A k \in Live : k \in 1 .. dials /\ phase[Join(k)] = "accepted"
    /\ \A k \in 1 .. MaxDials : k > dials => phase[Join(k)] = "none"
    /\ IsFiniteSet(pending)
    /\ \A p \in pending : p.conn \in 1 .. dials /\ p.conn \notin Live
    /\ \A p, q \in pending : p.conn = q.conn => p = q

\* The count while the initial batch is dialled, and after.
Counted ==
    /\ wg \in Int
    /\ rMain \in {"dial", "params"} => workers = <<>> /\ pending = {} /\ wg = 0
    /\ rMain = "join" => wg = Len(workers) /\ \A p, q \in pending : p = q
    /\ WaitCovers

PInv == Members /\ Counted /\ ConnsHeld

Without(s, n) == SubSeq(s, 1, n - 1) \o SubSeq(s, n + 1, Len(s))

LEMMA ConcatParts ==
    ASSUME NEW S, NEW s \in Seq(S), NEW t \in Seq(S)
    PROVE  /\ s \o t \in Seq(S) /\ Len(s \o t) = Len(s) + Len(t)
           /\ \A i \in 1 .. Len(s) + Len(t) :
                 (s \o t)[i] = IF i <= Len(s) THEN s[i] ELSE t[i - Len(s)]
BY SMT

\* The elements of a part of a sequence.
LEMMA PartFacts ==
    ASSUME NEW S, NEW s \in Seq(S), NEW a \in 1 .. Len(s) + 1, NEW b \in a - 1 .. Len(s)
    PROVE  /\ SubSeq(s, a, b) \in Seq(S) /\ Len(SubSeq(s, a, b)) = IF a <= b THEN b - a + 1 ELSE 0
           /\ \A i \in 1 .. b - a + 1 : SubSeq(s, a, b)[i] = s[a + i - 1]
  BY SMT

\* append(s[:n-1], s[n+1:]...) leaves out one element.
LEMMA Removed ==
    ASSUME NEW s \in Seq(Nat), NEW n \in 1 .. Len(s)
    PROVE  /\ Without(s, n) \in Seq(Nat) /\ Len(Without(s, n)) = Len(s) - 1
           /\ Unique(s) => /\ Unique(Without(s, n))
                           /\ Elements(Without(s, n)) = Elements(s) \ {s[n]}
<1>0. PICK r : r = Without(s, n)
  OBVIOUS
<1>1. Len(s) \in Nat
  BY SMT
<1>2. PICK left : left = SubSeq(s, 1, n - 1)
  OBVIOUS
<1>3. PICK right : right = SubSeq(s, n + 1, Len(s))
  OBVIOUS
<1>4. left \in Seq(Nat) /\ Len(left) = n - 1 /\ \A i \in 1 .. n - 1 : left[i] = s[i]
  <2> USE SMT
  <2>1. 1 \in 1 .. Len(s) + 1 /\ n - 1 \in 1 - 1 .. Len(s)
    BY <1>1
  <2>2. /\ left \in Seq(Nat) /\ Len(left) = IF 1 <= n - 1 THEN n - 1 - 1 + 1 ELSE 0
        /\ \A i \in 1 .. n - 1 - 1 + 1 : left[i] = s[1 + i - 1]
    BY <1>2, <2>1, PartFacts, Zenon
  <2> QED
    BY <1>1, <2>2
<1>5. /\ right \in Seq(Nat) /\ Len(right) = Len(s) - n
      /\ \A i \in 1 .. Len(s) - n : right[i] = s[n + i]
  <2> USE SMT
  <2>1. n + 1 \in 1 .. Len(s) + 1 /\ Len(s) \in (n + 1) - 1 .. Len(s)
    BY <1>1
  <2>2. /\ right \in Seq(Nat) /\ Len(right) = IF n + 1 <= Len(s) THEN Len(s) - (n + 1) + 1 ELSE 0
        /\ \A i \in 1 .. Len(s) - (n + 1) + 1 : right[i] = s[(n + 1) + i - 1]
    BY <1>3, <2>1, PartFacts, Zenon
  <2> QED
    BY <1>1, <2>2
<1>6. /\ r \in Seq(Nat) /\ Len(r) = Len(left) + Len(right)
      /\ \A i \in 1 .. Len(left) + Len(right) :
            r[i] = IF i <= Len(left) THEN left[i] ELSE right[i - Len(left)]
  <2>1. r = left \o right
    BY <1>0, <1>2, <1>3 DEF Without
  <2>2. /\ left \o right \in Seq(Nat) /\ Len(left \o right) = Len(left) + Len(right)
        /\ \A i \in 1 .. Len(left) + Len(right) :
              (left \o right)[i] = IF i <= Len(left) THEN left[i] ELSE right[i - Len(left)]
    BY <1>4, <1>5, ConcatParts
  <2> QED
    BY <2>1, <2>2
<1> DEFINE l == Len(left)
           m == Len(right)
           N == Len(s)
<1>7. /\ N \in Nat /\ n \in 1 .. N /\ l = n - 1 /\ m = N - n /\ Len(r) = l + m
      /\ \A i \in 1 .. n - 1 : left[i] = s[i]
      /\ \A i \in 1 .. N - n : right[i] = s[n + i]
      /\ \A i \in 1 .. l + m : r[i] = IF i <= l THEN left[i] ELSE right[i - l]
  BY <1>1, <1>4, <1>5, <1>6
<1> HIDE DEF l, m, N
<1>8. /\ Len(r) = N - 1
      /\ \A i \in 1 .. N - 1 : r[i] = IF i < n THEN s[i] ELSE s[i + 1]
  <2> USE SMT
  <2> Len(r) = N - 1 /\ l + m = N - 1
    BY ONLY <1>7
  <2>2. ASSUME NEW i \in 1 .. N - 1, i < n PROVE r[i] = s[i]
    BY ONLY <1>7, <2>2
  <2>3. ASSUME NEW i \in 1 .. N - 1, ~(i < n) PROVE r[i] = s[i + 1]
    <3>1. i - l \in 1 .. N - n /\ n + (i - l) = i + 1 /\ ~(i <= l)
      BY ONLY <1>7, <2>3
    <3> QED
      BY ONLY <1>7, <2>3, <3>1
  <2> QED
    BY <2>2, <2>3
<1>9. ASSUME Unique(s) PROVE Unique(r) /\ Elements(r) = Elements(s) \ {s[n]}
  <2>1. /\ Unique(r) <=> \A i, j \in 1 .. N - 1 : r[i] = r[j] => i = j
        /\ Elements(r) = {r[i] : i \in 1 .. N - 1}
        /\ Elements(s) = {s[i] : i \in 1 .. N}
        /\ \A i, j \in 1 .. N : s[i] = s[j] => i = j
    <3>1. Len(r) = N - 1 /\ N = Len(s)
      BY <1>8 DEF N
    <3> QED
      BY <1>9, <3>1 DEF Unique, Elements
  <2>2. N \in Nat /\ n \in 1 .. N
    BY <1>7
  <2>3. \A i \in 1 .. N - 1 : /\ i < n => r[i] = s[i] /\ i \in 1 .. N
                              /\ ~(i < n) => r[i] = s[i + 1] /\ i + 1 \in 1 .. N
    BY ONLY <1>8, <2>2, SMT
  <2>4. ASSUME NEW i \in 1 .. N - 1, NEW j \in 1 .. N - 1, r[i] = r[j] PROVE i = j
    <3> DEFINE at(k) == IF k < n THEN k ELSE k + 1
    <3>1. \A k \in 1 .. N - 1 : r[k] = s[at(k)] /\ at(k) \in 1 .. N
      BY ONLY <2>2, <2>3, SMT
    <3>2. at(i) = at(j)
      <4> HIDE DEF at
      <4> QED
        BY <2>1, <2>4, <3>1
    <3> QED
      BY ONLY <2>2, <3>2, SMT
  <2>5. \A i \in 1 .. N - 1 : r[i] # s[n] /\ \E j \in 1 .. N : r[i] = s[j]
    BY ONLY <2>1, <2>2, <2>3, SMT
  <2>6. ASSUME NEW i \in 1 .. N, i # n PROVE \E j \in 1 .. N - 1 : r[j] = s[i]
    <3> USE SMT
    <3>1. CASE i < n
      <4>1. i \in 1 .. N - 1 /\ r[i] = s[i]
        BY ONLY <2>2, <2>3, <2>6, <3>1
      <4> QED
        BY <4>1
    <3>2. CASE i > n
      <4>1. i - 1 \in 1 .. N - 1 /\ r[i - 1] = s[i]
        BY ONLY <2>2, <2>3, <2>6, <3>2
      <4> QED
        BY <4>1
    <3> QED
      BY <2>6, <3>1, <3>2
  <2>7. {r[i] : i \in 1 .. N - 1} = {s[i] : i \in 1 .. N} \ {s[n]}
    <3>1. {s[i] : i \in 1 .. N} \ {s[n]} \subseteq {r[i] : i \in 1 .. N - 1}
      <4> SUFFICES ASSUME NEW i \in 1 .. N, s[i] # s[n] PROVE s[i] \in {r[j] : j \in 1 .. N - 1}
        OBVIOUS
      <4>1. PICK j \in 1 .. N - 1 : r[j] = s[i]
        BY <2>6
      <4> QED
        BY <4>1
    <3>2. {r[i] : i \in 1 .. N - 1} \subseteq {s[i] : i \in 1 .. N} \ {s[n]}
      BY ONLY <2>5, SMT
    <3> QED
      BY ONLY <3>1, <3>2, Zenon
  <2> QED
    BY <2>1, <2>4, <2>7
<1> QED
  BY <1>0, <1>6, <1>8, <1>9 DEF N

\* removeWorker takes exactly the worker it is called for.
LEMMA OthersFacts ==
    ASSUME IInv, Members, dials \in Nat, NEW k \in Live
    PROVE  /\ Others(k) \in Seq(Nat) /\ Unique(Others(k))
           /\ Len(Others(k)) = Len(workers) - 1
           /\ Elements(Others(k)) = Live \ {k}
<1> workers \in Seq(Nat) /\ Unique(workers) /\ Len(workers) \in Nat
    /\ DOMAIN workers = 1 .. Len(workers) /\ dials <= MaxDials
  BY SMT DEF Members
<1>2. PICK n \in 1 .. Len(workers) : workers[n] = k
  BY DEF Live
<1>3. \A i \in 1 .. Len(workers) : workers[i] \in 1 .. MaxDials /\ phase[Join(workers[i])] = "accepted"
  <2> USE SMT
  <2>1. dials \in Int /\ MaxDials \in Int
    BY MaxDialsNat
  <2> QED
    BY <2>1 DEF Members, Live
<1>4. \A i \in 1 .. Len(workers) : Id(workers[i]) = Id(k) <=> i = n
  BY <1>2, <1>3 DEF IInv, FreshKeys, Unique
<1>5. Others(k) = Without(workers, n)
  <2>1. n = CHOOSE i \in DOMAIN workers :
                 /\ Id(workers[i]) = Id(k)
                 /\ \A j \in 1 .. i - 1 : Id(workers[j]) # Id(k)
    <3>1. Id(workers[n]) = Id(k) /\ \A j \in 1 .. n - 1 : Id(workers[j]) # Id(k)
      BY <1>4, SMT
    <3> QED
      BY <1>4, <3>1
  <2> QED
    BY <2>1 DEF Others, Without
<1>6. /\ Without(workers, n) \in Seq(Nat) /\ Len(Without(workers, n)) = Len(workers) - 1
      /\ Unique(Without(workers, n)) /\ Elements(Without(workers, n)) = Elements(workers) \ {k}
  BY <1>2, Removed
<1>7. Elements(workers) = Live
  BY DEF Elements, Live
<1> QED
  BY <1>5, <1>6, <1>7

LEMMA LiveAppended ==
    ASSUME NEW s \in Seq(Nat), NEW x \in Nat
    PROVE  Elements(Append(s, x)) = Elements(s) \cup {x}
<1> USE SMT
<1>1. /\ Len(Append(s, x)) = Len(s) + 1 /\ Len(s) \in Nat
      /\ \A i \in 1 .. Len(s) : Append(s, x)[i] = s[i]
      /\ Append(s, x)[Len(s) + 1] = x
  OBVIOUS
<1>2. 1 .. Len(s) + 1 = (1 .. Len(s)) \cup {Len(s) + 1}
  BY <1>1
<1> QED
  BY <1>1, <1>2 DEF Elements

\* A step that opens, answers and removes no data connection.
LEMMA PoolRests ==
    ASSUME PInv, UNCHANGED <<dials, workers, pending, wg>>,
           \A k \in 1 .. MaxDials : "R" \in open'[Join(k)] => "R" \in open[Join(k)],
           \A k \in 1 .. MaxDials : \/ phase'[Join(k)] = phase[Join(k)]
                                    \/ phase[Join(k)] = "join" /\ phase'[Join(k)] = "accepted",
           \/ rMain' = rMain
           \/ rMain' = "failed"
           \/ rMain \in {"dial", "params"} /\ rMain' \in {"params", "join"}
           \/ rMain = "run" /\ rMain' = "done",
           dials \in Nat
    PROVE  PInv'
<1>1. Live' = Live
  BY DEF Live
<1>2. MaxDials \in Nat
  BY MaxDialsNat
<1>3. \A k \in Live : k \in 1 .. MaxDials
  BY <1>2, SMT DEF PInv, Members
<1>4. Members'
  BY <1>1, <1>3 DEF PInv, Members
<1>5. Counted'
  BY DEF PInv, Counted, WaitCovers
<1>6. ConnsHeld'
  BY <1>1 DEF PInv, ConnsHeld
<1> QED
  BY <1>4, <1>5, <1>6 DEF PInv
\* A data connection is dialled: by dialData, which waits for each one, or
\* by addChannel, which counts it.
LEMMA DialPool ==
    ASSUME IInv, SInv, PInv, NEW by, DialData(by), UNCHANGED <<workers, rMain>>,
           \/ rMain = "join" /\ pending = {} /\ wg' = wg
           \/ rMain = "run" /\ wg' = wg + 1
    PROVE  PInv'
<1> USE SMT
<1> /\ Members /\ Counted /\ ConnsHeld /\ ConnTypes /\ MaxDials \in Nat
    /\ phase \in [Conn -> Phases]
  BY MaxDialsNat DEF PInv, SInv, IInv
<1>1. PICK n, new : n = dials + 1 /\ new = [conn |-> n, by |-> by]
  BY Zenon
<1> /\ dials \in Nat /\ n = dials + 1 /\ n \in 1 .. MaxDials /\ dials' = n
    /\ pending' = pending \cup {new} /\ new.conn = n
    /\ \/ /\ phase' = [phase EXCEPT ![Join(n)] = "join"]
          /\ open' = [open EXCEPT ![Join(n)] = {"R", "S"}]
       \/ UNCHANGED <<phase, open>>
  <2>1. dials \in Nat /\ dials < MaxDials /\ dials' = dials + 1
    BY DEF DialData, ConnTypes
  <2> QED
    BY <1>1, <2>1 DEF DialData, Connect, connVars
<1>3. Live' = Live
  BY DEF Live
<1>4. \A k \in 1 .. MaxDials : k # n => phase'[Join(k)] = phase[Join(k)] /\ open'[Join(k)] = open[Join(k)]
  BY JoinConn, JoinDistinct DEF ConnTypes
<1>5. new \notin pending /\ n \notin Live
  BY SMTT(20) DEF Members
<1>6. Members'
  <2>1. \A k \in Live : k \in 1 .. n /\ k \in 1 .. MaxDials /\ k # n /\ phase'[Join(k)] = "accepted"
    BY <1>4 DEF Members
  <2>2. \A k \in 1 .. MaxDials : k > n => phase'[Join(k)] = "none"
    BY <1>4 DEF Members
  <2>3. \A p \in pending' : p.conn \in 1 .. n /\ p.conn \notin Live
    BY <1>5 DEF Members
  <2>4. \A p, q \in pending' : p.conn = q.conn => p = q
    BY DEF Members
  <2>5. IsFiniteSet(pending')
    BY FS_AddElement, Zenon DEF Members
  <2> QED
    BY <1>3, <2>1, <2>2, <2>3, <2>4, <2>5, SMTT(20) DEF Members
<1>7. Counted'
  <2>1. Cardinality(pending') = Cardinality(pending) + 1 /\ Cardinality(pending) \in Nat
    BY <1>5, FS_AddElement, FS_CardinalityType, Zenon DEF Members
  <2>2. Len(workers) \in Nat
    BY DEF Members
  <2> QED
    BY <2>1, <2>2 DEF Counted, WaitCovers
<1>8. ConnsHeld'
  BY <1>3, <1>4 DEF ConnsHeld
<1> QED
  BY <1>6, <1>7, <1>8 DEF PInv

\* CHANNEL_ACCEPT arrives: a pending join becomes a worker.
LEMMA JoinedPool ==
    ASSUME IInv, SInv, PInv, NEW p \in pending, Joined(p)
    PROVE  PInv'
<1> /\ Members /\ Counted /\ ConnsHeld /\ MaxDials \in Nat /\ dials \in Nat
  BY MaxDialsNat DEF PInv, SInv, ConnTypes
<1>1. PICK n : n = p.conn
  OBVIOUS
<1> /\ n \in 1 .. dials /\ n \notin Live /\ workers \in Seq(Nat) /\ Len(workers) \in Nat
    /\ n \in Nat
  BY <1>1, SMT DEF Members
<1> /\ UNCHANGED <<phase, open, dials>> /\ phase[Join(n)] = "accepted"
    /\ rMain \in {"join", "run"} /\ pending' = pending \ {p} /\ workers' = Append(workers, n)
    /\ rMain' \in {rMain, "run"} /\ wg' = IF rMain = "join" THEN wg + 1 ELSE wg
  BY <1>1 DEF Joined, connVars
<1> /\ workers' \in Seq(Nat) /\ Len(workers') = Len(workers) + 1
    /\ Live' = Live \cup {n}
  <2>1. Live = Elements(workers) /\ Live' = Elements(workers')
    BY DEF Live, Elements
  <2>2. Elements(workers') = Elements(workers) \cup {n}
    BY LiveAppended
  <2> QED
    BY <2>1, <2>2, SMT
<1>5. Unique(workers')
  <2>1. /\ \A i \in 1 .. Len(workers) : workers'[i] = workers[i] /\ workers[i] # n
        /\ workers'[Len(workers) + 1] = n
    BY SMT DEF Live
  <2>2. \A i, j \in 1 .. Len(workers) : workers[i] = workers[j] => i = j
    BY DEF Members, Unique
  <2>3. \A i \in 1 .. Len(workers') : i \in 1 .. Len(workers) \/ i = Len(workers) + 1
    BY SMT
  <2>4. ASSUME NEW i \in 1 .. Len(workers'), NEW j \in 1 .. Len(workers'), workers'[i] = workers'[j]
        PROVE  i = j
    <3>1. CASE i \in 1 .. Len(workers) /\ j \in 1 .. Len(workers)
      BY <2>1, <2>2, <2>4, <3>1
    <3>2. CASE i = Len(workers) + 1 \/ j = Len(workers) + 1
      BY <2>1, <2>3, <2>4, <3>2
    <3> QED
      BY <2>3, <3>1, <3>2
  <2> QED
    BY <2>4 DEF Unique
<1>6. \A q \in pending' : q \in pending /\ q.conn # n
  BY <1>1 DEF Members
<1>7. /\ IsFiniteSet(pending) /\ IsFiniteSet(pending')
      /\ Cardinality(pending') = Cardinality(pending) - 1 /\ Cardinality(pending) \in Nat
  BY FS_RemoveElement, FS_CardinalityType DEF Members
<1>8. Members'
  BY <1>5, <1>6, <1>7 DEF Members
<1>9. Counted'
  <2>1. CASE rMain = "join"
    <3>1. pending' = {} /\ wg' = Len(workers') /\ wg' \in Int
      BY <2>1, SMT DEF Counted
    <3>2. Cardinality(pending') = 0
      BY <3>1, FS_EmptySet
    <3> QED
      BY <2>1, <3>1, <3>2, SMTT(20) DEF Counted, WaitCovers
  <2>2. CASE rMain = "run"
    BY <1>7, <2>2, SMT DEF Counted, WaitCovers
  <2> QED
    BY <2>1, <2>2
<1>10. ConnsHeld'
  BY <1>1 DEF ConnsHeld
<1> QED
  BY <1>8, <1>9, <1>10 DEF PInv

\* A join fails: its connection is closed and it is counted off.
LEMMA FailedPool ==
    ASSUME IInv, SInv, PInv, NEW p \in pending, JoinFails(p)
    PROVE  PInv'
<1> /\ Members /\ Counted /\ ConnsHeld /\ MaxDials \in Nat /\ dials \in Nat
  BY MaxDialsNat DEF PInv, SInv, ConnTypes
<1> /\ UNCHANGED <<phase, dials, workers>> /\ pending' = pending \ {p}
    /\ \/ rMain = "join" /\ rMain' = "failed" /\ CloseEnd("R", Conn) /\ UNCHANGED wg
       \/ rMain = "run" /\ rMain' = "run" /\ CloseEnd("R", {Join(p.conn)}) /\ wg' = wg - 1
  BY DEF JoinFails, ReceiverFails, GiveUp
<1>2. Live' = Live
  BY DEF Live
<1>3. \A k \in 1 .. MaxDials : "R" \in open'[Join(k)] => "R" \in open[Join(k)] /\ k # p.conn
  BY JoinConn DEF CloseEnd
<1>4. /\ IsFiniteSet(pending) /\ IsFiniteSet(pending')
      /\ Cardinality(pending') = Cardinality(pending) - 1 /\ Cardinality(pending) \in Nat
  BY FS_RemoveElement, FS_CardinalityType DEF Members
<1>5. Members'
  BY <1>2, <1>4 DEF Members
<1>6. Counted'
  <2> USE SMT
  <2>1. Len(workers) \in Nat
    BY DEF Members
  <2> QED
    BY <1>4, <2>1 DEF Counted, WaitCovers
<1>7. ConnsHeld'
  BY <1>2, <1>3 DEF ConnsHeld
<1> QED
  BY <1>5, <1>6, <1>7 DEF PInv

\* A worker leaves: its connection is closed and it is counted off.
LEMMA LeavePool ==
    ASSUME IInv, SInv, PInv, NEW k \in Live, WorkerLost(k) \/ WorkerEnds(k)
    PROVE  PInv'
<1> /\ Members /\ Counted /\ ConnsHeld /\ MaxDials \in Nat /\ dials \in Nat
  BY MaxDialsNat DEF PInv, SInv, ConnTypes
<1> /\ UNCHANGED <<phase, dials, pending, rMain>> /\ rMain = "run"
    /\ workers' = Others(k) /\ wg' = wg - 1 /\ CloseEnd("R", {Join(k)})
  BY DEF WorkerLost, WorkerEnds, WorkerLeaves
<1> /\ workers' \in Seq(Nat) /\ Unique(workers') /\ Len(workers') = Len(workers) - 1
    /\ Live' = Live \ {k}
  <2>1. Live' = Elements(workers')
    BY DEF Live, Elements
  <2> QED
    BY <2>1, OthersFacts
<1>3. \A j \in 1 .. MaxDials : "R" \in open'[Join(j)] => "R" \in open[Join(j)] /\ j # k
  BY JoinConn DEF CloseEnd
<1>4. Members'
  BY DEF Members
<1>5. Counted'
  <2> USE SMT
  <2>1. Len(workers) \in Nat /\ Cardinality(pending) \in Nat
    BY FS_CardinalityType DEF Members
  <2> QED
    BY <2>1 DEF Counted, WaitCovers
<1>6. ConnsHeld'
  BY <1>3 DEF ConnsHeld
<1> QED
  BY <1>4, <1>5, <1>6 DEF PInv
LEMMA NextPool == IInv /\ SInv /\ PInv /\ [Next]_vars => PInv'
<1> SUFFICES ASSUME IInv, SInv, PInv, [Next]_vars PROVE PInv'
  OBVIOUS
<1>0. /\ phase \in [Conn -> Phases] /\ dials \in Nat /\ open \in [Conn -> SUBSET {"R", "S"}]
      /\ \A k \in 1 .. MaxDials : Join(k) \in Conn
  BY JoinConn DEF IInv, SInv, ConnTypes
<1>h. \A k \in 1 .. MaxDials : phase[Join(k)] \notin Shaking \cup Confirmed
  <2>1. \A k \in 1 .. MaxDials, e \in Endpoint : Join(k) # Dial(e)
    BY ONLY DialFacts, SMT
  <2> QED
    BY <1>0, <2>1 DEF SInv, Roles
<1> DEFINE Data == UNCHANGED <<dials, workers, pending, wg>>
           Answers == \A k \in 1 .. MaxDials :
                         \/ phase'[Join(k)] = phase[Join(k)]
                         \/ phase[Join(k)] = "join" /\ phase'[Join(k)] = "accepted"
           Closes == \A k \in 1 .. MaxDials : "R" \in open'[Join(k)] => "R" \in open[Join(k)]
           Goes == \/ rMain' = rMain
                   \/ rMain' = "failed"
                   \/ rMain \in {"dial", "params"} /\ rMain' \in {"params", "join"}
                   \/ rMain = "run" /\ rMain' = "done"
<1>r. ASSUME Data, Answers, Closes, Goes PROVE PInv'
  BY <1>0, <1>r, PoolRests
<1>c. ASSUME NEW end, NEW C, CloseEnd(end, C) PROVE Closes
  BY <1>0, <1>c DEF CloseEnd
<1>p. ASSUME NEW c \in Conn, NEW v, phase[c] \in Shaking \cup Confirmed, phase' = [phase EXCEPT ![c] = v]
      PROVE  Answers
  BY <1>0, <1>h, <1>p
<1>k. ASSUME NEW c \in Conn, \A k : c # Join(k),
             \/ UNCHANGED phase
             \/ \E v : phase' = [phase EXCEPT ![c] = v],
             UNCHANGED open \/ \E v : open' = [open EXCEPT ![c] = v]
      PROVE  Answers /\ Closes
  BY <1>0, <1>k
<1> HIDE DEF Data, Answers, Closes, Goes
<1>1. CASE Sender \/ StrangerSpeaks \/ \E k \in serving : ServicerFails(k)
  <2>1. Data /\ Goes
    <3>1. UNCHANGED <<rMain, poolVars>>
      BY <1>1 DEF Sender, Accept, ServerHello, Paired, RejectHandshake,
         ListenerDeadline, Ready, ControlLost, SenderWatchdog, AcceptChannel,
         AcceptUnsent, RejectJoin, StrangerSpeaks, ServicerEnds, ServicerFails
    <3> QED
      BY <3>1 DEF Data, Goes, poolVars
  <2>2. Closes
    <3>1. UNCHANGED open \/ \E C : CloseEnd("S", C)
      BY <1>1 DEF Sender, Accept, ServerHello, Paired, RejectHandshake,
         ListenerDeadline, Ready, ControlLost, SenderWatchdog, AcceptChannel,
         AcceptUnsent, RejectJoin, StrangerSpeaks, TurnAway, ServicerEnds,
         ServicerFails, SenderEnds, connVars
    <3>2. UNCHANGED open => Closes
      BY DEF Closes
    <3> QED
      BY <1>c, <3>1, <3>2
  <2>3. Answers
    <3>1. CASE UNCHANGED phase
      BY <3>1 DEF Answers
    <3>2. CASE ServerHello \/ Paired
      <4>1. PICK v : phase' = [phase EXCEPT ![reading] = v]
        BY <3>2 DEF ServerHello, Paired
      <4>2. reading \in Conn /\ phase[reading] \in Shaking \cup Confirmed
        BY <3>2 DEF ServerHello, Paired, SInv, ConnTypes, Shaking, Confirmed
      <4> QED
        BY <1>p, <4>1, <4>2
    <3>3. CASE AcceptChannel
      <4>1. PICK n \in 1 .. MaxDials : /\ phase[Join(n)] = "join"
                                       /\ phase' = [phase EXCEPT ![Join(n)] = "accepted"]
        BY <3>3 DEF AcceptChannel, Admits
      <4> QED
        BY <1>0, <4>1, JoinDistinct DEF Answers
    <3> QED
      BY <1>1, <3>1, <3>2, <3>3 DEF Sender, Accept, RejectHandshake,
         ListenerDeadline, Ready, ControlLost, SenderWatchdog, AcceptUnsent,
         RejectJoin, StrangerSpeaks, TurnAway, ServicerEnds, ServicerFails,
         SenderEnds, connVars
  <2> QED
    BY <1>r, <2>1, <2>2, <2>3
<1>2. CASE Linker
  <2>1. ASSUME NEW e \in Endpoint,
               DialEndpoint(e) \/ DialRefused(e) \/ ClientConfirm(e) \/ ClientGivesUp(e)
        PROVE  PInv'
    <3>1. Data /\ Goes
      BY <2>1 DEF DialEndpoint, DialRefused, ClientConfirm, ClientGivesUp,
         Data, Goes, poolVars
    <3>2. Dial(e) \in Conn /\ \A k : Dial(e) # Join(k)
      BY DialConn, DialFacts
    <3>3. CASE ClientGivesUp(e)
      <4>1. CloseEnd("R", {Dial(e)}) /\ UNCHANGED phase
        BY <3>3 DEF ClientGivesUp
      <4> QED
        BY <1>c, <1>r, <3>1, <4>1 DEF Answers
    <3>4. CASE DialEndpoint(e) \/ DialRefused(e) \/ ClientConfirm(e)
      <4>1. /\ \/ UNCHANGED phase
               \/ \E v : phase' = [phase EXCEPT ![Dial(e)] = v]
            /\ UNCHANGED open \/ \E v : open' = [open EXCEPT ![Dial(e)] = v]
        BY <3>4 DEF DialEndpoint, DialRefused, ClientConfirm, Connect, connVars
      <4> QED
        BY <1>k, <1>r, <3>1, <3>2, <4>1, SMT
    <3> QED
      BY <2>1, <3>3, <3>4
  <2>2. CASE TakeOutcome \/ PeerLost
    <3>1. Data /\ Answers
      BY <2>2 DEF TakeOutcome, PeerLost, Data, Answers, poolVars
    <3>2. Goes /\ (UNCHANGED open \/ \E C : CloseEnd("R", C))
      BY <2>2 DEF TakeOutcome, PeerLost, ReceiverFails, Goes
    <3>3. UNCHANGED open => Closes
      BY DEF Closes
    <3> QED
      BY <1>c, <1>r, <3>1, <3>2, <3>3
  <2>3. CASE Params
    <3> /\ UNCHANGED open /\ rMain = "params" /\ rMain' = "join" /\ phase[chosen] = "params"
        /\ phase' = [phase EXCEPT ![chosen] = "ready"]
      BY <2>3 DEF Params
    <3>2. Data /\ Goes /\ Closes
      BY <2>3 DEF Params, Data, Goes, Closes, poolVars
    <3>3. chosen \in Conn
      BY DEF SInv, ConnTypes, Roles
    <3>4. Answers
      BY <1>p, <3>3 DEF Confirmed
    <3> QED
      BY <1>r, <3>2, <3>4
  <2>4. CASE DialInitial
    BY <2>4, DialPool DEF DialInitial
  <2> QED
    BY <1>2, <2>1, <2>2, <2>3, <2>4, JoinedPool, FailedPool DEF Linker
<1>3. CASE Pool
  <2>1. CASE PipelineDone \/ Done
    <3>1. Data /\ Goes /\ Answers /\ (UNCHANGED open \/ \E C : CloseEnd("R", C))
      BY <2>1 DEF PipelineDone, Done, Data, Goes, Answers, poolVars, connVars
    <3>2. UNCHANGED open => Closes
      BY DEF Closes
    <3> QED
      BY <1>c, <1>r, <3>1, <3>2
  <2>2. ASSUME NEW k, RejoinAttempt(k) PROVE PInv'
    <3>1. CASE AddChannel(k)
      BY <2>2, <3>1, DialPool DEF RejoinAttempt, AddChannel
    <3>2. CASE UNCHANGED <<connVars, dials, pending, wg>>
      <4>1. Data /\ Goes /\ Answers /\ Closes
        BY <2>2, <3>2 DEF RejoinAttempt, Data, Goes, Answers, Closes, connVars
      <4> QED
        BY <1>r, <4>1
    <3> QED
      BY <2>2, <3>1, <3>2 DEF RejoinAttempt
  <2>3. ASSUME NEW k, RejoinExhausted(k) PROVE PInv'
    <3>1. Data /\ Answers /\ Goes /\ (UNCHANGED open \/ \E C : CloseEnd("R", C))
      BY <2>3 DEF RejoinExhausted, ReceiverFails, Data, Goes, Answers
    <3>2. UNCHANGED open => Closes
      BY DEF Closes
    <3> QED
      BY <1>c, <1>r, <3>1, <3>2
  <2>4. CASE TunerAdds
    <3>1. CASE AddChannel(0)
      BY <2>4, <3>1, DialPool DEF TunerAdds, AddChannel
    <3>2. CASE UNCHANGED <<connVars, dials, pending, wg>>
      <4>1. Data /\ Goes /\ Answers /\ Closes
        BY <2>4, <3>2 DEF TunerAdds, Data, Goes, Answers, Closes, connVars
      <4> QED
        BY <1>r, <4>1
    <3> QED
      BY <2>4, <3>1, <3>2 DEF TunerAdds
  <2> QED
    BY <1>3, <2>1, <2>2, <2>3, <2>4, LeavePool, SMT DEF Pool
<1>4. CASE RampUp \/ RampDown \/ Drain \/ UNCHANGED vars
  <2>1. Data /\ Goes /\ Answers /\ Closes
    BY <1>4 DEF RampUp, RampDown, Drain, Data, Goes, Answers, Closes, vars,
       connVars, poolVars
  <2> QED
    BY <1>r, <2>1
<1>5. ASSUME NEW n \in Live, Lose(n) \/ StreamEnds(n) PROVE PInv'
  <2>1. Data /\ Goes /\ Answers /\ (UNCHANGED open \/ CloseEnd("R", Conn))
    BY <1>5 DEF Lose, StreamEnds, ReceiverFails, Data, Goes, Answers, poolVars, connVars
  <2>2. UNCHANGED open => Closes
    BY DEF Closes
  <2> QED
    BY <1>c, <1>r, <2>1, <2>2
<1>6. ASSUME NEW s \in Stray, StrayCalls(s) PROVE PInv'
  <2>1. PICK x \in Conn : x = <<"stray", s>> /\ \A k : x # Join(k)
    <3>1. <<"stray", s>> \in Conn
      BY DEF Conn
    <3> QED
      BY <3>1, DialFacts
  <2>2. /\ Data /\ Goes
        /\ phase' = [phase EXCEPT ![x] = "stray"] /\ open' = [open EXCEPT ![x] = {"R", "S"}]
    BY <1>6, <2>1 DEF StrayCalls, Connect, Data, Goes, poolVars
  <2> QED
    BY <1>k, <1>r, <2>1, <2>2
<1> QED
  BY <1>1, <1>2, <1>3, <1>4, <1>5, <1>6, LeavePool DEF Next, Breaks

\* No data connection and no goroutine of the pool is left behind, whatever
\* is lost, rejoined, ramped or answered too late: the receiver keeps a data
\* connection open only for a worker or a join under way, and chWg counts
\* just those (receiver/run.go's addChannel, removeWorker and rejoinLoop).
THEOREM NothingLeaks == Spec => []NoLeak
<1>1. Init => PInv
  <2> USE SMT
  <2> SUFFICES ASSUME Init PROVE PInv
    OBVIOUS
  <2> /\ workers = <<>> /\ pending = {} /\ wg = 0 /\ dials = 0 /\ rMain = "dial"
      /\ phase = [c \in Conn |-> "none"] /\ open = [c \in Conn |-> {}]
    BY DEF Init
  <2>2. Live = {} /\ IsFiniteSet(pending)
    BY FS_EmptySet DEF Live
  <2>3. Members
    BY <2>2, MaxDialsNat, JoinConn DEF Members, Unique
  <2>4. Counted
    BY DEF Counted, WaitCovers
  <2>5. ConnsHeld
    BY JoinConn DEF ConnsHeld
  <2> QED
    BY <2>3, <2>4, <2>5 DEF PInv
<1>2. PInv => NoLeak
  BY DEF PInv, Counted, NoLeak
<1> QED
  BY <1>1, <1>2, LinkSafe, NextPool, PTL DEF Spec

-----------------------------------------------------------------------------
(***************************************************************************)
(* Resume.  What a resumed run takes from the journal is true, for every   *)
(* set of plans, files and groups and any number of kills, failures and    *)
(* changes of the source, under another manifest digest or under the same  *)
(* one.  A log that outlived its session.json is the one exception, and    *)
(* only a removal cut short leaves one.                                    *)
(***************************************************************************)

\* File i has a content the manifest digest allows.
Fits(i) == tree[Here(i).path] \in Here(i).contents

\* Records without a digest exist only while RemoveAll is at work, or after
\* it was cut short.
NoOrphan ==
    /\ logged \/ log = <<>>
    /\ log # <<>> /\ session \notin Manifest =>
          orphaned \/ (session = Absent /\ pc \in {"discard", "clear"})

\* Where the process is tells which session the journal belongs to.
Placed ==
    /\ pc \in {"open", "discard", "write", "fill", "log"} => \A i \in FileId : file[i] = "todo"
    /\ pc \in {"log", "run"} => session = current
    /\ pc = "run" => logged
    /\ pc = "stop" => (session = current /\ logged) \/ \A i \in FileId : file[i] = "todo"
    /\ pc \in {"write", "fill"} => orphaned \/ log = <<>>
    /\ pc \in {"open", "discard", "write", "fill"} => prior = {}
    /\ pc = "clear" => \A i \in FileId : file[i] \in Resolved
    /\ exit = "ok" => pc = "down"

\* What this run has done with a file shows in the destination.
FilesTrue ==
    pc # "down" => \A i \in FileId :
        /\ file[i] \in {"skipped", "published", "done"} => InPlace(i)
        /\ file[i] = "fetch" => part[i] = Bad
        /\ file[i] = "received" => part[i] = source[i]

PriorTrue == pc \in {"log", "run"} /\ ~orphaned => \A i \in prior : Fits(i)

ResumeInv == ResumeTypeOK /\ RecordsTrue /\ NoOrphan /\ Placed /\ FilesTrue /\ PriorTrue
        /\ NeverPartial /\ SuccessComplete

-----------------------------------------------------------------------------
\* The provers look at one conjunct at a time: these are the ones a step that
\* leaves the destination and the log alone preserves.
LEMMA QuietRecords ==
    ASSUME RecordsTrue, UNCHANGED <<log, tree>>, session' = session \/ session' \notin Manifest,
           orphaned => orphaned' \/ log = <<>>
    PROVE  RecordsTrue'
<1>1. CASE log = <<>>
  <2>1. DOMAIN log' = {}
    BY <1>1, SMTT(20)
  <2> QED
    BY <2>1 DEF RecordsTrue
<1>2. CASE log # <<>>
  BY <1>2 DEF RecordsTrue
<1> QED
  BY <1>1, <1>2

\* A file is in place if its content is that of the source, and then it has a
\* content the digest allows.
LEMMA PlaceFacts ==
    ASSUME ResumeTypeOK, NEW i \in FileId
    PROVE  /\ source[i] \in Content /\ source[i] \in Here(i).contents
           /\ Here(i).path \in Path
           /\ tree[Here(i).path] = source[i] => InPlace(i)
           /\ InPlace(i) /\ ~orphaned => Fits(i)
<1>1. source[i] \in Content /\ source[i] \in Here(i).contents
  BY DEF ResumeTypeOK, Sources, Here
<1>2. Here(i).path \in Path
  BY ResumeAssumption, SMT DEF ResumeTypeOK, Here
<1> QED
  BY <1>1, <1>2 DEF InPlace, Fits

\* An id is read from a line that decodes.
LEMMA ParseTrue ==
    ASSUME ResumeTypeOK, RecordsTrue, session = current
    PROVE  Parse(log) \subseteq FileId /\ (~orphaned => \A i \in Parse(log) : Fits(i))
<1> SUFFICES ASSUME NEW i \in Parse(log) PROVE i \in FileId /\ (~orphaned => Fits(i))
  OBVIOUS
<1>1. PICK k \in DOMAIN log : i = log[k] /\ \A l \in 1 .. k : log[l] # Bad
  BY DEF Parse
<1>2. k \in 1 .. k /\ log[k] \in FileId \cup {Bad}
  BY <1>1, SMT DEF ResumeTypeOK
<1>3. i # Bad
  BY <1>1, <1>2
<1>4. i \in FileId
  BY <1>1, <1>2, <1>3
<1>5. current \in Manifest
  BY DEF ResumeTypeOK
<1> QED
  BY <1>1, <1>3, <1>4, <1>5 DEF RecordsTrue, Fits, Here

\* Two files of one plan have different paths.
LEMMA Distinct ==
    ASSUME NEW m \in Manifest, NEW i \in FileId, NEW j \in FileId, i # j
    PROVE  /\ Plan[m][i].path # Plan[m][j].path
           /\ Plan[m][i].path \in Path
BY ResumeAssumption, SMT

\* Starting a run: nothing of it has happened yet.
LEMMA BeginStep ==
    ASSUME ResumeInv, Begin
    PROVE  ResumeInv'
<1> USE DEF ResumeInv
<1>1. ResumeTypeOK'
  <2>1. changes' \in 0 .. MaxChanges
    BY ResumeAssumption, SMT DEF Begin, ResumeTypeOK
  <2>3. current' \in Manifest /\ source' \in Sources(current')
    BY DEF Begin, ResumeTypeOK, runVars
  <2>2. file' \in [FileId -> FileState] /\ pc' \in ProcessState
    BY DEF Begin, FileState, ProcessState
  <2> QED
    BY <2>1, <2>2, <2>3 DEF ResumeTypeOK, Begin, journalVars
<1>2. RecordsTrue'
  BY QuietRecords DEF Begin, journalVars
<1>3. NoOrphan' /\ NeverPartial' /\ SuccessComplete'
  BY DEF Begin, journalVars, NoOrphan, NeverPartial, SuccessComplete
<1>4. Placed' /\ FilesTrue' /\ PriorTrue'
  BY DEF Begin, Placed, FilesTrue, PriorTrue
<1> QED
  BY <1>1, <1>2, <1>3, <1>4

\* OpenJournal and the steps up to the running transfer.
LEMMA OpenStep ==
    ASSUME ResumeInv, OpenJournal \/ Discarded \/ WriteSession \/ FillSession \/ OpenLog
    PROVE  ResumeInv'
<1> USE DEF ResumeInv
<1> UNCHANGED <<log, part, tree, current, source, file, exit, uncleared, faults, changes>>
  BY DEF OpenJournal, Discarded, WriteSession, FillSession, OpenLog, journalVars, runVars,
     historyVars, boundVars
<1>1. /\ orphaned' \in BOOLEAN /\ (orphaned => orphaned' \/ log = <<>>)
      /\ orphaned' => orphaned
  <2>1. orphaned \in BOOLEAN
    BY DEF ResumeTypeOK
  <2>2. CASE orphaned' = (orphaned /\ log # <<>>)
    BY <2>1, <2>2
  <2>3. CASE orphaned' = FALSE /\ Emptied
    BY <2>3 DEF Emptied, NoOrphan
  <2>4. CASE UNCHANGED orphaned
    BY <2>1, <2>4
  <2> QED
    BY <2>2, <2>3, <2>4 DEF OpenJournal, Discarded, WriteSession, FillSession, OpenLog, historyVars
<1>2. \A i \in FileId : file[i] = "todo" /\ file'[i] = "todo"
  BY DEF OpenJournal, Discarded, WriteSession, FillSession, OpenLog, Placed
<1> NeverPartial' /\ exit # "ok" /\ SuccessComplete'
  BY DEF NeverPartial, SuccessComplete, Placed, OpenJournal, Discarded,
     WriteSession, FillSession, OpenLog
<1>4. FilesTrue'
  BY <1>2 DEF FilesTrue
<1>5. CASE OpenJournal
  <2>1. CASE session = current
    <3>1. prior' \subseteq FileId /\ (~orphaned' => \A i \in prior' : Fits(i))
      <4>1. prior' = IF logged THEN Parse(log) ELSE {}
        BY <1>5, <2>1, ResumeAssumption DEF OpenJournal, ResumeTypeOK
      <4>2. log = <<>> => Parse(log) = {}
        BY SMT DEF Parse
      <4> QED
        BY <1>1, <2>1, <4>1, <4>2, ParseTrue
    <3> pc' = "log" /\ UNCHANGED <<session, logged>>
      BY <1>5, <2>1, ResumeAssumption DEF OpenJournal, journalVars, ResumeTypeOK
    <3>3. ResumeTypeOK'
      BY <1>1, <3>1 DEF ResumeTypeOK, ProcessState
    <3>4. PriorTrue'
      BY <3>1 DEF PriorTrue, Fits, Here
    <3>5. RecordsTrue' /\ Placed'
      BY <1>1, <1>2, <2>1, QuietRecords, SMT DEF Placed
    <3>6. NoOrphan'
      <4>1. session' \in Manifest
        BY <2>1 DEF ResumeTypeOK
      <4>2. logged' \/ log' = <<>>
        BY DEF NoOrphan
      <4> QED
        BY <4>1, <4>2 DEF NoOrphan
    <3> QED
      BY <1>4, <3>3, <3>4, <3>5, <3>6
  <2>2. CASE session # current
    <3> /\ UNCHANGED <<session, logged, prior>>
        /\ \/ pc' = "discard"
           \/ pc' = "write" /\ session = Absent
      BY <1>5, <2>2 DEF OpenJournal, journalVars
    <3>2. log # <<>> => session \in Manifest \/ orphaned'
      BY <1>1, <1>5 DEF NoOrphan, OpenJournal
    <3>3. ResumeTypeOK'
      BY <1>1 DEF ResumeTypeOK, ProcessState
    <3>4. RecordsTrue' /\ NoOrphan'
      BY <1>1, <3>2, QuietRecords DEF NoOrphan
    <3>5. Placed' /\ PriorTrue'
      BY <1>2, <1>5, <3>2, ResumeAssumption DEF Placed, PriorTrue, OpenJournal
    <3> QED
      BY <1>4, <3>3, <3>4, <3>5
  <2> QED
    BY <2>1, <2>2
<1>6. CASE Discarded
  <2>1. ResumeTypeOK'
    BY <1>1, <1>6 DEF ResumeTypeOK, Discarded, ProcessState, journalVars
  <2>2. log = <<>>
    BY <1>6 DEF Discarded, Emptied, NoOrphan
  <2>3. RecordsTrue' /\ NoOrphan' /\ Placed' /\ PriorTrue'
    BY <1>1, <1>2, <1>6, <2>2, QuietRecords DEF NoOrphan, Placed, PriorTrue, Discarded,
       journalVars
  <2> QED
    BY <1>4, <2>1, <2>3
<1>7. CASE WriteSession
  <2> /\ session' = Bad /\ pc' = "fill" /\ pc = "write" /\ UNCHANGED <<logged, prior, orphaned>>
    BY <1>7 DEF WriteSession, historyVars
  <2>1. ResumeTypeOK'
    BY DEF ResumeTypeOK, ProcessState
  <2>2. RecordsTrue' /\ PriorTrue'
    BY QuietRecords, ResumeAssumption DEF PriorTrue
  <2>3. NoOrphan' /\ Placed'
    BY <1>2, ResumeAssumption DEF NoOrphan, Placed
  <2> QED
    BY <1>4, <2>1, <2>2, <2>3
<1>8. CASE FillSession
  <2> /\ session' = current /\ pc' = "log" /\ pc = "fill" /\ UNCHANGED <<logged, prior, orphaned>>
    BY <1>8 DEF FillSession, historyVars
  <2>1. orphaned \/ log = <<>>
    BY DEF Placed
  <2>2. ResumeTypeOK'
    BY DEF ResumeTypeOK, ProcessState
  <2>3. RecordsTrue'
    <3>1. CASE orphaned
      BY <3>1 DEF RecordsTrue
    <3>2. CASE log = <<>>
      <4>1. DOMAIN log' = {}
        BY <3>2, SMTT(20)
      <4> QED
        BY <4>1 DEF RecordsTrue
    <3> QED
      BY <2>1, <3>1, <3>2
  <2>4. NoOrphan'
    BY DEF NoOrphan, ResumeTypeOK
  <2>5. Placed' /\ PriorTrue'
    BY <1>2 DEF Placed, PriorTrue
  <2> QED
    BY <1>4, <2>2, <2>3, <2>4, <2>5
<1>9. CASE OpenLog
  <2> pc = "log" /\ pc' = "run" /\ logged' = TRUE /\ UNCHANGED <<session, prior, orphaned>>
    BY <1>9 DEF OpenLog, historyVars
  <2>1. session = current /\ current \in Manifest
    BY DEF Placed, ResumeTypeOK
  <2>2. ResumeTypeOK'
    BY DEF ResumeTypeOK, ProcessState
  <2>3. RecordsTrue' /\ NoOrphan' /\ Placed' /\ PriorTrue'
    BY <1>2, <2>1, QuietRecords DEF NoOrphan, Placed, PriorTrue, Fits, Here
  <2> QED
    BY <1>4, <2>2, <2>3
<1> QED
  BY <1>5, <1>6, <1>7, <1>8, <1>9

\* RemoveAll: what it takes away makes no claim false.
LEMMA RemoveStep ==
    ASSUME ResumeInv, RemoveEntry
    PROVE  ResumeInv'
<1> USE DEF ResumeInv
<1> /\ UNCHANGED <<tree, pc, current, source, prior, file, exit, uncleared, orphaned>>
    /\ UNCHANGED <<faults, changes>>
    /\ pc \in {"discard", "clear"}
  BY DEF RemoveEntry, processVars, runVars, historyVars, boundVars
<1>2. \A i \in FileId : file[i] \in {"todo", "done", "skipped", "failed"}
  BY DEF Placed, Resolved
<1>3. ResumeTypeOK'
  <2>1. session' \in Manifest \cup {Absent, Bad}
    BY DEF RemoveEntry, ResumeTypeOK, journalVars
  <2>3. (log' = log \/ log' = <<>>) /\ <<>> \in Seq(FileId \cup {Bad})
    BY SMT DEF RemoveEntry, journalVars
  <2>4. log' \in Seq(FileId \cup {Bad})
    <3>1. log \in Seq(FileId \cup {Bad})
      BY DEF ResumeTypeOK
    <3> QED
      BY <2>3, <3>1
  <2>5. part' = part \/ \E i \in FileId : part' = [part EXCEPT ![i] = Absent]
    BY DEF RemoveEntry
  <2>6. part' \in [FileId -> Content \cup {Absent, Bad}]
    BY <2>5 DEF ResumeTypeOK
  <2>2. logged' \in BOOLEAN
    BY DEF RemoveEntry, ResumeTypeOK, journalVars
  <2> QED
    BY <2>1, <2>2, <2>4, <2>6 DEF ResumeTypeOK
<1>4. RecordsTrue'
  <2>1. (session' = session \/ session' \notin Manifest) /\ (log' = log \/ log' = <<>>)
    BY ResumeAssumption DEF RemoveEntry, journalVars
  <2>2. CASE log' = log
    BY <2>1, <2>2 DEF RecordsTrue
  <2>3. CASE log' = <<>>
    <3>1. DOMAIN log' = {}
      BY <2>3, SMTT(20)
    <3> QED
      BY <3>1 DEF RecordsTrue
  <2> QED
    BY <2>1, <2>2, <2>3
<1>5. NoOrphan'
  BY SMT DEF RemoveEntry, NoOrphan, journalVars
<1>6. Placed'
  BY DEF Placed
<1>7. FilesTrue' /\ PriorTrue' /\ NeverPartial' /\ SuccessComplete'
  BY <1>2 DEF FilesTrue, PriorTrue, NeverPartial, SuccessComplete, InPlace, Here
<1> QED
  BY <1>3, <1>4, <1>5, <1>6, <1>7

\* Steps of the running process that move files along without touching the
\* destination or the journal.
LEMMA FileStep ==
    ASSUME ResumeInv,
           \/ \E g \in PlanGroup : DecideGroup(g)
           \/ \E i \in FileId : OpenPart(i) \/ Receive(i) \/ ItemFails(i)
    PROVE  ResumeInv'
<1> USE DEF ResumeInv
<1> /\ pc = "run" /\ UNCHANGED <<session, logged, log, tree, pc, current, source, prior, exit>>
    /\ UNCHANGED <<uncleared, orphaned, changes>>
    /\ faults' \in 0 .. MaxFaults
  <2>1. /\ pc = "run"
        /\ UNCHANGED <<journalVars, tree, pc, runVars, prior, exit, historyVars>>
        /\ UNCHANGED boundVars \/ Fault("item")
    BY DEF DecideGroup, OpenPart, Receive, ItemFails
  <2>2. UNCHANGED changes /\ (faults' = faults \/ (faults < MaxFaults /\ faults' = faults + 1))
    BY <2>1 DEF Fault, boundVars
  <2>3. faults' \in 0 .. MaxFaults
    BY <2>2, ResumeAssumption, SMT DEF ResumeTypeOK
  <2> QED
    BY <2>1, <2>2, <2>3 DEF journalVars, runVars, historyVars
<1>2. session = current /\ current \in Manifest /\ logged /\ exit # "ok"
  BY DEF Placed, ResumeTypeOK
<1>3. RecordsTrue' /\ NoOrphan' /\ Placed' /\ PriorTrue' /\ NeverPartial' /\ SuccessComplete'
  BY <1>2, QuietRecords DEF NoOrphan, Placed, PriorTrue, NeverPartial,
     SuccessComplete, Fits, Here
<1>4. /\ file' \in [FileId -> FileState]
      /\ part' \in [FileId -> Content \cup {Absent, Bad}]
      /\ FilesTrue'
  <2>1. CASE \E g \in PlanGroup : DecideGroup(g)
    <3>1. PICK g \in PlanGroup : DecideGroup(g)
      BY <2>1
    <3> file' = [i \in FileId |-> IF i \in g THEN Verdict(i) ELSE file[i]] /\ UNCHANGED part
      BY <3>1 DEF DecideGroup
    <3>3. \A i \in FileId : /\ Verdict(i) \in {"skipped", "need"}
                            /\ Verdict(i) = "skipped" => InPlace(i)
      BY DEF Verdict, PriorTrue, InPlace, Fits
    <3>4. \A i \in FileId : file'[i] = file[i] \/ file'[i] = "need"
                        \/ (file'[i] = "skipped" /\ InPlace(i))
      BY <3>3
    <3>5. file' \in [FileId -> FileState]
      BY <3>3 DEF ResumeTypeOK, FileState
    <3>6. FilesTrue'
      BY <3>4, ZenonT(30) DEF FilesTrue, InPlace, Here
    <3> QED
      BY <3>5, <3>6 DEF ResumeTypeOK
  <2>2. ASSUME NEW i \in FileId, OpenPart(i) \/ Receive(i) \/ ItemFails(i)
        PROVE  /\ file' \in [FileId -> FileState]
               /\ part' \in [FileId -> Content \cup {Absent, Bad}]
               /\ FilesTrue'
    <3>1. source[i] \in Content
      BY PlaceFacts
    <3>2. /\ file' \in [FileId -> FileState] /\ \A j \in FileId : j # i => file'[j] = file[j]
          /\ \/ file'[i] = "fetch" /\ part'[i] = Bad
             \/ file'[i] = "received" /\ part'[i] = source[i]
             \/ file'[i] \in {"need", "failed"}
      <4>1. file[i] = "fetch" => part[i] = Bad
        BY DEF FilesTrue
      <4> QED
        BY <2>2, <4>1, ZenonT(30) DEF OpenPart, Receive, ItemFails, ResumeTypeOK, FileState
    <3>3. part' \in [FileId -> Content \cup {Absent, Bad}] /\ \A j \in FileId : j # i => part'[j] = part[j]
      BY <2>2, <3>1, ZenonT(30) DEF OpenPart, Receive, ItemFails, ResumeTypeOK
    <3>4. FilesTrue'
      BY <3>2, <3>3, ZenonT(30) DEF FilesTrue, InPlace, Here
    <3> QED
      BY <3>2, <3>3, <3>4
  <2> QED
    BY <2>1, <2>2
<1>5. ResumeTypeOK'
  BY <1>4 DEF ResumeTypeOK
<1> QED
  BY <1>3, <1>4, <1>5

\* The rename makes its own file right and touches no other of this plan.
LEMMA PublishStep ==
    ASSUME ResumeInv, NEW i \in FileId, PublishPart(i)
    PROVE  ResumeInv'
<1> USE DEF ResumeInv
<1> /\ pc \in {"run", "stop"} /\ file[i] = "received"
    /\ UNCHANGED <<session, logged, log, pc, current, source, prior, exit, uncleared, orphaned>>
    /\ UNCHANGED <<faults, changes>>
    /\ tree' = [tree EXCEPT ![Here(i).path] = part[i]]
    /\ part' = [part EXCEPT ![i] = Absent]
    /\ file' = [file EXCEPT ![i] = "published"]
  BY DEF PublishPart, journalVars, runVars, historyVars, boundVars
<1>2. session = current /\ current \in Manifest /\ logged /\ exit # "ok"
  BY DEF Placed, ResumeTypeOK
<1>3. part[i] = source[i]
  BY DEF FilesTrue
<1>4. Here(i).path \in Path /\ source[i] \in Content /\ source[i] \in Here(i).contents
  BY PlaceFacts
<1>5. tree'[Here(i).path] = source[i]
  BY <1>3, <1>4 DEF ResumeTypeOK
<1>6. \A j \in FileId : j # i => tree'[Here(j).path] = tree[Here(j).path]
  <2> SUFFICES ASSUME NEW j \in FileId, j # i PROVE tree'[Here(j).path] = tree[Here(j).path]
    OBVIOUS
  <2>1. Here(j).path # Here(i).path /\ Here(j).path \in Path
    BY <1>2, Distinct DEF Here
  <2> QED
    BY <2>1 DEF ResumeTypeOK
<1>7. /\ InPlace(i)' /\ Fits(i)'
      /\ \A j \in FileId : (InPlace(j) => InPlace(j)') /\ (Fits(j) => Fits(j)')
  <2>1. InPlace(i)' /\ Fits(i)'
    BY <1>4, <1>5 DEF InPlace, Fits, Here
  <2>2. ASSUME NEW j \in FileId, j # i
        PROVE  (InPlace(j) => InPlace(j)') /\ (Fits(j) => Fits(j)')
    BY <1>6, <2>2 DEF InPlace, Fits, Here
  <2> QED
    BY <2>1, <2>2
<1>8. ResumeTypeOK'
  <2>1. tree' \in [Path -> Content \cup {Absent, Bad}]
    BY <1>3, <1>4 DEF ResumeTypeOK
  <2>2. part' \in [FileId -> Content \cup {Absent, Bad}] /\ file' \in [FileId -> FileState]
    BY DEF ResumeTypeOK, FileState
  <2> QED
    BY <2>1, <2>2 DEF ResumeTypeOK
<1>9. RecordsTrue'
  <2> SUFFICES ASSUME ~orphaned, NEW j \in DOMAIN log, log[j] # Bad PROVE Fits(log[j])'
    BY <1>2 DEF RecordsTrue, Fits, Here
  <2>1. log \in Seq(FileId \cup {Bad})
    BY DEF ResumeTypeOK
  <2>2. log[j] \in FileId \cup {Bad}
    BY <2>1, SMT
  <2>3. log[j] \in FileId /\ Fits(log[j])
    BY <1>2, <2>2 DEF RecordsTrue, Fits, Here
  <2> QED
    BY <1>7, <2>3
<1>10. NoOrphan'
  BY <1>2 DEF NoOrphan
<1>11. Placed'
  BY <1>2 DEF Placed
<1>12. FilesTrue'
  <2> SUFFICES ASSUME NEW j \in FileId
               PROVE  /\ file'[j] \in {"skipped", "published", "done"} => InPlace(j)'
                      /\ file'[j] = "fetch" => part'[j] = Bad
                      /\ file'[j] = "received" => part'[j] = source'[j]
    BY DEF FilesTrue
  <2>1. CASE j = i
    <3>1. file'[j] = "published"
      BY <2>1 DEF ResumeTypeOK
    <3>2. InPlace(j)'
      BY <1>7, <2>1
    <3> QED
      BY <3>1, <3>2
  <2>2. CASE j # i
    <3>1. file'[j] = file[j] /\ part'[j] = part[j]
      BY <2>2 DEF ResumeTypeOK
    <3>2. /\ file[j] \in {"skipped", "published", "done"} => InPlace(j)
          /\ file[j] = "fetch" => part[j] = Bad
          /\ file[j] = "received" => part[j] = source[j]
      BY DEF FilesTrue
    <3> QED
      BY <1>7, <3>1, <3>2
  <2> QED
    BY <2>1, <2>2
<1>13. PriorTrue'
  <2>1. prior \subseteq FileId
    BY DEF ResumeTypeOK
  <2> QED
    BY <1>7, <2>1 DEF PriorTrue
<1>14. NeverPartial' /\ SuccessComplete'
  <2>1. source[i] # Bad
    BY <1>4, ResumeAssumption
  <2>2. NeverPartial'
    BY <1>3, <1>4, <2>1 DEF NeverPartial, ResumeTypeOK
  <2>3. SuccessComplete'
    BY <1>2 DEF SuccessComplete
  <2> QED
    BY <2>2, <2>3
<1> QED
  BY <1>8, <1>9, <1>10, <1>11, <1>12, <1>13, <1>14

\* A record is appended for a file that is in place, or the line is torn.
LEMMA MarkStep ==
    ASSUME ResumeInv, NEW i \in FileId, MarkComplete(i) \/ MarkShort(i)
    PROVE  ResumeInv'
<1> USE DEF ResumeInv
<1> /\ pc \in {"run", "stop"} /\ file[i] = "published" /\ pc' \in {"run", "stop"}
    /\ pc' = "run" => pc = "run"
    /\ UNCHANGED <<session, logged, part, tree, current, source, prior, exit>>
    /\ UNCHANGED <<uncleared, orphaned, changes>>
  BY DEF MarkComplete, MarkShort, Fault, runVars, historyVars, boundVars
<1> session = current /\ current \in Manifest /\ logged /\ exit # "ok"
  BY DEF Placed, ResumeTypeOK
<1>3. InPlace(i) /\ (~orphaned => Fits(i))
  BY PlaceFacts DEF FilesTrue
<1>4. \E line \in {i, Bad} : log' = Append(log, line)
  BY DEF MarkComplete, MarkShort
<1>5. /\ log' \in Seq(FileId \cup {Bad})
      /\ \A j \in DOMAIN log' : \/ j \in DOMAIN log /\ log'[j] = log[j]
                                \/ log'[j] \in {i, Bad}
  BY <1>4, SMT DEF ResumeTypeOK
<1>6. \E to \in {"done", "failed"} :
        /\ file' = [file EXCEPT ![i] = to]
  BY DEF MarkComplete, MarkShort
<1>7. /\ file' \in [FileId -> FileState]
      /\ file'[i] \in {"done", "failed"}
      /\ \A j \in FileId : j # i => file'[j] = file[j]
  BY <1>6 DEF ResumeTypeOK, FileState
<1>8. faults' \in 0 .. MaxFaults
  BY ResumeAssumption, SMT DEF MarkComplete, MarkShort, Fault, boundVars,
     ResumeTypeOK
<1>9. ResumeTypeOK'
  BY <1>5, <1>7, <1>8 DEF ResumeTypeOK, ProcessState
<1>10. RecordsTrue'
  BY <1>3, <1>5, ZenonT(30) DEF RecordsTrue, Fits, Here
<1>11. NoOrphan' /\ Placed'
  BY DEF NoOrphan, Placed
<1>12. FilesTrue'
  BY <1>3, <1>7 DEF FilesTrue, InPlace, Here
<1>13. PriorTrue' /\ NeverPartial' /\ SuccessComplete'
  BY DEF PriorTrue, NeverPartial, SuccessComplete, Fits, Here
<1> QED
  BY <1>9, <1>10, <1>11, <1>12, <1>13

\* Fatal faults, the end of a run, a removal that fails and a kill.
LEMMA EndStep ==
    ASSUME ResumeInv, Fatal \/ Stop \/ Reconciled \/ Exit \/ RemoveFails \/ Kill
    PROVE  ResumeInv'
<1> USE DEF ResumeInv
<1> UNCHANGED <<session, logged, log, part, tree, current, source, prior, file, changes>>
  BY DEF Fatal, Stop, Reconciled, Exit, RemoveFails, Kill, Fault, journalVars, runVars, boundVars
<1>1. uncleared' \in BOOLEAN /\ orphaned' \in BOOLEAN /\ (orphaned => orphaned')
  BY DEF Fatal, Stop, Reconciled, Exit, RemoveFails, Kill, CutShort, historyVars, ResumeTypeOK
<1>2. faults' \in 0 .. MaxFaults
  <2>1. UNCHANGED boundVars \/ \E kind \in Faults : Fault(kind)
    BY DEF Fatal, Stop, Reconciled, Exit, RemoveFails, Kill, Fault
  <2>2. faults' = faults \/ (faults < MaxFaults /\ faults' = faults + 1)
    BY <2>1 DEF Fault, boundVars
  <2> QED
    BY <2>2, ResumeAssumption, SMT DEF ResumeTypeOK
<1>3. pc' \in ProcessState /\ exit' \in {"none", "ok", "partial", "error", "killed"}
  BY DEF Fatal, Stop, Reconciled, Exit, RemoveFails, ExitStatus, Kill, ResumeTypeOK, ProcessState
<1> ResumeTypeOK'
  BY <1>1, <1>2, <1>3 DEF ResumeTypeOK
<1> RecordsTrue' /\ NeverPartial'
  BY <1>1, QuietRecords DEF NeverPartial
<1>4. ASSUME pc = "clear", pc' = "down", exit' = ExitStatus
      PROVE  SuccessComplete'
  <2>1. exit' = "ok" => \A i \in FileId : file[i] # "failed"
    BY <1>4 DEF ExitStatus
  <2>2. exit' = "ok" => \A i \in FileId : InPlace(i)
    BY <1>4, <2>1 DEF Placed, Resolved, FilesTrue
  <2> QED
    BY <1>1, <2>2 DEF SuccessComplete, InPlace, Here
<1>6. CASE Fatal
  <2> /\ pc' = "stop" /\ pc \in {"open", "write", "fill", "log", "run"}
      /\ UNCHANGED <<exit, orphaned>>
    BY <1>6 DEF Fatal, historyVars
  <2>1. NoOrphan' /\ PriorTrue' /\ SuccessComplete'
    BY DEF NoOrphan, PriorTrue, SuccessComplete, Placed
  <2>2. Placed'
    BY DEF Placed
  <2>3. FilesTrue'
    BY DEF FilesTrue, InPlace, Here
  <2> QED
    BY <2>1, <2>2, <2>3
<1>7. CASE Stop
  BY <1>7 DEF Stop, historyVars, NoOrphan, Placed, FilesTrue, PriorTrue, SuccessComplete
<1>8. CASE Reconciled
  <2> pc' = "clear" /\ pc = "run" /\ UNCHANGED <<exit, orphaned>>
    BY <1>8 DEF Reconciled, historyVars
  <2>1. NoOrphan' /\ PriorTrue' /\ SuccessComplete'
    BY DEF NoOrphan, PriorTrue, SuccessComplete, Placed
  <2>2. Placed'
    BY <1>8 DEF Placed, Reconciled
  <2>3. FilesTrue'
    BY DEF FilesTrue, InPlace, Here
  <2> QED
    BY <2>1, <2>2, <2>3
<1>9. CASE Exit
  <2>1. pc' = "down" /\ pc = "clear" /\ exit' = ExitStatus /\ log = <<>>
    BY <1>9 DEF Exit, Emptied, NoOrphan
  <2> QED
    BY <1>4, <2>1 DEF NoOrphan, Placed, FilesTrue, PriorTrue
<1>10. CASE RemoveFails /\ pc = "clear"
  <2>1. pc' = "down" /\ exit' = ExitStatus
    BY <1>10 DEF RemoveFails
  <2>2. log # <<>> /\ session \notin Manifest => orphaned'
    BY <1>10 DEF RemoveFails, CutShort, NoOrphan
  <2> QED
    BY <1>4, <1>10, <2>1, <2>2 DEF NoOrphan, Placed, FilesTrue, PriorTrue
<1>11. CASE RemoveFails /\ pc = "discard"
  <2>1. pc' = "stop" /\ exit' = exit
    BY <1>11 DEF RemoveFails
  <2>2. log # <<>> /\ session \notin Manifest => orphaned'
    BY <1>11 DEF RemoveFails, CutShort, NoOrphan
  <2>3. \A i \in FileId : file[i] = "todo"
    BY <1>11 DEF Placed
  <2> QED
    BY <1>11, <2>1, <2>2, <2>3 DEF NoOrphan, Placed, FilesTrue, PriorTrue, SuccessComplete
<1>12. CASE Kill
  <2>1. pc' = "down" /\ exit' = "killed"
    BY <1>12 DEF Kill
  <2>2. log # <<>> /\ session \notin Manifest => orphaned'
    BY <1>12 DEF Kill, CutShort, NoOrphan
  <2> QED
    BY <2>1, <2>2 DEF NoOrphan, Placed, FilesTrue, PriorTrue, SuccessComplete
<1> QED
  BY <1>6, <1>7, <1>8, <1>9, <1>10, <1>11, <1>12 DEF RemoveFails

-----------------------------------------------------------------------------
(* The results. *)

\* A destination without a journal.
LEMMA ResumeInitInv == ResumeInit => ResumeInv
<1> SUFFICES ASSUME ResumeInit PROVE ResumeInv
  OBVIOUS
<1>1. ResumeTypeOK
  <2>1. log \in Seq(FileId \cup {Bad}) /\ part \in [FileId -> Content \cup {Absent, Bad}]
    BY SMT DEF ResumeInit
  <2>2. tree \in [Path -> Content \cup {Absent, Bad}] /\ file \in [FileId -> FileState]
    BY DEF ResumeInit, FileState
  <2>3. faults \in 0 .. MaxFaults /\ changes \in 0 .. MaxChanges
    BY ResumeAssumption, SMT DEF ResumeInit
  <2> QED
    BY <2>1, <2>2, <2>3 DEF ResumeInit, ResumeTypeOK, ProcessState
<1>2. RecordsTrue /\ NoOrphan /\ Placed /\ FilesTrue /\ PriorTrue
  BY ResumeAssumption DEF ResumeInit, RecordsTrue, NoOrphan, Placed, FilesTrue,
     PriorTrue
<1>3. NeverPartial
  BY ResumeAssumption DEF ResumeInit, NeverPartial
<1>4. SuccessComplete
  BY DEF ResumeInit, SuccessComplete
<1> QED
  BY <1>1, <1>2, <1>3, <1>4 DEF ResumeInv

\* One case per group of actions.
LEMMA ResumeNextInv == ResumeInv /\ [ResumeNext]_resumeVars => ResumeInv'
<1> SUFFICES ASSUME ResumeInv, [ResumeNext]_resumeVars PROVE ResumeInv'
  OBVIOUS
<1>1. CASE Begin
  BY <1>1, BeginStep
<1>2. CASE OpenJournal \/ Discarded \/ WriteSession \/ FillSession \/ OpenLog
  BY <1>2, OpenStep
<1>3. CASE RemoveEntry
  BY <1>3, RemoveStep
<1>4. CASE \/ \E g \in PlanGroup : DecideGroup(g)
           \/ \E i \in FileId : OpenPart(i) \/ Receive(i) \/ ItemFails(i)
  BY <1>4, FileStep
<1>5. CASE \E i \in FileId : PublishPart(i)
  BY <1>5, PublishStep
<1>6. CASE \E i \in FileId : MarkComplete(i) \/ MarkShort(i)
  BY <1>6, MarkStep
<1>7. CASE Fatal \/ Stop \/ Reconciled \/ Exit \/ RemoveFails \/ Kill
  BY <1>7, EndStep
<1>8. CASE UNCHANGED resumeVars
  <2> /\ UNCHANGED <<session, logged, log, part, tree, pc, current, source, prior, file, exit>>
      /\ UNCHANGED <<uncleared, orphaned, faults, changes>>
    BY <1>8 DEF resumeVars, journalVars, processVars, runVars, historyVars, boundVars
  <2>1. ResumeTypeOK'
    BY DEF ResumeInv, ResumeTypeOK
  <2>2. RecordsTrue' /\ NoOrphan' /\ Placed'
    BY QuietRecords DEF ResumeInv, NoOrphan, Placed
  <2>3. FilesTrue' /\ PriorTrue'
    BY DEF ResumeInv, FilesTrue, PriorTrue, InPlace, Fits, Here
  <2>4. NeverPartial' /\ SuccessComplete'
    BY DEF ResumeInv, NeverPartial, SuccessComplete, InPlace, Here
  <2> QED
    BY <2>1, <2>2, <2>3, <2>4 DEF ResumeInv
<1> QED
  BY <1>1, <1>2, <1>3, <1>4, <1>5, <1>6, <1>7, <1>8 DEF ResumeNext

\* The inductive invariant, whatever goes wrong.
LEMMA ResumeInvariant == ResumeSpec => []ResumeInv
BY ResumeInitInv, ResumeNextInv, PTL DEF ResumeSpec

\* A file that a run has compared or fetched has the content of the source,
\* and one it skipped on the journal's word has a content the manifest digest
\* allows, whatever runs were killed or failed before and wherever, and
\* however the source has changed; a log that outlived its session.json, in a
\* removal cut short, is the exception (fsx/journal.go Open and remove,
\* receiver/decide.go).
THEOREM SkipsAreTrue == ResumeSpec => []SkipSound
<1>1. ResumeInv => SkipSound
  BY DEF ResumeInv, FilesTrue, SkipSound
<1> QED
  BY <1>1, ResumeInvariant, PTL

\* The log never gets ahead of the destination, nor does a rename undo what
\* it records, unless the log outlived its session.json (receiver/fetch.go
\* finish: publish, then MarkComplete).
THEOREM LogIsTrue == ResumeSpec => []RecordsTrue
<1>1. ResumeInv => RecordsTrue
  BY DEF ResumeInv
<1> QED
  BY <1>1, ResumeInvariant, PTL

\* No final path ever holds part of a file (fsx/dest.go OpenPart and
\* PublishPart, receiver/fetch.go).
THEOREM WholeFiles == ResumeSpec => []NeverPartial
<1>1. ResumeInv => NeverPartial
  BY DEF ResumeInv
<1> QED
  BY <1>1, ResumeInvariant, PTL

\* Exit 0 means that every file is in place: compared or fetched in this run,
\* or recorded under this manifest digest (receiver/run.go).
THEOREM SuccessIsComplete == ResumeSpec => []SuccessComplete
<1>1. ResumeInv => SuccessComplete
  BY DEF ResumeInv
<1> QED
  BY <1>1, ResumeInvariant, PTL
=============================================================================
