-------------------------- MODULE SessionEndProofs --------------------------
(***************************************************************************)
(* What an exit code is worth: how the sender's books relate to the        *)
(* receiver's when a session ends.  On top of the invariant of             *)
(* SessionProofs.                                                          *)
(***************************************************************************)
EXTENDS SessionProofs

USE ZenonT(30)

-----------------------------------------------------------------------------
(***************************************************************************)
(* The sender's books.                                                     *)
(***************************************************************************)
\* The decisions on their way, each of a group the sender does not know yet.
Underway ==
    /\ sDecided \subseteq decided
    /\ \A m \in Msgs(toSender) : m.type = "decision" => m.group \in decided /\ m.group \notin sDecided
    /\ Distinct(toSender)

\* What the sender asked its tracker for, and what it claims in SESSION_SUMMARY.
Accounts ==
    /\ over => sDecided = Group /\ needed \subseteq resolved
    /\ resolved \subseteq sCompleted \cup sFailed /\ sCompleted \cup sFailed \subseteq resolved
    /\ claimed # None =>
         /\ over
         /\ needed \subseteq claimed.done \cup claimed.failed
         /\ claimed.done \subseteq sCompleted /\ claimed.failed \subseteq sFailed

\* decideGroup sends a decision for a group nobody has been told of, and the
\* control reader takes it off the wire as it records it.
LEMMA UnderwayStep ==
    ASSUME IInv, Underway, [Next]_vars
    PROVE  Underway'
<1>0. toSender \in Seq(ToSender)
  BY DEF IInv, ControlTypes, QueueTypes
<1>1. ASSUME UNCHANGED <<toSender, sDecided, decided>> PROVE Underway'
  BY <1>1 DEF Underway, Msgs, Distinct
<1>2. ASSUME UNCHANGED <<sDecided, decided>>, Distinct(toSender'),
             \A m \in Msgs(toSender') : m \in Msgs(toSender) \/ m.type # "decision"
      PROVE  Underway'
  BY <1>2 DEF Underway
<1>3. CASE SenderReads
  <2> DEFINE m == Head(toSender)
  <2> toSender # <<>> /\ toSender' = Tail(toSender) /\ decided' = decided
    BY <1>3 DEF SenderReads
  <2> /\ m \in Msgs(toSender) /\ Msgs(toSender') \subseteq Msgs(toSender)
      /\ Distinct(toSender')
      /\ \A n \in Msgs(toSender') : m.type = "decision" /\ n.type = "decision" => n.group # m.group
    BY <1>0, ReadQueue, DistinctTail DEF Underway
  <2>3. CASE m.type = "decision"
    <3>1. sDecided' = sDecided \cup {m.group}
      BY <1>3, <2>3 DEF SenderReads
    <3> HIDE DEF m
    <3>2. m.group \in decided
      BY <2>3 DEF Underway
    <3> QED
      BY <2>3, <3>1, <3>2, SMT DEF Underway
  <2>4. CASE m.type # "decision"
    <3>1. sDecided' = sDecided
      BY <1>3, <2>4 DEF SenderReads, trackerVars
    <3> QED
      BY <1>2, <3>1
  <2> QED
    BY <2>3, <2>4
<1>4. ASSUME NEW g \in Group, Decide(g) PROVE Underway'
  <2>1. PICK N \in SUBSET File, X \in SUBSET File, Q \in SUBSET File : Decision(g, N, X, Q)
    BY <1>4, DecisionStep DEF IInv
  <2> DEFINE d == [type |-> "decision", group |-> g, needed |-> N]
  <2> /\ toSender' = Append(toSender, d) /\ decided' = decided \cup {g} /\ g \notin decided
    BY <2>1 DEF Decision
  <2>3. sDecided' = sDecided
    BY <1>4 DEF Decide, trackerVars
  <2> d \in ToSender /\ d.group = g
    BY <2>1 DEF ToSender, Decisions
  <2> HIDE DEF d
  <2>5. Msgs(Append(toSender, d)) = Msgs(toSender) \cup {d}
    BY <1>0, WriteQueue, SMT
  <2>6. \A n \in Msgs(toSender) : n.type = "decision" => n.group # d.group
    BY DEF Underway
  <2>7. Distinct(Append(toSender, d))
    BY <1>0, <2>6, DistinctAppend DEF Underway
  <2>8. g \notin sDecided
    BY DEF Underway
  <2> QED
    BY <2>3, <2>5, <2>7, <2>8 DEF Underway
<1>5. CASE ReceiverFails \/ Reconcile
  <2>1. UNCHANGED <<sDecided, decided>>
    BY <1>5 DEF ReceiverFails, Reconcile, trackerVars
  <2>2. PICK fault, told :
          /\ ReceiverFinish(fault, told)
          /\ told = <<>> \/ told = <<[type |-> "ack", done |-> rCompleted]>>
    BY <1>5, MainEnds
  <2> DEFINE ack == [type |-> "ack", done |-> rCompleted]
  <2>3. /\ Distinct(toSender) => Distinct(toSender')
        /\ \A m \in Msgs(toSender') : m \in Msgs(toSender) \/ m.type \in {"error", "close"} \/ m = ack
    BY <2>2, ReceiverParts DEF IInv
  <2>4. ack.type = "ack"
    OBVIOUS
  <2> HIDE DEF ack
  <2>5. \A m \in Msgs(toSender') : m \in Msgs(toSender) \/ m.type # "decision"
    BY <2>3, <2>4
  <2> QED
    BY <1>2, <2>1, <2>3, <2>5 DEF Underway
<1>6. CASE ReceiverMishap
  <2>1. UNCHANGED <<sDecided, decided>>
    BY <1>6 DEF ReceiverMishap, trackerVars
  <2>2. PICK m \in Endings : toSender' = Append(toSender, m)
    BY <1>6, MishapMessage
  <2> m \in ToSender /\ m.type # "decision"
    BY <2>2 DEF ToSender, Endings, Codes
  <2>4. Msgs(Append(toSender, m)) = Msgs(toSender) \cup {m}
    BY <1>0, WriteQueue, SMT
  <2>5. Distinct(Append(toSender, m))
    BY <1>0, DistinctAppend DEF Underway
  <2> QED
    BY <1>2, <2>1, <2>2, <2>4, <2>5
<1>7. CASE \/ \E c \in Channel : Servicer(c) \/ Fetcher(c)
           \/ SenderMain \/ DecideSendFails \/ ReceiverReads \/ PipelineEnds \/ SenderMishap \/ Ended
           \/ UNCHANGED vars
  <2>1. UNCHANGED <<toSender, sDecided, decided>>
    BY <1>7, ZenonT(30) DEF Servicer, ReadRequest, Serve, Record, Fetcher, Fetch, Publish, Retry, FileFails,
       FetchFatal, Cancelled, Consume, SenderMain, SendSummary, WaitFails, AwaitAck, DecideSendFails,
       ReceiverReads, PipelineEnds, SenderMishap, Ended, vars, wireVars, trackerVars
  <2> QED
    BY <1>1, <2>1
<1> QED
  BY <1>3, <1>4, <1>5, <1>6, <1>7 DEF Next, Decider, ReceiverMain

\* The tracker declares the end only when all it knows of is resolved, and the
\* summary is taken from it after that.
LEMMA AccountsStep ==
    ASSUME IInv, Underway, Accounts, [Next]_vars
    PROVE  Accounts'
<1>0. /\ sDecided \subseteq Group /\ decided \subseteq Group /\ toSender \in Seq(ToSender)
      /\ sCompleted \subseteq File /\ sFailed \subseteq File
  BY DEF IInv, ControlTypes, TrackerTypes, QueueTypes, FileTypes
<1>1. ASSUME UNCHANGED <<trackerVars, claimed>> PROVE Accounts'
  BY <1>1 DEF Accounts, trackerVars
<1>2. ASSUME NEW c \in Channel, Record(c) PROVE Accounts'
  <2> DEFINE o == outcome[c]
             f == serving[c]
  <2>1. o \in {"complete", "E6003", "E6004"}
    <3>1. o \in {"complete"} \cup SourceFaults
      BY <1>2 DEF IInv, Held, ChannelTypes, Outcomes, Record
    <3> QED
      BY <3>1, SessionAssumption
  <2> /\ resolved' = IF Resolves(o) THEN resolved \cup {f} ELSE resolved
      /\ sCompleted' = IF o = "complete" THEN sCompleted \cup {f} ELSE sCompleted
      /\ sFailed' = IF Permanent(o) THEN sFailed \cup {f} ELSE sFailed
      /\ UNCHANGED <<sDecided, needed, claimed>>
    BY <1>2 DEF Record, senderVars
  <2> HIDE DEF o, f
  <2>3. /\ resolved \subseteq resolved' /\ sCompleted \subseteq sCompleted' /\ sFailed \subseteq sFailed'
        /\ resolved' \subseteq sCompleted' \cup sFailed' /\ sCompleted' \cup sFailed' \subseteq resolved'
    BY <2>1 DEF Accounts, Resolves, Permanent
  <2>4. over' => sDecided' = Group /\ needed' \subseteq resolved'
    <3>1. CASE over
      BY <2>3, <3>1 DEF Accounts
    <3>2. CASE ~over
      BY <1>2, <3>2 DEF Record, Reeval
    <3> QED
      BY <3>1, <3>2
  <2>5. over => over'
    BY <1>2 DEF Record, Reeval
  <2>6. claimed' # None =>
         /\ over'
         /\ needed' \subseteq claimed'.done \cup claimed'.failed
         /\ claimed'.done \subseteq sCompleted' /\ claimed'.failed \subseteq sFailed'
    BY <2>3, <2>5 DEF Accounts
  <2> QED
    BY <2>3, <2>4, <2>6 DEF Accounts
<1>3. CASE SenderReads
  <2> DEFINE m == Head(toSender)
  <2>1. CASE m.type = "decision"
    <3> /\ sDecided' = sDecided \cup {m.group}
        /\ UNCHANGED <<resolved, sCompleted, sFailed, claimed>> /\ Reeval
      BY <1>3, <2>1 DEF SenderReads
    <3>2. m \in Msgs(toSender)
      BY <1>0, <1>3, ReadQueue DEF SenderReads
    <3> HIDE DEF m
    <3>3. m.group \in decided \ sDecided
      BY <2>1, <3>2 DEF Underway
    <3>4. ~over
      BY <1>0, <3>3 DEF Accounts
    <3>5. claimed' = None
      BY <3>4 DEF Accounts
    <3>6. over' => sDecided' = Group /\ needed' \subseteq resolved'
      BY <3>4 DEF Reeval
    <3> QED
      BY <3>5, <3>6 DEF Accounts
  <2>2. CASE m.type # "decision"
    <3>1. UNCHANGED <<trackerVars, claimed>>
      BY <1>3, <2>2 DEF SenderReads
    <3> QED
      BY <1>1, <3>1
  <2> QED
    BY <2>1, <2>2
<1>4. CASE SendSummary
  <2> UNCHANGED trackerVars /\ over
    BY <1>4 DEF SendSummary
  <2>2. CASE claimed' = claimed
    BY <1>1, <2>2
  <2>3. CASE claimed' = [done |-> sCompleted, failed |-> sFailed]
    <3>1. claimed'.done = sCompleted /\ claimed'.failed = sFailed
      BY <2>3
    <3>2. UNCHANGED <<sDecided, needed, resolved, sCompleted, sFailed, over>>
      BY DEF trackerVars
    <3> QED
      BY <3>1, <3>2 DEF Accounts
  <2> QED
    BY <1>4, <2>2, <2>3 DEF SendSummary
<1>5. ASSUME NEW c \in Channel, ReadRequest(c) \/ Serve(c) \/ Fetcher(c) PROVE Accounts'
  <2>1. UNCHANGED <<trackerVars, claimed>>
    BY <1>5, ZenonT(30) DEF ReadRequest, Serve, Fetcher, Fetch, Publish, Retry, FileFails,
       FetchFatal, Cancelled, Consume, senderVars
  <2> QED
    BY <1>1, <2>1
<1>6. CASE WaitFails \/ AwaitAck \/ Decider \/ ReceiverReads \/ ReceiverMain \/ SenderMishap \/ ReceiverMishap
           \/ Ended \/ UNCHANGED vars
  <2>1. UNCHANGED <<trackerVars, claimed>>
    BY <1>6 DEF WaitFails, AwaitAck, Decider, Decide, DecideSendFails,
       ReceiverReads, ReceiverMain, PipelineEnds, ReceiverFails, Reconcile,
       SenderMishap, ReceiverMishap, Ended, vars, senderVars
  <2> QED
    BY <1>1, <2>1
<1> QED
  BY <1>2, <1>3, <1>4, <1>5, <1>6 DEF Next, Servicer, SenderMain

-----------------------------------------------------------------------------
(***************************************************************************)
(* What the sender has been asked for.                                     *)
(***************************************************************************)
\* The sender has been asked for f, or will be.
Announced(f) ==
    \/ f \in needed
    \/ \E m \in Msgs(toSender) : m.type = "decision" /\ f \in m.needed

\* Without links that fail: a file that is not in place is announced and not
\* complete, or waits for such a file, or failed with one.
Covered ==
    /\ \A f \in File : pool[f] # "absent" => Announced(f)
    /\ seen /\ ~placed => \E p \in primaries : Announced(p) /\ p \notin rCompleted
    /\ \A f \in Accepted : f \notin onDest =>
         \/ Announced(f) /\ f \notin rCompleted
         \/ f \in parked
         \/ \E p \in File : Announced(p) /\ pool[p] = "finished" /\ p \notin rCompleted

\* The sender has been told, or will be, that g is decided.
Heard(g) ==
    \/ g \in sDecided
    \/ \E m \in Msgs(toSender) : m.type = "decision" /\ m.group = g

\* The files asked for, as the model's operator has it.
LEMMA AskedAnnounced == \A f : f \in Asked <=> Announced(f)
<1> DEFINE D == {k \in 1 .. Len(toSender) : toSender[k].type = "decision"}
<1>1. \A f : f \in Asked <=> f \in needed \/ \E i \in D : f \in toSender[i].needed
  BY DEF Asked
<1>2. \A f : Announced(f) <=> f \in needed \/ \E i \in D : f \in toSender[i].needed
  BY DEF Announced, Msgs
<1> QED
  BY <1>1, <1>2

\* A decision announces the files it needs, and no others.
LEMMA HeardDecide ==
    ASSUME IInv, NEW g \in Group, Decide(g),
           NEW N \in SUBSET File, NEW X, NEW Q, Decision(g, N, X, Q)
    PROVE  /\ \A f : Announced(f)' <=> Announced(f) \/ f \in N
           /\ Heard(g)' /\ \A h : Heard(h) => Heard(h)'
<1> DEFINE m == [type |-> "decision", group |-> g, needed |-> N]
<1> /\ toSender' = Append(toSender, m) /\ UNCHANGED <<needed, sDecided>>
    /\ m \in ToSender /\ m.type = "decision" /\ m.group = g /\ m.needed = N
  BY DEF Decision, Decide, trackerVars, ToSender, Decisions
<1> HIDE DEF m
<1>1. Msgs(Append(toSender, m)) = Msgs(toSender) \cup {m}
  BY WriteQueue, SMT DEF IInv, ControlTypes, QueueTypes
<1> QED
  BY <1>1 DEF Announced, Heard

\* What was announced stays announced, and nothing is announced but by a decision.
LEMMA HeardStep ==
    ASSUME IInv, [Next]_vars
    PROVE  /\ \A f : Announced(f) => Announced(f)'
           /\ \A g : Heard(g) => Heard(g)'
           /\ \/ \E g \in Group : Decide(g)
              \/ decided' = decided /\ \A f : Announced(f)' => Announced(f)
<1> toSender \in Seq(ToSender)
  BY DEF IInv, ControlTypes, QueueTypes
<1> DEFINE Same == /\ \A f : Announced(f)' <=> Announced(f)
                   /\ \A g : Heard(g) => Heard(g)'
                   /\ decided' = decided
<1> SUFFICES Same \/ \E g \in Group : Decide(g)
  <2>1. ASSUME NEW g \in Group, Decide(g)
        PROVE  (\A f : Announced(f) => Announced(f)') /\ \A h : Heard(h) => Heard(h)'
    <3>1. PICK N \in SUBSET File, X \in SUBSET File, Q \in SUBSET File : Decision(g, N, X, Q)
      BY <2>1, DecisionStep DEF IInv
    <3> QED
      BY <2>1, <3>1, HeardDecide
  <2> QED
    BY <2>1
<1>1. ASSUME UNCHANGED <<needed, sDecided, decided>>,
             \A m \in Msgs(toSender) : m \in Msgs(toSender'),
             \A m \in Msgs(toSender') : m \in Msgs(toSender) \/ m.type # "decision"
      PROVE  Same
  BY <1>1 DEF Announced, Heard
<1>2. CASE SenderReads
  <2> DEFINE m == Head(toSender)
  <2>1. toSender # <<>> /\ toSender' = Tail(toSender) /\ decided' = decided
    BY <1>2 DEF SenderReads
  <2>2. Msgs(toSender) = {m} \cup Msgs(toSender')
    BY <2>1, ReadQueue
  <2>3. /\ m.type = "decision" => needed' = needed \cup m.needed /\ sDecided' = sDecided \cup {m.group}
        /\ m.type # "decision" => needed' = needed /\ sDecided' = sDecided
    BY <1>2 DEF SenderReads, trackerVars
  <2> HIDE DEF m
  <2> QED
    BY <2>1, <2>2, <2>3 DEF Announced, Heard
<1>3. CASE ReceiverFails \/ Reconcile
  <2>1. UNCHANGED <<needed, sDecided, decided>>
    BY <1>3 DEF ReceiverFails, Reconcile, trackerVars
  <2>2. PICK fault, told :
          /\ ReceiverFinish(fault, told)
          /\ told = <<>> \/ told = <<[type |-> "ack", done |-> rCompleted]>>
    BY <1>3, MainEnds
  <2> DEFINE ack == [type |-> "ack", done |-> rCompleted]
  <2>3. /\ \A m \in Msgs(toSender) : m \in Msgs(toSender')
        /\ \A m \in Msgs(toSender') : m \in Msgs(toSender) \/ m.type \in {"error", "close"} \/ m = ack
    BY <2>2, ReceiverParts DEF IInv
  <2>4. ack.type = "ack"
    OBVIOUS
  <2> HIDE DEF ack
  <2>5. \A m \in Msgs(toSender') : m \in Msgs(toSender) \/ m.type # "decision"
    BY <2>3, <2>4
  <2> QED
    BY <1>1, <2>1, <2>3, <2>5
<1>4. CASE ReceiverMishap
  <2>1. UNCHANGED <<needed, sDecided, decided>>
    BY <1>4 DEF ReceiverMishap, trackerVars
  <2>2. PICK m \in Endings : toSender' = Append(toSender, m)
    BY <1>4, MishapMessage
  <2>3. m \in ToSender /\ m.type # "decision"
    BY <2>2 DEF ToSender, Endings, Codes
  <2>4. Msgs(Append(toSender, m)) = Msgs(toSender) \cup {m}
    BY <2>3, WriteQueue, SMT
  <2> QED
    BY <1>1, <2>1, <2>2, <2>3, <2>4
<1>5. CASE \/ \E c \in Channel : Servicer(c) \/ Fetcher(c)
           \/ SenderMain \/ DecideSendFails \/ ReceiverReads \/ PipelineEnds \/ SenderMishap \/ Ended
           \/ UNCHANGED vars
  <2>1. UNCHANGED <<toSender, needed, sDecided, decided>>
    BY <1>5, ZenonT(30) DEF Servicer, ReadRequest, Serve, Record, Fetcher, Fetch, Publish, Retry, FileFails,
       FetchFatal, Cancelled, Consume, SenderMain, SendSummary, WaitFails, AwaitAck, DecideSendFails,
       ReceiverReads, PipelineEnds, SenderMishap, Ended, vars, wireVars, trackerVars
  <2>2. Msgs(toSender') = Msgs(toSender)
    BY <2>1
  <2> QED
    BY <1>1, <2>1, <2>2
<1> QED
  BY <1>2, <1>3, <1>4, <1>5 DEF Next, Decider, ReceiverMain

\* Whatever happens to a file the receiver needs, the sender was or will be
\* asked for it.
LEMMA CoveredStep ==
    ASSUME IInv, Covered, "E7009" \notin DestFaults, [Next]_vars
    PROVE  Covered'
<1>0. \A f : Announced(f) => Announced(f)'
  BY HeardStep
<1>1. /\ pool \in [File -> {"absent", "ready", "taken", "finished"}] /\ primaries \subseteq File
      /\ FileTypes /\ Books /\ Held
  BY DEF IInv, FileTypes
<1>2. ASSUME UNCHANGED <<decided, fileVars>> PROVE Covered'
  <2>1. UNCHANGED <<decided, pool, onDest, rCompleted, primaries, seen, placed, parked>>
    BY <1>2 DEF fileVars, linkVars
  <2>2. Accepted' = Accepted
    BY <2>1 DEF Accepted
  <2> QED
    BY <1>0, <2>1, <2>2 DEF Covered
<1>3. ASSUME NEW f \in File, pool[f] \notin {"absent", "finished"}, NEW s, s # "absent",
             pool' = [pool EXCEPT ![f] = s],
             UNCHANGED <<decided, onDest, rCompleted, linkVars>>
      PROVE  Covered'
  <2>1. UNCHANGED <<decided, onDest, rCompleted, primaries, seen, placed, parked>>
    BY <1>3 DEF linkVars
  <2>2. Accepted' = Accepted
    BY <2>1 DEF Accepted
  <2>3. \A h \in File : /\ pool'[h] # "absent" => pool[h] # "absent"
                        /\ pool[h] = "finished" => pool'[h] = "finished"
    BY <1>1, <1>3
  <2> QED
    BY <1>0, <2>1, <2>2, <2>3 DEF Covered
<1>4. ASSUME NEW c \in Channel, reply[c] # None
      PROVE  /\ fetch[c] \in File /\ pool[fetch[c]] = "taken" /\ Announced(fetch[c])
             /\ fetch[c] \notin rCompleted /\ fetch[c] \notin parked /\ fetch[c] \notin onDest
  <2>1. fetch[c] \in File /\ pool[fetch[c]] = "taken"
    BY <1>1, <1>4 DEF Held, Exchanged, ChannelTypes
  <2>2. pool[fetch[c]] # "absent" /\ pool[fetch[c]] # "finished" /\ pool[fetch[c]] \in Pending
    BY <2>1 DEF Pending
  <2> QED
    BY <1>1, <2>1, <2>2 DEF Books, Covered
<1>5. ASSUME NEW c \in Channel, FileFails(c) PROVE Covered'
  <2>0. PICK f : f = fetch[c]
    OBVIOUS
  <2> /\ reply[c] # None /\ pool' = [pool EXCEPT ![f] = "finished"]
      /\ parked' = parked \ Waiting(f)
      /\ UNCHANGED <<decided, onDest, rCompleted, primaries>>
      /\ f \in primaries => ~seen'
      /\ f \notin primaries => (seen' <=> seen) /\ (placed' <=> placed)
    BY <1>5, <2>0 DEF FileFails, Consume
  <2>2. f \in File /\ pool[f] = "taken" /\ Announced(f)' /\ f \notin rCompleted
    BY <1>0, <1>4, <2>0
  <2>3. Accepted' = Accepted
    BY DEF Accepted
  <2>4. /\ \A h \in File : /\ pool'[h] # "absent" => pool[h] # "absent"
                           /\ pool[h] = "finished" => pool'[h] = "finished"
        /\ pool'[f] = "finished"
    BY <1>1, <2>2
  <2>5. seen' /\ ~placed' => \E p \in primaries' : Announced(p)' /\ p \notin rCompleted'
    BY <1>0 DEF Covered
  <2>6. \A h \in parked : h \in parked' \/ h \in Waiting(f)
    OBVIOUS
  <2> QED
    BY <1>0, <2>2, <2>3, <2>4, <2>5, <2>6 DEF Covered
<1>6. ASSUME NEW c \in Channel, Publish(c) PROVE Covered'
  <2> DEFINE f == fetch[c]
             W == Waiting(f)
  <2>1. PICK linked \in SUBSET W, queued \in SUBSET W :
          /\ queued # {} => "E7009" \in DestFaults
          /\ linked \cup queued # W => {"E7009", "E7003"} \subseteq DestFaults
          /\ onDest' = onDest \cup {f} \cup linked
          /\ rCompleted' = rCompleted \cup {f}
          /\ pool' = [h \in File |-> IF h = f THEN "finished"
                                     ELSE IF h \in queued THEN "ready" ELSE pool[h]]
          /\ parked' = parked \ W
          /\ placed' = (placed \/ f \in primaries)
    BY <1>6 DEF Publish
  <2> reply[c] # None /\ UNCHANGED <<decided, primaries, seen>> /\ (placed' <=> placed \/ f \in primaries)
    BY <1>6, <2>1 DEF Publish, Consume
  <2>3. f \in File /\ pool[f] = "taken"
    BY <1>4
  <2> HIDE DEF f, W
  <2>4. queued = {} /\ linked = W
    BY <2>1
  <2>5. Accepted' = Accepted
    BY DEF Accepted
  <2>6. \A h \in File : /\ pool'[h] # "absent" => pool[h] # "absent"
                        /\ pool[h] = "finished" => pool'[h] = "finished" /\ h # f
    BY <1>1, <2>1, <2>3, <2>4
  <2>7. \A h : /\ h \notin onDest' => h \notin onDest /\ h # f
               /\ h \in parked /\ h \notin onDest' => h \in parked'
               /\ h \notin rCompleted /\ h # f => h \notin rCompleted'
    BY <2>1, <2>4
  <2>8. seen' /\ ~placed' => \E p \in primaries' : Announced(p)' /\ p \notin rCompleted'
    BY <1>0, <2>7 DEF Covered
  <2> QED
    BY <1>0, <2>5, <2>6, <2>7, <2>8 DEF Covered
<1>7. ASSUME NEW g \in Group, Decide(g) PROVE Covered'
  <2>1. PICK N \in SUBSET File, X \in SUBSET File, Q \in SUBSET File : Decision(g, N, X, Q)
    BY <1>1, <1>7, DecisionStep
  <2> DEFINE d == [type |-> "decision", group |-> g, needed |-> N]
             V == g \ Invalid
  <2>2. d \in ToSender /\ d.type = "decision" /\ d.needed = N
    BY <2>1 DEF ToSender, Decisions
  <2>3. /\ toSender' = Append(toSender, d) /\ rCompleted' = rCompleted
        /\ onDest' = onDest \cup X /\ parked' = parked \cup Q /\ N \cup X \cup Q = V
        /\ primaries \subseteq primaries'
        /\ \/ (seen' <=> seen) /\ (placed' <=> placed)
           \/ placed' \/ \E p \in N : p \in primaries'
    BY <2>1 DEF Decision
  <2> HIDE DEF d
  <2>4. \A f \in N : Announced(f)'
    <3>1. toSender \in Seq(ToSender)
      BY DEF IInv, ControlTypes, QueueTypes
    <3>2. d \in Msgs(Append(toSender, d))
      BY <2>2, <3>1, WriteQueue, SMT
    <3> QED
      BY <2>2, <2>3, <3>2 DEF Announced
  <2>5. V \subseteq File /\ V \cap Accepted = {} /\ Accepted' = Accepted \cup V
    BY <1>1, <2>1, DecisionNew
  <2> HIDE DEF V
  <2>6. \A f \in V : f \notin rCompleted /\ pool[f] = "absent"
    BY <1>1, <2>5 DEF Books
  <2>7. N \subseteq V /\ \A f \in V : f \in N \/ f \in X \/ f \in Q
    BY <2>3
  <2>8. \A f \in File : /\ pool'[f] # "absent" => pool[f] # "absent" \/ f \in N
                        /\ pool[f] = "finished" => pool'[f] = "finished"
    <3>1. CASE pool' = pool
      BY <3>1
    <3>2. CASE pool' = [f \in File |-> IF f \in N THEN "ready" ELSE pool[f]]
      BY <2>6, <2>7, <3>2, SMT
    <3> QED
      BY <2>1, <3>1, <3>2 DEF Decision
  <2>9. \A f \in File : pool'[f] # "absent" => Announced(f)'
    BY <1>0, <2>4, <2>8 DEF Covered
  <2>10. seen' /\ ~placed' => \E p \in primaries' : Announced(p)' /\ p \notin rCompleted'
    <3>1. CASE (seen' <=> seen) /\ (placed' <=> placed)
      BY <1>0, <2>3, <3>1 DEF Covered
    <3>2. CASE \E p \in N : p \in primaries'
      BY <2>3, <2>4, <2>6, <2>7, <3>2
    <3> QED
      BY <2>3, <3>1, <3>2
  <2>11. ASSUME NEW f \in Accepted', f \notin onDest'
         PROVE  \/ Announced(f)' /\ f \notin rCompleted'
                \/ f \in parked'
                \/ \E p \in File : Announced(p)' /\ pool'[p] = "finished" /\ p \notin rCompleted'
    <3>1. CASE f \in V
      <4>1. f \in N \/ f \in Q
        BY <2>3, <2>7, <2>11, <3>1
      <4> QED
        BY <2>3, <2>4, <2>6, <3>1, <4>1
    <3>2. CASE f \in Accepted
      <4>1. f \notin onDest
        BY <2>3, <2>11
      <4>2. f \in parked => f \in parked'
        BY <2>3
      <4> QED
        BY <1>0, <2>3, <2>8, <3>2, <4>1, <4>2 DEF Covered
    <3> QED
      BY <2>5, <2>11, <3>1, <3>2
  <2> QED
    BY <2>9, <2>10, <2>11 DEF Covered
<1>8. ASSUME NEW c \in Channel, Fetcher(c) PROVE Covered'
  <2>1. CASE Fetch(c)
    <3>1. PICK f \in File : pool[f] = "ready" /\ pool' = [pool EXCEPT ![f] = "taken"]
      BY <2>1 DEF Fetch
    <3>2. UNCHANGED <<decided, onDest, rCompleted, linkVars>>
      BY <2>1 DEF Fetch
    <3>3. pool[f] \notin {"absent", "finished"} /\ "taken" # "absent"
      BY <3>1
    <3> QED
      BY <1>3, <3>1, <3>2, <3>3
  <2>2. ASSUME Consume(c), NEW s \in {"ready", "finished"}, pool' = [pool EXCEPT ![fetch[c]] = s],
               UNCHANGED <<onDest, rCompleted, linkVars>>
        PROVE  Covered'
    <3>1. reply[c] # None /\ decided' = decided
      BY <2>2 DEF Consume
    <3>2. fetch[c] \in File /\ pool[fetch[c]] \notin {"absent", "finished"} /\ s # "absent"
      BY <1>4, <2>2, <3>1
    <3> QED
      BY <1>3, <2>2, <3>1, <3>2
  <2>3. CASE Retry(c) \/ Cancelled(c)
    BY <2>2, <2>3 DEF Retry, Cancelled
  <2>4. CASE FetchFatal(c)
    BY <1>2, <2>2, <2>4 DEF FetchFatal
  <2> QED
    BY <1>5, <1>6, <1>8, <2>1, <2>3, <2>4 DEF Fetcher
<1>9. CASE \/ \E c \in Channel : Servicer(c)
           \/ SenderReads \/ SenderMain \/ DecideSendFails \/ ReceiverReads \/ ReceiverMain
           \/ SenderMishap \/ ReceiverMishap \/ Ended \/ UNCHANGED vars
  <2>1. UNCHANGED <<decided, fileVars>>
    BY <1>9 DEF Servicer, ReadRequest, Serve, Record, SenderReads, SenderMain,
       SendSummary, WaitFails, AwaitAck, DecideSendFails, ReceiverReads,
       ReceiverMain, PipelineEnds, ReceiverFails, Reconcile, SenderMishap,
       ReceiverMishap, Ended, vars
  <2> QED
    BY <1>2, <2>1
<1> QED
  BY <1>7, <1>8, <1>9 DEF Next, Decider

-----------------------------------------------------------------------------
(***************************************************************************)
(* What moves, and which way.                                              *)
(***************************************************************************)
\* A file that is queued stays known to the queue, and one that is finished is
\* neither fetched again nor recorded any more.
LEMMA FilesMove ==
    ASSUME IInv, [Next]_vars, NEW f \in File
    PROVE  /\ pool[f] # "absent" => pool'[f] # "absent"
           /\ pool[f] = "finished" => pool'[f] = "finished" /\ (f \in rCompleted' => f \in rCompleted)
<1> FileTypes /\ Books /\ Held /\ pool \in [File -> {"absent", "ready", "taken", "finished"}]
  BY DEF IInv, FileTypes
<1>1. ASSUME UNCHANGED <<pool, rCompleted>>
      PROVE  /\ pool[f] # "absent" => pool'[f] # "absent"
             /\ pool[f] = "finished" => pool'[f] = "finished" /\ (f \in rCompleted' => f \in rCompleted)
  BY <1>1
<1>2. ASSUME NEW g \in Group, Decide(g)
      PROVE  /\ pool[f] # "absent" => pool'[f] # "absent"
             /\ pool[f] = "finished" => pool'[f] = "finished" /\ (f \in rCompleted' => f \in rCompleted)
  <2>1. PICK N \in SUBSET File, X \in SUBSET File, Q \in SUBSET File : Decision(g, N, X, Q)
    BY <1>2, DecisionStep
  <2>2. f \in N => pool[f] = "absent"
    BY <2>1, DecisionNew DEF Decision, Books
  <2>3. rCompleted' = rCompleted
    BY <2>1 DEF Decision
  <2>4. pool' = pool \/ pool'[f] = IF f \in N THEN "ready" ELSE pool[f]
    BY <2>1 DEF Decision
  <2> QED
    BY <2>2, <2>3, <2>4
<1>3. ASSUME NEW c \in Channel, Fetcher(c)
      PROVE  /\ pool[f] # "absent" => pool'[f] # "absent"
             /\ pool[f] = "finished" => pool'[f] = "finished" /\ (f \in rCompleted' => f \in rCompleted)
  <2>1. Consume(c) => fetch[c] \in File /\ pool[fetch[c]] = "taken"
    BY DEF Consume, Held, Exchanged, ChannelTypes
  <2>2. CASE Fetch(c)
    BY <2>2 DEF Fetch
  <2>3. CASE Publish(c)
    <3>1. PICK queued \in SUBSET Waiting(fetch[c]) :
             pool' = [h \in File |-> IF h = fetch[c] THEN "finished"
                                     ELSE IF h \in queued THEN "ready" ELSE pool[h]]
      BY <2>3 DEF Publish
    <3>2. f \in queued => pool[f] = "absent"
      BY <3>1 DEF Waiting, Books
    <3>3. Consume(c) /\ rCompleted' = rCompleted \cup {fetch[c]}
      BY <2>3 DEF Publish
    <3> QED
      BY <2>1, <3>1, <3>2, <3>3
  <2>4. CASE Retry(c) \/ FileFails(c) \/ FetchFatal(c) \/ Cancelled(c)
    <3>1. /\ rCompleted' = rCompleted
          /\ \/ pool' = pool
             \/ Consume(c) /\ \E x \in {"ready", "finished"} : pool' = [pool EXCEPT ![fetch[c]] = x]
      BY <2>4 DEF Retry, FileFails, FetchFatal, Cancelled, fileVars
    <3> QED
      BY <2>1, <3>1
  <2> QED
    BY <1>3, <2>2, <2>3, <2>4 DEF Fetcher
<1>4. CASE \/ \E c \in Channel : Servicer(c)
           \/ SenderReads \/ SenderMain \/ DecideSendFails \/ ReceiverReads \/ ReceiverMain
           \/ SenderMishap \/ ReceiverMishap \/ Ended \/ UNCHANGED vars
  <2>1. UNCHANGED fileVars
    BY <1>4 DEF Servicer, ReadRequest, Serve, Record, SenderReads, SenderMain,
       SendSummary, WaitFails, AwaitAck, DecideSendFails, ReceiverReads,
       ReceiverMain, PipelineEnds, ReceiverFails, Reconcile, SenderMishap,
       ReceiverMishap, Ended, vars
  <2> QED
    BY <1>1, <2>1 DEF fileVars
<1> QED
  BY <1>2, <1>3, <1>4 DEF Next, Decider

\* Only the servicers and the fetchers use the data channels and record files.
LEMMA OthersRest ==
    ASSUME [Next]_vars
    PROVE  \/ \E c \in Channel : ReadRequest(c) \/ Serve(c) \/ Record(c) \/ Fetcher(c)
           \/ UNCHANGED <<request, reply, fetch, serving, outcome, resolved, sCompleted, sFailed, rCompleted>>
<1>1. SenderReads => UNCHANGED <<resolved, sCompleted, sFailed, serving>>
  BY DEF SenderReads, trackerVars
<1> QED
  BY <1>1, ZenonT(30) DEF Next, Servicer, Decider, Decide, SenderReads, SenderMain, SendSummary, WaitFails, AwaitAck,
     DecideSendFails, ReceiverReads, ReceiverMain, PipelineEnds, ReceiverFails, Reconcile, SenderMishap,
     ReceiverMishap, Ended, vars, wireVars, servicerVars, trackerVars, fileVars

\* What the servicers know was fetched, and what was fetched they know.
InHand == \A c \in Channel : serving[c] # None => pool[serving[c]] # "absent"
Tallied == \A f \in sCompleted \cup sFailed : pool[f] # "absent"
RepliesBacked ==
    \A c \in Channel : reply[c] = "complete" =>
        fetch[c] \in sCompleted \/ (serving[c] = fetch[c] /\ outcome[c] = "complete")
ReceiverBacked ==
    \A f \in rCompleted :
        f \in sCompleted \/ \E c \in Channel : serving[c] = f /\ outcome[c] = "complete"
Served == InHand /\ Tallied /\ RepliesBacked /\ ReceiverBacked

\* A servicer records what it has sent before it serves another file.
LEMMA ServedStep ==
    ASSUME IInv, Served, [Next]_vars
    PROVE  Served'
<1> Held /\ ChannelTypes /\ None \notin File /\ sCompleted \cup sFailed \subseteq File
  BY NoneAssumption DEF IInv, Held, ControlTypes, TrackerTypes
<1> InHand /\ Tallied /\ RepliesBacked /\ ReceiverBacked
  BY DEF Served
<1>1. \A f \in File : pool[f] # "absent" => pool'[f] # "absent"
  BY FilesMove
<1>0. \A d \in Channel : serving[d] # None => pool'[serving[d]] # "absent"
  <2>1. \A d \in Channel : serving[d] # None => serving[d] \in File
    BY SMT DEF ChannelTypes
  <2> QED
    BY <1>1, <2>1 DEF InHand
<1>01. \A f \in sCompleted \cup sFailed : pool'[f] # "absent"
  BY <1>1 DEF Tallied
<1>2. ASSUME NEW c \in Channel, ReadRequest(c) PROVE Served'
  <2> /\ request[c] # None /\ serving[c] = None
      /\ serving' = [serving EXCEPT ![c] = request[c]]
      /\ UNCHANGED <<reply, outcome, fetch, sCompleted, sFailed, rCompleted>>
    BY <1>2 DEF ReadRequest, trackerVars, fileVars
  <2>1. request[c] \in File /\ pool[request[c]] = "taken" /\ outcome[c] = None /\ reply[c] = None
    BY DEF Held, Exchanged, ChannelTypes
  <2>2. \A d \in Channel : serving'[d] = IF d = c THEN request[c] ELSE serving[d]
    BY DEF ChannelTypes
  <2>3. \A d \in Channel : serving'[d] # None => pool'[serving'[d]] # "absent"
    <3>1. pool'[request[c]] # "absent"
      BY <1>1, <2>1
    <3> QED
      BY <1>0, <2>2, <3>1
  <2>4. \A f \in rCompleted : f \in sCompleted \/ \E d \in Channel : serving'[d] = f /\ outcome[d] = "complete"
    <3>1. outcome[c] # "complete"
      BY <2>1, NoneAssumption
    <3>2. ASSUME NEW f \in rCompleted, f \notin sCompleted
          PROVE  \E d \in Channel : serving'[d] = f /\ outcome[d] = "complete"
      <4>1. PICK d \in Channel : serving[d] = f /\ outcome[d] = "complete"
        BY <3>2 DEF ReceiverBacked
      <4> QED
        BY <2>2, <3>1, <4>1
    <3> QED
      BY <3>2
  <2>5. \A d \in Channel : reply[d] = "complete" =>
          fetch[d] \in sCompleted \/ (serving'[d] = fetch[d] /\ outcome[d] = "complete")
    <3>1. reply[c] # "complete"
      BY <2>1, NoneAssumption
    <3> QED
      BY <2>2, <3>1 DEF RepliesBacked
  <2>6. InHand'
    BY <2>3 DEF InHand
  <2>7. Tallied'
    BY <1>01 DEF Tallied
  <2>8. RepliesBacked'
    BY <2>5 DEF RepliesBacked
  <2>9. ReceiverBacked'
    BY <2>4 DEF ReceiverBacked
  <2> QED
    BY <2>6, <2>7, <2>8, <2>9 DEF Served
<1>3. ASSUME NEW c \in Channel, Serve(c) PROVE Served'
  <2>1. PICK o \in {"complete"} \cup SourceFaults :
           outcome' = [outcome EXCEPT ![c] = o] /\ reply' = [reply EXCEPT ![c] = o]
    BY <1>3 DEF Serve
  <2> serving[c] # None /\ outcome[c] = None /\ UNCHANGED <<serving, fetch, sCompleted, sFailed, rCompleted>>
    BY <1>3 DEF Serve, trackerVars, fileVars
  <2>2. fetch[c] = serving[c]
    BY DEF Held, Exchanged
  <2>3. \A d \in Channel : /\ outcome'[d] = IF d = c THEN o ELSE outcome[d]
                           /\ reply'[d] = IF d = c THEN o ELSE reply[d]
    BY <2>1 DEF ChannelTypes
  <2>4. outcome[c] # "complete"
    BY NoneAssumption
  <2>5. \A d \in Channel : reply'[d] = "complete" =>
          fetch[d] \in sCompleted \/ (serving[d] = fetch[d] /\ outcome'[d] = "complete")
    BY <2>2, <2>3 DEF RepliesBacked
  <2>6. \A f \in rCompleted : f \in sCompleted \/ \E d \in Channel : serving[d] = f /\ outcome'[d] = "complete"
    <3>1. ASSUME NEW f \in rCompleted, f \notin sCompleted
          PROVE  \E d \in Channel : serving[d] = f /\ outcome'[d] = "complete"
      <4>1. PICK d \in Channel : serving[d] = f /\ outcome[d] = "complete"
        BY <3>1 DEF ReceiverBacked
      <4> QED
        BY <2>3, <2>4, <4>1
    <3> QED
      BY <3>1
  <2>7. InHand' /\ Tallied'
    BY <1>0, <1>01 DEF InHand, Tallied
  <2>8. RepliesBacked'
    BY <2>5 DEF RepliesBacked
  <2>9. ReceiverBacked'
    BY <2>6 DEF ReceiverBacked
  <2> QED
    BY <2>7, <2>8, <2>9 DEF Served
<1>4. ASSUME NEW c \in Channel, Record(c) PROVE Served'
  <2> /\ outcome[c] # None /\ serving[c] # None
      /\ serving' = [serving EXCEPT ![c] = None] /\ outcome' = [outcome EXCEPT ![c] = None]
      /\ sCompleted' = IF outcome[c] = "complete" THEN sCompleted \cup {serving[c]} ELSE sCompleted
      /\ sFailed' = IF Permanent(outcome[c]) THEN sFailed \cup {serving[c]} ELSE sFailed
      /\ UNCHANGED <<reply, fetch, rCompleted>>
    BY <1>4 DEF Record, wireVars, fileVars, Held, Exchanged
  <2>1. \A d \in Channel : /\ serving'[d] = IF d = c THEN None ELSE serving[d]
                           /\ outcome'[d] = IF d = c THEN None ELSE outcome[d]
    BY DEF ChannelTypes
  <2>2. /\ sCompleted \subseteq sCompleted' /\ (outcome[c] = "complete" => serving[c] \in sCompleted')
        /\ sCompleted' \cup sFailed' \subseteq (sCompleted \cup sFailed) \cup {serving[c]}
    OBVIOUS
  <2>3. \A f \in sCompleted' \cup sFailed' : pool'[f] # "absent"
    BY <1>0, <1>01, <2>2
  <2>4. \A d \in Channel : serving'[d] # None => pool'[serving'[d]] # "absent"
    BY <1>0, <2>1
  <2>5. \A d \in Channel : reply[d] = "complete" =>
          fetch[d] \in sCompleted' \/ (serving'[d] = fetch[d] /\ outcome'[d] = "complete")
    <3>1. ASSUME NEW d \in Channel, reply[d] = "complete", fetch[d] \notin sCompleted'
          PROVE  serving'[d] = fetch[d] /\ outcome'[d] = "complete"
      <4>1. serving[d] = fetch[d] /\ outcome[d] = "complete"
        BY <2>2, <3>1 DEF RepliesBacked
      <4>2. d # c
        BY <2>2, <3>1, <4>1
      <4> QED
        BY <2>1, <4>1, <4>2
    <3> QED
      BY <3>1
  <2>6. \A f \in rCompleted : f \in sCompleted' \/ \E d \in Channel : serving'[d] = f /\ outcome'[d] = "complete"
    <3>1. ASSUME NEW f \in rCompleted, f \notin sCompleted'
          PROVE  \E d \in Channel : serving'[d] = f /\ outcome'[d] = "complete"
      <4>1. PICK d \in Channel : serving[d] = f /\ outcome[d] = "complete"
        BY <2>2, <3>1 DEF ReceiverBacked
      <4>2. d # c
        BY <2>2, <3>1, <4>1
      <4> QED
        BY <2>1, <4>1, <4>2
    <3> QED
      BY <3>1
  <2> QED
    BY <2>3, <2>4, <2>5, <2>6 DEF Served, InHand, Tallied, RepliesBacked, ReceiverBacked
<1>5. ASSUME NEW c \in Channel, Fetcher(c) PROVE Served'
  <2> UNCHANGED <<serving, outcome, sCompleted, sFailed>>
    BY <1>5, ZenonT(30) DEF Fetcher, Fetch, Publish, Retry, FileFails, FetchFatal, Cancelled, Consume,
       servicerVars, trackerVars
  <2>1. ASSUME \A d \in Channel : reply'[d] = "complete" => reply[d] = "complete" /\ fetch'[d] = fetch[d],
               \A f \in rCompleted' : f \in rCompleted \/ (f = fetch[c] /\ reply[c] = "complete")
        PROVE  Served'
    <3>1. \A f \in rCompleted' : f \in sCompleted \/ \E d \in Channel : serving[d] = f /\ outcome[d] = "complete"
      BY <2>1 DEF RepliesBacked, ReceiverBacked
    <3>2. \A d \in Channel : reply'[d] = "complete" =>
            fetch'[d] \in sCompleted \/ (serving[d] = fetch'[d] /\ outcome[d] = "complete")
      BY <2>1 DEF RepliesBacked
    <3> QED
      BY <1>0, <1>01, <3>1, <3>2 DEF Served, InHand, Tallied, RepliesBacked, ReceiverBacked
  <2>2. CASE Fetch(c)
    <3>1. reply[c] # "complete"
      BY <2>2, NoneAssumption DEF Fetch, Held, Exchanged
    <3>2. UNCHANGED <<reply, rCompleted>> /\ \A d \in Channel \ {c} : fetch'[d] = fetch[d]
      BY <2>2 DEF Fetch, ChannelTypes
    <3> QED
      BY <2>1, <3>1, <3>2
  <2>3. ASSUME Consume(c) PROVE \A d \in Channel : reply'[d] = "complete" => reply[d] = "complete" /\ fetch'[d] = fetch[d]
    BY <2>3, NoneAssumption DEF Consume, ChannelTypes
  <2>4. CASE Publish(c)
    <3>1. Consume(c) /\ reply[c] = "complete" /\ rCompleted' = rCompleted \cup {fetch[c]}
      BY <2>4 DEF Publish
    <3> QED
      BY <2>1, <2>3, <3>1
  <2>5. CASE Retry(c) \/ FileFails(c) \/ FetchFatal(c) \/ Cancelled(c)
    <3>1. rCompleted' = rCompleted /\ (Consume(c) \/ UNCHANGED <<reply, fetch>>)
      BY <2>5 DEF Retry, FileFails, FetchFatal, Cancelled, fileVars, wireVars
    <3> QED
      BY <2>1, <2>3, <3>1
  <2> QED
    BY <1>5, <2>2, <2>4, <2>5 DEF Fetcher
<1>6. CASE UNCHANGED <<request, reply, fetch, serving, outcome, resolved, sCompleted, sFailed, rCompleted>>
  BY <1>0, <1>01, <1>6 DEF Served, InHand, Tallied, RepliesBacked, ReceiverBacked
<1> QED
  BY <1>2, <1>3, <1>4, <1>5, <1>6, OthersRest

\* The tracker notices the end.
Noticed ==
    sDecided = Group /\ (\A c \in Channel : serving[c] = None) /\ needed \subseteq resolved => over

\* Every event that can bring the end about looks for it.
LEMMA NoticedStep ==
    ASSUME IInv, Noticed, [Next]_vars
    PROVE  Noticed'
<1>1. ASSUME Reeval PROVE Noticed'
  BY <1>1 DEF Reeval, Noticed
<1>2. ASSUME NEW c \in Channel, ReadRequest(c) PROVE Noticed'
  <2>1. serving'[c] # None
    BY <1>2 DEF ReadRequest, IInv, Held, ChannelTypes
  <2> QED
    BY <2>1 DEF Noticed
<1>3. ASSUME NEW c \in Channel, Record(c) PROVE Noticed'
  BY <1>1, <1>3 DEF Record
<1>4. ASSUME UNCHANGED <<sDecided, serving, needed, resolved, over>> PROVE Noticed'
  BY <1>4 DEF Noticed
<1>5. CASE SenderReads
  <2>1. Reeval \/ UNCHANGED <<trackerVars, serving>>
    BY <1>5 DEF SenderReads
  <2> QED
    BY <1>1, <1>4, <2>1 DEF trackerVars
<1>6. ASSUME NEW c \in Channel, Serve(c) \/ Fetcher(c) PROVE Noticed'
  <2>1. UNCHANGED <<serving, trackerVars>>
    BY <1>6, ZenonT(30) DEF Serve, Fetcher, Fetch, Publish, Retry, FileFails, FetchFatal, Cancelled, Consume,
       servicerVars
  <2> QED
    BY <1>4, <2>1 DEF trackerVars
<1>7. CASE SenderMain \/ Decider \/ ReceiverReads \/ ReceiverMain \/ SenderMishap \/ ReceiverMishap \/ Ended
           \/ UNCHANGED vars
  <2>1. UNCHANGED <<servicerVars, trackerVars>>
    BY <1>7, ZenonT(30) DEF SenderMain, SendSummary, WaitFails, AwaitAck, Decider, Decide, DecideSendFails,
       ReceiverReads, ReceiverMain, PipelineEnds, ReceiverFails, Reconcile, SenderMishap, ReceiverMishap, Ended, vars
  <2> QED
    BY <1>4, <2>1 DEF servicerVars, trackerVars
<1> QED
  BY <1>2, <1>3, <1>5, <1>6, <1>7 DEF Next, Servicer

\* Every group that is decided the sender has heard of, or will.
AllHeard == \A g \in decided : Heard(g)

\* decideGroup tells the sender of each group it decides.
LEMMA AllHeardStep ==
    ASSUME IInv, AllHeard, [Next]_vars
    PROVE  AllHeard'
<1>1. \A g : Heard(g) => Heard(g)'
  BY HeardStep
<1>2. ASSUME NEW g \in Group, Decide(g) PROVE AllHeard'
  <2>1. PICK N \in SUBSET File, X \in SUBSET File, Q \in SUBSET File : Decision(g, N, X, Q)
    BY <1>2, DecisionStep DEF IInv
  <2>2. Heard(g)' /\ decided' = decided \cup {g}
    BY <1>2, <2>1, HeardDecide DEF Decision
  <2> QED
    BY <1>1, <2>2 DEF AllHeard
<1>3. CASE decided' = decided
  BY <1>1, <1>3 DEF AllHeard
<1> QED
  BY <1>2, <1>3, HeardStep

\* The same of the state after a step.
LEMMA AskedAnnouncedNext == \A f : f \in Asked' <=> Announced(f)'
<1>1. (\A f : f \in Asked <=> Announced(f))'
  BY AskedAnnounced, PTL
<1> QED
  BY <1>1

\* A file fetched behind the sender's back stays one.
LEMMA FallbacksGrow ==
    ASSUME IInv, [Next]_vars
    PROVE  Fallbacks \subseteq Fallbacks'
<1> SUFFICES ASSUME NEW f \in Fallbacks PROVE f \in Fallbacks'
  OBVIOUS
<1>1. f \in File /\ pool[f] # "absent" /\ ~Announced(f)
  BY AskedAnnounced DEF Fallbacks
<1>2. pool'[f] # "absent"
  BY <1>1, FilesMove
<1>3. ~Announced(f)'
  <2>1. ASSUME NEW g \in Group, Decide(g) PROVE ~Announced(f)'
    <3>1. PICK N \in SUBSET File, X \in SUBSET File, Q \in SUBSET File : Decision(g, N, X, Q)
      BY <2>1, DecisionStep DEF IInv
    <3>2. N \subseteq g \ Invalid /\ (g \ Invalid) \cap Accepted = {}
      BY <3>1, DecisionNew DEF IInv, Decision
    <3>3. f \notin N
      BY <1>1, <3>2 DEF IInv, Books
    <3> QED
      BY <1>1, <2>1, <3>1, <3>3, HeardDecide
  <2> QED
    BY <1>1, <2>1, HeardStep
<1>4. f \notin Asked'
  BY <1>3, AskedAnnouncedNext
<1> QED
  BY <1>1, <1>2, <1>4 DEF Fallbacks

\* The tracker's tallies grow.
LEMMA TalliesGrow ==
    ASSUME [Next]_vars
    PROVE  sCompleted \subseteq sCompleted' /\ sFailed \subseteq sFailed'
<1>1. \A c \in Channel : Record(c) => sCompleted \subseteq sCompleted' /\ sFailed \subseteq sFailed'
  BY DEF Record
<1>2. \A c \in Channel : ReadRequest(c) \/ Serve(c) \/ Fetcher(c) => UNCHANGED trackerVars
  BY ZenonT(30) DEF ReadRequest, Serve, Fetcher, Fetch, Publish, Retry, FileFails, FetchFatal, Cancelled, Consume
<1> QED
  BY <1>1, <1>2, OthersRest DEF trackerVars

\* setFatal and finish keep the first fatal error.
LEMMA SignalStays ==
    ASSUME [Next]_vars, sFatal = "signal"
    PROVE  sFatal' = "signal"
<1> "signal" # None
  BY NoneAssumption
<1>1. \A e : First(sFatal, e) = "signal"
  BY DEF First
<1>2. \A e, partial : SenderFinish(e, partial) => sFatal' = e
  BY DEF SenderFinish
<1>3. \A e : SetFatal(e) => sFatal' = "signal"
  BY DEF SetFatal
<1>4. SenderMain => sFatal' = "signal"
  BY <1>1, <1>2 DEF SenderMain, SendSummary, WaitFails, AwaitAck
<1>5. SenderReads \/ SenderMishap => sFatal' = "signal"
  BY <1>3 DEF SenderReads, SenderMishap
<1>6. \A c \in Channel : Servicer(c) \/ Fetcher(c) => UNCHANGED senderVars
  BY ZenonT(30) DEF Servicer, ReadRequest, Serve, Record, Fetcher, Fetch, Publish, Retry, FileFails, FetchFatal,
     Cancelled, Consume
<1>7. UNCHANGED senderVars => sFatal' = "signal"
  BY DEF senderVars
<1> QED
  BY <1>4, <1>5, <1>6, <1>7, ZenonT(30) DEF Next, Decider, Decide, DecideSendFails, ReceiverReads, ReceiverMain,
     PipelineEnds, ReceiverFails, Reconcile, ReceiverMishap, Ended, vars

-----------------------------------------------------------------------------
(***************************************************************************)
(* The end of the pipeline.                                                *)
(***************************************************************************)
\* All files of the plan are in place, rejected or counted.
Settled == Drained /\ parked = {} /\ failed = Cardinality(Gone)

\* A drained pipeline of a session that is well owes nothing.
LEMMA SettledNow ==
    ASSUME IInv, Drained, rFault = None
    PROVE  Settled
<1>1. FileTypes /\ Books /\ \A f \in File : pool[f] \notin Pending
  BY DEF IInv, Drained, Pending
<1>2. ~(seen /\ ~placed)
  BY <1>1 DEF Books, FileTypes
<1> QED
  BY <1>1, <1>2 DEF Settled, Books

\* When all is drained the decide pool and the fetchers rest.
LEMMA SettledStep ==
    ASSUME IInv, Settled, [Next]_vars
    PROVE  Settled'
<1>1. \A g \in Group : ~Decide(g)
  BY DEF Settled, Drained, Decide
<1>2. ASSUME NEW c \in Channel PROVE ~Fetcher(c)
  <2>1. fetch[c] = None /\ reply[c] = None
    <3>1. fetch[c] # None => fetch[c] \in File /\ pool[fetch[c]] = "taken"
      BY DEF IInv, Held, ChannelTypes
    <3> QED
      BY <3>1 DEF IInv, Held, Exchanged, Settled, Drained
  <2>2. \A f \in File : pool[f] # "ready"
    BY DEF Settled, Drained
  <2> QED
    BY <2>1, <2>2 DEF Fetcher, Fetch, Publish, Retry, FileFails, FetchFatal,
       Cancelled, Consume
<1>3. UNCHANGED <<decided, fileVars>>
  BY <1>1, <1>2, ZenonT(30) DEF Next, Decider, Servicer, ReadRequest, Serve, Record, SenderReads, SenderMain,
     SendSummary, WaitFails, AwaitAck, DecideSendFails, ReceiverReads, ReceiverMain, PipelineEnds, ReceiverFails,
     Reconcile, SenderMishap, ReceiverMishap, Ended, vars
<1> UNCHANGED <<decided, pool, parked, failed, onDest>>
  BY <1>3 DEF fileVars, linkVars
<1>5. Accepted' = Accepted
  BY DEF Accepted
<1>6. Gone' = Gone
  BY <1>5 DEF Gone
<1> QED
  BY <1>6 DEF Settled, Drained

\* A receiver that has exited does nothing more.
LEMMA StoppedStep ==
    ASSUME ~Running, [Next]_vars
    PROVE  UNCHANGED <<decided, fileVars, receiverVars>>
<1>1. \A c \in Channel : ~Fetcher(c)
  BY DEF Fetcher, Fetch, Publish, Retry, FileFails, FetchFatal, Cancelled,
     Consume, Working
<1>2. ~Decider /\ ~ReceiverReads /\ ~ReceiverMain /\ ~ReceiverMishap
  <2>1. rMain = "exited" /\ rMain # "pipeline" /\ rMain # "summary"
    BY DEF Running
  <2> QED
    BY <2>1 DEF Decider, Decide, DecideSendFails, ReceiverReads, ReceiverMain,
       PipelineEnds, ReceiverFails, Reconcile, ReceiverMishap
<1> QED
  BY <1>1, <1>2, ZenonT(30) DEF Next, Servicer, ReadRequest, Serve, Record, SenderReads, SenderMain,
     SendSummary, WaitFails, AwaitAck, SenderMishap, Ended, vars

\* What is settled adds up.
LEMMA SettledCounts ==
    ASSUME IInv, Settled
    PROVE  failed + Cardinality(Invalid \cap UNION decided) = Cardinality(File \ onDest)
<1> decided = Group /\ UNION Group = File /\ Invalid \subseteq File /\ IsFiniteSet(File)
  BY SessionAssumption DEF Settled, Drained
<1>2. UNION decided = File
  OBVIOUS
<1>3. Accepted = File \ Invalid
  BY <1>2 DEF Accepted
<1>4. onDest \subseteq Accepted
  BY DEF IInv, Books, FileTypes
<1>5. Gone = (File \ Invalid) \ onDest
  <2>1. \A f \in File : pool[f] \notin Pending
    BY DEF Settled, Drained, Pending
  <2>2. parked = {}
    BY DEF Settled
  <2> QED
    BY <1>3, <2>1, <2>2 DEF Gone
<1>6. /\ File \ onDest = Gone \cup Invalid /\ Gone \cap Invalid = {}
      /\ Invalid \cap UNION decided = Invalid
  <2> HIDE DEF Gone
  <2> QED
    BY <1>2, <1>3, <1>4, <1>5, SMT
<1>7. IsFiniteSet(Gone) /\ IsFiniteSet(Invalid)
  <2>1. Gone \subseteq File
    BY <1>5
  <2> QED
    BY <2>1, FS_Subset
<1>8. Cardinality(Gone \cup Invalid) = Cardinality(Gone) + Cardinality(Invalid)
  BY <1>6, <1>7, DisjointCardinality
<1> QED
  BY <1>6, <1>8 DEF Settled

\* The sender claimed everything it was asked for, and the receiver has it: so
\* has its disk.
LEMMA Delivered ==
    ASSUME IInv, Underway, Accounts, Covered, claimed # None, claimed.failed = {}, claimed.done = rCompleted
    PROVE  decided = Group /\ File \ Invalid \subseteq onDest
<1> over /\ sDecided = Group /\ needed \subseteq rCompleted
  BY DEF Accounts
<1> decided = Group
  BY DEF Underway, IInv, FileTypes
<1>3. \A m \in Msgs(toSender) : m.type # "decision"
  BY DEF Underway
<1>4. \A f : Announced(f) => f \in rCompleted
  BY <1>3 DEF Announced
<1>5. parked = {}
  BY <1>4 DEF Covered, IInv, Books
<1>6. Accepted \subseteq onDest
  BY <1>4, <1>5 DEF Covered
<1>7. Accepted = File \ Invalid
  <2>1. UNION decided = File
    BY SessionAssumption
  <2> QED
    BY <2>1 DEF Accepted
<1> QED
  BY <1>6, <1>7

\* A receiver that reconciles, undisturbed, has settled everything.
Finishing == rMain = "summary" /\ rFault = None /\ ~rRoot => Settled

\* waitDrained returns nil only on a drained pipeline.
LEMMA FinishingStep ==
    ASSUME IInv, Finishing, [Next]_vars
    PROVE  Finishing'
<1> SUFFICES ASSUME rMain' = "summary", rFault' = None, ~rRoot' PROVE Settled'
  BY DEF Finishing
<1>1. CASE PipelineEnds
  <2>1. rFault = None /\ Drained
    BY <1>1 DEF PipelineEnds, PipelineDone
  <2> QED
    BY <2>1, SettledNow, SettledStep
<1>2. CASE ~PipelineEnds
  <2>1. \A e : First(rFault, e) = None => rFault = None
    BY DEF First
  <2>2. \A g \in Group : Decide(g) => rMain' = rMain /\ (rRoot' \/ (rFault' = rFault /\ rRoot' = rRoot))
    BY DEF Decide, RFail
  <2>3. \A c \in Channel : Fetcher(c) => rMain' = rMain /\ (rRoot' \/ (rFault' = rFault /\ rRoot' = rRoot))
    BY DEF Fetcher, Fetch, Publish, Retry, FileFails, FetchFatal, Cancelled,
       Consume, RFail, receiverVars
  <2>4. ReceiverReads => rMain' = rMain /\ (rRoot' \/ (rFault' = rFault /\ rRoot' = rRoot))
    BY DEF ReceiverReads, RFail
  <2>5. ~ReceiverFails /\ ~Reconcile
    <3>1. rMain' # "exited"
      OBVIOUS
    <3> QED
      BY <3>1 DEF ReceiverFails, Reconcile, ReceiverFinish
  <2>6. ReceiverMishap => rMain' = rMain /\ rRoot'
    <3>1. rMain' # "exited"
      OBVIOUS
    <3> QED
      BY <3>1 DEF ReceiverMishap, RFail
  <2>7. DecideSendFails => rRoot'
    BY DEF DecideSendFails, RFail
  <2>8. ASSUME UNCHANGED receiverVars PROVE UNCHANGED <<rMain, rFault, rRoot>>
    BY <2>8 DEF receiverVars
  <2>9. SenderReads \/ SenderMain \/ SenderMishap \/ Ended \/ UNCHANGED vars \/ (\E c \in Channel : Servicer(c))
          => UNCHANGED receiverVars
    BY DEF Servicer, ReadRequest, Serve, Record, SenderReads, SenderMain,
       SendSummary, WaitFails, AwaitAck, SenderMishap, Ended, vars
  <2>10. \/ UNCHANGED receiverVars
         \/ rMain' = rMain /\ (rRoot' \/ (rFault' = rFault /\ rRoot' = rRoot))
         \/ rRoot'
    BY <1>2, <2>2, <2>3, <2>4, <2>5, <2>6, <2>7, <2>9 DEF Next, Decider,
       ReceiverMain
  <2>11. rMain = "summary" /\ rFault = None /\ ~rRoot
    BY <2>8, <2>10, SMT
  <2> QED
    BY <2>11, SettledStep DEF Finishing
<1> QED
  BY <1>1, <1>2

\* How a receiver comes to exit 0.
LEMMA ReceiverSucceeds ==
    ASSUME IInv, [Next]_vars, rExit # 0, rExit' = 0
    PROVE  /\ rMain = "summary" /\ rFault = None /\ ~Partial
           /\ summaryBox # None /\ summaryBox = rCompleted
           /\ UNCHANGED <<fileVars, trackerVars, senderVars>>
<1>1. ~ReceiverMishap
  <2>1. rExit' # Killed
    BY SMT DEF Killed
  <2> QED
    BY <2>1 DEF ReceiverMishap
<1>2. \A e : ExitCode(e) # 0
  BY SMT DEF ExitCode
<1>3. ~ReceiverFails
  BY <1>2 DEF ReceiverFails, ReceiverFinish
<1>4. \A c \in Channel : Fetcher(c) => rExit' = rExit
  BY DEF Fetcher, Fetch, Publish, Retry, FileFails, FetchFatal, Cancelled,
     Consume, RFail, receiverVars
<1>5. Reconcile
  BY <1>1, <1>3, <1>4, ZenonT(30) DEF Next, Decider, Decide, DecideSendFails, Servicer, ReadRequest, Serve, Record,
     SenderReads, SenderMain, SendSummary, WaitFails, AwaitAck, ReceiverReads, ReceiverMain, PipelineEnds, SenderMishap,
     Ended, vars, receiverVars
<1>6. \A e, told : ReceiverFinish(e, told) => e = None /\ ~Partial
  <2>1. ~(1 = 0)
    BY SMT
  <2> QED
    BY <1>2, <2>1 DEF ReceiverFinish
<1>7. \A e \in {"E5005", "E3003", "E4005", "E9002"} : First(rFault, e) # None
  BY NoneAssumption DEF First
<1>8. "E5005" \in {"E5005", "E3003", "E4005", "E9002"} /\ "E3003" \in {"E5005", "E3003", "E4005", "E9002"}
      /\ "E4005" \in {"E5005", "E3003", "E4005", "E9002"} /\ "E9002" \in {"E5005", "E3003", "E4005", "E9002"}
  OBVIOUS
<1>9. UNCHANGED <<fileVars, trackerVars, senderVars>> /\ rMain = "summary"
  BY <1>5 DEF Reconcile
<1> QED
  BY <1>5, <1>6, <1>7, <1>8, <1>9 DEF Reconcile, ReceiverAgrees

\* How a sender comes to exit 0 with its root context alive.
LEMMA SenderSucceeds ==
    ASSUME IInv, [Next]_vars, ~(sExit = 0 /\ ~sRoot), sExit' = 0, ~sRoot'
    PROVE  /\ ackBox # None /\ ackBox = claimed.done /\ claimed.failed = {}
           /\ sMain = "ack" /\ UNCHANGED onDest
<1>1. \A e : ExitCode(e) # 0
  BY SMT DEF ExitCode
<1>2. \A e \in {"E3003", "cancelled", "E9002", "E5005"} : First(sFatal, e) # None
  BY NoneAssumption DEF First
<1>3. /\ First(sFatal, "E3003") # None /\ First(sFatal, "cancelled") # None
      /\ First(sFatal, "E9002") # None /\ First(sFatal, "E5005") # None
  BY <1>2
<1>4. \A e, partial : SenderFinish(e, partial) => e = None /\ ~partial
  <2>1. ~(1 = 0)
    BY SMT
  <2> QED
    BY <1>1, <2>1 DEF SenderFinish
<1>5. UNCHANGED senderVars => FALSE
  BY SMT DEF senderVars
<1>6. ~SenderMishap
  <2>1. sExit' # Killed
    BY SMT DEF Killed
  <2>2. sMain # "exited" => sExit # 0
    BY NoneAssumption DEF IInv, Protocol, Told
  <2> QED
    BY <2>1, <2>2 DEF SenderMishap
<1>7. ~SenderReads
  <2>1. sMain # "exited" => sExit # 0
    BY NoneAssumption DEF IInv, Protocol, Told
  <2> QED
    BY <2>1 DEF SenderReads
<1>8. SenderMain
  <2>1. \A c \in Channel : Fetcher(c) => UNCHANGED senderVars
    BY DEF Fetcher, Fetch, Publish, Retry, FileFails, FetchFatal, Cancelled,
       Consume
  <2> QED
    BY <1>5, <1>6, <1>7, <2>1, ZenonT(30) DEF Next, Decider, Decide, DecideSendFails, Servicer, ReadRequest, Serve,
       Record, ReceiverReads, ReceiverMain, PipelineEnds, ReceiverFails, Reconcile, ReceiverMishap, Ended, vars
<1>9. sRoot' = sRoot /\ onDest' = onDest
  BY <1>8 DEF SenderMain, SendSummary, WaitFails, AwaitAck, fileVars
<1>10. ~sRoot
  BY <1>9
<1>11. ~WaitFails
  BY <1>3, <1>4 DEF WaitFails
<1>12. ~SendSummary
  <2>1. sMain = "wait" => sExit # 0
    BY NoneAssumption DEF IInv, Protocol, Told
  <2> QED
    BY <1>3, <1>4, <1>10, <2>1 DEF SendSummary
<1>13. AwaitAck
  BY <1>8, <1>11, <1>12 DEF SenderMain
<1> QED
  BY <1>3, <1>4, <1>9, <1>10, <1>13 DEF AwaitAck, SenderAgrees

-----------------------------------------------------------------------------
(***************************************************************************)
(* Exit 0 on either side.                                                  *)
(***************************************************************************)
\* All that is used of a session to judge its exit codes.
EndInv ==
    /\ IInv /\ Underway /\ Accounts /\ AllHeard /\ Served /\ Noticed /\ Finishing
    /\ "E7009" \notin DestFaults => Covered

\* The invariant holds at the start ...
LEMMA EndInit == Init => EndInv
<1> SUFFICES ASSUME Init PROVE EndInv
  OBVIOUS
<1>1. IInv
  BY IInvInit
<1> /\ toSender = <<>> /\ claimed = None /\ rMain = "pipeline" /\ ~seen
    /\ sDecided = {} /\ needed = {} /\ resolved = {} /\ sCompleted = {} /\ sFailed = {} /\ decided = {}
    /\ over = (Group = {}) /\ pool = [f \in File |-> "absent"] /\ rCompleted = {}
    /\ \A c \in Channel : serving[c] = None /\ reply[c] = None
  BY DEF Init
<1>3. Msgs(toSender) = {}
  BY NoMessages
<1>4. Underway
  <2>1. Distinct(toSender)
    BY SMT DEF Distinct
  <2> QED
    BY <1>3, <2>1 DEF Underway
<1>5. Accounts /\ Finishing /\ AllHeard /\ Noticed
  BY DEF Accounts, Finishing, AllHeard, Noticed
<1>7. Served
  BY NoneAssumption, SMT DEF Served, InHand, Tallied, RepliesBacked, ReceiverBacked
<1>6. Covered
  <2>1. Accepted = {} /\ \A f \in File : pool[f] = "absent"
    BY DEF Accepted
  <2> QED
    BY <2>1 DEF Covered
<1> QED
  BY <1>1, <1>4, <1>5, <1>6, <1>7 DEF EndInv

\* ... every step keeps it ...
LEMMA EndStep ==
    ASSUME EndInv, [Next]_vars
    PROVE  EndInv'
<1>1. IInv'
  BY IInvStep DEF EndInv
<1>2. ("E7009" \notin DestFaults => Covered)'
  BY CoveredStep DEF EndInv
<1> QED
  BY <1>1, <1>2, UnderwayStep, AccountsStep, AllHeardStep, ServedStep, NoticedStep, FinishingStep DEF EndInv

\* ... and so it holds of every session.
LEMMA Ending == Spec => []EndInv
  BY EndInit, EndStep, PTL DEF Spec

\* What is in place stays in place.
LEMMA OnDestGrows ==
    ASSUME [Next]_vars
    PROVE  onDest \subseteq onDest'
<1>1. ASSUME NEW c \in Channel, Fetcher(c) PROVE onDest \subseteq onDest'
  BY <1>1 DEF Fetcher, Fetch, Publish, Retry, FileFails, FetchFatal, Cancelled,
     Consume, fileVars
<1>2. ASSUME NEW g \in Group, Decide(g) PROVE onDest \subseteq onDest'
  BY <1>2 DEF Decide
<1>3. UNCHANGED fileVars => onDest \subseteq onDest'
  BY DEF fileVars
<1> QED
  BY <1>1, <1>2, <1>3, ZenonT(30) DEF Next, Decider, DecideSendFails, Servicer, ReadRequest, Serve, Record,
     SenderReads, SenderMain, SendSummary, WaitFails, AwaitAck, ReceiverReads, ReceiverMain, PipelineEnds,
     ReceiverFails, Reconcile, SenderMishap, ReceiverMishap, Ended, vars

\* What a receiver that counts no failure misses when the root context is
\* cancelled under it: files the sender has counted, fallbacks, and secondaries
\* parked behind either.
LEMMA MissingIsStranded ==
    ASSUME EndInv, rFault = None, failed = 0, claimed # None, claimed.done = rCompleted,
           Invalid \cap UNION decided = {}
    PROVE  File \ onDest \subseteq Stranded((sFailed \cup Fallbacks) \ onDest)
<1> DEFINE S == (sFailed \cup Fallbacks) \ onDest
<1> FileTypes /\ Books /\ Underway /\ Accounts
  BY DEF EndInv, IInv
<1>1. sDecided = Group /\ decided = Group
  BY DEF Accounts, Underway, FileTypes
<1>2. Accepted = File
  <2>1. UNION decided = File /\ Invalid \subseteq File
    BY <1>1, SessionAssumption
  <2> QED
    BY <2>1, SMT DEF Accepted
<1>3. Gone = {}
  <2>1. Cardinality(Gone) = 0 /\ IsFiniteSet(Gone)
    BY GoneFinite DEF Books
  <2> QED
    BY <2>1, FS_EmptySet
<1>4. ASSUME NEW f \in File, pool[f] \in Pending PROVE f \in S
  <2>1. f \notin onDest /\ f \notin rCompleted /\ pool[f] # "absent"
    BY <1>4 DEF Books, Pending
  <2>2. CASE Announced(f)
    <3>1. \A m \in Msgs(toSender) : m.type # "decision"
      BY <1>1 DEF Underway
    <3>2. f \in needed
      BY <2>2, <3>1 DEF Announced
    <3>3. f \in claimed.failed
      BY <2>1, <3>2 DEF Accounts
    <3> QED
      BY <2>1, <3>3 DEF Accounts
  <2>3. CASE ~Announced(f)
    BY <2>1, <2>3, AskedAnnounced DEF Fallbacks
  <2> QED
    BY <2>2, <2>3
<1>5. ASSUME NEW f \in parked PROVE f \in Stranded(S)
  <2>1. PICK p \in primaries : pool[p] \in Pending
    BY DEF Books
  <2>2. p \in S
    BY <1>4, <2>1 DEF FileTypes
  <2>3. f \in Waiting(p)
    BY DEF Waiting
  <2> HIDE DEF S
  <2> QED
    BY <2>2, <2>3 DEF Stranded
<1>6. ASSUME NEW f \in File, f \notin onDest PROVE f \in Stranded(S)
  <2>1. f \in parked \/ pool[f] \in Pending
    BY <1>2, <1>3, <1>6 DEF Gone
  <2>2. f \in S => f \in Stranded(S)
    BY DEF Stranded
  <2> HIDE DEF S
  <2> QED
    BY <1>4, <1>5, <2>1, <2>2
<1> HIDE DEF S
<1>7. File \ onDest \subseteq Stranded(S)
  BY <1>6
<1> QED
  BY <1>7 DEF S

\* What is stranded stays so.
LEMMA StrandedStays ==
    ASSUME sFailed \subseteq sFailed', Fallbacks \subseteq Fallbacks', UNCHANGED <<onDest, primaries, parked>>
    PROVE  Stranded((sFailed \cup Fallbacks) \ onDest) \subseteq Stranded((sFailed \cup Fallbacks) \ onDest)'
<1> DEFINE S == (sFailed \cup Fallbacks) \ onDest
<1>1. \A f : Waiting(f)' = Waiting(f)
  BY DEF Waiting
<1>2. S \subseteq S'
  OBVIOUS
<1> HIDE DEF S
<1>3. Stranded(S) \subseteq Stranded(S)'
  BY <1>1, <1>2 DEF Stranded
<1> QED
  BY <1>3 DEF S

\* A receiver that finish sends home with 0 has every file of the plan in place,
\* with every kind of fault and mishap; only a signal to the sender after its
\* summary may leave out files that the sender counts as failed, fallbacks, and
\* secondaries of these.
THEOREM SuccessMeansComplete == Spec => []SuccessIsComplete
<1>1. Init => SuccessIsComplete
  BY NoneAssumption DEF Init, SuccessIsComplete
<1>2. EndInv /\ SuccessIsComplete /\ [Next]_vars => SuccessIsComplete'
  <2> DEFINE Lost == Stranded((sFailed \cup Fallbacks) \ onDest)
  <2> SUFFICES ASSUME EndInv, SuccessIsComplete, [Next]_vars, rExit' = 0, ~(File \subseteq onDest')
               PROVE  sFatal' = "signal" /\ File \ onDest' \subseteq Lost'
    BY DEF SuccessIsComplete
  <2>0. ASSUME sFatal = "signal", File \ onDest \subseteq Lost, UNCHANGED <<onDest, primaries, parked>>
        PROVE  sFatal' = "signal" /\ File \ onDest' \subseteq Lost'
    <3>1. Lost \subseteq Lost'
      BY <2>0, TalliesGrow, FallbacksGrow, StrandedStays DEF EndInv
    <3> HIDE DEF Lost
    <3> QED
      BY <2>0, <3>1, SignalStays
  <2>1. CASE rExit = 0
    <3>1. ~Running
      BY <2>1, NoneAssumption DEF EndInv, IInv, Protocol, Told
    <3>2. UNCHANGED <<onDest, primaries, parked>>
      BY <3>1, StoppedStep DEF fileVars, linkVars
    <3> QED
      BY <2>0, <2>1, <3>2 DEF SuccessIsComplete
  <2>2. CASE rExit # 0
    <3> /\ rMain = "summary" /\ rFault = None /\ ~Partial
        /\ summaryBox # None /\ summaryBox = rCompleted
        /\ UNCHANGED <<onDest, primaries, parked>>
      BY <2>2, ReceiverSucceeds DEF EndInv, fileVars, linkVars
    <3>1. failed = 0 /\ Invalid \cap UNION decided = {}
      BY SMT DEF Partial, EndInv, IInv, FileTypes
    <3>2. CASE ~rRoot
      <4>1. Settled
        BY <3>2 DEF EndInv, Finishing
      <4>2. failed + Cardinality(Invalid \cap UNION decided) = Cardinality(File \ onDest)
        BY <4>1, SettledCounts DEF EndInv
      <4>4. Cardinality(File \ onDest) = 0
        <5>1. Cardinality(Invalid \cap UNION decided) = 0
          BY <3>1, FS_EmptySet
        <5> QED
          BY <3>1, <4>2, <5>1, SMT
      <4>5. IsFiniteSet(File \ onDest)
        <5>1. IsFiniteSet(File) /\ File \ onDest \subseteq File
          BY SessionAssumption
        <5> QED
          BY <5>1, FS_Subset
      <4>6. File \ onDest = {}
        BY <4>4, <4>5, FS_EmptySet
      <4> QED
        BY <4>6
    <3>3. CASE rRoot
      <4>1. Well
        <5>1. Running /\ rFault # "signal"
          BY NoneAssumption DEF Running
        <5> QED
          BY <5>1 DEF EndInv, IInv, Protocol
      <4>2. sFatal = "signal"
        BY <3>3, <4>1 DEF Well
      <4>3. claimed # None /\ claimed.done = rCompleted
        BY DEF EndInv, IInv, Protocol, Told
      <4> QED
        BY <2>0, <3>1, <4>2, <4>3, MissingIsStranded
    <3> QED
      BY <3>2, <3>3
  <2> QED
    BY <2>1, <2>2
<1> QED
  BY <1>1, <1>2, Ending, PTL DEF Spec

\* A sender that exits 0 on an acknowledgement has delivered every file the
\* receiver accepts: the digests it compared are of the same set, and that set
\* holds all that GROUP_DECISIONs asked for.  (A link that fails after its
\* decision becomes a request for a file that was never announced.)
THEOREM AckedIsDelivered ==
    ASSUME "E7009" \notin DestFaults
    PROVE  Spec => []AckMeansDelivered
<1>1. Init => AckMeansDelivered
  BY NoneAssumption DEF Init, AckMeansDelivered
<1>2. EndInv /\ AckMeansDelivered /\ [Next]_vars => AckMeansDelivered'
  <2> SUFFICES ASSUME EndInv, AckMeansDelivered, [Next]_vars, sExit' = 0, ~sRoot', Fallbacks' = {}
               PROVE  File \ Invalid \subseteq onDest'
    BY DEF AckMeansDelivered
  <2>1. CASE sExit = 0 /\ ~sRoot
    <3>1. Fallbacks = {}
      BY FallbacksGrow DEF EndInv
    <3> QED
      BY <2>1, <3>1, OnDestGrows DEF AckMeansDelivered
  <2>2. CASE ~(sExit = 0 /\ ~sRoot)
    <3>1. ackBox # None /\ ackBox = claimed.done /\ claimed.failed = {} /\ sMain = "ack" /\ onDest' = onDest
      BY <2>2, SenderSucceeds DEF EndInv
    <3>2. claimed # None /\ claimed.done = rCompleted
      BY <3>1 DEF EndInv, IInv, Protocol, Told, Acknowledged
    <3> QED
      BY <3>1, <3>2, Delivered DEF EndInv
  <2> QED
    BY <2>1, <2>2
<1> QED
  BY <1>1, <1>2, Ending, PTL DEF Spec

-----------------------------------------------------------------------------
(***************************************************************************)
(* Without mishaps, whatever happens to the files.                         *)
(***************************************************************************)
\* No one reports a dead peer before all is decided, and what the receiver
\* reconciles or reports is settled.
Calm ==
    /\ \A m \in Msgs(toReceiver) : m.type \notin Codes
    /\ Running => rFault # "E3003" /\ (sMain = "exited" => decided = Group)
    /\ rMain = "summary" \/ rExit \in {0, 1} => Settled

\* Nobody interrupts, so no one leaves because of a signal or a dead peer.
LEMMA CalmFacts ==
    ASSUME IInv, Mishaps = {}
    PROVE  /\ rFault # "signal" /\ sFatal # "signal"
           /\ Running => Well /\ (sMain # "exited" => ~sRoot)
           /\ Running /\ rFault = None => ~rRoot
<1>1. rFault # "signal" /\ sFatal # "signal"
  BY DEF IInv, Protocol, Told
<1>2. Running => Well
  BY <1>1 DEF IInv, Protocol
<1> QED
  BY <1>1, <1>2 DEF Well

\* A sender leaves a running receiver only when all is decided.
LEMMA CalmSender ==
    ASSUME IInv, Underway, Accounts, Mishaps = {}, Calm, SenderMain
    PROVE  /\ \A m \in Msgs(toReceiver') : m.type \notin Codes
           /\ Running => (sMain' = "exited" => decided = Group)
<1>0. ControlTypes
  BY DEF IInv
<1>1. ASSUME NEW e, NEW partial \in BOOLEAN, SenderFinish(e, partial)
      PROVE  \A m \in Msgs(toReceiver') : m.type \notin Codes
  <2>1. \A m \in Msgs(toReceiver') : m \in Msgs(toReceiver) \/ m.type \in {"error", "close"}
    BY <1>0, <1>1, SenderParts
  <2>2. "error" \notin Codes /\ "close" \notin Codes
    BY DEF Codes
  <2> QED
    BY <2>1, <2>2 DEF Calm
<1>2. FALSE \in BOOLEAN /\ (claimed.failed # {}) \in BOOLEAN
  OBVIOUS
<1>3. sDecided = Group => decided = Group
  BY DEF Underway, IInv, FileTypes
<1>4. CASE SendSummary
  <2>1. CASE toReceiver' = Append(toReceiver, [type |-> "summary", done |-> sCompleted]) /\ sMain' = "ack"
    <3> DEFINE m == [type |-> "summary", done |-> sCompleted]
    <3>1. m \in ToReceiver /\ m.type \notin Codes /\ toReceiver \in Seq(ToReceiver)
      BY <1>0 DEF ControlTypes, QueueTypes, TrackerTypes, ToReceiver, Summaries, Codes
    <3>2. toReceiver' = Append(toReceiver, m) /\ sMain' # "exited"
      BY <2>1
    <3> HIDE DEF m
    <3>3. Msgs(Append(toReceiver, m)) = Msgs(toReceiver) \cup {m}
      BY <3>1, WriteQueue, SMT
    <3> QED
      BY <3>1, <3>2, <3>3 DEF Calm
  <2>2. CASE rMain = "exited" /\ SenderFinish(First(sFatal, "E3003"), FALSE)
    BY <1>1, <1>2, <2>2 DEF Running
  <2> QED
    BY <1>4, <2>1, <2>2 DEF SendSummary
<1>5. CASE WaitFails
  <2>1. sMain # "exited"
    BY <1>5 DEF WaitFails
  <2>2. Running => decided = Group
    BY <1>3, <1>5, <2>1, CalmFacts DEF WaitFails
  <2> QED
    BY <1>1, <1>2, <1>5, <2>2 DEF WaitFails
<1>6. CASE AwaitAck
  <2>1. claimed # None
    BY <1>6 DEF AwaitAck, IInv, Protocol, Told
  <2>2. decided = Group
    BY <1>3, <2>1 DEF Accounts
  <2> QED
    BY <1>1, <1>2, <1>6, <2>2 DEF AwaitAck
<1> QED
  BY <1>4, <1>5, <1>6 DEF SenderMain

\* Without mishaps the receiver reconciles only what is settled, and it fails
\* for a lost peer only after that.
LEMMA CalmStep ==
    ASSUME IInv, Underway, Accounts, Mishaps = {}, Calm, [Next]_vars
    PROVE  Calm'
<1>0. toReceiver \in Seq(ToReceiver)
  BY DEF IInv, ControlTypes, QueueTypes
<1>1. ASSUME Msgs(toReceiver') \subseteq Msgs(toReceiver), sMain' = sMain, rMain' = rMain, rExit' = rExit,
             Running => rFault' # "E3003" /\ (decided' = decided \/ decided # Group)
      PROVE  Calm'
  <2>1. Settled => Settled'
    BY SettledStep
  <2>2. Running' <=> Running
    BY <1>1 DEF Running
  <2>3. Running => (sMain' = "exited" => decided' = Group)
    BY <1>1 DEF Calm
  <2> QED
    BY <1>1, <2>1, <2>2, <2>3 DEF Calm
<1>2. ASSUME UNCHANGED <<toReceiver, sMain, decided, receiverVars>> PROVE Calm'
  <2>1. rMain' = rMain /\ rExit' = rExit /\ rFault' = rFault /\ toReceiver' = toReceiver /\ decided' = decided
    BY <1>2 DEF receiverVars
  <2>2. Msgs(toReceiver') = Msgs(toReceiver)
    BY <2>1
  <2> QED
    BY <1>1, <1>2, <2>1, <2>2 DEF Calm
<1>3. CASE SenderMain
  <2>1. UNCHANGED <<decided, receiverVars>>
    BY <1>3 DEF SenderMain, SendSummary, WaitFails, AwaitAck
  <2>2. rMain' = rMain /\ rExit' = rExit /\ rFault' = rFault /\ decided' = decided
    BY <2>1 DEF receiverVars
  <2>3. Running' <=> Running
    BY <2>2 DEF Running
  <2>4. Settled => Settled'
    BY SettledStep
  <2> QED
    BY <1>3, <2>2, <2>3, <2>4, CalmSender DEF Calm
<1>4. ~SenderMishap /\ ~ReceiverMishap
  BY DEF SenderMishap, ReceiverMishap
<1>5. \A e \in {"E7003", "E3005", "peer"} : Running /\ RFail(e) => rFault' # "E3003"
  BY DEF RFail, First, Calm
<1>6. ASSUME NEW c \in Channel, Fetcher(c) PROVE Calm'
  <2> UNCHANGED <<toReceiver, senderVars, decided, rMain, rExit>> /\ Running
    BY <1>6 DEF Fetcher, Fetch, Publish, Retry, FileFails, FetchFatal,
       Cancelled, Consume, Working, wireVars, receiverVars
  <2>2. rFault' = rFault \/ RFail("E7003") \/ RFail("E3005")
    BY <1>6 DEF Fetcher, Fetch, Publish, Retry, FileFails, FetchFatal,
       Cancelled, receiverVars
  <2>3. rFault' # "E3003"
    BY <1>5, <2>2 DEF Calm
  <2>4. Msgs(toReceiver') \subseteq Msgs(toReceiver) /\ sMain' = sMain
    BY DEF senderVars
  <2> QED
    BY <1>1, <2>3, <2>4
<1>7. ASSUME NEW g \in Group, Decide(g) PROVE Calm'
  <2> UNCHANGED <<toReceiver, senderVars, rMain, rExit>> /\ Running /\ decided # Group
    BY <1>7 DEF Decide
  <2>2. rFault' = rFault \/ RFail("E7003")
    BY <1>7 DEF Decide
  <2>3. rFault' # "E3003"
    BY <1>5, <2>2, SMT DEF Calm
  <2>4. Msgs(toReceiver') \subseteq Msgs(toReceiver) /\ sMain' = sMain
    BY DEF senderVars
  <2> QED
    BY <1>1, <2>3, <2>4
<1>8. ~DecideSendFails
  BY CalmFacts DEF DecideSendFails, Calm
<1>9. CASE ReceiverReads
  <2> DEFINE m == Head(toReceiver)
  <2>1. toReceiver # <<>> /\ toReceiver' = Tail(toReceiver) /\ Running
    BY <1>9 DEF ReceiverReads, Running
  <2>2. m \in Msgs(toReceiver) /\ Msgs(toReceiver') \subseteq Msgs(toReceiver)
    BY <1>0, <2>1, ReadQueue, SMT
  <2>3. m.type \notin {"E3003", "E4005"}
    BY <2>2 DEF Calm, Codes
  <2>4. rFault' = rFault \/ RFail("peer")
    BY <1>9, <2>3 DEF ReceiverReads
  <2>5. rFault' # "E3003"
    BY <1>5, <2>1, <2>4, SMT DEF Calm
  <2>6. sMain' = sMain /\ rMain' = rMain /\ rExit' = rExit /\ decided' = decided
    BY <1>9 DEF ReceiverReads, senderVars
  <2> QED
    BY <1>1, <2>2, <2>5, <2>6
<1>10. CASE PipelineEnds
  <2>1. Running /\ rFault = None /\ PipelineDone
    BY <1>10 DEF PipelineEnds, Running
  <2>2. Settled
    BY <2>1, CalmFacts, SettledNow DEF PipelineDone
  <2>3. Settled'
    BY <2>2, SettledStep
  <2>4. UNCHANGED <<toReceiver, sMain, decided, rFault>>
    BY <1>10 DEF PipelineEnds, wireVars, senderVars
  <2> QED
    BY <2>1, <2>3, <2>4 DEF Calm
<1>11. ASSUME ReceiverFails \/ Reconcile PROVE Calm'
  <2>1. ~Running' /\ rMain' # "summary" /\ toReceiver' = toReceiver
    <3>1. rMain' = "exited" /\ toReceiver' = toReceiver
      BY <1>11 DEF ReceiverFails, Reconcile, ReceiverFinish
    <3> QED
      BY <3>1 DEF Running
  <2>2. rExit' \in {0, 1} => Settled
    <3>1. CASE ReceiverFails
      <4>1. rFault # None /\ rFault # "E3003" /\ rExit' = ExitCode(rFault)
        BY <3>1 DEF ReceiverFails, ReceiverFinish, Calm, Running
      <4> QED
        BY <4>1, SMT DEF ExitCode
    <3>2. CASE Reconcile
      BY <3>2 DEF Reconcile, Calm
    <3> QED
      BY <1>11, <3>1, <3>2, SMT
  <2>3. Settled => Settled'
    BY SettledStep
  <2> QED
    BY <2>1, <2>2, <2>3 DEF Calm
<1>12. ASSUME SenderReads \/ Ended \/ UNCHANGED vars \/ (\E c \in Channel : Servicer(c)) PROVE Calm'
  <2>1. UNCHANGED <<toReceiver, sMain, decided, receiverVars>>
    BY <1>12 DEF SenderReads, Ended, vars, Servicer, ReadRequest, Serve,
       Record, wireVars, senderVars
  <2> QED
    BY <1>2, <2>1
<1> QED
  BY <1>3, <1>4, <1>6, <1>7, <1>8, <1>9, <1>10, <1>11, <1>12 DEF Next, Decider,
     ReceiverMain

\* Without mishaps, a receiver that exits 0 or 1 has counted, in FilesFailed or
\* FilesRejected, exactly the files that are not in place, whatever failed at
\* the source or at the destination, however often it was retried, and
\* whichever timeouts expired.
THEOREM CountIsHonest ==
    ASSUME Mishaps = {}
    PROVE  Spec => []Honest
<1>1. Init => Calm
  <2> SUFFICES ASSUME Init PROVE Calm
    OBVIOUS
  <2>1. toReceiver = <<>> /\ rMain = "pipeline" /\ rFault = None /\ rExit = None /\ sMain = "wait"
    BY DEF Init
  <2>2. Msgs(toReceiver) = {} /\ None # "E3003" /\ None \notin {0, 1}
    BY <2>1, NoMessages, NoneAssumption, SMT
  <2> QED
    BY <2>1, <2>2 DEF Calm
<1>2. EndInv /\ Calm /\ [Next]_vars => Calm'
  BY CalmStep DEF EndInv
<1>3. EndInv /\ Calm => Honest
  BY SettledCounts DEF EndInv, Calm, Honest
<1> QED
  BY <1>1, <1>2, <1>3, Ending, PTL DEF Spec

-----------------------------------------------------------------------------
(***************************************************************************)
(* Without mishaps, and with timeouts that wait until both sides stand     *)
(* still: the two sides agree unless there is a cause for a fatal end.     *)
(***************************************************************************)
\* No mishap, no early timeout; files may fail in every way.
Plain == Patient /\ Mishaps = {}

\* The sender is asked only for files that are queued.
Known == \A f \in File : Announced(f) => pool[f] # "absent"

\* A file that is gone at the source is given up, or about to be.
Final ==
    \A f \in GoneAtSource :
        \/ pool[f] = "finished" /\ f \notin rCompleted
        \/ \E c \in Channel : fetch[c] = f /\ reply[c] = "E6003"

\* Neither side has met an error, and neither is waiting for a message that
\* will not come.
Smooth ==
    /\ sFatal = None /\ rFault = None
    /\ Running => sMain # "exited"
    /\ \A m \in Msgs(toSender) : m.type \in {"decision", "ack", "close"}
    /\ ~Running => /\ sMain # "wait"
                   /\ sMain = "ack" => ackBox # None \/ \E m \in Msgs(toSender) : m.type = "ack"
    /\ Running /\ sMain = "ack" => summaryBox # None \/ \E m \in Msgs(toReceiver) : m.type = "summary"
    /\ NoFatalEnd

\* The files gone at the source, and how a file becomes one of them.
LEMMA GoneStep ==
    ASSUME IInv, [Next]_vars
    PROVE  /\ GoneAtSource \subseteq File
           /\ \A f \in GoneAtSource' : f \in GoneAtSource \/ \E c \in Channel :
                /\ serving[c] = f /\ outcome[c] = None /\ f = fetch[c] /\ pool[f] = "taken"
                /\ fetch' = fetch /\ reply'[c] = "E6003"
<1> Held /\ ChannelTypes /\ sFailed \subseteq File
  BY DEF IInv, Held, ControlTypes, TrackerTypes
<1>0. /\ \A f : f \in GoneAtSource <=> f \in sFailed \/ \E c \in Channel : serving[c] = f /\ outcome[c] = "E6003"
      /\ \A f : f \in GoneAtSource' <=> f \in sFailed' \/ \E c \in Channel : serving'[c] = f /\ outcome'[c] = "E6003"
  BY DEF GoneAtSource
<1>1. GoneAtSource \subseteq File
  <2>1. \A c \in Channel : outcome[c] = "E6003" => serving[c] \in File
    <3>1. \A c \in Channel : outcome[c] # None => serving[c] # None
      BY DEF Held, Exchanged
    <3>2. \A c \in Channel : serving[c] # None => serving[c] \in File
      BY SMT DEF ChannelTypes
    <3>3. "E6003" # None
      BY NoneAssumption
    <3> QED
      BY <3>1, <3>2, <3>3
  <2> QED
    BY <1>0, <2>1
<1> SUFFICES ASSUME NEW f \in GoneAtSource', f \notin GoneAtSource
             PROVE  \E c \in Channel :
                      /\ serving[c] = f /\ outcome[c] = None /\ f = fetch[c] /\ pool[f] = "taken"
                      /\ fetch' = fetch /\ reply'[c] = "E6003"
  BY <1>1
<1>2. f \notin sFailed /\ \A c \in Channel : ~(serving[c] = f /\ outcome[c] = "E6003")
  BY <1>0
<1>3. f \in sFailed' \/ \E c \in Channel : serving'[c] = f /\ outcome'[c] = "E6003"
  BY <1>0
<1>4. ASSUME NEW c \in Channel, Serve(c)
      PROVE  \E d \in Channel : /\ serving[d] = f /\ outcome[d] = None /\ f = fetch[d] /\ pool[f] = "taken"
                                /\ fetch' = fetch /\ reply'[d] = "E6003"
  <2>1. PICK o \in {"complete"} \cup SourceFaults :
           outcome' = [outcome EXCEPT ![c] = o] /\ reply' = [reply EXCEPT ![c] = o]
    BY <1>4 DEF Serve
  <2>2. serving[c] # None /\ outcome[c] = None /\ UNCHANGED <<serving, fetch, sFailed>>
    BY <1>4 DEF Serve, trackerVars
  <2>3. \A d \in Channel : /\ outcome'[d] = IF d = c THEN o ELSE outcome[d]
                           /\ reply'[d] = IF d = c THEN o ELSE reply[d]
    BY <2>1 DEF ChannelTypes
  <2>4. serving[c] = f /\ o = "E6003"
    BY <1>2, <1>3, <2>2, <2>3
  <2>5. fetch[c] = serving[c] /\ pool[serving[c]] = "taken"
    BY <2>2 DEF Held, Exchanged
  <2> QED
    BY <2>2, <2>3, <2>4, <2>5
<1>5. ASSUME NEW c \in Channel, Record(c) PROVE FALSE
  <2>1. /\ outcome[c] # None
        /\ serving' = [serving EXCEPT ![c] = None] /\ outcome' = [outcome EXCEPT ![c] = None]
        /\ sFailed' = IF Permanent(outcome[c]) THEN sFailed \cup {serving[c]} ELSE sFailed
    BY <1>5 DEF Record
  <2>2. \A d \in Channel : /\ serving'[d] = IF d = c THEN None ELSE serving[d]
                           /\ outcome'[d] = IF d = c THEN None ELSE outcome[d]
    BY <2>1 DEF ChannelTypes
  <2>3. f \notin sFailed'
    BY <1>2, <2>1 DEF Permanent
  <2>4. \A d \in Channel : ~(serving'[d] = f /\ outcome'[d] = "E6003")
    BY <1>2, <2>2, NoneAssumption
  <2> QED
    BY <1>3, <2>3, <2>4
<1>6. ASSUME NEW c \in Channel, ReadRequest(c) PROVE FALSE
  <2>1. /\ serving[c] = None /\ serving' = [serving EXCEPT ![c] = request[c]]
        /\ UNCHANGED <<outcome, sFailed>>
    BY <1>6 DEF ReadRequest, trackerVars
  <2>2. \A d \in Channel : d # c => serving'[d] = serving[d]
    BY <2>1 DEF ChannelTypes
  <2>3. outcome[c] # "E6003"
    BY <2>1, NoneAssumption DEF Held, Exchanged
  <2> QED
    BY <1>2, <1>3, <2>1, <2>2, <2>3
<1>7. ASSUME UNCHANGED <<serving, outcome, sFailed>> PROVE FALSE
  BY <1>2, <1>3, <1>7
<1>8. ASSUME NEW c \in Channel, Fetcher(c) PROVE FALSE
  <2>1. UNCHANGED <<servicerVars, trackerVars>>
    BY <1>8, ZenonT(30) DEF Fetcher, Fetch, Publish, Retry, FileFails, FetchFatal, Cancelled, Consume
  <2> QED
    BY <1>7, <2>1 DEF servicerVars, trackerVars
<1> QED
  BY <1>4, <1>5, <1>6, <1>7, <1>8, OthersRest

\* session.fail keeps the first error, and so does finish.
LEMMA FullStays ==
    ASSUME [Next]_vars, rFault = "E7003"
    PROVE  rFault' = "E7003"
<1>1. \A e : First(rFault, e) = "E7003"
  BY NoneAssumption DEF First
<1>2. \A e, told : ReceiverFinish(e, told) => rFault' = e
  BY DEF ReceiverFinish
<1>3. \A e : RFail(e) => rFault' = "E7003"
  BY <1>1 DEF RFail
<1>4. ReceiverMain => rFault' = "E7003"
  <2>1. Reconcile => rFault' = "E7003"
    BY <1>1, <1>2 DEF Reconcile
  <2> QED
    BY <1>2, <2>1 DEF ReceiverMain, PipelineEnds, ReceiverFails
<1>5. ReceiverReads \/ ReceiverMishap \/ DecideSendFails \/ (\E g \in Group : Decide(g)) => rFault' = "E7003"
  BY <1>3 DEF ReceiverReads, ReceiverMishap, DecideSendFails, Decide
<1>6. \A c \in Channel : Fetcher(c) => rFault' = "E7003"
  BY <1>3 DEF Fetcher, Fetch, Publish, Retry, FileFails, FetchFatal, Cancelled, receiverVars
<1>7. UNCHANGED receiverVars => rFault' = "E7003"
  BY DEF receiverVars
<1> QED
  BY <1>4, <1>5, <1>6, <1>7, ZenonT(30) DEF Next, Decider, Servicer, ReadRequest, Serve, Record, SenderReads,
     SenderMain, SendSummary, WaitFails, AwaitAck, SenderMishap, Ended, vars

\* A cause for a fatal end does not go away.
LEMMA CauseStays ==
    ASSUME IInv, [Next]_vars, FatalCause
    PROVE  FatalCause'
<1>1. CASE rFault = "E7003"
  BY <1>1, FullStays DEF FatalCause
<1>2. CASE Fallbacks # {}
  BY <1>2, FallbacksGrow DEF FatalCause
<1>3. ASSUME NEW f \in GivenUp, f \in sCompleted \/ f \notin GoneAtSource PROVE FatalCause'
  <2>1. f \in File /\ pool[f] = "finished" /\ f \notin rCompleted
    BY DEF GivenUp
  <2>2. f \in GivenUp'
    BY <2>1, FilesMove DEF GivenUp
  <2>3. f \in GoneAtSource' => f \in GoneAtSource
    BY <2>1, GoneStep
  <2>4. f \in sCompleted => f \in sCompleted'
    BY TalliesGrow
  <2> QED
    BY <1>3, <2>2, <2>3, <2>4 DEF FatalCause
<1> QED
  BY <1>1, <1>2, <1>3 DEF FatalCause

\* Unless the disk is full, a fetcher meets no fatal fault.
LEMMA PlainFetcher ==
    ASSUME IInv, Plain, Smooth, ~FatalCause', NEW c \in Channel, Fetcher(c)
    PROVE  UNCHANGED <<toSender, toReceiver, senderVars, receiverVars>>
<1> Running
  BY DEF Fetcher, Fetch, Publish, Retry, FileFails, FetchFatal, Cancelled,
     Consume, Working
<1>2. ~rRoot /\ Well /\ sMain # "exited" /\ rFault = None
  BY CalmFacts DEF Plain, Smooth
<1>3. CASE Fetch(c)
  BY <1>3 DEF Fetch
<1>4. CASE Publish(c) \/ Retry(c) \/ FileFails(c) \/ Cancelled(c)
  <2>1. Consume(c) /\ UNCHANGED <<rRoot, rFault>>
    BY <1>4 DEF Publish, Retry, FileFails, Cancelled
  <2> QED
    BY <2>1 DEF Consume, receiverVars
<1>5. ~FetchFatal(c)
  <2>1. fetch[c] # None => ~Drained
    BY DEF IInv, Held, ChannelTypes, Drained
  <2>2. Timeout => Drained
    BY <1>2 DEF Timeout, Plain, Quiet, Well, Running
  <2>3. RFail("E7003") => FALSE
    <3>1. RFail("E7003") => rFault' = "E7003"
      BY <1>2 DEF RFail, First
    <3> QED
      BY <3>1 DEF FatalCause
  <2> QED
    BY <2>1, <2>2, <2>3 DEF FetchFatal
<1> QED
  BY <1>3, <1>4, <1>5 DEF Fetcher

\* Unless the disk is full, a decision queues what it asks for.
LEMMA PlainDecide ==
    ASSUME IInv, Smooth, ~FatalCause', NEW g \in Group, Decide(g),
           NEW N, NEW X, NEW Q, Decision(g, N, X, Q)
    PROVE  /\ pool' = [f \in File |-> IF f \in N THEN "ready" ELSE pool[f]]
           /\ Running /\ UNCHANGED <<toReceiver, senderVars, receiverVars>>
<1>1. ~RFail("E7003")
  <2>1. RFail("E7003") => rFault' = "E7003"
    BY DEF RFail, First, Smooth
  <2> QED
    BY <2>1 DEF FatalCause
<1> QED
  BY <1>1 DEF Decision, Decide, receiverVars

\* What a decision asks for is queued.
LEMMA KnownStep ==
    ASSUME IInv, Smooth, Known, ~FatalCause', [Next]_vars
    PROVE  Known'
<1> SUFFICES ASSUME NEW f \in File, Announced(f)' PROVE pool'[f] # "absent"
  BY DEF Known
<1>1. CASE Announced(f)
  BY <1>1, FilesMove DEF Known
<1>2. ASSUME NEW g \in Group, Decide(g), ~Announced(f) PROVE pool'[f] # "absent"
  <2>1. PICK N \in SUBSET File, X \in SUBSET File, Q \in SUBSET File : Decision(g, N, X, Q)
    BY <1>2, DecisionStep DEF IInv
  <2>2. f \in N
    BY <1>2, <2>1, HeardDecide
  <2> QED
    BY <1>2, <2>1, <2>2, PlainDecide
<1> QED
  BY <1>1, <1>2, HeardStep

\* A FILE_ERROR that a retry cannot mend makes its fetcher give the file up.
LEMMA FinalStep ==
    ASSUME IInv, Plain, Smooth, Final, [Next]_vars
    PROVE  Final'
<1> Held /\ ChannelTypes /\ Books
  BY DEF IInv, Held
<1> SUFFICES ASSUME NEW f \in GoneAtSource'
             PROVE  \/ pool'[f] = "finished" /\ f \notin rCompleted'
                    \/ \E c \in Channel : fetch'[c] = f /\ reply'[c] = "E6003"
  BY DEF Final
<1>1. CASE f \notin GoneAtSource
  <2>1. PICK c \in Channel : f = fetch[c] /\ fetch' = fetch /\ reply'[c] = "E6003"
    BY <1>1, GoneStep
  <2>2. fetch'[c] = f
    BY <2>1
  <2> QED
    BY <2>1, <2>2
<1>2. ASSUME f \in GoneAtSource, pool[f] = "finished", f \notin rCompleted
      PROVE  pool'[f] = "finished" /\ f \notin rCompleted'
  BY <1>2, GoneStep, FilesMove
<1>3. ASSUME NEW c \in Channel, fetch[c] = f, reply[c] = "E6003"
      PROVE  \/ pool'[f] = "finished" /\ f \notin rCompleted'
             \/ fetch'[c] = f /\ reply'[c] = "E6003"
  <2>1. reply[c] # None /\ fetch[c] # None /\ reply[c] # "complete"
    BY <1>3, NoneAssumption DEF Held, Exchanged
  <2>2. f \in File /\ pool[f] = "taken" /\ f \notin rCompleted
    BY <1>3, <2>1 DEF Held, ChannelTypes, Books
  <2>3. ASSUME NEW d \in Channel, ReadRequest(d) \/ Record(d)
        PROVE  fetch'[c] = f /\ reply'[c] = "E6003"
    BY <1>3, <2>3 DEF ReadRequest, Record, wireVars
  <2>4. ASSUME NEW d \in Channel, Serve(d)
        PROVE  fetch'[c] = f /\ reply'[c] = "E6003"
    <3>1. d # c
      BY <2>1, <2>4 DEF Serve, Held, Exchanged
    <3>2. fetch' = fetch /\ \E o : reply' = [reply EXCEPT ![d] = o]
      BY <2>4 DEF Serve
    <3> QED
      BY <1>3, <3>1, <3>2 DEF ChannelTypes
  <2>5. ASSUME NEW d \in Channel, Fetcher(d), d # c
        PROVE  fetch'[c] = f /\ reply'[c] = "E6003"
    <3>1. Fetch(d) \/ Consume(d) \/ UNCHANGED <<fetch, reply>>
      BY <2>5 DEF Fetcher, Publish, Retry, FileFails, FetchFatal, Cancelled, wireVars
    <3>2. Fetch(d) => reply' = reply /\ \E h : fetch' = [fetch EXCEPT ![d] = h]
      BY DEF Fetch
    <3>3. Consume(d) => reply' = [reply EXCEPT ![d] = None] /\ fetch' = [fetch EXCEPT ![d] = None]
      BY DEF Consume
    <3> QED
      BY <1>3, <2>5, <3>1, <3>2, <3>3 DEF ChannelTypes
  <2>6. ASSUME Fetcher(c) PROVE pool'[f] = "finished" /\ f \notin rCompleted'
    <3>1. Running => ~rRoot
      BY CalmFacts DEF Plain, Smooth
    <3>2. ItemFaults(c) = {"E6003"} /\ "E6003" \notin Retryable
      BY <1>3, <2>1 DEF ItemFaults, Retryable
    <3>3. ~Fetch(c) /\ ~Publish(c) /\ ~FetchFatal(c)
      BY <2>1 DEF Fetch, Publish, FetchFatal
    <3>4. ~Retry(c)
      BY <3>2 DEF Retry
    <3>5. ~Cancelled(c)
      BY <3>1 DEF Cancelled, Consume
    <3>6. FileFails(c)
      BY <2>6, <3>3, <3>4, <3>5 DEF Fetcher
    <3>7. pool' = [pool EXCEPT ![f] = "finished"] /\ rCompleted' = rCompleted
      BY <1>3, <3>6 DEF FileFails
    <3> QED
      BY <2>2, <3>7 DEF IInv, FileTypes
  <2>7. CASE UNCHANGED <<reply, fetch>>
    BY <1>3, <2>7
  <2> QED
    BY <2>3, <2>4, <2>5, <2>6, <2>7, OthersRest
<1> QED
  BY <1>1, <1>2, <1>3 DEF Final

\* When all is drained and nothing is on its way, the tracker has declared the
\* end, unless the receiver gave up on a file that it still waits for.
LEMMA QuietIsOver ==
    ASSUME EndInv, Known, ~FatalCause, Drained, toSender = <<>>,
           \A c \in Channel : serving[c] = None
    PROVE  over
<1> IInv /\ Accounts /\ Served /\ Noticed /\ AllHeard
  BY DEF EndInv
<1>1. Msgs(toSender) = {}
  BY NoMessages
<1>2. sDecided = Group
  BY <1>1 DEF AllHeard, Heard, Drained, IInv, ControlTypes, TrackerTypes
<1>3. \A f \in File : pool[f] # "absent" => pool[f] = "finished"
  BY DEF Drained, IInv, FileTypes
<1>4. ASSUME NEW f \in needed PROVE f \in resolved
  <2>1. f \in File /\ pool[f] = "finished"
    BY <1>3 DEF Known, Announced, IInv, ControlTypes, TrackerTypes
  <2>2. \A c \in Channel : serving[c] # f
    BY <2>1, NoneAssumption
  <2>3. CASE f \in rCompleted
    <3>1. f \in sCompleted
      BY <2>2, <2>3 DEF Served, ReceiverBacked
    <3> QED
      BY <3>1 DEF Accounts
  <2>4. CASE f \notin rCompleted
    <3>1. f \in GivenUp
      BY <2>1, <2>4 DEF GivenUp
    <3>2. f \in GoneAtSource
      BY <3>1 DEF FatalCause
    <3>3. f \in sFailed
      BY <2>2, <3>2 DEF GoneAtSource
    <3> QED
      BY <3>3 DEF Accounts
  <2> QED
    BY <2>3, <2>4
<1> QED
  BY <1>2, <1>4 DEF Noticed

\* When the sender has summed up and the pipeline is drained, both sides have
\* recorded the same files, unless there is a cause for a fatal end.
LEMMA BothAgree ==
    ASSUME EndInv, Final, ~FatalCause, Drained, claimed # None
    PROVE  claimed.done = rCompleted
<1> IInv /\ Underway /\ Accounts /\ Served /\ Books /\ FileTypes
  BY DEF EndInv, IInv
<1>1. sCompleted \subseteq File /\ rCompleted \subseteq File
  BY DEF IInv, FileTypes, ControlTypes, TrackerTypes
<1>2. ASSUME NEW f \in claimed.done PROVE f \in rCompleted
  <2>1. f \in sCompleted /\ f \in File /\ pool[f] # "absent"
    BY <1>1 DEF Accounts, Served, Tallied
  <2>2. pool[f] = "finished"
    BY <2>1 DEF Drained, FileTypes
  <2> QED
    BY <2>1, <2>2 DEF FatalCause, GivenUp
<1>3. ASSUME NEW f \in rCompleted PROVE f \in claimed.done
  <2>1. f \in File /\ pool[f] = "finished" /\ pool[f] # "absent"
    BY <1>1 DEF Books
  <2>2. Announced(f)
    BY <2>1, AskedAnnounced DEF FatalCause, Fallbacks
  <2>3. \A m \in Msgs(toSender) : m.type # "decision"
    BY DEF Accounts, Underway, FileTypes
  <2>4. f \in needed
    BY <2>2, <2>3 DEF Announced
  <2>5. f \notin sFailed
    <3> SUFFICES ASSUME f \in sFailed PROVE FALSE
      OBVIOUS
    <3>1. f \in GoneAtSource
      BY DEF GoneAtSource
    <3>2. PICK c \in Channel : fetch[c] = f
      BY <3>1 DEF Final
    <3>3. fetch[c] # None
      BY <2>1, <3>2, NoneAssumption
    <3>4. pool[f] = "taken"
      BY <3>2, <3>3 DEF IInv, Held
    <3> QED
      BY <2>1, <3>4
  <2> QED
    BY <2>4, <2>5 DEF Accounts
<1> QED
  BY <1>2, <1>3

\* The invariant of a session without mishaps and without such a cause.
PlainInv == EndInv /\ Known /\ Final /\ Smooth

\* The sender leaves only with the acknowledgement, or told to close.
LEMMA SmoothSender ==
    ASSUME PlainInv, Plain, ~FatalCause, SenderMain
    PROVE  Smooth'
<1> IInv /\ Smooth /\ ControlTypes /\ Told /\ Acknowledged
  BY DEF PlainInv, EndInv, IInv, Protocol
<1>1. Running => Well /\ sMain # "exited" /\ ~sRoot
  BY CalmFacts DEF Plain, Smooth
<1>2. UNCHANGED <<toSender, ackBox, receiverVars>>
  BY DEF SenderMain, SendSummary, WaitFails, AwaitAck
<1>3. /\ rFault' = rFault /\ rExit' = rExit /\ summaryBox' = summaryBox /\ (Running' <=> Running)
      /\ Msgs(toSender') = Msgs(toSender)
  BY <1>2 DEF receiverVars, Running
<1>4. ASSUME ~Running, NEW partial \in BOOLEAN, SenderFinish(None, partial) PROVE Smooth'
  <2>1. sMain' = "exited" /\ sFatal' = None /\ sExit' \in {0, 1}
    BY <1>4 DEF SenderFinish
  <2>2. sMain' # "wait" /\ sMain' # "ack" /\ sExit' # 2
    BY <2>1, SMT
  <2> QED
    BY <1>3, <1>4, <2>1, <2>2 DEF Smooth, NoFatalEnd
<1>5. Timeout => sMain = "wait" /\ over
  <2> SUFFICES ASSUME Quiet PROVE sMain = "wait" /\ over
    BY DEF Timeout, Plain
  <2>0. sMain # "exited"
    BY DEF SenderMain, SendSummary, WaitFails, AwaitAck
  <2> /\ toSender = <<>> /\ (sMain = "ack" => ackBox = None) /\ \A c \in Channel : serving[c] = None
      /\ Running => toReceiver = <<>> /\ rMain = "summary" /\ summaryBox = None
    BY <2>0 DEF Quiet, Running
  <2>2. Msgs(toSender) = {} /\ (Running => Msgs(toReceiver) = {})
    BY NoMessages
  <2>3. sMain # "ack"
    BY <2>2 DEF Smooth
  <2>4. sMain = "wait"
    BY <2>0, <2>3 DEF ControlTypes, MainTypes
  <2>5. Drained
    BY <1>1, <2>4 DEF Smooth, Well
  <2> QED
    BY <2>4, <2>5, QuietIsOver DEF PlainInv
<1>6. CASE SendSummary
  <2>1. sMain = "wait" /\ Running
    BY <1>6 DEF SendSummary, Smooth
  <2>2. /\ toReceiver' = Append(toReceiver, [type |-> "summary", done |-> sCompleted])
        /\ sMain' = "ack" /\ UNCHANGED <<sFatal, sExit>>
    BY <1>6, <2>1 DEF SendSummary, Running
  <2> DEFINE m == [type |-> "summary", done |-> sCompleted]
  <2>3. m \in ToReceiver /\ m.type = "summary" /\ toReceiver \in Seq(ToReceiver)
    BY DEF ControlTypes, QueueTypes, TrackerTypes, ToReceiver, Summaries
  <2>4. toReceiver' = Append(toReceiver, m) /\ sMain' # "exited"
    BY <2>2
  <2> HIDE DEF m
  <2>5. Msgs(Append(toReceiver, m)) = Msgs(toReceiver) \cup {m}
    BY <2>3, WriteQueue, SMT
  <2>6. \E n \in Msgs(toReceiver') : n.type = "summary"
    BY <2>3, <2>4, <2>5
  <2> QED
    BY <1>3, <2>1, <2>2, <2>4, <2>6 DEF Smooth, NoFatalEnd
<1>7. ~WaitFails
  <2>1. ASSUME WaitFails PROVE sMain = "wait" /\ Running
    BY <2>1 DEF WaitFails, Smooth
  <2> QED
    BY <1>1, <1>5, <2>1 DEF WaitFails
<1>8. CASE AwaitAck
  <2>1. sMain = "ack" /\ sMain # "wait" /\ sFatal = None /\ FALSE \in BOOLEAN /\ (claimed.failed # {}) \in BOOLEAN
    BY <1>8 DEF AwaitAck, Smooth
  <2>2. ackBox # None => ~Running /\ SenderAgrees
    <3>1. ackBox # None => rMain = "exited" /\ (ackBox = claimed.done \/ rFault = "E5005")
      BY <2>1 DEF Acknowledged
    <3>2. rFault # "E5005"
      BY NoneAssumption, SMT DEF Smooth
    <3> QED
      BY <3>1, <3>2 DEF SenderAgrees, Running
  <2>3. sRoot => ~Running
    BY <1>1
  <2> QED
    BY <1>4, <1>5, <1>8, <2>1, <2>2, <2>3 DEF AwaitAck
<1> QED
  BY <1>6, <1>7, <1>8 DEF SenderMain

\* The receiver reconciles with a sender that agrees, and acknowledges.
LEMMA SmoothReceiver ==
    ASSUME PlainInv, Plain, ~FatalCause, ReceiverReads \/ ReceiverMain
    PROVE  Smooth'
<1> IInv /\ Smooth /\ ControlTypes /\ FileTypes /\ Told
  BY DEF PlainInv, EndInv, IInv, Protocol
<1>1. Running
  <2>1. rMain # "exited"
    BY DEF ReceiverReads, ReceiverMain, PipelineEnds, ReceiverFails, Reconcile
  <2> QED
    BY <2>1 DEF Running
<1>2. Well /\ sMain # "exited" /\ ~sRoot /\ ~rRoot /\ rFault = None /\ rFault # "signal"
  BY <1>1, CalmFacts DEF Plain, Smooth
<1>3. UNCHANGED senderVars
  BY DEF ReceiverReads, ReceiverMain, PipelineEnds, ReceiverFails, Reconcile
<1>4. sFatal' = sFatal /\ sMain' = sMain /\ sExit' = sExit /\ ackBox' = ackBox
  BY <1>3 DEF senderVars
<1>5. CASE ReceiverReads
  <2> DEFINE m == Head(toReceiver)
  <2> toReceiver # <<>> /\ UNCHANGED <<toSender, rMain, rExit>>
    BY <1>5 DEF ReceiverReads
  <2>2. m \in Msgs(toReceiver) /\ m \in ToReceiver
    BY ReadQueue, SMT DEF ControlTypes, QueueTypes
  <2>3. m.type = "summary"
    BY <1>2, <2>2 DEF Told
  <2>4. summaryBox' = m.done /\ rFault' = rFault
    BY <1>5, <2>3 DEF ReceiverReads
  <2>5. m.done # None
    <3>1. m.done \in SUBSET File
      BY <2>2, <2>3 DEF ToReceiver, Summaries, Endings, Codes
    <3> QED
      BY <3>1, NoneAssumption
  <2>6. Running' /\ Msgs(toSender') = Msgs(toSender)
    BY <1>1 DEF Running
  <2> HIDE DEF m
  <2> QED
    BY <1>1, <1>4, <2>4, <2>5, <2>6 DEF Smooth, NoFatalEnd
<1>6. CASE PipelineEnds
  <2> rMain' = "summary" /\ UNCHANGED <<toSender, toReceiver, rFault, summaryBox, rExit>>
    BY <1>6 DEF PipelineEnds, wireVars
  <2>2. Running' /\ Msgs(toSender') = Msgs(toSender) /\ Msgs(toReceiver') = Msgs(toReceiver)
    <3>1. rMain' # "exited"
      OBVIOUS
    <3> QED
      BY <3>1 DEF Running
  <2> QED
    BY <1>1, <1>4, <2>2 DEF Smooth, NoFatalEnd
<1>7. ~ReceiverFails
  BY <1>2 DEF ReceiverFails
<1>8. CASE Reconcile
  <2>1. rMain = "summary" /\ Drained
    BY <1>2, <1>8 DEF Reconcile, Well
  <2>2. ~Timeout \/ summaryBox # None
    <3> SUFFICES ASSUME Quiet, summaryBox = None PROVE FALSE
      BY DEF Timeout, Plain
    <3> /\ toSender = <<>> /\ toReceiver = <<>> /\ \A c \in Channel : serving[c] = None
        /\ sMain = "wait" => ~over
      BY <1>1, <1>2 DEF Quiet, Running
    <3>2. over
      BY <2>1, QuietIsOver DEF PlainInv
    <3>3. sMain = "ack"
      BY <1>2, <3>2 DEF ControlTypes, MainTypes
    <3>4. Msgs(toReceiver) = {}
      BY NoMessages
    <3> QED
      BY <1>1, <3>3, <3>4 DEF Smooth
  <2>3. summaryBox # None => sMain # "wait" /\ ReceiverAgrees
    BY <2>1, BothAgree DEF Told, ReceiverAgrees, PlainInv
  <2>4. ~Timeout
    <3> SUFFICES ASSUME Quiet PROVE summaryBox = None
      BY <2>2 DEF Timeout, Plain
    <3> QED
      BY <1>1 DEF Quiet, Running
  <2> DEFINE ack == [type |-> "ack", done |-> rCompleted]
  <2>5. summaryBox # None /\ ReceiverFinish(None, <<ack>>)
    BY <1>2, <1>8, <2>3, <2>4 DEF Reconcile
  <2>6. rMain' = "exited" /\ rFault' = None /\ rExit' \in {0, 1}
    BY <2>5 DEF ReceiverFinish
  <2>7. ~Running' /\ rExit' # 2
    BY <2>6, SMT DEF Running
  <2> DEFINE q == Append(toSender, ack)
             bye == Message("close")
  <2> /\ toSender \in Seq(ToSender) /\ ack \in ToSender /\ bye \in ToSender
      /\ ack.type = "ack" /\ bye.type = "close"
    BY DEF ControlTypes, QueueTypes, FileTypes, ToSender, Acks, Endings,
       Message
  <2>9. toSender' = ((toSender \o <<ack>>) \o <<>>) \o <<bye>>
    <3>1. None \in {None, "signal"} /\ None # "signal"
      BY NoneAssumption
    <3> HIDE DEF ack, bye
    <3> QED
      BY <2>5, <3>1 DEF ReceiverFinish, bye
  <2> HIDE DEF ack, bye
  <2> /\ toSender \o <<ack>> = q /\ q \in Seq(ToSender)
      /\ Msgs(q) = Msgs(toSender) \cup {ack}
    <3>1. toSender \o <<ack>> = q
      BY Concats
    <3>2. q \in Seq(ToSender) /\ Msgs(q) = Msgs(toSender) \cup {ack}
      BY WriteQueue, SMT
    <3> QED
      BY <3>1, <3>2
  <2> HIDE DEF q
  <2>11. toSender' = Append(q, bye)
    BY <2>9, Concats
  <2>12. Msgs(Append(q, bye)) = Msgs(q) \cup {bye}
    BY WriteQueue, SMT
  <2>13. Msgs(toSender') = (Msgs(toSender) \cup {ack}) \cup {bye}
    BY <2>11, <2>12
  <2>14. \A m \in Msgs(toSender') : m.type \in {"decision", "ack", "close"}
    BY <2>13 DEF Smooth
  <2>15. \E m \in Msgs(toSender') : m.type = "ack"
    BY <2>13
  <2> QED
    BY <1>4, <2>3, <2>5, <2>6, <2>7, <2>14, <2>15 DEF Smooth, NoFatalEnd
<1> QED
  BY <1>5, <1>6, <1>7, <1>8 DEF ReceiverMain

\* No step of either side meets an error or waits in vain.
LEMMA SmoothStep ==
    ASSUME PlainInv, Plain, ~FatalCause', [Next]_vars
    PROVE  Smooth'
<1> IInv /\ Smooth /\ ControlTypes /\ toSender \in Seq(ToSender) /\ Acknowledged
  BY DEF PlainInv, EndInv, IInv, ControlTypes, QueueTypes, Protocol
<1>1. ASSUME UNCHANGED <<toSender, toReceiver, senderVars, receiverVars>> PROVE Smooth'
  <2>1. Msgs(toSender') = Msgs(toSender) /\ Msgs(toReceiver') = Msgs(toReceiver)
    BY <1>1
  <2> QED
    BY <1>1, <2>1 DEF Smooth, NoFatalEnd, Running, senderVars, receiverVars
<1>2. ASSUME NEW c \in Channel, Servicer(c) \/ Fetcher(c) PROVE Smooth'
  <2>1. Servicer(c) => UNCHANGED <<toSender, toReceiver, senderVars, receiverVars>>
    BY DEF Servicer, ReadRequest, Serve, Record, wireVars
  <2> QED
    BY <1>1, <1>2, <2>1, PlainFetcher
<1>3. ASSUME NEW g \in Group, Decide(g) PROVE Smooth'
  <2>0. PICK N \in SUBSET File, X \in SUBSET File, Q \in SUBSET File : Decision(g, N, X, Q)
    BY <1>3, DecisionStep DEF IInv
  <2>1. toSender' = Append(toSender, [type |-> "decision", group |-> g, needed |-> N])
    BY <2>0 DEF Decision
  <2>2. Running /\ UNCHANGED <<toReceiver, senderVars, receiverVars>>
    BY <1>3, <2>0, PlainDecide
  <2> DEFINE m == [type |-> "decision", group |-> g, needed |-> N]
  <2>3. m \in ToSender /\ m.type = "decision" /\ toSender' = Append(toSender, m)
    BY <2>1 DEF ToSender, Decisions
  <2> HIDE DEF m
  <2>4. Msgs(Append(toSender, m)) = Msgs(toSender) \cup {m}
    BY <2>3, WriteQueue, SMT
  <2>5. \A n \in Msgs(toSender') : n.type \in {"decision", "ack", "close"}
    BY <2>3, <2>4 DEF Smooth
  <2>6. Running' /\ Msgs(toReceiver') = Msgs(toReceiver)
    BY <2>2 DEF Running, receiverVars
  <2> QED
    BY <2>2, <2>5, <2>6 DEF Smooth, NoFatalEnd, senderVars, receiverVars
<1>4. ~DecideSendFails
  BY CalmFacts DEF DecideSendFails, Smooth, Plain
<1>5. CASE SenderReads
  <2> DEFINE m == Head(toSender)
  <2> toSender # <<>> /\ toSender' = Tail(toSender) /\ UNCHANGED <<toReceiver, sMain, sExit, receiverVars>>
    BY <1>5 DEF SenderReads
  <2> Msgs(toSender) = {m} \cup Msgs(toSender') /\ m \in ToSender
    BY ReadQueue
  <2>3. m.type \in {"decision", "ack", "close"}
    BY SMT DEF Smooth
  <2>4. sFatal' = sFatal
    BY <1>5, <2>3, ZenonT(30) DEF SenderReads
  <2>5. IF m.type = "ack" THEN ackBox' = m.done ELSE ackBox' = ackBox
    BY <1>5, <2>3 DEF SenderReads
  <2>6. m.type = "ack" => m.done # None
    <3>1. m.type = "ack" => m.done \in SUBSET File
      BY DEF ToSender, Acks, Decisions, Endings, Codes
    <3> QED
      BY <3>1, NoneAssumption
  <2>7. (Running' <=> Running) /\ Msgs(toReceiver') = Msgs(toReceiver)
    BY DEF Running, receiverVars
  <2> HIDE DEF m
  <2>8. ackBox # None \/ (\E n \in Msgs(toSender) : n.type = "ack")
          => ackBox' # None \/ \E n \in Msgs(toSender') : n.type = "ack"
    BY <2>5, <2>6, SMT
  <2>9. \A n \in Msgs(toSender') : n \in Msgs(toSender)
    OBVIOUS
  <2> QED
    BY <2>4, <2>7, <2>8, <2>9 DEF Smooth, NoFatalEnd, receiverVars
<1>6. CASE Ended \/ UNCHANGED vars
  <2>1. UNCHANGED <<toSender, toReceiver, senderVars, receiverVars>>
    BY <1>6 DEF Ended, vars, wireVars
  <2> QED
    BY <1>1, <2>1, SMT
<1>7. ~SenderMishap /\ ~ReceiverMishap
  BY DEF SenderMishap, ReceiverMishap, Plain
<1>8. ~FatalCause
  BY CauseStays
<1> QED
  BY <1>2, <1>3, <1>4, <1>5, <1>6, <1>7, <1>8, SmoothSender, SmoothReceiver DEF Next,
     Decider

\* At the start nothing is asked for, recorded or said.
LEMMA PlainInit == Init => PlainInv
<1> SUFFICES ASSUME Init PROVE PlainInv
  OBVIOUS
<1>1. EndInv
  BY EndInit
<1> /\ toSender = <<>> /\ toReceiver = <<>> /\ needed = {} /\ sFailed = {}
    /\ sMain = "wait" /\ rMain = "pipeline" /\ sFatal = None /\ rFault = None /\ sExit = None /\ rExit = None
    /\ \A c \in Channel : outcome[c] = None
  BY DEF Init
<1> Msgs(toSender) = {} /\ Msgs(toReceiver) = {} /\ None # "E6003" /\ None # 2
  BY NoMessages, NoneAssumption, SMT
<1>2. Known
  BY DEF Known, Announced
<1>3. Final
  BY DEF Final, GoneAtSource
<1>4. Smooth
  BY SMT DEF Smooth, NoFatalEnd, Running
<1> QED
  BY <1>1, <1>2, <1>3, <1>4 DEF PlainInv

\* A session ends fatally only for a cause.  While both processes and their
\* connection live, and as long as timeouts wait until both sides stand still,
\* neither side exits 2 unless the disk is full, a failed link was fetched
\* behind the tracker's back, or the receiver gave up on a file that the sender
\* takes for delivered or still waits for.  This is for any plan, hardlinks,
\* rejected entries, channels and retries, and for every fault of a file at the
\* source and at the destination.  In particular, without such a cause no
\* timeout expires: tracker.wait, the wait for the summary and the wait for its
\* acknowledgement all end because what they wait for has happened.
THEOREM FatalEndsHaveCause ==
    ASSUME Patient, Mishaps = {}
    PROVE  Spec => []FatalForCause
<1> Plain
  BY DEF Plain
<1> DEFINE Inv == EndInv /\ (FatalCause \/ PlainInv)
<1>1. Init => Inv
  BY EndInit, PlainInit
<1>2. Inv /\ [Next]_vars => Inv'
  <2> SUFFICES ASSUME EndInv, FatalCause \/ PlainInv, [Next]_vars PROVE Inv'
    OBVIOUS
  <2>1. EndInv'
    BY EndStep
  <2>2. IInv
    BY DEF EndInv
  <2>3. CASE FatalCause
    BY <2>1, <2>2, <2>3, CauseStays
  <2>4. ASSUME PlainInv, ~FatalCause' PROVE PlainInv'
    <3>1. Known /\ Final /\ Smooth
      BY <2>4 DEF PlainInv
    <3>2. Known' /\ Final'
      BY <2>2, <2>4, <3>1, KnownStep, FinalStep
    <3>3. Smooth'
      BY <2>4, SmoothStep
    <3> QED
      BY <2>1, <3>2, <3>3 DEF PlainInv
  <2> QED
    BY <2>1, <2>3, <2>4
<1>3. Inv => FatalForCause
  BY DEF PlainInv, Smooth, NoFatalEnd, FatalForCause
<1> QED
  BY <1>1, <1>2, <1>3, PTL DEF Spec

=============================================================================
