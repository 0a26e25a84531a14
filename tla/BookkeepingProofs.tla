-------------------------- MODULE BookkeepingProofs --------------------------
(***************************************************************************)
(* Proofs about what the sender counts: the credit of the manifests and    *)
(* the work of its tracker.  Zenon checks the leaves that name no prover.  *)
(***************************************************************************)
EXTENDS CreditFlow, Tracker, TLAPS, FiniteSetTheorems

USE ZenonT(30)

-----------------------------------------------------------------------------
(***************************************************************************)
(* CreditFlow.  The flow of manifests and credit is right for every number *)
(* of decide workers, every grant and every plan.                          *)
(*                                                                         *)
(* INV-2 is not inductive.  It needs that a unit of credit is added for a  *)
(* group at most once and only behind the group's decision, and that is a  *)
(* fact about what the workers hold and about the order of the messages on *)
(* the control channel (Exchange below).  That the pool decides all groups *)
(* (Duty) and that the claims fit the disk (Space) come on top of it.      *)
(***************************************************************************)

DecisionOf(g) == [type |-> "decision", g |-> g]
CreditOf(g) == [type |-> "credit", g |-> g]

\* The group's decision has been sent.
Told(g) == g \in decided \/ \E i \in DOMAIN answers : answers[i] = DecisionOf(g)

\* The unit the publisher holds between acquire and the send.
Spent == IF publisher = "publish" THEN 1 ELSE 0

Balance ==
    /\ avail + next + Spent <= GroupCredit + Cardinality(credited)
    /\ publisher # "stopped" => avail + next + Spent = GroupCredit + Cardinality(credited)

\* Workers hold different groups that have been taken, no credit is out for
\* a group still held, and a group past its first send has been told.
Held ==
    \A w \in Decider : AtWork(w) =>
        /\ decider[w].g \in 0 .. taken - 1
        /\ \A v \in Decider : v # w /\ AtWork(v) => decider[v].g # decider[w].g
        /\ decider[w].g \notin credited
        /\ \A i \in DOMAIN answers : answers[i] # CreditOf(decider[w].g)
        /\ decider[w].at # "decide" => Told(decider[w].g)

\* Each credit on the wire is the only one of its group and comes behind the
\* group's decision.
Ordered ==
    \A j \in DOMAIN answers :
        /\ answers[j].g \in 0 .. taken - 1
        /\ answers[j].type = "credit" =>
             /\ answers[j].g \notin credited
             /\ \A i \in DOMAIN answers : i # j => answers[i] # answers[j]
             /\ \/ answers[j].g \in decided
                \/ \E i \in DOMAIN answers : i < j /\ answers[i] = DecisionOf(answers[j].g)

Applied == credited \subseteq decided /\ decided \subseteq 0 .. taken - 1

Exchange == Held /\ Ordered /\ Applied

\* The publisher's loop, manifestCh and the count that closes it.
Counted ==
    /\ publisher \in {"acquire", "asleep", "publish"} => next < groups
    /\ publisher = "scan" => scan = "unsent"
    /\ scan = "read" => total = groups
    /\ scan # "read" => total = -1 /\ received = 0
    /\ ClosedAfterLast

CreditIInv == CreditTypeOK /\ Balance /\ Exchange /\ Counted

\* While the session is well, the control reader runs, every group taken has
\* been told or is with a worker that will tell it, and a worker that has
\* left saw manifestCh closed and empty.
Duty ==
    /\ ~reader => cancelled
    /\ ~cancelled =>
         /\ \A g \in 0 .. taken - 1 :
              Told(g) \/ \E w \in Decider : decider[w].at = "decide" /\ decider[w].g = g
         /\ \A w \in Decider : decider[w].at = "gone" => closed /\ taken = received

\* The bytes the guard has admitted have places of their own on the disk: C
\* are the places of the bytes pushed, S[w] those of the group worker w is
\* about to push, and all lie below the running requirement.
Places(S, C) ==
    /\ Cardinality(C) = claimed
    /\ \A n \in C : n < required
    /\ \A w \in Decider : decider[w].at = "push" =>
         /\ Cardinality(S[w]) = decider[w].need.bytes
         /\ \A n \in S[w] : n < required /\ n \notin C
         /\ \A v \in Decider : v # w /\ decider[v].at = "push" => S[v] \cap S[w] = {}

Disk == 0 .. Free - 1

Space == \E S \in [Decider -> SUBSET Disk], C \in SUBSET Disk : Places(S, C)

-----------------------------------------------------------------------------
\* The sets of groups are finite, and a set of taken groups has at most
\* taken members.
LEMMA FiniteGroups ==
    ASSUME CreditTypeOK, Applied
    PROVE  /\ IsFiniteSet(credited) /\ Cardinality(credited) \in Nat
           /\ IsFiniteSet(decided) /\ Cardinality(decided) \in Nat
           /\ Cardinality(credited) <= Cardinality(decided)
           /\ Cardinality(decided) <= taken
<1>1. taken \in Nat
  BY SMT DEF CreditTypeOK
<1>2. IsFiniteSet(0 .. taken - 1) /\ Cardinality(0 .. taken - 1) = taken
  BY <1>1, FS_Interval, SMT
<1>3. IsFiniteSet(decided) /\ Cardinality(decided) <= Cardinality(0 .. taken - 1)
  BY <1>2, FS_Subset DEF Applied
<1>4. IsFiniteSet(credited) /\ Cardinality(credited) <= Cardinality(decided)
  BY <1>3, FS_Subset DEF Applied
<1> QED
  BY <1>2, <1>3, <1>4, FS_CardinalityType

\* Only moves of a worker's place, and a new group when it takes one.
LEMMA StepTyped ==
    ASSUME CreditTypeOK, NEW w \in Decider, NEW to \in DeciderState, Advance(w, to)
    PROVE  /\ decider' \in [Decider -> [at : DeciderState, g : 0 .. MaxGroups,
                                        need : Needs \cup {Nothing}]]
           /\ \A v \in Decider : v # w => decider'[v] = decider[v]
           /\ decider'[w].at = to
           /\ to \in Busy => decider'[w].g = decider[w].g /\ decider'[w].need = decider[w].need
<1> DEFINE R == [at : DeciderState, g : 0 .. MaxGroups, need : Needs \cup {Nothing}]
<1> decider \in [Decider -> R]
  BY DEF CreditTypeOK
<1>2. Idle \in R
  BY CreditAssumption, SMT DEF Idle, Nothing, DeciderState
<1>3. decider[w] \in R
  OBVIOUS
<1> DEFINE old == IF to \in Busy THEN decider[w] ELSE Idle
<1>4. old \in R
  BY <1>2, <1>3
<1> HIDE DEF old
<1>5. [old EXCEPT !.at = to] \in R /\ [old EXCEPT !.at = to].at = to
      /\ [old EXCEPT !.at = to].g = old.g /\ [old EXCEPT !.at = to].need = old.need
  BY <1>4
<1>6. decider' = [decider EXCEPT ![w] = [old EXCEPT !.at = to]]
  BY DEF Advance, old
<1>7. decider'[w] = [old EXCEPT !.at = to]
  BY <1>6
<1>8. to \in Busy => old.g = decider[w].g /\ old.need = decider[w].need
  BY DEF old
<1> QED
  BY <1>5, <1>6, <1>7, <1>8

-----------------------------------------------------------------------------
(* The exchange of answers. *)

\* Actions that touch neither the workers nor the answers.
LEMMA QuietExchange ==
    ASSUME Exchange, UNCHANGED <<answers, decider, decided, credited, taken>>
    PROVE  Exchange'
BY SMT DEF Exchange, Held, Ordered, Applied, AtWork, Told

\* A worker that has told its group moves on, or leaves its group.
LEMMA MoveExchange ==
    ASSUME CreditTypeOK, Exchange, NEW w \in Decider, NEW to \in DeciderState, Advance(w, to),
           to \in Busy => AtWork(w) /\ decider[w].at # "decide",
           UNCHANGED <<answers, decided, credited, taken>>
    PROVE  Exchange'
<1>1. /\ \A v \in Decider : v # w => decider'[v] = decider[v]
      /\ decider'[w].at = to
      /\ to \in Busy => decider'[w].g = decider[w].g
  BY StepTyped
<1>2. Held'
  <2> SUFFICES ASSUME NEW v \in Decider, AtWork(v)'
               PROVE  /\ decider'[v].g \in 0 .. taken - 1
                      /\ \A u \in Decider : u # v /\ AtWork(u)' => decider'[u].g # decider'[v].g
                      /\ decider'[v].g \notin credited
                      /\ \A i \in DOMAIN answers : answers[i] # CreditOf(decider'[v].g)
                      /\ decider'[v].at # "decide" => Told(decider'[v].g)
    BY DEF Held, Told
  <2>1. \A u \in Decider : AtWork(u)' => AtWork(u) /\ decider'[u].g = decider[u].g
    BY <1>1 DEF AtWork
  <2>2. decider'[v].at # "decide" => decider[v].at # "decide"
    BY <1>1 DEF AtWork
  <2> QED
    BY <2>1, <2>2 DEF Exchange, Held
<1>3. Ordered' /\ Applied'
  BY SMT DEF Exchange, Ordered, Applied
<1> QED
  BY <1>2, <1>3 DEF Exchange

\* A worker takes the next group, which nobody has held before.
LEMMA TakeExchange ==
    ASSUME CreditTypeOK, Exchange, NEW w \in Decider, Take(w)
    PROVE  Exchange'
<1> USE SMT
<1>1. PICK need \in Needs :
        decider' = [decider EXCEPT ![w] = [at |-> "decide", g |-> taken, need |-> need]]
  BY Zenon DEF Take
<1> taken' = taken + 1 /\ taken \in Nat
  BY DEF Take, CreditTypeOK
<1>3. UNCHANGED <<answers, decided, credited>>
  BY DEF Take, senderVars
<1>4. /\ decider'[w].at = "decide" /\ decider'[w].g = taken
      /\ \A v \in Decider : v # w => decider'[v] = decider[v]
  BY <1>1 DEF CreditTypeOK
<1>5. Applied'
  BY <1>3 DEF Exchange, Applied
<1>6. Ordered'
  BY <1>3 DEF Exchange, Ordered
<1>7. Held'
  <2> SUFFICES ASSUME NEW v \in Decider, AtWork(v)'
               PROVE  /\ decider'[v].g \in 0 .. taken' - 1
                      /\ \A u \in Decider : u # v /\ AtWork(u)' => decider'[u].g # decider'[v].g
                      /\ decider'[v].g \notin credited
                      /\ \A i \in DOMAIN answers : answers[i] # CreditOf(decider'[v].g)
                      /\ decider'[v].at # "decide" => Told(decider'[v].g)
    BY <1>3 DEF Held, Told
  <2>1. \A u \in Decider : u # w /\ AtWork(u)' =>
            AtWork(u) /\ decider'[u].g = decider[u].g /\ decider[u].g \in 0 .. taken - 1
    BY <1>4 DEF AtWork, Exchange, Held
  <2>2. CASE v = w
    <3>1. taken \notin credited
      BY DEF Exchange, Applied
    <3>2. \A i \in DOMAIN answers : answers[i] # CreditOf(taken)
      BY DEF Exchange, Ordered, CreditOf
    <3> QED
      BY <1>4, <2>1, <2>2, <3>1, <3>2
  <2>3. CASE v # w
    <3>1. AtWork(v) /\ decider'[v] = decider[v] /\ decider[v].g \in 0 .. taken - 1
      BY <1>4, <2>1, <2>3
    <3>2. \A u \in Decider : u # v /\ AtWork(u)' => decider'[u].g # decider'[v].g
      BY <1>4, <2>1, <2>3, <3>1 DEF Exchange, Held
    <3> QED
      BY <3>1, <3>2 DEF Exchange, Held
  <2> QED
    BY <2>2, <2>3
<1> QED
  BY <1>5, <1>6, <1>7 DEF Exchange

\* What appending a message does to the positions.
LEMMA Appended ==
    ASSUME answers \in Seq(Answer), NEW m \in Answer, answers' = Append(answers, m)
    PROVE  /\ answers' \in Seq(Answer)
           /\ DOMAIN answers = 1 .. Len(answers) /\ Len(answers) \in Nat
           /\ DOMAIN answers' = 1 .. Len(answers) + 1
           /\ \A i \in DOMAIN answers : answers'[i] = answers[i]
           /\ answers'[Len(answers) + 1] = m
BY SMT

\* GROUP_DECISION: the group is told from now on.
LEMMA DecisionExchange ==
    ASSUME CreditTypeOK, Exchange, NEW w \in Decider, SendDecision(w)
    PROVE  Exchange' /\ answers' \in Seq(Answer)
<1> DEFINE g == decider[w].g
<1> AtWork(w) /\ UNCHANGED <<decided, credited, taken>> /\ answers \in Seq(Answer)
  BY DEF SendDecision, AtWork, Busy, senderVars, CreditTypeOK
<1>2. g \in 0 .. taken - 1 /\ g \in GroupId /\ taken \in Nat
  BY CreditAssumption, SMT DEF Exchange, Held, CreditTypeOK, GroupId
<1>3. CASE answers' = Append(answers, DecisionOf(g)) /\ Advance(w, "reserve")
  <2>1. /\ answers' \in Seq(Answer)
        /\ DOMAIN answers = 1 .. Len(answers) /\ Len(answers) \in Nat
        /\ DOMAIN answers' = 1 .. Len(answers) + 1
        /\ \A i \in DOMAIN answers : answers'[i] = answers[i]
        /\ answers'[Len(answers) + 1] = DecisionOf(g)
    <3>1. DecisionOf(g) \in Answer
      BY <1>2 DEF DecisionOf, Answer
    <3> QED
      BY <1>3, <3>1, Appended
  <2>2. /\ \A v \in Decider : v # w => decider'[v] = decider[v]
        /\ decider'[w].at = "reserve" /\ decider'[w].g = g
    BY <1>3, StepTyped DEF DeciderState, Busy
  <2>3. \A h : Told(h) \/ h = g => Told(h)'
    BY <2>1, SMT DEF Told
  <2>4. \A h, i : i \in DOMAIN answers' /\ answers'[i] = CreditOf(h)
                    => i \in DOMAIN answers /\ answers[i] = CreditOf(h)
    BY <2>1, SMT DEF CreditOf, DecisionOf
  <2>5. Held'
    <3> SUFFICES ASSUME NEW v \in Decider, AtWork(v)'
                 PROVE  /\ decider'[v].g \in 0 .. taken - 1
                        /\ \A u \in Decider : u # v /\ AtWork(u)' => decider'[u].g # decider'[v].g
                        /\ decider'[v].g \notin credited
                        /\ \A i \in DOMAIN answers' : answers'[i] # CreditOf(decider'[v].g)
                        /\ decider'[v].at # "decide" => Told(decider[v].g)'
      BY DEF Held
    <3> \A u \in Decider : AtWork(u)' => AtWork(u) /\ decider'[u].g = decider[u].g
      BY <2>2 DEF AtWork
    <3>2. decider'[v].at # "decide" => Told(decider[v].g)'
      BY <2>2, <2>3 DEF Exchange, Held
    <3>3. \A i \in DOMAIN answers' : answers'[i] # CreditOf(decider'[v].g)
      BY <2>4, SMT DEF Exchange, Held
    <3> QED
      BY <3>2, <3>3 DEF Exchange, Held
  <2>6. Ordered'
    <3> USE SMT
    <3> SUFFICES ASSUME NEW j \in DOMAIN answers'
                 PROVE  /\ answers'[j].g \in 0 .. taken - 1
                        /\ answers'[j].type = "credit" =>
                             /\ answers'[j].g \notin credited
                             /\ \A i \in DOMAIN answers' : i # j => answers'[i] # answers'[j]
                             /\ \/ answers'[j].g \in decided
                                \/ \E i \in DOMAIN answers' :
                                     i < j /\ answers'[i] = DecisionOf(answers'[j].g)
      BY DEF Ordered
    <3>1. CASE j = Len(answers) + 1
      BY <1>2, <2>1, <3>1 DEF DecisionOf
    <3>2. CASE j \in DOMAIN answers
      <4>1. answers'[j] = answers[j]
        BY <2>1, <3>2
      <4>2. answers'[Len(answers) + 1].type = "decision"
        BY <2>1 DEF DecisionOf
      <4>3. answers[j].type = "credit" =>
                \A i \in DOMAIN answers' : i # j => answers'[i] # answers'[j]
        BY <2>1, <3>2, <4>1, <4>2 DEF Exchange, Ordered
      <4> QED
        BY <2>1, <3>2, <4>1, <4>3 DEF Exchange, Ordered
    <3> QED
      BY <2>1, <3>1, <3>2
  <2> QED
    BY <2>1, <2>5, <2>6 DEF Exchange, Applied
<1>4. CASE Fails(w) /\ UNCHANGED answers
  BY <1>4, MoveExchange DEF Fails, DeciderState, Busy
<1> QED
  BY <1>3, <1>4 DEF SendDecision, Send, DecisionOf

\* CREDIT: the worker lets go of its group, whose decision is on the wire or
\* applied already.
LEMMA CreditExchange ==
    ASSUME CreditTypeOK, Exchange, NEW w \in Decider, SendCredit(w)
    PROVE  Exchange' /\ answers' \in Seq(Answer)
<1> DEFINE g == decider[w].g
<1> /\ AtWork(w) /\ decider[w].at # "decide"
    /\ UNCHANGED <<decided, credited, taken>> /\ answers \in Seq(Answer)
  BY DEF SendCredit, AtWork, Busy, senderVars, CreditTypeOK
<1>2. /\ g \in 0 .. taken - 1 /\ g \in GroupId /\ taken \in Nat
      /\ g \notin credited /\ Told(g)
      /\ \A i \in DOMAIN answers : answers[i] # CreditOf(g)
  BY CreditAssumption, SMT DEF Exchange, Held, CreditTypeOK, GroupId
<1>3. CASE answers' = Append(answers, CreditOf(g)) /\ Advance(w, "idle")
  <2>1. /\ answers' \in Seq(Answer)
        /\ DOMAIN answers = 1 .. Len(answers) /\ Len(answers) \in Nat
        /\ DOMAIN answers' = 1 .. Len(answers) + 1
        /\ \A i \in DOMAIN answers : answers'[i] = answers[i]
        /\ answers'[Len(answers) + 1] = CreditOf(g)
    <3>1. CreditOf(g) \in Answer
      BY <1>2 DEF CreditOf, Answer
    <3> QED
      BY <1>3, <3>1, Appended
  <2>2. /\ \A v \in Decider : v # w => decider'[v] = decider[v]
        /\ decider'[w].at = "idle"
    BY <1>3, StepTyped DEF DeciderState
  <2>3. \A h : Told(h) => Told(h)'
    BY <2>1, SMT DEF Told
  <2>4. Held'
    <3> SUFFICES ASSUME NEW v \in Decider, AtWork(v)'
                 PROVE  /\ decider'[v].g \in 0 .. taken - 1
                        /\ \A u \in Decider : u # v /\ AtWork(u)' => decider'[u].g # decider'[v].g
                        /\ decider'[v].g \notin credited
                        /\ \A i \in DOMAIN answers' : answers'[i] # CreditOf(decider'[v].g)
                        /\ decider'[v].at # "decide" => Told(decider[v].g)'
      BY DEF Held
    <3> \A u \in Decider : AtWork(u)' => u # w /\ AtWork(u) /\ decider'[u] = decider[u]
      BY <2>2 DEF AtWork, Busy
    <3>2. decider[v].g # g
      BY DEF Exchange, Held
    <3>3. \A i \in DOMAIN answers' : answers'[i] # CreditOf(decider'[v].g)
      <4>1. CreditOf(g) # CreditOf(decider[v].g)
        BY <3>2 DEF CreditOf
      <4> QED
        BY <2>1, <4>1, SMT DEF Exchange, Held
    <3>4. decider'[v].at # "decide" => Told(decider[v].g)'
      BY <2>3 DEF Exchange, Held
    <3> QED
      BY <3>3, <3>4 DEF Exchange, Held
  <2>5. Ordered'
    <3> USE SMT
    <3> SUFFICES ASSUME NEW j \in DOMAIN answers'
                 PROVE  /\ answers'[j].g \in 0 .. taken - 1
                        /\ answers'[j].type = "credit" =>
                             /\ answers'[j].g \notin credited
                             /\ \A i \in DOMAIN answers' : i # j => answers'[i] # answers'[j]
                             /\ \/ answers'[j].g \in decided
                                \/ \E i \in DOMAIN answers' :
                                     i < j /\ answers'[i] = DecisionOf(answers'[j].g)
      BY DEF Ordered
    <3>1. CASE j = Len(answers) + 1
      <4>1. answers'[j] = CreditOf(g) /\ answers'[j].g = g
        BY <2>1, <3>1 DEF CreditOf
      <4>2. \A i \in DOMAIN answers' : i # j => answers'[i] # answers'[j]
        BY <1>2, <2>1, <3>1, <4>1
      <4>3. g \in decided \/ \E i \in DOMAIN answers' : i < j /\ answers'[i] = DecisionOf(g)
        BY <1>2, <2>1, <3>1 DEF Told
      <4> QED
        BY <1>2, <4>1, <4>2, <4>3
    <3>2. CASE j \in DOMAIN answers
      <4>1. answers'[j] = answers[j]
        BY <2>1, <3>2
      <4>2. answers'[Len(answers) + 1] # answers[j]
        BY <1>2, <2>1, <3>2
      <4>3. answers[j].type = "credit" =>
                \A i \in DOMAIN answers' : i # j => answers'[i] # answers'[j]
        BY <2>1, <3>2, <4>1, <4>2 DEF Exchange, Ordered
      <4> QED
        BY <2>1, <3>2, <4>1, <4>3 DEF Exchange, Ordered
    <3> QED
      BY <2>1, <3>1, <3>2
  <2> QED
    BY <2>1, <2>4, <2>5 DEF Exchange, Applied
<1>4. CASE Fails(w) /\ UNCHANGED answers
  BY <1>4, MoveExchange DEF Fails, DeciderState, Busy
<1> QED
  BY <1>3, <1>4 DEF SendCredit, Send, CreditOf

\* The sender applies the first answer: a decision may be a repetition, a
\* credit never is, and its decision has been applied before.
LEMMA ReadExchange ==
    ASSUME CreditTypeOK, Exchange, SenderReads
    PROVE  /\ Exchange' /\ answers' \in Seq(Answer)
           /\ decided' \subseteq GroupId /\ credited' \subseteq GroupId
           /\ Head(answers).type = "credit" => Head(answers).g \notin credited
           /\ \A h : Told(h) => Told(h)'
<1> DEFINE m == Head(answers)
<1>1. /\ answers \in Seq(Answer) /\ answers # <<>>
      /\ answers' = Tail(answers)
      /\ UNCHANGED <<decider, taken>>
  BY DEF SenderReads, CreditTypeOK
<1>2. /\ DOMAIN answers = 1 .. Len(answers) /\ Len(answers) \in Nat /\ Len(answers) > 0
      /\ m = answers[1] /\ m \in Answer
      /\ answers' \in Seq(Answer) /\ DOMAIN answers' = 1 .. Len(answers) - 1
      /\ \A i \in DOMAIN answers' : answers'[i] = answers[i + 1]
  BY <1>1, SMT
<1>3. m.type \in {"decision", "credit"} /\ m.g \in GroupId /\ m.g \in 0 .. taken - 1
  BY <1>2, SMT DEF Answer, Exchange, Ordered
<1>4. m.type = "credit" => m.g \notin credited /\ m.g \in decided
  BY <1>2, SMT DEF Exchange, Ordered
<1>5. /\ decided' = IF m.type = "decision" THEN decided \cup {m.g} ELSE decided
      /\ credited' = IF m.type = "credit" THEN credited \cup {m.g} ELSE credited
  BY <1>3 DEF SenderReads
<1>6. Applied'
  BY <1>1, <1>3, <1>4, <1>5 DEF Exchange, Applied
<1>7. m.type = "decision" => m = DecisionOf(m.g)
  BY <1>2 DEF Answer, DecisionOf
<1>8. m.type = "credit" => m = CreditOf(m.g)
  BY <1>2 DEF Answer, CreditOf
<1>9. \A h : Told(h) => Told(h)'
  <2> SUFFICES ASSUME NEW h, Told(h) PROVE Told(h)'
    OBVIOUS
  <2>1. CASE h \in decided
    BY <1>5, <2>1 DEF Told
  <2>2. CASE \E i \in DOMAIN answers : answers[i] = DecisionOf(h)
    <3>1. PICK i \in DOMAIN answers : answers[i] = DecisionOf(h)
      BY <2>2
    <3>2. CASE i = 1
      BY <1>2, <1>5, <3>1, <3>2, SMT DEF Told, DecisionOf
    <3>3. CASE i # 1
      <4>1. i - 1 \in DOMAIN answers' /\ answers'[i - 1] = DecisionOf(h)
        BY <1>2, <3>1, <3>3, SMT
      <4> QED
        BY <4>1 DEF Told
    <3> QED
      BY <3>2, <3>3
  <2> QED
    BY <2>1, <2>2 DEF Told
<1>10. Held'
  <2> SUFFICES ASSUME NEW v \in Decider, AtWork(v)
               PROVE  /\ decider[v].g \in 0 .. taken - 1
                      /\ \A u \in Decider : u # v /\ AtWork(u) => decider[u].g # decider[v].g
                      /\ decider[v].g \notin credited'
                      /\ \A i \in DOMAIN answers' : answers'[i] # CreditOf(decider[v].g)
                      /\ decider[v].at # "decide" => Told(decider[v].g)'
    BY <1>1 DEF Held, AtWork
  <2>1. \A i \in DOMAIN answers : answers[i] # CreditOf(decider[v].g)
    BY DEF Exchange, Held
  <2>2. decider[v].g \notin credited'
    BY <1>2, <1>5, <1>8, <2>1, SMT DEF Exchange, Held
  <2>3. \A i \in DOMAIN answers' : answers'[i] # CreditOf(decider[v].g)
    BY <1>2, <2>1, SMT
  <2>4. decider[v].at # "decide" => Told(decider[v].g)'
    <3>1. decider[v].at # "decide" => Told(decider[v].g)
      BY DEF Exchange, Held
    <3>2. Told(decider[v].g) => Told(decider[v].g)'
      BY <1>1, <1>9 DEF Told
    <3> QED
      BY <3>1, <3>2
  <2> QED
    BY <2>2, <2>3, <2>4 DEF Exchange, Held
<1>11. Ordered'
  <2> SUFFICES ASSUME NEW j \in DOMAIN answers'
               PROVE  /\ answers'[j].g \in 0 .. taken - 1
                      /\ answers'[j].type = "credit" =>
                           /\ answers'[j].g \notin credited'
                           /\ \A i \in DOMAIN answers' : i # j => answers'[i] # answers'[j]
                           /\ \/ answers'[j].g \in decided'
                              \/ \E i \in DOMAIN answers' :
                                   i < j /\ answers'[i] = DecisionOf(answers'[j].g)
    BY <1>1 DEF Ordered
  <2> j + 1 \in DOMAIN answers /\ answers'[j] = answers[j + 1] /\ 1 \in DOMAIN answers
    BY <1>2, SMT
  <2>2. answers[j + 1].g \in 0 .. taken - 1
    BY DEF Exchange, Ordered
  <2>3. ASSUME answers[j + 1].type = "credit"
        PROVE  /\ answers'[j].g \notin credited'
               /\ \A i \in DOMAIN answers' : i # j => answers'[i] # answers'[j]
               /\ \/ answers'[j].g \in decided'
                  \/ \E i \in DOMAIN answers' : i < j /\ answers'[i] = DecisionOf(answers'[j].g)
    <3> USE SMT
    <3> DEFINE c == answers[j + 1]
    <3>1. /\ c.g \notin credited
          /\ \A i \in DOMAIN answers : i # j + 1 => answers[i] # c
          /\ \/ c.g \in decided
             \/ \E i \in DOMAIN answers : i < j + 1 /\ answers[i] = DecisionOf(c.g)
      BY <2>3 DEF Exchange, Ordered
    <3>2. c = CreditOf(c.g)
      <4>1. c \in Answer /\ c.type = "credit"
        BY <1>1, <2>3
      <4> QED
        BY <4>1 DEF Answer, CreditOf
    <3>3. m # c
      BY <1>2, <3>1
    <3>4. c.g \notin credited'
      BY <1>5, <1>8, <3>1, <3>2, <3>3, SMTT(20)
    <3>5. \A i \in DOMAIN answers' : i # j => answers'[i] # c
      BY <1>2, <3>1
    <3>6. c.g \in decided' \/ \E i \in DOMAIN answers' : i < j /\ answers'[i] = DecisionOf(c.g)
      <4>1. CASE c.g \in decided
        BY <1>5, <4>1
      <4>2. CASE \E i \in DOMAIN answers : i < j + 1 /\ answers[i] = DecisionOf(c.g)
        <5>1. PICK i \in DOMAIN answers : i < j + 1 /\ answers[i] = DecisionOf(c.g)
          BY <4>2, Zenon
        <5>2. CASE i = 1
          BY <1>2, <1>5, <5>1, <5>2, SMTT(20) DEF DecisionOf
        <5>3. CASE i # 1
          <6>1. i - 1 \in DOMAIN answers' /\ i - 1 < j /\ answers'[i - 1] = DecisionOf(c.g)
            BY <1>2, <5>1, <5>3
          <6> QED
            BY <6>1
        <5> QED
          BY <5>2, <5>3
      <4> QED
        BY <3>1, <4>1, <4>2
    <3> QED
      BY <3>4, <3>5, <3>6
  <2> QED
    BY <2>2, <2>3
<1> QED
  BY <1>2, <1>3, <1>4, <1>5, <1>6, <1>9, <1>10, <1>11 DEF Exchange, CreditTypeOK

-----------------------------------------------------------------------------
(* The counters. *)

\* Actions that leave the publisher and its credit alone.
LEMMA QuietBalance ==
    ASSUME Balance, UNCHANGED <<publisher, avail, next, credited>>
    PROVE  Balance'
BY DEF Balance, Spent

\* Actions that leave the publisher's loop and the control reader alone.
LEMMA QuietCounted ==
    ASSUME Counted, UNCHANGED <<groups, publisher, next, scan, total, received, reader, closed>>
    PROVE  Counted'
BY DEF Counted, ClosedAfterLast

\* The sender's manifest goroutine: each unit it takes goes into one manifest.
LEMMA PublisherStep ==
    ASSUME CreditIInv, SendScan \/ Acquire \/ AcquireWoken \/ Publish
    PROVE  CreditIInv'
<1> USE DEF CreditIInv
<1> /\ Cardinality(credited) \in Nat /\ avail \in Nat /\ next \in Nat /\ groups \in Nat
    /\ GroupCredit \in Nat /\ next <= groups
  BY FiniteGroups, CreditAssumption, SMT DEF Exchange, CreditTypeOK
<1>1. Exchange'
  BY QuietExchange DEF SendScan, Acquire, AcquireWoken, Publish
<1>2. CASE SendScan
  <2>1. CreditTypeOK'
    BY <1>2 DEF CreditTypeOK, SendScan, readerVars, spaceVars, failureVars, Loop,
       PublisherState
  <2>2. Balance'
    BY <1>2 DEF SendScan, Loop, Balance, Spent
  <2>3. Counted'
    BY <1>2, SMTT(20) DEF SendScan, readerVars, Loop, Counted, ClosedAfterLast
  <2> QED
    BY <1>1, <2>1, <2>2, <2>3
<1>3. CASE Acquire
  <2>1. CreditTypeOK'
    BY <1>3, SMT DEF CreditTypeOK, Acquire, readerVars, spaceVars, failureVars,
       PublisherState
  <2>2. Balance'
    BY <1>3, SMT DEF Acquire, Balance, Spent
  <2>3. Counted'
    BY <1>3 DEF Acquire, readerVars, Counted, ClosedAfterLast
  <2> QED
    BY <1>1, <2>1, <2>2, <2>3
<1>4. CASE AcquireWoken
  <2>1. CreditTypeOK'
    BY <1>4, SMT DEF CreditTypeOK, AcquireWoken, readerVars, spaceVars, failureVars,
       PublisherState
  <2>2. Balance'
    BY <1>4 DEF AcquireWoken, Balance, Spent
  <2>3. Counted'
    BY <1>4 DEF AcquireWoken, readerVars, Counted, ClosedAfterLast
  <2> QED
    BY <1>1, <2>1, <2>2, <2>3
<1>5. CASE Publish
  <2>0. next < groups
    BY <1>5 DEF Publish, Counted
  <2>1. CreditTypeOK'
    <3>1. next' \in 0 .. groups /\ received \in 0 .. next' /\ publisher' \in PublisherState
      BY <1>5, <2>0, SMT DEF Publish, CreditTypeOK, PublisherState, Loop
    <3>2. senderDone' \in BOOLEAN
      BY <1>5 DEF Publish, CreditTypeOK
    <3> QED
      BY <1>5, <3>1, <3>2 DEF CreditTypeOK, Publish, readerVars, spaceVars, failureVars
  <2>2. Balance'
    BY <1>5, SMT DEF Publish, Balance, Spent, Loop
  <2>3. Counted'
    BY <1>5, <2>0, SMT DEF Publish, readerVars, Counted, ClosedAfterLast, Loop
  <2> QED
    BY <1>1, <2>1, <2>2, <2>3
<1> QED
  BY <1>2, <1>3, <1>4, <1>5

\* The sender's control reader: a credit adds one unit and one group.
LEMMA SenderReadsStep ==
    ASSUME CreditIInv, SenderReads
    PROVE  CreditIInv'
<1> USE DEF CreditIInv
<1> DEFINE m == Head(answers)
<1> /\ Exchange' /\ answers' \in Seq(Answer)
    /\ decided' \subseteq GroupId /\ credited' \subseteq GroupId
    /\ m.type = "credit" => m.g \notin credited
  BY ReadExchange
<1>2. IsFiniteSet(credited) /\ Cardinality(credited) \in Nat
  BY FiniteGroups DEF Exchange
<1>3. CASE m.type = "decision"
  <2> UNCHANGED <<credited, avail, publisher>>
    BY <1>3 DEF SenderReads
  <2>2. CreditTypeOK'
    BY SMT DEF CreditTypeOK, SenderReads, readerVars, spaceVars, failureVars
  <2>3. Balance'
    BY QuietBalance DEF SenderReads
  <2>4. Counted'
    BY QuietCounted DEF SenderReads, readerVars
  <2> QED
    BY <2>2, <2>3, <2>4
<1>4. CASE m.type = "credit"
  <2> /\ credited' = credited \cup {m.g} /\ UNCHANGED next
      /\ avail' = avail + 1
      /\ publisher' = IF publisher = "asleep" THEN "acquire" ELSE publisher
    BY <1>4 DEF SenderReads, Credited
  <2>2. Cardinality(credited') = Cardinality(credited) + 1
    BY <1>2, <1>4, FS_AddElement
  <2>3. CreditTypeOK'
    <3>1. publisher' \in PublisherState
      BY DEF CreditTypeOK, PublisherState
    <3>2. avail' \in Nat
      BY SMT DEF CreditTypeOK
    <3> QED
      BY <3>1, <3>2 DEF CreditTypeOK, SenderReads, readerVars, spaceVars, failureVars
  <2>4. Balance'
    <3>1. Spent' = Spent /\ (publisher' # "stopped" <=> publisher # "stopped")
      BY DEF Spent
    <3>2. avail \in Nat /\ next \in Int /\ GroupCredit \in Nat /\ Balance
      BY CreditAssumption, SMT DEF CreditTypeOK
    <3>3. Spent \in Nat
      BY SMT DEF Spent
    <3> HIDE DEF CreditIInv, m
    <3> QED
      BY <1>2, <2>2, <3>1, <3>2, <3>3, SMT DEF Balance
  <2>5. Counted'
    BY DEF Counted, ClosedAfterLast, SenderReads, readerVars
  <2> QED
    BY <2>3, <2>4, <2>5
<1> QED
  BY <1>3, <1>4 DEF SenderReads

\* The receiver's control reader: the last manifest, and only it, closes
\* manifestCh.
LEMMA ReaderStep ==
    ASSUME CreditIInv, ReadScan \/ ReadManifest \/ ReadEnd
    PROVE  CreditIInv'
<1> USE DEF CreditIInv
<1>1. Exchange' /\ Balance'
  BY QuietExchange, QuietBalance DEF ReadScan, ReadManifest, ReadEnd, senderVars
<1>2. CASE ReadScan
  <2>1. CreditTypeOK'
    BY <1>2, SMT DEF CreditTypeOK, ReadScan, senderVars, spaceVars, failureVars
  <2>2. Counted'
    BY <1>2 DEF CreditTypeOK, ReadScan, senderVars, Counted, ClosedAfterLast
  <2> QED
    BY <1>1, <2>1, <2>2
<1>3. CASE ReadManifest
  <2>1. CreditTypeOK'
    <3>1. received' \in 0 .. next /\ taken \in 0 .. received'
      <4>1. received \in 0 .. next /\ next \in Nat /\ taken \in 0 .. received /\ received < next
        BY <1>3, SMT DEF CreditTypeOK, ReadManifest
      <4>2. received' = received + 1 \/ received' = received
        BY <1>3 DEF ReadManifest
      <4> QED
        BY <4>1, <4>2, SMT
    <3>2. reader' \in BOOLEAN
      BY <1>3 DEF CreditTypeOK, ReadManifest
    <3>3. closed' \in BOOLEAN
      BY <1>3 DEF CreditTypeOK, ReadManifest
    <3> QED
      BY <1>3, <3>1, <3>2, <3>3 DEF CreditTypeOK, ReadManifest, senderVars, spaceVars, failureVars
  <2>2. Counted'
    <3> received \in Nat /\ next \in Nat /\ groups \in Nat /\ received < next /\ next <= groups
        /\ total = groups /\ reader /\ scan = "read"
      BY <1>3, SMT DEF CreditTypeOK, ReadManifest, Counted
    <3>2. UNCHANGED <<groups, publisher, next, scan, total>>
      BY <1>3 DEF ReadManifest, senderVars
    <3>3. ~closed
      BY SMT DEF Counted, ClosedAfterLast
    <3>4. ClosedAfterLast'
      <4>1. \/ received' = received + 1 /\ closed' = (closed \/ Complete(total, received + 1))
            \/ reader' = FALSE
        BY <1>3 DEF ReadManifest
      <4>2. CASE received' = received + 1 /\ closed' = (closed \/ Complete(total, received + 1))
        <5>1. closed' => Complete(total, received + 1)
          BY <3>3, <4>2
        <5> QED
          BY <3>2, <4>2, <5>1, SMT DEF ClosedAfterLast, Complete
      <4> QED
        BY <4>1, <4>2 DEF ClosedAfterLast
    <3> QED
      BY <3>2, <3>4 DEF Counted
  <2> QED
    BY <1>1, <2>1, <2>2
<1>4. CASE ReadEnd
  <2>1. CreditTypeOK'
    BY <1>4 DEF CreditTypeOK, ReadEnd, senderVars, spaceVars, failureVars
  <2>2. Counted'
    BY <1>4 DEF CreditTypeOK, ReadEnd, senderVars, Counted, ClosedAfterLast
  <2> QED
    BY <1>1, <2>1, <2>2
<1> QED
  BY <1>2, <1>3, <1>4

\* Steps of neither exchange: failures, returns, the start, the queue.
LEMMA OutsideStep ==
    ASSUME CreditIInv,
           \/ SenderReadsEnd \/ SenderFails \/ SenderReturns
           \/ Start \/ ReceiverFails \/ ReceiverReturns \/ FetchFallback \/ FetchFile
    PROVE  CreditIInv'
<1> USE DEF CreditIInv
<1>1. UNCHANGED <<answers, decider, decided, credited, taken, publisher, avail, next,
                  groups, scan, total, received, reader, closed>>
  BY DEF SenderReadsEnd, SenderFails, SenderReturns, Start, ReceiverFails,
     ReceiverReturns, FetchFallback, FetchFile, senderVars, readerVars
<1>2. Exchange' /\ Balance' /\ Counted'
  BY <1>1, QuietExchange, QuietBalance, QuietCounted
<1>3. /\ queued' \in Nat /\ required' \in Nat /\ claimed' \in Nat
      /\ warned' \in BOOLEAN
  <2>1. CASE FetchFallback
    BY <2>1, CreditAssumption, SMTT(20) DEF FetchFallback, Reserve, CreditTypeOK, Over
  <2>2. CASE FetchFile
    BY <2>2, SMT DEF FetchFile, CreditTypeOK, spaceVars
  <2> QED
    BY <2>1, <2>2 DEF CreditTypeOK, SenderReadsEnd, SenderFails, SenderReturns,
       Start, ReceiverFails, ReceiverReturns, spaceVars
<1>4. fallbacks' \in 0 .. MaxFallbacks /\ failures' \in 0 .. MaxFailures
  <2>1. \/ UNCHANGED <<fallbacks, failures>>
        \/ failures < MaxFailures /\ failures' = failures + 1 /\ UNCHANGED fallbacks
        \/ fallbacks < MaxFallbacks /\ fallbacks' = fallbacks + 1 /\ UNCHANGED failures
    BY DEF SenderReadsEnd, SenderFails, SenderReturns, Start, ReceiverFails,
       ReceiverReturns, FetchFallback, FetchFile, failureVars
  <2>2. fallbacks \in 0 .. MaxFallbacks /\ failures \in 0 .. MaxFailures
    BY DEF CreditTypeOK
  <2> HIDE DEF CreditIInv
  <2> QED
    BY <2>1, <2>2, CreditAssumption, SMT
<1>5. /\ senderDone' \in BOOLEAN /\ senderGone' \in BOOLEAN /\ started' \in BOOLEAN
      /\ cancelled' \in BOOLEAN /\ recvGone' \in BOOLEAN
  <2>1. CASE SenderReadsEnd \/ SenderFails \/ SenderReturns
    BY <2>1 DEF CreditTypeOK, SenderReadsEnd, SenderFails, SenderReturns
  <2>2. CASE Start \/ ReceiverFails \/ ReceiverReturns
    <3>1. UNCHANGED <<senderDone, senderGone>>
      BY <2>2 DEF Start, ReceiverFails, ReceiverReturns, senderVars
    <3> QED
      BY <2>2, <3>1 DEF CreditTypeOK, Start, ReceiverFails, ReceiverReturns
  <2>3. CASE FetchFallback \/ FetchFile
    BY <2>3 DEF CreditTypeOK, FetchFallback, FetchFile, senderVars
  <2> QED
    BY <2>1, <2>2, <2>3
<1>6. CreditTypeOK'
  BY <1>1, <1>3, <1>4, <1>5 DEF CreditTypeOK
<1> QED
  BY <1>2, <1>6

-----------------------------------------------------------------------------
(* The decide workers. *)

\* A step of a worker leaves the sender and the control reader alone.
LEMMA WorkerQuiet ==
    ASSUME Balance, Counted, NEW w \in Decider,
           \/ Take(w) \/ Leave(w) \/ SendDecision(w) \/ ReserveGroup(w)
           \/ SyncFails(w) \/ PushGroup(w) \/ SendCredit(w)
    PROVE  /\ Balance' /\ Counted'
           /\ UNCHANGED <<groups, publisher, avail, next, senderDone, senderGone, decided,
                          credited, scan, total, received, reader, closed, started, recvGone>>
<1>1. UNCHANGED <<groups, publisher, avail, next, senderDone, senderGone, decided,
                  credited, scan, total, received, reader, closed, started, recvGone>>
  BY DEF Take, Leave, SendDecision, ReserveGroup, SyncFails, PushGroup,
     SendCredit, senderVars, readerVars
<1> QED
  BY <1>1, QuietBalance, QuietCounted

\* Every step of a worker preserves the invariant.
LEMMA WorkerStep ==
    ASSUME CreditIInv, NEW w \in Decider,
           \/ Take(w) \/ Leave(w) \/ SendDecision(w) \/ ReserveGroup(w)
           \/ SyncFails(w) \/ PushGroup(w) \/ SendCredit(w)
    PROVE  CreditIInv'
<1> USE DEF CreditIInv
<1> DEFINE Workers == [Decider -> [at : DeciderState, g : 0 .. MaxGroups,
                                   need : Needs \cup {Nothing}]]
<1>1. /\ Balance' /\ Counted'
      /\ UNCHANGED <<groups, publisher, avail, next, senderDone, senderGone, decided,
                     credited, scan, total, received, reader, closed, started, recvGone>>
  BY WorkerQuiet
<1>2. /\ decider[w] \in [at : DeciderState, g : 0 .. MaxGroups, need : Needs \cup {Nothing}]
      /\ decider[w].need.files \in Nat /\ decider[w].need.bytes \in Nat
  <2>1. decider[w] \in [at : DeciderState, g : 0 .. MaxGroups, need : Needs \cup {Nothing}]
    BY DEF CreditTypeOK
  <2>2. Nothing.files \in Nat /\ Nothing.bytes \in Nat
    BY DEF Nothing
  <2>3. \A n \in Needs : n.files \in Nat /\ n.bytes \in Nat
    BY CreditAssumption, SMT
  <2>4. decider[w].need \in Needs \/ decider[w].need = Nothing
    BY <2>1
  <2> QED
    BY <2>1, <2>2, <2>3, <2>4
<1>3. "idle" \in DeciderState /\ "reserve" \in DeciderState /\ "push" \in DeciderState
      /\ "credit" \in DeciderState /\ "gone" \in DeciderState
      /\ "idle" \notin Busy /\ "gone" \notin Busy
  BY DEF DeciderState, Busy
<1>4. CASE Take(w)
  <2>1. Exchange'
    BY <1>4, TakeExchange
  <2>2. decider' \in Workers
    <3>1. PICK need \in Needs :
            decider' = [decider EXCEPT ![w] = [at |-> "decide", g |-> taken, need |-> need]]
      BY <1>4 DEF Take
    <3>2. taken \in 0 .. MaxGroups
      BY <1>4, CreditAssumption, SMTT(20) DEF CreditTypeOK, Take
    <3> QED
      BY <3>1, <3>2 DEF CreditTypeOK, DeciderState
  <2>3. taken' \in 0 .. received
    BY <1>4, SMT DEF CreditTypeOK, Take
  <2>4. UNCHANGED <<queued, required, warned, claimed, cancelled, answers, fallbacks, failures>>
    BY <1>4 DEF Take, spaceVars, failureVars
  <2> QED
    BY <1>1, <2>1, <2>2, <2>3, <2>4 DEF CreditTypeOK
<1>5. CASE SendDecision(w)
  <2>1. Exchange' /\ answers' \in Seq(Answer)
    BY <1>5, DecisionExchange
  <2>2. Advance(w, "reserve") \/ Advance(w, "gone")
    BY <1>5 DEF SendDecision, Send, Fails
  <2>3. decider' \in Workers
    BY <1>3, <2>2, StepTyped
  <2>4. UNCHANGED <<taken, queued, required, warned, claimed, fallbacks, failures>>
    BY <1>5 DEF SendDecision, spaceVars, failureVars
  <2>5. cancelled' \in BOOLEAN
    BY <1>5 DEF SendDecision, Send, Fails, CreditTypeOK
  <2> QED
    BY <1>1, <2>1, <2>3, <2>4, <2>5, SMT DEF CreditTypeOK
<1>6. CASE SendCredit(w)
  <2>1. Exchange' /\ answers' \in Seq(Answer)
    BY <1>6, CreditExchange
  <2>2. Advance(w, "idle") \/ Advance(w, "gone")
    BY <1>6 DEF SendCredit, Send, Fails
  <2>3. decider' \in Workers
    BY <1>3, <2>2, StepTyped
  <2>4. UNCHANGED <<taken, queued, required, warned, claimed, fallbacks, failures>>
    BY <1>6 DEF SendCredit, spaceVars, failureVars
  <2>5. cancelled' \in BOOLEAN
    BY <1>6 DEF SendCredit, Send, Fails, CreditTypeOK
  <2> QED
    BY <1>1, <2>1, <2>3, <2>4, <2>5, SMT DEF CreditTypeOK
<1>7. CASE Leave(w) \/ SyncFails(w)
  <2> Advance(w, "gone") /\ UNCHANGED <<answers, taken, queued, required, warned, claimed, fallbacks>>
    BY <1>7 DEF Leave, SyncFails, Fails, spaceVars, failureVars
  <2>2. decider' \in Workers
    BY <1>3, StepTyped
  <2>3. Exchange'
    BY <1>1, <1>3, MoveExchange
  <2>4. cancelled' \in BOOLEAN
    BY <1>7 DEF Leave, SyncFails, Fails, CreditTypeOK
  <2>5. failures' \in 0 .. MaxFailures
    BY <1>7, CreditAssumption, SMT DEF Leave, SyncFails, failureVars, CreditTypeOK
  <2> QED
    BY <1>1, <2>2, <2>3, <2>4, <2>5 DEF CreditTypeOK
<1>8. CASE ReserveGroup(w)
  <2> /\ Advance(w, "push") \/ Advance(w, "gone")
      /\ UNCHANGED <<answers, taken, queued, claimed, fallbacks, failures>>
      /\ AtWork(w) /\ decider[w].at # "decide"
    BY <1>8 DEF ReserveGroup, Fails, failureVars, AtWork, Busy
  <2>2. decider' \in Workers
    BY <1>3, StepTyped
  <2>3. Exchange'
    BY <1>1, <1>3, MoveExchange
  <2>4. cancelled' \in BOOLEAN
    BY <1>8 DEF ReserveGroup, Fails, CreditTypeOK
  <2>5. required' \in Nat
    BY <1>2, <1>8, SMT DEF ReserveGroup, Reserve, spaceVars, CreditTypeOK
  <2>6. warned' \in BOOLEAN
    <3>1. \/ UNCHANGED warned
          \/ warned' = (warned \/ Over(decider[w].need.bytes) > 0)
      BY <1>8 DEF ReserveGroup, Reserve, spaceVars
    <3> QED
      BY <3>1 DEF CreditTypeOK
  <2> QED
    BY <1>1, <2>2, <2>3, <2>4, <2>5, <2>6 DEF CreditTypeOK
<1>9. CASE PushGroup(w)
  <2> /\ Advance(w, "credit") \/ Advance(w, "idle")
      /\ UNCHANGED <<answers, taken, required, warned, cancelled, fallbacks, failures>>
      /\ AtWork(w) /\ decider[w].at # "decide"
    BY <1>9 DEF PushGroup, spaceVars, failureVars, AtWork, Busy
  <2>2. decider' \in Workers
    BY <1>3, StepTyped
  <2>3. Exchange'
    BY <1>1, <1>3, MoveExchange
  <2>4. queued' \in Nat /\ claimed' \in Nat
    <3>1. queued \in Nat /\ claimed \in Nat
      BY DEF CreditTypeOK
    <3>2. \/ /\ queued' = queued + decider[w].need.files
             /\ claimed' = claimed + decider[w].need.bytes
          \/ UNCHANGED <<queued, claimed>>
      BY <1>9 DEF PushGroup
    <3> QED
      BY ONLY <1>2, <3>1, <3>2, SMT
  <2> QED
    BY <1>1, <2>2, <2>3, <2>4 DEF CreditTypeOK
<1> QED
  BY <1>4, <1>5, <1>6, <1>7, <1>8, <1>9

-----------------------------------------------------------------------------
(* A pool that has returned has decided everything. *)

\* An answer appended takes no decision back.
LEMMA ToldKept ==
    ASSUME CreditTypeOK, UNCHANGED decided,
           UNCHANGED answers \/ \E m \in Answer : answers' = Append(answers, m)
    PROVE  \A h : Told(h) => Told(h)'
<1>1. CASE UNCHANGED answers
  BY <1>1 DEF Told
<1>2. CASE \E m \in Answer : answers' = Append(answers, m)
  <2>1. PICK m \in Answer : answers' = Append(answers, m)
    BY <1>2
  <2>2. /\ DOMAIN answers = 1 .. Len(answers) /\ Len(answers) \in Nat
        /\ DOMAIN answers' = 1 .. Len(answers) + 1
        /\ \A i \in DOMAIN answers : answers'[i] = answers[i]
    BY <2>1, Appended DEF CreditTypeOK
  <2> QED
    BY <2>2, SMT DEF Told
<1> QED
  BY <1>1, <1>2

\* Steps that leave the workers, the answers and the counts alone.
LEMMA QuietDuty ==
    ASSUME Duty, UNCHANGED <<reader, cancelled, answers, decided, decider, taken, received>>,
           closed => closed'
    PROVE  Duty'
BY DEF Duty, Told

\* A worker moves on from a group that has been told, or leaves behind the
\* last one.
LEMMA MoveDuty ==
    ASSUME CreditTypeOK, Duty, NEW w \in Decider, NEW to \in DeciderState, Advance(w, to),
           UNCHANGED <<reader, cancelled, closed, taken, received>>,
           \A h : Told(h) => Told(h)',
           to # "decide", to = "gone" => closed /\ taken = received,
           decider[w].at = "decide" => \A h : h = decider[w].g => Told(h)'
    PROVE  Duty'
<1>1. /\ \A v \in Decider : v # w => decider'[v] = decider[v]
      /\ decider'[w].at = to
  BY StepTyped
<1>2. ASSUME ~cancelled, NEW g \in 0 .. taken - 1
      PROVE  Told(g)' \/ \E v \in Decider : decider'[v].at = "decide" /\ decider'[v].g = g
  <2>1. CASE Told(g)
    BY <2>1
  <2>2. CASE \E v \in Decider : decider[v].at = "decide" /\ decider[v].g = g
    BY <1>1, <2>2
  <2> QED
    BY <1>2, <2>1, <2>2 DEF Duty
<1>3. ASSUME ~cancelled, NEW v \in Decider, decider'[v].at = "gone"
      PROVE  closed /\ taken = received
  BY <1>1, <1>3 DEF Duty
<1> QED
  BY <1>2, <1>3 DEF Duty

\* Every step preserves it: a group leaves its worker untold only when the
\* session has failed.
LEMMA DutyStep == CreditIInv /\ Duty /\ [CreditNext]_creditVars => Duty'
<1> SUFFICES ASSUME CreditIInv, Duty, [CreditNext]_creditVars PROVE Duty'
  OBVIOUS
<1> CreditTypeOK /\ Exchange /\ Counted
  BY DEF CreditIInv
<1>1. CASE \/ SendScan \/ Acquire \/ AcquireWoken \/ Publish \/ SenderReadsEnd
           \/ SenderFails \/ SenderReturns \/ Start \/ ReceiverReturns \/ FetchFallback
           \/ FetchFile \/ UNCHANGED creditVars
  <2>1. UNCHANGED <<reader, cancelled, answers, decided, decider, taken, received, closed>>
    BY <1>1 DEF SendScan, Acquire, AcquireWoken, Publish, SenderReadsEnd,
       SenderFails, SenderReturns, Start, ReceiverReturns, FetchFallback, FetchFile,
       creditVars, senderVars, readerVars
  <2> QED
    BY <2>1, QuietDuty
<1>2. CASE ReadScan
  <2>1. UNCHANGED <<reader, cancelled, answers, decided, decider, taken, received>>
    BY <1>2 DEF ReadScan, senderVars
  <2>2. closed => closed'
    BY <1>2 DEF ReadScan
  <2> QED
    BY <2>1, <2>2, QuietDuty
<1>3. CASE ReadManifest
  <2>1. CASE cancelled
    <3>1. cancelled'
      BY <1>3, <2>1 DEF ReadManifest
    <3> QED
      BY <3>1 DEF Duty
  <2>2. CASE ~cancelled
    <3>1. UNCHANGED <<reader, cancelled, answers, decided, decider, taken>>
      BY <1>3, <2>2 DEF ReadManifest, senderVars
    <3>2. reader /\ received < next /\ next \in Nat /\ received \in Nat /\ groups \in Nat /\ next <= groups
      BY <1>3, SMT DEF ReadManifest, CreditTypeOK
    <3>3. ~closed
      BY <3>2, SMT DEF Counted, ClosedAfterLast
    <3>4. \A w \in Decider : decider[w].at # "gone"
      BY <2>2, <3>3 DEF Duty
    <3> QED
      BY <3>1, <3>2, <3>4 DEF Duty, Told
  <2> QED
    BY <2>1, <2>2
<1>4. CASE ReadEnd \/ ReceiverFails
  <2>1. cancelled'
    BY <1>4 DEF ReadEnd, ReceiverFails
  <2> QED
    BY <2>1 DEF Duty
<1>5. CASE SenderReads
  <2>1. UNCHANGED <<reader, cancelled, decider, taken, received, closed>>
    BY <1>5 DEF SenderReads, readerVars
  <2>2. \A h : Told(h) => Told(h)'
    BY <1>5, ReadExchange
  <2> QED
    BY <2>1, <2>2 DEF Duty
<1>6. ASSUME NEW w \in Decider, Take(w) PROVE Duty'
  <2> USE SMT
  <2> /\ UNCHANGED <<reader, cancelled, answers, decided, closed, received>>
      /\ taken' = taken + 1 /\ taken \in Nat /\ taken < received /\ decider[w].at = "idle"
    BY <1>6 DEF Take, senderVars, readerVars, CreditTypeOK
  <2>2. /\ decider'[w].at = "decide" /\ decider'[w].g = taken
        /\ \A v \in Decider : v # w => decider'[v] = decider[v]
    BY <1>6 DEF Take, CreditTypeOK
  <2>3. ASSUME ~cancelled, NEW g \in 0 .. taken
        PROVE  Told(g)' \/ \E v \in Decider : decider'[v].at = "decide" /\ decider'[v].g = g
    <3>1. CASE g = taken
      BY <2>2, <3>1, Zenon
    <3>2. CASE g \in 0 .. taken - 1
      <4> USE Zenon
      <4>1. Told(g) \/ \E v \in Decider : decider[v].at = "decide" /\ decider[v].g = g
        BY <2>3, <3>2 DEF Duty
      <4>2. Told(g) => Told(g)'
        BY DEF Told
      <4>3. ASSUME NEW v \in Decider, decider[v].at = "decide"
            PROVE  decider'[v] = decider[v]
        BY <2>2, <4>3
      <4> QED
        BY <4>1, <4>2, <4>3
    <3>3. g = taken \/ g \in 0 .. taken - 1
      <4>1. taken \in Nat
        BY Zenon
      <4> QED
        BY <2>3, <4>1
    <3> QED
      BY <3>1, <3>2, <3>3, Zenon
  <2>4. ASSUME ~cancelled, NEW v \in Decider PROVE decider'[v].at # "gone"
    <3>1. decider[v].at # "gone"
      BY <2>4 DEF Duty, CreditTypeOK
    <3> QED
      BY <2>2, <3>1, Zenon
  <2>5. 0 .. taken' - 1 = 0 .. taken
    OBVIOUS
  <2> QED
    BY <2>3, <2>4, <2>5, Zenon DEF Duty
<1>7. ASSUME NEW w \in Decider, Leave(w) PROVE Duty'
  <2>1. /\ UNCHANGED <<reader, cancelled, answers, decided, closed, taken, received>>
        /\ Advance(w, "gone") /\ closed /\ taken = received /\ decider[w].at = "idle"
    BY <1>7 DEF Leave, senderVars, readerVars
  <2>2. \A h : Told(h) => Told(h)'
    BY <2>1, ToldKept
  <2> QED
    BY <2>1, <2>2, MoveDuty DEF DeciderState
<1>8. ASSUME NEW w \in Decider, SyncFails(w) PROVE Duty'
  <2>1. cancelled'
    BY <1>8 DEF SyncFails, Fails
  <2> QED
    BY <2>1 DEF Duty
<1>9. ASSUME NEW w \in Decider, SendDecision(w) \/ SendCredit(w) PROVE Duty'
  <2> UNCHANGED <<reader, decided, closed, taken, received>>
    BY <1>9 DEF SendDecision, SendCredit, senderVars, readerVars
  <2>2. CASE cancelled'
    BY <2>2 DEF Duty
  <2>3. CASE ~cancelled'
    <3> DEFINE g == decider[w].g
    <3>1. AtWork(w)
      BY <1>9 DEF SendDecision, SendCredit, AtWork, Busy
    <3>2. g \in GroupId
      BY <3>1, CreditAssumption, SMT DEF Exchange, Held, CreditTypeOK, GroupId
    <3>3. CASE SendDecision(w)
      <4> answers' = Append(answers, DecisionOf(g)) /\ Advance(w, "reserve") /\ UNCHANGED cancelled
        BY <2>3, <3>3 DEF SendDecision, Send, Fails, DecisionOf
      <4>2. DecisionOf(g) \in Answer
        BY <3>2 DEF DecisionOf, Answer
      <4>3. \A h : Told(h) => Told(h)'
        BY <4>2, ToldKept
      <4>4. \A h : h = g => Told(h)'
        <5>1. \E i \in DOMAIN answers' : answers'[i] = DecisionOf(g)
          <6>1. answers \in Seq(Answer)
            BY DEF CreditTypeOK
          <6> HIDE DEF g
          <6> QED
            BY <4>2, <6>1, Appended, SMT
        <5> QED
          BY <5>1 DEF Told, DecisionOf
      <4> QED
        BY <4>3, <4>4, MoveDuty DEF DeciderState
    <3>4. CASE SendCredit(w)
      <4>1. /\ answers' = Append(answers, CreditOf(g)) /\ Advance(w, "idle") /\ UNCHANGED cancelled
            /\ decider[w].at = "credit"
        BY <2>3, <3>4 DEF SendCredit, Send, Fails, CreditOf
      <4>2. CreditOf(g) \in Answer
        BY <3>2 DEF CreditOf, Answer
      <4>3. \A h : Told(h) => Told(h)'
        BY <4>1, <4>2, ToldKept
      <4> QED
        BY <4>1, <4>3, MoveDuty DEF DeciderState
    <3> QED
      BY <1>9, <3>3, <3>4
  <2> QED
    BY <2>2, <2>3
<1>10. ASSUME NEW w \in Decider, ReserveGroup(w) \/ PushGroup(w) PROVE Duty'
  <2>1. UNCHANGED <<reader, answers, decided, closed, taken, received>> /\ decider[w].at # "decide"
    BY <1>10 DEF ReserveGroup, PushGroup, senderVars, readerVars
  <2>2. CASE cancelled'
    BY <2>2 DEF Duty
  <2>3. CASE ~cancelled'
    <3>1. /\ Advance(w, "push") \/ Advance(w, "credit") \/ Advance(w, "idle")
          /\ UNCHANGED cancelled
      BY <1>10, <2>3 DEF ReserveGroup, PushGroup, Fails
    <3>2. \A h : Told(h) => Told(h)'
      BY <2>1, ToldKept
    <3> QED
      BY <2>1, <3>1, <3>2, MoveDuty DEF DeciderState
  <2> QED
    BY <2>2, <2>3
<1> QED
  BY <1>1, <1>2, <1>3, <1>4, <1>5, <1>6, <1>7, <1>8, <1>9, <1>10 DEF CreditNext

-----------------------------------------------------------------------------
(* What is pushed fits the disk. *)

\* The places from the old requirement to the new one.
LEMMA Fresh ==
    ASSUME NEW n \in Nat, NEW b \in Nat
    PROVE  /\ IsFiniteSet(n .. n + b - 1) /\ Cardinality(n .. n + b - 1) = b
           /\ n + b <= Free => n .. n + b - 1 \subseteq Disk
<1>1. n \in Int /\ n + b - 1 \in Int
  BY SMT
<1>2. /\ IsFiniteSet(n .. n + b - 1)
      /\ Cardinality(n .. n + b - 1) = IF n > n + b - 1 THEN 0 ELSE (n + b - 1) - n + 1
  BY <1>1, FS_Interval
<1> QED
  BY <1>2, CreditAssumption, SMT DEF Disk

\* Sets of places are finite, and disjoint ones add up.
LEMMA Apart ==
    ASSUME NEW C \in SUBSET Disk, NEW T \in SUBSET Disk, C \cap T = {}
    PROVE  /\ IsFiniteSet(C) /\ Cardinality(C) \in Nat /\ Cardinality(C) <= Free
           /\ Cardinality(C \cup T) = Cardinality(C) + Cardinality(T)
<1>1. IsFiniteSet(Disk) /\ Cardinality(Disk) = Free
  <2>1. 0 \in Nat /\ Free \in Nat /\ 0 + Free - 1 = Free - 1
    BY CreditAssumption, SMT
  <2> QED
    BY <2>1, Fresh DEF Disk
<1> IsFiniteSet(C) /\ IsFiniteSet(T) /\ Cardinality(C) <= Cardinality(Disk)
  BY <1>1, FS_Subset
<1>3. Cardinality(C) \in Nat /\ Cardinality(T) \in Nat
  BY FS_CardinalityType
<1>4. Cardinality(C \cup T) = Cardinality(C) + Cardinality(T) - Cardinality(C \cap T)
  BY FS_Union
<1>5. Cardinality(C \cap T) = 0
  BY FS_EmptySet
<1> QED
  BY <1>1, <1>3, <1>4, <1>5, SMT

\* The requirement may grow and a worker may leave its group unpushed.
LEMMA QuietSpace ==
    ASSUME Space, UNCHANGED claimed, required \in Nat, required' \in Nat, required <= required',
           \A w \in Decider : decider'[w].at = "push" =>
              decider[w].at = "push" /\ decider'[w].need = decider[w].need
    PROVE  Space'
<1>1. PICK S \in [Decider -> SUBSET Disk], C \in SUBSET Disk : Places(S, C)
  BY DEF Space
<1>2. \A n \in Disk : n < required => n < required'
  BY SMT DEF Disk
<1>3. Places(S, C)'
  BY <1>1, <1>2 DEF Places
<1> QED
  BY <1>3 DEF Space

\* A group the guard admits gets the places from the old requirement to the
\* new one, which nobody has.
LEMMA ReserveSpace ==
    ASSUME CreditTypeOK, Space, NEW w \in Decider, Advance(w, "push"), decider[w].at = "reserve",
           UNCHANGED claimed, required' = required + decider[w].need.bytes,
           decider[w].need.bytes \in Nat,
           decider[w].need.bytes = 0 \/ required' <= Free
    PROVE  Space'
<1>1. PICK S \in [Decider -> SUBSET Disk], C \in SUBSET Disk : Places(S, C)
  BY DEF Space
<1>b. PICK b \in Nat : b = decider[w].need.bytes
  OBVIOUS
<1>2. required \in Nat /\ required' \in Nat /\ required' = required + b
  BY <1>b, SMT DEF CreditTypeOK
<1>3. /\ \A v \in Decider : v # w => decider'[v] = decider[v]
      /\ decider'[w].at = "push" /\ decider'[w].need.bytes = b
  BY <1>b, StepTyped DEF DeciderState, Busy
<1>4. PICK T \in SUBSET Disk : T = required .. required + b - 1 /\ Cardinality(T) = b
  <2>1. CASE b = 0
    <3>1. required .. required + b - 1 = {}
      BY <1>2, <2>1, SMT
    <3> QED
      BY <2>1, <3>1, FS_EmptySet
  <2>2. CASE required' <= Free
    BY <1>2, <2>2, Fresh, ZenonT(30)
  <2> QED
    BY <1>b, <2>1, <2>2
<1>5. \A n \in T : n < required' /\ ~(n < required)
  BY <1>2, <1>4, SMT
<1>6. \A n \in Disk : n < required => n < required'
  BY <1>2, SMT DEF Disk
<1>7. PICK U \in [Decider -> SUBSET Disk] :
        U[w] = T /\ \A v \in Decider : v # w => U[v] = S[v]
  <2>1. [S EXCEPT ![w] = T] \in [Decider -> SUBSET Disk]
    OBVIOUS
  <2> QED
    BY <2>1
<1>8. ASSUME NEW v \in Decider, decider'[v].at = "push"
      PROVE  /\ Cardinality(U[v]) = decider'[v].need.bytes
             /\ \A n \in U[v] : n < required' /\ n \notin C
             /\ \A u \in Decider : u # v /\ decider'[u].at = "push" => U[u] \cap U[v] = {}
  <2>1. CASE v = w
    <3>1. \A n \in T : n \notin C
      BY <1>1, <1>5 DEF Places
    <3>2. \A u \in Decider : u # w /\ decider'[u].at = "push" => S[u] \cap T = {}
      BY <1>1, <1>3, <1>5 DEF Places
    <3> QED
      BY <1>3, <1>4, <1>5, <1>7, <2>1, <3>1, <3>2, ZenonT(30)
  <2>2. CASE v # w
    <3> /\ decider[v].at = "push" /\ decider'[v] = decider[v] /\ U[v] = S[v]
        /\ S[v] \in SUBSET Disk
      BY <1>3, <1>7, <1>8, <2>2
    <3>2. /\ Cardinality(S[v]) = decider[v].need.bytes
          /\ \A n \in S[v] : n < required /\ n \notin C
      BY <1>1 DEF Places
    <3>3. \A u \in Decider : u # v /\ u # w /\ decider'[u].at = "push" => U[u] \cap U[v] = {}
      BY <1>1, <1>3, <1>7 DEF Places
    <3>4. T \cap S[v] = {}
      BY <1>5, <3>2
    <3> QED
      BY <1>6, <1>7, <3>2, <3>3, <3>4
  <2> QED
    BY <2>1, <2>2
<1>9. Cardinality(C) = claimed' /\ \A n \in C : n < required'
  BY <1>1, <1>6 DEF Places
<1>10. Places(U, C)'
  BY <1>8, <1>9 DEF Places
<1> QED
  BY <1>7, <1>10 DEF Space

\* Bytes that are pushed keep their places.
LEMMA PushSpace ==
    ASSUME CreditTypeOK, Space, NEW w \in Decider, Advance(w, "credit"), decider[w].at = "push",
           UNCHANGED required, claimed' = claimed + decider[w].need.bytes
    PROVE  Space'
<1>1. PICK S \in [Decider -> SUBSET Disk], C \in SUBSET Disk : Places(S, C)
  BY DEF Space
<1>2. /\ \A v \in Decider : v # w => decider'[v] = decider[v]
      /\ decider'[w].at = "credit"
  BY StepTyped DEF DeciderState
<1>3. /\ Cardinality(S[w]) = decider[w].need.bytes
      /\ \A n \in S[w] : n < required /\ n \notin C
      /\ S[w] \in SUBSET Disk
  BY <1>1 DEF Places
<1>4. Cardinality(C \cup S[w]) = Cardinality(C) + Cardinality(S[w])
  BY <1>3, Apart
<1>5. \A v \in Decider : decider'[v].at = "push" => v # w /\ decider'[v] = decider[v]
  BY <1>2
<1>6. \A v \in Decider : v # w /\ decider[v].at = "push" => S[v] \cap S[w] = {}
  BY <1>1 DEF Places
<1>7. PICK E \in SUBSET Disk : E = C \cup S[w]
  BY <1>3
<1>8. Cardinality(E) = claimed'
  BY <1>1, <1>3, <1>4, <1>7 DEF Places
<1>9. \A n \in E : n < required'
  BY <1>1, <1>3, <1>7 DEF Places
<1>10. ASSUME NEW v \in Decider, decider'[v].at = "push"
       PROVE  /\ Cardinality(S[v]) = decider'[v].need.bytes
              /\ \A n \in S[v] : n < required' /\ n \notin E
              /\ \A u \in Decider : u # v /\ decider'[u].at = "push" => S[u] \cap S[v] = {}
  <2> v # w /\ decider'[v] = decider[v] /\ decider[v].at = "push"
    BY <1>5, <1>10
  <2>2. /\ Cardinality(S[v]) = decider[v].need.bytes
        /\ \A n \in S[v] : n < required /\ n \notin C
    BY <1>1 DEF Places
  <2>3. \A u \in Decider : u # v /\ decider'[u].at = "push" => S[u] \cap S[v] = {}
    BY <1>1, <1>5 DEF Places
  <2>4. \A n \in S[v] : n \notin E
    BY <1>6, <1>7, <2>2
  <2> QED
    BY <2>2, <2>3, <2>4
<1>11. Places(S, E)'
  BY <1>8, <1>9, <1>10 DEF Places
<1> QED
  BY <1>11 DEF Space

\* The same in one step for a hardlink secondary that is fetched instead.
LEMMA FallbackSpace ==
    ASSUME CreditTypeOK, Space, NEW b \in Nat, UNCHANGED decider,
           required' = required + b, claimed' = claimed + b, required' <= Free
    PROVE  Space'
<1>1. PICK S \in [Decider -> SUBSET Disk], C \in SUBSET Disk : Places(S, C)
  BY DEF Space
<1> required \in Nat /\ required' \in Nat
  BY SMT DEF CreditTypeOK
<1>3. PICK T \in SUBSET Disk : T = required .. required + b - 1 /\ Cardinality(T) = b
  BY Fresh
<1>4. \A n \in T : n < required' /\ ~(n < required)
  BY <1>3, SMT
<1>5. \A n \in Disk : n < required => n < required'
  BY SMT DEF Disk
<1>6. C \cap T = {}
  BY <1>1, <1>4 DEF Places
<1>7. Cardinality(C \cup T) = Cardinality(C) + Cardinality(T)
  BY <1>6, Apart
<1>8. PICK E \in SUBSET Disk : E = C \cup T
  OBVIOUS
<1>9. Cardinality(E) = claimed'
  BY <1>1, <1>3, <1>7, <1>8 DEF Places
<1>10. \A n \in E : n < required'
  BY <1>1, <1>4, <1>5, <1>8 DEF Places
<1>11. ASSUME NEW v \in Decider, decider[v].at = "push"
       PROVE  /\ Cardinality(S[v]) = decider[v].need.bytes
              /\ \A n \in S[v] : n < required' /\ n \notin E
              /\ \A u \in Decider : u # v /\ decider[u].at = "push" => S[u] \cap S[v] = {}
  <2>1. /\ Cardinality(S[v]) = decider[v].need.bytes /\ S[v] \in SUBSET Disk
        /\ \A n \in S[v] : n < required /\ n \notin C
        /\ \A u \in Decider : u # v /\ decider[u].at = "push" => S[u] \cap S[v] = {}
    BY <1>1, <1>11 DEF Places
  <2> QED
    BY <1>4, <1>5, <1>8, <2>1
<1>12. Places(S, E)'
  BY <1>9, <1>10, <1>11 DEF Places
<1> QED
  BY <1>12 DEF Space

\* Every step preserves the places: the guard admits a requirement up to
\* Free, whichever of the workers and fallbacks asks first.
LEMMA SpaceStep == CreditIInv /\ Space /\ [CreditNext]_creditVars => Space'
<1> SUFFICES ASSUME CreditIInv, Space, [CreditNext]_creditVars PROVE Space'
  OBVIOUS
<1>0. /\ CreditTypeOK /\ required \in Nat /\ Free \in Nat /\ Margin \in Nat
      /\ \A w \in Decider : decider[w].need.bytes \in Nat
  <2>1. CreditTypeOK
    BY DEF CreditIInv
  <2>2. \A n \in Needs \cup {Nothing} : n.bytes \in Nat
    BY CreditAssumption, SMT DEF Nothing
  <2> QED
    BY <2>1, <2>2, CreditAssumption DEF CreditTypeOK
<1>1. \A b \in Nat : ~FatalDeficit(b) => required + b <= Free
  BY <1>0, SMT DEF FatalDeficit, Over
<1>2. CASE UNCHANGED <<claimed, required, decider>>
  BY <1>0, <1>2, QuietSpace, SMT
<1>3. CASE FetchFallback
  <2>1. PICK b \in FallbackSizes :
          /\ Reserve(b)
          /\ \/ FatalDeficit(b) /\ UNCHANGED claimed
             \/ ~FatalDeficit(b) /\ claimed' = claimed + b
    BY <1>3 DEF FetchFallback
  <2>2. b \in Nat /\ required' = required + b /\ UNCHANGED decider
    BY <1>3, <2>1, CreditAssumption DEF FetchFallback, Reserve
  <2>3. CASE UNCHANGED claimed
    BY <1>0, <2>2, <2>3, QuietSpace, SMT
  <2>4. CASE ~FatalDeficit(b) /\ claimed' = claimed + b
    BY <1>0, <1>1, <2>2, <2>4, FallbackSpace
  <2> QED
    BY <2>1, <2>3, <2>4
<1>4. ASSUME NEW w \in Decider, NEW to \in DeciderState, Advance(w, to), to # "push",
             UNCHANGED claimed, required' = required \/ \E b \in Nat : required' = required + b
      PROVE  Space'
  <2>1. \A v \in Decider : decider'[v].at = "push" => decider'[v] = decider[v]
    BY <1>0, <1>4, StepTyped
  <2> QED
    BY <1>0, <1>4, <2>1, QuietSpace, SMT
<1>5. ASSUME NEW w \in Decider, Take(w) PROVE Space'
  <2>1. UNCHANGED <<claimed, required>>
    BY <1>5 DEF Take, spaceVars
  <2>2. decider'[w].at = "decide" /\ \A v \in Decider : v # w => decider'[v] = decider[v]
    BY <1>0, <1>5, SMT DEF Take, CreditTypeOK
  <2>3. \A v \in Decider : decider'[v].at = "push" => decider'[v] = decider[v]
    BY <2>2
  <2> QED
    BY <1>0, <2>1, <2>3, QuietSpace, SMT
<1>6. ASSUME NEW w \in Decider, Leave(w) \/ SendDecision(w) \/ SyncFails(w) \/ SendCredit(w)
      PROVE  Space'
  <2>1. UNCHANGED <<claimed, required>>
    BY <1>6 DEF Leave, SendDecision, SyncFails, SendCredit, spaceVars
  <2>2. Advance(w, "gone") \/ Advance(w, "reserve") \/ Advance(w, "idle")
    BY <1>6 DEF Leave, SendDecision, SyncFails, SendCredit, Send, Fails
  <2> QED
    BY <1>4, <2>1, <2>2 DEF DeciderState
<1>7. ASSUME NEW w \in Decider, ReserveGroup(w) PROVE Space'
  <2> DEFINE b == decider[w].need.bytes
  <2> UNCHANGED claimed /\ decider[w].at = "reserve" /\ b \in Nat
    BY <1>0, <1>7 DEF ReserveGroup
  <2>2. \/ b = 0 /\ Advance(w, "push") /\ UNCHANGED required
        \/ FatalDeficit(b) /\ Advance(w, "gone") /\ required' = required + b
        \/ ~FatalDeficit(b) /\ Advance(w, "push") /\ required' = required + b
    BY <1>7 DEF ReserveGroup, Reserve, Fails, spaceVars
  <2>3. CASE Advance(w, "gone") /\ required' = required + b
    BY <1>4, <2>3 DEF DeciderState
  <2>4. CASE b = 0 /\ Advance(w, "push") /\ UNCHANGED required
    <3>1. required' = required + b
      BY <1>0, <2>4, SMT
    <3> QED
      BY <1>0, <2>4, <3>1, ReserveSpace
  <2>5. CASE ~FatalDeficit(b) /\ Advance(w, "push") /\ required' = required + b
    BY <1>0, <1>1, <2>5, ReserveSpace
  <2> QED
    BY <2>2, <2>3, <2>4, <2>5
<1>8. ASSUME NEW w \in Decider, PushGroup(w) PROVE Space'
  <2>1. UNCHANGED required /\ decider[w].at = "push"
    BY <1>8 DEF PushGroup, spaceVars
  <2>2. \/ Advance(w, "credit") /\ claimed' = claimed + decider[w].need.bytes
        \/ Advance(w, "idle") /\ UNCHANGED claimed
    BY <1>8 DEF PushGroup
  <2>3. CASE Advance(w, "credit") /\ claimed' = claimed + decider[w].need.bytes
    BY <1>0, <2>1, <2>3, PushSpace
  <2>4. CASE Advance(w, "idle") /\ UNCHANGED claimed
    BY <1>4, <2>1, <2>4 DEF DeciderState
  <2> QED
    BY <2>2, <2>3, <2>4
<1>9. CASE \/ SendScan \/ Acquire \/ AcquireWoken \/ Publish \/ SenderReads \/ SenderReadsEnd
           \/ SenderFails \/ SenderReturns
  BY <1>2, <1>9 DEF SendScan, Acquire, AcquireWoken, Publish, SenderReads,
     SenderReadsEnd, SenderFails, SenderReturns, spaceVars
<1>10. CASE \/ ReadScan \/ ReadManifest \/ ReadEnd \/ Start \/ ReceiverFails
            \/ ReceiverReturns \/ FetchFile \/ UNCHANGED creditVars
  BY <1>2, <1>10 DEF ReadScan, ReadManifest, ReadEnd, Start, ReceiverFails,
     ReceiverReturns, FetchFile, creditVars, spaceVars
<1> QED
  BY <1>3, <1>5, <1>6, <1>7, <1>8, <1>9, <1>10 DEF CreditNext

-----------------------------------------------------------------------------
(* The results. *)

\* Before SCAN_COMPLETE the gate holds the grant and nothing is under way.
LEMMA CreditInitIInv == CreditInit => CreditIInv
<1> SUFFICES ASSUME CreditInit PROVE CreditIInv
  OBVIOUS
<1>1. CreditTypeOK
  <2>1. Idle \in [at : DeciderState, g : 0 .. MaxGroups, need : Needs \cup {Nothing}]
    BY CreditAssumption, SMT DEF Idle, Nothing, DeciderState
  <2>2. answers \in Seq(Answer)
    BY SMT DEF CreditInit
  <2>3. decider \in [Decider -> [at : DeciderState, g : 0 .. MaxGroups,
                               need : Needs \cup {Nothing}]]
    BY <2>1 DEF CreditInit
  <2>4. /\ groups \in 0 .. MaxGroups /\ avail \in Nat /\ next \in 0 .. groups
        /\ received \in 0 .. next /\ taken \in 0 .. received /\ total \in -1 .. MaxGroups
        /\ queued \in Nat /\ required \in Nat /\ claimed \in Nat
        /\ fallbacks \in 0 .. MaxFallbacks /\ failures \in 0 .. MaxFailures
    BY CreditAssumption, SMT DEF CreditInit
  <2> QED
    BY <2>2, <2>3, <2>4 DEF CreditInit, CreditTypeOK, PublisherState
<1>2. Balance
  BY FS_EmptySet, CreditAssumption, SMT DEF CreditInit, Balance, Spent
<1>3. Exchange
  <2>1. \A w \in Decider : ~AtWork(w)
    BY DEF CreditInit, AtWork, Idle, Busy
  <2>2. DOMAIN answers = {}
    BY SMT DEF CreditInit
  <2> QED
    BY <2>1, <2>2 DEF Exchange, Held, Ordered, Applied, CreditInit
<1>4. Counted
  BY DEF CreditInit, Counted, ClosedAfterLast
<1> QED
  BY <1>1, <1>2, <1>3, <1>4 DEF CreditIInv

\* One case per actor of the next-state relation.
LEMMA CreditNextIInv == CreditIInv /\ [CreditNext]_creditVars => CreditIInv'
<1> SUFFICES ASSUME CreditIInv, [CreditNext]_creditVars PROVE CreditIInv'
  OBVIOUS
<1>1. CASE SendScan \/ Acquire \/ AcquireWoken \/ Publish
  BY <1>1, PublisherStep
<1>2. CASE SenderReads
  BY <1>2, SenderReadsStep
<1>3. CASE ReadScan \/ ReadManifest \/ ReadEnd
  BY <1>3, ReaderStep
<1>4. CASE \/ SenderReadsEnd \/ SenderFails \/ SenderReturns
           \/ Start \/ ReceiverFails \/ ReceiverReturns \/ FetchFallback \/ FetchFile
  BY <1>4, OutsideStep
<1>5. CASE \E w \in Decider :
             \/ Take(w) \/ Leave(w) \/ SendDecision(w) \/ ReserveGroup(w)
             \/ SyncFails(w) \/ PushGroup(w) \/ SendCredit(w)
  BY <1>5, WorkerStep
<1>6. CASE UNCHANGED creditVars
  <2>1. Exchange' /\ Balance' /\ Counted'
    BY <1>6, QuietExchange, QuietBalance, QuietCounted DEF creditVars, senderVars,
       readerVars, CreditIInv
  <2>2. CreditTypeOK'
    BY <1>6, SMT DEF creditVars, senderVars, readerVars, spaceVars, failureVars, CreditIInv,
       CreditTypeOK
  <2> QED
    BY <2>1, <2>2 DEF CreditIInv
<1> QED
  BY <1>1, <1>2, <1>3, <1>4, <1>5, <1>6 DEF CreditNext

\* The inductive invariant holds in every reachable state.
LEMMA CreditInvariant == CreditSpec => []CreditIInv
BY CreditInitIInv, CreditNextIInv, PTL DEF CreditSpec

\* What the invariant says about the three counts that matter.
LEMMA Consequences ==
    CreditIInv => /\ OutstandingWithinCredit /\ CreditConserved
                  /\ ManifestsFit /\ ClosedAfterLast
<1> SUFFICES ASSUME CreditIInv
             PROVE  /\ OutstandingWithinCredit /\ CreditConserved
                    /\ ManifestsFit /\ ClosedAfterLast
  OBVIOUS
<1>1. /\ Cardinality(credited) \in Nat /\ Cardinality(decided) \in Nat
      /\ Cardinality(credited) <= Cardinality(decided) /\ Cardinality(decided) <= taken
  BY FiniteGroups DEF CreditIInv, Exchange
<1>2. avail \in Nat /\ next \in Nat /\ received \in 0 .. next /\ taken \in 0 .. received
      /\ GroupCredit \in Nat /\ Spent \in Nat
  BY CreditAssumption, SMT DEF CreditIInv, CreditTypeOK, Spent
<1>3. next <= GroupCredit + Cardinality(credited)
  BY <1>1, <1>2, SMT DEF CreditIInv, Balance
<1>4. OutstandingWithinCredit /\ ManifestsFit
  BY <1>1, <1>2, <1>3, SMT DEF OutstandingWithinCredit, ManifestsFit
<1>5. CreditConserved
  BY DEF CreditIInv, Balance, CreditConserved, Spent
<1>6. ClosedAfterLast
  BY DEF CreditIInv, Counted
<1> QED
  BY <1>4, <1>5, <1>6

\* INV-2 for every grant, every number of decide workers and every plan
\* (sender/state.go, creditGate; receiver/decide.go, the order of the sends).
THEOREM CreditBound == CreditSpec => []OutstandingWithinCredit
BY CreditInvariant, Consequences, PTL

\* No path of the exchange duplicates or loses a unit of credit while the
\* publisher runs (creditGate.acquire and add, decideGroup's CREDIT).
THEOREM Conservation == CreditSpec => []CreditConserved
BY CreditInvariant, Consequences, PTL

\* The buffer of manifestCh never holds more manifests than the grant
\* (receiver/run.go, make(chan, 2*GroupCredit+8)).
THEOREM BufferBound == CreditSpec => []ManifestsFit
BY CreditInvariant, Consequences, PTL

\* closeManifest runs behind the last manifest or after the reader's end: no
\* send on a closed channel (receiver/run.go, the control reader's count).
THEOREM ClosedInOrder == CreditSpec => []ClosedAfterLast
BY CreditInvariant, Consequences, PTL

\* A decide pool that has returned in a session that has not failed has sent
\* the decision of every group of the plan, however the groups were shared
\* out (receiver/run.go, pipeline.wait; receiver/decide.go).
THEOREM PoolDecides == CreditSpec => []PoolDecidesAll
<1>1. CreditInit => Duty
  <2> SUFFICES ASSUME CreditInit PROVE Duty
    OBVIOUS
  <2>1. \A w \in Decider : decider[w].at = "idle"
    BY DEF CreditInit, Idle
  <2> QED
    BY <2>1, SMT DEF CreditInit, Duty
<1>2. CreditIInv /\ Duty => PoolDecidesAll
  <2> SUFFICES ASSUME CreditIInv, Duty, started, ~cancelled,
                      \A w \in Decider : decider[w].at = "gone",
                      NEW g \in 0 .. groups - 1
               PROVE  Told(g)
    BY DEF PoolDecidesAll, Told, DecisionOf
  <2>1. PICK w \in Decider : TRUE
    BY CreditAssumption
  <2>2. closed /\ taken = received /\ reader
    BY <2>1 DEF Duty
  <2>3. received = groups
    BY <2>2 DEF CreditIInv, Counted, ClosedAfterLast
  <2> QED
    BY <2>2, <2>3 DEF Duty
<1> QED
  BY <1>1, <1>2, DutyStep, CreditInvariant, CreditInitIInv, CreditNextIInv, PTL DEF CreditSpec

\* Whatever the interleaving of decide workers and hardlink fallbacks, the
\* bytes pushed for fetching stay within the free space measured at startup
\* (receiver/space.go, reserve; receiver/decide.go, fetchInstead).
THEOREM DiskNeverOverrun == CreditSpec => []ClaimsFitDisk
<1>1. CreditInit => Space
  <2> SUFFICES ASSUME CreditInit PROVE Space
    OBVIOUS
  <2> DEFINE S == [w \in Decider |-> {}]
  <2>1. S \in [Decider -> SUBSET Disk] /\ {} \in SUBSET Disk
    OBVIOUS
  <2>2. \A w \in Decider : decider[w].at = "idle"
    BY DEF CreditInit, Idle
  <2>3. Cardinality({}) = 0
    BY FS_EmptySet
  <2> HIDE DEF S
  <2>4. Places(S, {})
    BY <2>2, <2>3 DEF CreditInit, Places
  <2> QED
    BY <2>1, <2>4 DEF Space
<1>2. Space => ClaimsFitDisk
  <2> SUFFICES ASSUME NEW S \in [Decider -> SUBSET Disk], NEW C \in SUBSET Disk, Places(S, C)
               PROVE  claimed <= Free
    BY DEF Space, ClaimsFitDisk
  <2>1. Cardinality(C) <= Free
    <3>1. {} \in SUBSET Disk /\ C \cap {} = {}
      OBVIOUS
    <3> QED
      BY <3>1, Apart
  <2> QED
    BY <2>1 DEF Places
<1> QED
  BY <1>1, <1>2, SpaceStep, CreditInvariant, PTL DEF CreditSpec

\* The types of the state, among them the order taken <= received <= next <=
\* groups of the four counters.
THEOREM Typed == CreditSpec => []CreditTypeOK
<1>1. CreditIInv => CreditTypeOK
  BY DEF CreditIInv
<1> QED
  BY <1>1, CreditInvariant, PTL

-----------------------------------------------------------------------------
(***************************************************************************)
(* Tracker.  The end of a session is found exactly when it is one, for     *)
(* every plan and every number of channels and requests.                   *)
(***************************************************************************)

-----------------------------------------------------------------------------
\* The open requests and the decided groups are finite sets.
LEMMA Finite ==
    ASSUME TypeOK
    PROVE  /\ IsFiniteSet(Open) /\ Cardinality(Open) \in Nat
           /\ IsFiniteSet(decidedSet) /\ Cardinality(decidedSet) \in Nat
           /\ Total \in Nat
           /\ Cardinality(decidedSet) <= Total
           /\ Cardinality(decidedSet) = Total => decidedSet = Group
<1>1. Open \subseteq Request /\ decidedSet \subseteq Group
  BY DEF Open, TypeOK
<1> QED
  BY <1>1, TrackerAssumption, FS_Subset, FS_CardinalityType DEF Total

\* finishLocked closes at most the request it is given, counts it once, and
\* resolves its file if asked to.
LEMMA FinishFacts ==
    ASSUME TypeOK, inflight = Cardinality(Open),
           NEW r \in Request, NEW resolve \in BOOLEAN, FinishLocked(r, resolve)
    PROVE  /\ reqToFile' \in [Request -> File \cup {None}]
           /\ Open' = Open \ {r}
           /\ \A q \in Open' : reqToFile'[q] = reqToFile[q]
           /\ inflight' \in Nat
           /\ inflight' = Cardinality(Open')
           /\ resolved \subseteq resolved'
           /\ resolved' \subseteq File
           /\ resolve /\ r \in Open => reqToFile[r] \in resolved'
<1>1. CASE r \in Open
  <2> /\ reqToFile' = [reqToFile EXCEPT ![r] = None]
      /\ inflight' = inflight - 1
      /\ resolved' = IF resolve THEN resolved \cup {reqToFile[r]} ELSE resolved
    BY <1>1 DEF FinishLocked
  <2>2. reqToFile[r] \in File
    BY <1>1 DEF Open, TypeOK
  <2>3. /\ reqToFile' \in [Request -> File \cup {None}]
        /\ Open' = Open \ {r}
        /\ \A q \in Open' : reqToFile'[q] = reqToFile[q]
    BY DEF Open, TypeOK
  <2>4. inflight' \in Nat /\ inflight' = Cardinality(Open')
    <3>1. IsFiniteSet(Open)
      BY Finite
    <3>2. /\ IsFiniteSet(Open \ {r})
          /\ Cardinality(Open \ {r}) = Cardinality(Open) - 1
      BY <1>1, <3>1, FS_RemoveElement
    <3>3. Cardinality(Open \ {r}) \in Nat
      BY <3>2, FS_CardinalityType
    <3> QED
      BY <2>3, <3>2, <3>3
  <2> QED
    BY <2>2, <2>3, <2>4 DEF TypeOK
<1>2. CASE r \notin Open
  <2>1. UNCHANGED <<reqToFile, inflight, resolved>>
    BY <1>2 DEF FinishLocked, requestVars
  <2> QED
    BY <1>2, <2>1 DEF Open, TypeOK
<1> QED
  BY <1>1, <1>2

\* What the last statement of a method, reevalLocked, establishes.
LEMMA ReevalFacts ==
    ASSUME decidedSet' \subseteq Group,
           reqToFile' \in [Request -> File \cup {None}],
           inflight' = Cardinality(Open'),
           groupsDecided' = Cardinality(decidedSet'),
           TypeOK,
           doneClosed => decidedSet' = Group /\ needed' \subseteq resolved',
           Reeval
    PROVE  /\ decidedDone' \in BOOLEAN /\ doneClosed' \in BOOLEAN
           /\ DoneIsSound' /\ DoneNotMissed'
<1>1. Open' \subseteq Request
  BY DEF Open
<1>2. /\ IsFiniteSet(Open') /\ inflight' \in Nat
      /\ inflight' = 0 <=> Open' = {}
      /\ groupsDecided' \in Nat /\ Total \in Nat
      /\ groupsDecided' <= Total
      /\ groupsDecided' = Total <=> decidedSet' = Group
  BY <1>1, TrackerAssumption, FS_Subset, FS_CardinalityType, FS_EmptySet DEF Total
<1>3. decidedDone' \in BOOLEAN /\ doneClosed' \in BOOLEAN
  BY DEF Reeval, TypeOK
<1>4. doneClosed' <=> \/ doneClosed
                      \/ decidedSet' = Group /\ Open' = {} /\ needed' \subseteq resolved'
  BY <1>2, SMT DEF Reeval, TypeOK
<1>5. DoneIsSound'
  BY <1>4 DEF DoneIsSound
<1>6. DoneNotMissed'
  BY <1>4 DEF DoneNotMissed
<1> QED
  BY <1>3, <1>5, <1>6

-----------------------------------------------------------------------------
LEMMA InitIInv == Init => IInv
<1> SUFFICES ASSUME Init PROVE IInv
  OBVIOUS
<1> Open = {} /\ Total \in Nat
  BY TrackerAssumption, FS_CardinalityType DEF Init, Open, Total
<1>2. Total = 0 <=> Group = {}
  BY TrackerAssumption, FS_EmptySet DEF Total
<1>3. TypeOK
  BY DEF Init, TypeOK, ServicerState, WaiterState
<1>4. CountersExact
  BY FS_EmptySet DEF Init, CountersExact
<1>5. ServingAsked /\ WorkTracked /\ CompletedResolved
  BY DEF Init, ServingAsked, WorkTracked, CompletedResolved
<1>6. DoneIsSound /\ DoneNotMissed
  BY <1>2 DEF Init, DoneIsSound, DoneNotMissed
<1> QED
  BY <1>3, <1>4, <1>5, <1>6 DEF IInv

-----------------------------------------------------------------------------
\* A decision for an undecided group keeps the invariant.
LEMMA DecisionIInv ==
    ASSUME IInv, NEW g \in Group, ReadDecision(g)
    PROVE  IInv'
<1> /\ TypeOK /\ CountersExact /\ ServingAsked /\ WorkTracked
    /\ DoneIsSound /\ DoneNotMissed /\ CompletedResolved
  BY DEF IInv
<1>2. PICK N \in SUBSET Members[g] : Decision(g, N)
  BY DEF ReadDecision
<1> /\ g \notin decidedSet
    /\ decidedSet' = decidedSet \cup {g}
    /\ groupsDecided' = groupsDecided + 1
    /\ needed' = needed \cup N
    /\ Reeval
  BY <1>2 DEF Decision
<1> UNCHANGED <<reqToFile, inflight, resolved, completed, failedSet, moved,
                asked, serving, at, waiter, rootDone>>
  BY <1>2 DEF Decision, ReadDecision, requestVars, countVars, servicerVars
<1>5. Open' = Open
  BY DEF Open
<1>6. decidedSet' \subseteq Group /\ needed' \subseteq File
  BY TrackerAssumption DEF TypeOK
<1> groupsDecided' \in Nat /\ CountersExact'
  <2>1. IsFiniteSet(decidedSet)
    BY Finite
  <2>2. Cardinality(decidedSet') = Cardinality(decidedSet) + 1
    BY <2>1, FS_AddElement
  <2> QED
    BY <1>5, <2>2, SMT DEF CountersExact, TypeOK
<1>8. /\ decidedDone' \in BOOLEAN /\ doneClosed' \in BOOLEAN
      /\ DoneIsSound' /\ DoneNotMissed'
  <2>1. ~doneClosed
    BY DEF DoneIsSound
  <2>2. reqToFile' \in [Request -> File \cup {None}]
    BY DEF TypeOK
  <2> QED
    BY <1>6, <2>1, <2>2, ReevalFacts DEF CountersExact
<1>9. TypeOK'
  BY <1>6, <1>8 DEF TypeOK
<1>10. ServingAsked' /\ WorkTracked' /\ CompletedResolved'
  BY <1>5 DEF ServingAsked, WorkTracked, CompletedResolved
<1> QED
  BY <1>8, <1>9, <1>10 DEF IInv

\* A request that arrives under a fresh id keeps the invariant; it can only
\* keep the session from ending.
LEMMA StartIInv ==
    ASSUME IInv, NEW s \in Servicer, NEW r \in Request, NEW f \in File,
           ReqStarted(s, r, f), UNCHANGED <<moved, waiter, rootDone>>
    PROVE  IInv'
<1> /\ TypeOK /\ CountersExact /\ ServingAsked /\ WorkTracked
    /\ DoneIsSound /\ DoneNotMissed /\ CompletedResolved
  BY DEF IInv
<1> /\ asked[r] = None
    /\ asked' = [asked EXCEPT ![r] = f]
    /\ serving' = [serving EXCEPT ![s] = r]
    /\ reqToFile' = [reqToFile EXCEPT ![r] = f]
    /\ inflight' = inflight + 1
    /\ at' = [at EXCEPT ![s] = "started"]
  BY DEF ReqStarted
<1>3. UNCHANGED <<resolved, decidedSet, groupsDecided, needed, completed,
                  failedSet, decidedDone, doneClosed, moved, waiter, rootDone>>
  BY DEF ReqStarted, decisionVars, countVars, closeVars
<1>4. f # None /\ r # None
  BY TrackerAssumption
<1>5. r \notin Open
  BY TrackerAssumption DEF ServingAsked, Open, TypeOK
<1>6. Open' = Open \cup {r}
  BY <1>4 DEF Open, TypeOK
<1>7. CountersExact'
  <2>1. IsFiniteSet(Open)
    BY Finite
  <2>2. Cardinality(Open') = Cardinality(Open) + 1
    BY <1>5, <1>6, <2>1, FS_AddElement
  <2> QED
    BY <1>3, <2>2 DEF CountersExact
<1>8. TypeOK'
  BY <1>3, SMT DEF TypeOK, ServicerState
<1>9. ServingAsked'
  <2>1. \A q \in Request : q # r => asked'[q] = asked[q] /\ reqToFile'[q] = reqToFile[q]
    BY DEF TypeOK
  <2>2. asked'[r] = f /\ reqToFile'[r] = f
    BY DEF TypeOK
  <2> serving'[s] = r /\ \A t \in Servicer : t # s => serving'[t] = serving[t] /\ serving[t] # r
    BY <1>4 DEF TypeOK, ServingAsked
  <2>4. \A t \in Servicer : at'[t] \in {"started", "serve"} => serving'[t] # None
    BY <1>4 DEF TypeOK, ServingAsked
  <2>5. \A t \in Servicer : serving'[t] # None => asked'[serving'[t]] # None
    BY <1>4, <2>1, <2>2, SMT DEF TypeOK, ServingAsked
  <2>6. \A q \in Open' : reqToFile'[q] = asked'[q]
    BY <1>6, <2>1, <2>2 DEF ServingAsked, Open
  <2>7. \A t, u \in Servicer : serving'[t] # None /\ serving'[t] = serving'[u] => t = u
    BY SMT DEF ServingAsked
  <2> QED
    BY <2>4, <2>5, <2>6, <2>7 DEF ServingAsked
<1>10. WorkTracked'
  <2> SUFFICES ASSUME NEW t \in Servicer, at'[t] \in {"started", "serve"}
               PROVE  serving'[t] \in Open' \/ asked'[serving'[t]] \in resolved'
    BY DEF WorkTracked
  <2>1. CASE t = s
    BY <1>6, <2>1 DEF TypeOK
  <2>2. CASE t # s
    <3>1. serving'[t] = serving[t] /\ at'[t] = at[t]
      BY <2>2 DEF TypeOK
    <3>2. serving[t] \in Request /\ serving[t] # r
      BY <3>1 DEF ServingAsked, TypeOK
    <3>3. asked'[serving[t]] = asked[serving[t]]
      BY <3>2 DEF TypeOK
    <3> QED
      BY <1>3, <1>6, <3>1, <3>3, SMT DEF WorkTracked
  <2> QED
    BY <2>1, <2>2
<1>11. DoneIsSound' /\ DoneNotMissed' /\ CompletedResolved'
  BY <1>3, <1>6 DEF DoneIsSound, DoneNotMissed, CompletedResolved
<1> QED
  BY <1>7, <1>8, <1>9, <1>10, <1>11 DEF IInv

\* What every method that ends a request keeps, given what finishLocked and
\* the servicer's own bookkeeping did: the request that s was serving (or
\* the one a cancellation names) is closed, and its file is resolved or s no
\* longer works on it.
LEMMA EndIInv ==
    ASSUME IInv, NEW s \in Servicer, NEW r \in Request, NEW resolve \in BOOLEAN,
           FinishLocked(r, resolve),
           resolve \/ r = serving[s],
           at' = [at EXCEPT ![s] = "ended"],
           completed' \subseteq File, failedSet' \subseteq File,
           completed' \cup failedSet' \subseteq resolved',
           UNCHANGED <<asked, serving, decidedSet, groupsDecided, needed,
                       moved, waiter, rootDone>>,
           Reeval
    PROVE  IInv'
<1> /\ TypeOK /\ CountersExact /\ ServingAsked /\ WorkTracked
    /\ DoneIsSound /\ DoneNotMissed /\ CompletedResolved
  BY DEF IInv
<1>2. /\ reqToFile' \in [Request -> File \cup {None}]
      /\ Open' = Open \ {r}
      /\ \A q \in Open' : reqToFile'[q] = reqToFile[q]
      /\ inflight' \in Nat
      /\ inflight' = Cardinality(Open')
      /\ resolved \subseteq resolved'
      /\ resolved' \subseteq File
      /\ resolve /\ r \in Open => reqToFile[r] \in resolved'
  BY FinishFacts DEF CountersExact
<1>3. /\ decidedDone' \in BOOLEAN /\ doneClosed' \in BOOLEAN
      /\ DoneIsSound' /\ DoneNotMissed'
  <2>1. doneClosed => decidedSet' = Group /\ needed' \subseteq resolved'
    BY <1>2 DEF DoneIsSound
  <2>2. groupsDecided' = Cardinality(decidedSet') /\ decidedSet' \subseteq Group
    BY DEF CountersExact, TypeOK
  <2> QED
    BY <1>2, <2>1, <2>2, ReevalFacts
<1>4. CountersExact'
  BY <1>2 DEF CountersExact
<1>5. TypeOK'
  BY <1>2, <1>3 DEF TypeOK, ServicerState
<1>6. \A t \in Servicer : /\ at'[t] \in {"started", "serve"} => t # s /\ at'[t] = at[t]
  BY DEF TypeOK
<1>7. ServingAsked'
  BY <1>2, <1>6 DEF ServingAsked
<1>8. WorkTracked'
  <2> SUFFICES ASSUME NEW t \in Servicer, at'[t] \in {"started", "serve"}
               PROVE  serving[t] \in Open' \/ asked[serving[t]] \in resolved'
    BY DEF WorkTracked
  <2>1. t # s /\ at[t] \in {"started", "serve"}
    BY <1>6
  <2>2. serving[t] \in Open \/ asked[serving[t]] \in resolved
    BY <2>1 DEF WorkTracked
  <2>3. serving[t] # serving[s]
    BY <2>1 DEF ServingAsked
  <2>4. CASE serving[t] = r /\ r \in Open
    <3>1. resolve
      BY <2>3, <2>4
    <3>2. reqToFile[r] = asked[r]
      BY <2>4 DEF ServingAsked
    <3> QED
      BY <1>2, <2>4, <3>1, <3>2
  <2> QED
    BY <1>2, <2>2, <2>4
<1>9. CompletedResolved'
  BY DEF CompletedResolved
<1> QED
  BY <1>3, <1>4, <1>5, <1>7, <1>8, <1>9 DEF IInv

LEMMA CompletedIInv ==
    ASSUME IInv, NEW s \in Servicer, ReqCompleted(s), UNCHANGED <<moved, waiter, rootDone>>
    PROVE  IInv'
<1> DEFINE r == serving[s]
<1> TypeOK /\ CountersExact /\ ServingAsked /\ WorkTracked /\ CompletedResolved
  BY DEF IInv
<1> /\ at[s] = "serve"
    /\ FinishLocked(r, TRUE)
    /\ completed' = completed \cup {asked[r]}
    /\ at' = [at EXCEPT ![s] = "ended"]
    /\ Reeval
    /\ UNCHANGED <<asked, serving, failedSet, decidedSet, groupsDecided, needed>>
  BY DEF ReqCompleted, decisionVars
<1> r \in Request /\ asked[r] \in File
  BY SMT DEF ServingAsked, TypeOK
<1>4. /\ resolved \subseteq resolved'
      /\ r \in Open => reqToFile[r] \in resolved'
  BY FinishFacts DEF CountersExact
<1>5. asked[r] \in resolved'
  BY <1>4 DEF WorkTracked, ServingAsked
<1>6. completed' \subseteq File /\ failedSet' \subseteq File
  BY DEF TypeOK
<1>7. completed' \cup failedSet' \subseteq resolved'
  BY <1>4, <1>5 DEF CompletedResolved
<1> HIDE DEF r
<1> QED
  BY <1>6, <1>7, EndIInv

LEMMA FailedIInv ==
    ASSUME IInv, NEW s \in Servicer, NEW permanent \in BOOLEAN,
           ReqFailed(s, permanent), UNCHANGED <<moved, waiter, rootDone>>
    PROVE  IInv'
<1> DEFINE r == serving[s]
<1> TypeOK /\ CountersExact /\ ServingAsked /\ CompletedResolved
  BY DEF IInv
<1> /\ at[s] = "serve"
    /\ FinishLocked(r, permanent)
    /\ failedSet' = IF permanent /\ r \in Open
                    THEN failedSet \cup {reqToFile[r]} ELSE failedSet
    /\ at' = [at EXCEPT ![s] = "ended"]
    /\ Reeval
    /\ UNCHANGED <<asked, serving, completed, decidedSet, groupsDecided, needed>>
  BY DEF ReqFailed, decisionVars
<1>3. r \in Request
  BY DEF ServingAsked, TypeOK
<1>4. /\ resolved \subseteq resolved'
      /\ resolved' \subseteq File
      /\ permanent /\ r \in Open => reqToFile[r] \in resolved'
  BY <1>3, FinishFacts DEF CountersExact
<1>5. completed' \cup failedSet' \subseteq resolved'
  BY <1>4 DEF CompletedResolved
<1>6. completed' \subseteq File /\ failedSet' \subseteq File
  BY <1>4, <1>5
<1>7. permanent \/ r = serving[s]
  OBVIOUS
<1> HIDE DEF r
<1> QED
  BY <1>3, <1>5, <1>6, <1>7, EndIInv, ZenonT(30)

LEMMA CancelledIInv ==
    ASSUME IInv, NEW s \in Servicer, NEW r \in Request,
           ReqCancelled(s, r), UNCHANGED <<moved, waiter, rootDone>>
    PROVE  IInv'
<1>1. TypeOK /\ CountersExact /\ CompletedResolved
  BY DEF IInv
<1> /\ FinishLocked(r, TRUE)
    /\ at' = [at EXCEPT ![s] = "ended"]
    /\ Reeval
    /\ UNCHANGED <<asked, serving, completed, failedSet, decidedSet,
                   groupsDecided, needed>>
  BY DEF ReqCancelled, decisionVars, countVars
<1>3. resolved \subseteq resolved' /\ resolved' \subseteq File
  BY <1>1, FinishFacts DEF CountersExact
<1>4. completed' \cup failedSet' \subseteq resolved'
  BY <1>1, <1>3 DEF CompletedResolved
<1>5. completed' \subseteq File /\ failedSet' \subseteq File
  BY <1>3, <1>4
<1> QED
  BY <1>4, <1>5, EndIInv

\* A step that touches neither the tracker's maps nor what the servicers
\* work on keeps the invariant.
LEMMA QuietIInv ==
    ASSUME IInv, UNCHANGED <<trackerVars, asked>>,
           \/ UNCHANGED <<serving, at>>
           \/ \E s \in Servicer : Bump(s),
           moved' \in BOOLEAN, waiter' \in WaiterState, rootDone' \in BOOLEAN
    PROVE  IInv'
<1> /\ TypeOK /\ CountersExact /\ ServingAsked /\ WorkTracked
    /\ DoneIsSound /\ DoneNotMissed /\ CompletedResolved
  BY DEF IInv
<1> UNCHANGED <<decidedSet, groupsDecided, needed, resolved, reqToFile, inflight,
                completed, failedSet, decidedDone, doneClosed, asked>>
  BY DEF trackerVars, requestVars, decisionVars, countVars, closeVars
<1> Open' = Open
  BY DEF Open
<1> /\ serving' \in [Servicer -> Request \cup {None}]
    /\ at' \in [Servicer -> ServicerState]
    /\ \A t \in Servicer :
          /\ serving'[t] # None => serving'[t] = serving[t]
          /\ at'[t] \in {"started", "serve"} =>
                serving'[t] = serving[t] /\ at[t] \in {"started", "serve"}
  BY SMT DEF Bump, TypeOK, ServicerState
<1>5. TypeOK'
  BY DEF TypeOK
<1>6. ServingAsked'
  <2>1. \A s \in Servicer : serving'[s] # None => asked'[serving'[s]] # None
    BY DEF ServingAsked
  <2>2. \A s \in Servicer : at'[s] \in {"started", "serve"} => serving'[s] # None
    BY DEF ServingAsked
  <2>3. ASSUME NEW s \in Servicer, NEW t \in Servicer, serving'[s] # None, serving'[s] = serving'[t]
        PROVE  s = t
    <3>1. serving[s] # None /\ serving[s] = serving[t]
      BY <2>3
    <3> QED
      BY <3>1 DEF ServingAsked
  <2> QED
    BY <2>1, <2>2, <2>3 DEF ServingAsked
<1>7. WorkTracked'
  BY DEF WorkTracked
<1>8. /\ CountersExact' /\ DoneIsSound' /\ DoneNotMissed' /\ CompletedResolved'
  BY DEF CountersExact, DoneIsSound, DoneNotMissed, CompletedResolved
<1> QED
  BY <1>5, <1>6, <1>7, <1>8 DEF IInv

-----------------------------------------------------------------------------
LEMMA NextIInv == IInv /\ [Next]_vars => IInv'
<1> SUFFICES ASSUME IInv, [Next]_vars PROVE IInv'
  OBVIOUS
<1> moved \in BOOLEAN /\ waiter \in WaiterState /\ rootDone \in BOOLEAN
  BY DEF IInv, TypeOK
<1>2. ASSUME NEW g \in Group, ReadDecision(g) PROVE IInv'
  BY <1>2, DecisionIInv
<1>3. ASSUME NEW g \in Group, DuplicateDecision(g) PROVE IInv'
  BY <1>3, QuietIInv DEF DuplicateDecision, servicerVars
<1>4. ASSUME NEW s \in Servicer, ServicerStep(s) PROVE IInv'
  <2>1. ASSUME NEW r \in Request, NEW f \in File, ReqStarted(s, r, f),
               UNCHANGED <<moved, waiter, rootDone>>
        PROVE  IInv'
    BY <2>1, StartIInv
  <2>2. CASE ReqCompleted(s) /\ UNCHANGED <<moved, waiter, rootDone>>
    BY <2>2, CompletedIInv
  <2>3. ASSUME NEW permanent \in BOOLEAN, ReqFailed(s, permanent),
               UNCHANGED <<moved, waiter, rootDone>>
        PROVE  IInv'
    BY <2>3, FailedIInv
  <2>4. ASSUME NEW r \in Request, ReqCancelled(s, r),
               UNCHANGED <<moved, waiter, rootDone>>
        PROVE  IInv'
    BY <2>4, CancelledIInv
  <2>5. CASE Bump(s)
    <3>1. UNCHANGED <<trackerVars, asked>> /\ moved' \in BOOLEAN
          /\ UNCHANGED <<waiter, rootDone>>
      BY <2>5 DEF Bump
    <3> QED
      BY <2>5, <3>1, QuietIInv
  <2>6. CASE Chunk(s)
    BY <2>6, QuietIInv DEF Chunk, servicerVars
  <2> QED
    BY <1>4, <2>1, <2>2, <2>3, <2>4, <2>5, <2>6, SMT DEF ServicerStep
<1>5. CASE WaitReturns
  BY <1>5, QuietIInv DEF WaitReturns, servicerVars, WaiterState, Returned
<1>6. CASE WaitArms
  BY <1>6, QuietIInv DEF WaitArms, servicerVars, WaiterState
<1>7. CASE WaitTimer
  BY <1>7, QuietIInv DEF WaitTimer, servicerVars, WaiterState
<1>8. CASE WaitSample
  BY <1>8, QuietIInv DEF WaitSample, servicerVars, WaiterState, Returned
<1>9. CASE CancelRoot
  BY <1>9, QuietIInv DEF CancelRoot, servicerVars
<1>10. CASE UNCHANGED vars
  BY <1>10, QuietIInv DEF vars, servicerVars
<1>11. CASE Terminated
  BY <1>10, <1>11 DEF Terminated
<1> QED
  BY <1>2, <1>3, <1>4, <1>5, <1>6, <1>7, <1>8, <1>9, <1>10, <1>11, SMTT(20) DEF Next

\* The inductive invariant of the tracker holds in every session: its
\* counters are exact, its termination condition is sound and not missed.
THEOREM TrackerSafe == Spec => []IInv
<1> QED
  BY InitIInv, NextIInv, PTL DEF Spec

\* Every variable of the tracker keeps its type; in particular the in-flight
\* counter never goes below zero.
THEOREM TrackerTypes == Spec => []TypeOK
<1>1. IInv => TypeOK
  BY DEF IInv
<1> QED
  BY <1>1, TrackerSafe, PTL

\* inflight and groupsDecided agree with the maps they shadow, whichever of
\* completion, failure and cancellation reaches a request first.
THEOREM CountersAgree == Spec => []CountersExact
<1>1. IInv => CountersExact
  BY DEF IInv
<1> QED
  BY <1>1, TrackerSafe, PTL

\* doneCh is closed only when every group is decided and every needed file
\* is resolved (reevalLocked).
THEOREM EndIsSound == Spec => []DoneIsSound
<1>1. IInv => DoneIsSound
  BY DEF IInv
<1> QED
  BY <1>1, TrackerSafe, PTL

\* doneCh is closed in every state in which the session is over, although
\* reqStarted does not re-evaluate the condition.
THEOREM EndIsNotMissed == Spec => []DoneNotMissed
<1>1. IInv => DoneNotMissed
  BY DEF IInv
<1> QED
  BY <1>1, TrackerSafe, PTL

\* A completed or permanently failed file is resolved, and a file whose
\* request is being served is open or resolved.
THEOREM NothingForgotten == Spec => [](CompletedResolved /\ WorkTracked)
<1>1. IInv => CompletedResolved /\ WorkTracked
  BY DEF IInv
<1> QED
  BY <1>1, TrackerSafe, PTL

\* Once doneCh is closed it stays closed and no later decision adds a needed
\* file: the summary the sender then writes is about a finished session.
THEOREM EndIsFinal == Spec => DoneIsFinal
<1>1. ASSUME IInv, [Next]_vars
      PROVE  [doneClosed => doneClosed' /\ UNCHANGED decisionVars]_vars
  <2> SUFFICES ASSUME doneClosed PROVE doneClosed' /\ UNCHANGED decisionVars
    OBVIOUS
  <2>1. decidedSet = Group
    BY <1>1 DEF IInv, DoneIsSound
  <2>2. ASSUME NEW g \in Group PROVE ~ReadDecision(g)
    BY <2>1 DEF ReadDecision, Decision
  <2>3. ASSUME Reeval PROVE doneClosed'
    BY <2>3 DEF Reeval
  <2>4. ASSUME NEW s \in Servicer, ServicerStep(s)
        PROVE  doneClosed' /\ UNCHANGED decisionVars
    BY <2>3, <2>4 DEF ServicerStep, ReqStarted, ReqCompleted, ReqFailed,
       ReqCancelled, Bump, Chunk, trackerVars, closeVars
  <2>5. CASE UNCHANGED trackerVars
    BY <2>5 DEF trackerVars, closeVars
  <2> QED
    BY <1>1, <2>2, <2>4, <2>5 DEF Next, DuplicateDecision, WaitReturns, WaitArms,
       WaitTimer, WaitSample, CancelRoot, Terminated, vars
<1> QED
  BY <1>1, TrackerSafe, PTL DEF Spec, DoneIsFinal

\* Every completed and every permanently failed file is resolved, in whatever
\* order its requests end (reqCompleted, reqFailed).
THEOREM EndsAreResolved == Spec => []CompletedResolved
<1>1. IInv => CompletedResolved
  BY DEF IInv
<1> QED
  BY <1>1, TrackerSafe, PTL
=============================================================================
