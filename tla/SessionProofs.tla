--------------------------- MODULE SessionProofs ----------------------------
(***************************************************************************)
(* How a session ends, for any plan, any number of channels and retries    *)
(* and any faults: the receiver's books are exact, the two sides disagree  *)
(* together, and what was acknowledged is in place.                        *)
(***************************************************************************)
EXTENDS Session, TLAPS, FiniteSetTheorems

USE ZenonT(30)

-----------------------------------------------------------------------------
(***************************************************************************)
(* Types.                                                                  *)
(***************************************************************************)
Codes == {"E3003", "E4005"}

\* The messages in a queue.
Msgs(q) == {q[i] : i \in 1 .. Len(q)}

Decisions == [type : {"decision"}, group : Group, needed : SUBSET File]
Acks == [type : {"ack"}, done : SUBSET File]
Summaries == [type : {"summary"}, done : SUBSET File]
Endings == [type : {"error", "close"} \cup Codes]
ToSender == Decisions \cup Acks \cup Endings
ToReceiver == Summaries \cup Endings

Claims == [done : SUBSET File, failed : SUBSET File]

QueueTypes == toSender \in Seq(ToSender) /\ toReceiver \in Seq(ToReceiver)

TrackerTypes ==
    /\ sDecided \subseteq Group
    /\ needed \subseteq File /\ resolved \subseteq File
    /\ sCompleted \subseteq File /\ sFailed \subseteq File
    /\ over \in BOOLEAN

MainTypes ==
    /\ sMain \in {"wait", "ack", "exited"} /\ sRoot \in BOOLEAN
    /\ ackBox \in (SUBSET File) \cup {None}
    /\ claimed \in Claims \cup {None}
    /\ rMain \in {"pipeline", "summary", "exited"} /\ rRoot \in BOOLEAN
    /\ summaryBox \in (SUBSET File) \cup {None}

ControlTypes == QueueTypes /\ TrackerTypes /\ MainTypes

FileTypes ==
    /\ decided \subseteq Group
    /\ pool \in [File -> {"absent", "ready", "taken", "finished"}]
    /\ onDest \subseteq File /\ rCompleted \subseteq File
    /\ failed \in Nat
    /\ primaries \subseteq File /\ parked \subseteq File

\* Reading and writing a queue.
LEMMA ReadQueue ==
    ASSUME NEW S, NEW q \in Seq(S), q # <<>>
    PROVE  /\ Tail(q) \in Seq(S) /\ Head(q) \in S
           /\ Head(q) \in Msgs(q) /\ Msgs(Tail(q)) \subseteq Msgs(q)
           /\ Msgs(q) = {Head(q)} \cup Msgs(Tail(q))
<1> USE SMT
<1>1. /\ Tail(q) \in Seq(S) /\ Head(q) \in S /\ Head(q) = q[1]
      /\ Len(q) \in Nat /\ Len(q) >= 1 /\ Len(Tail(q)) = Len(q) - 1
      /\ \A i \in 1 .. Len(q) - 1 : Tail(q)[i] = q[i + 1]
  OBVIOUS
<1>2. Msgs(Tail(q)) \subseteq Msgs(q)
  BY <1>1 DEF Msgs
<1>3. Head(q) \in Msgs(q)
  BY <1>1 DEF Msgs
<1>4. ASSUME NEW m \in Msgs(q), m # Head(q) PROVE m \in Msgs(Tail(q))
  <2>1. PICK i \in 1 .. Len(q) : m = q[i]
    BY DEF Msgs
  <2>2. i # 1 /\ i - 1 \in 1 .. Len(Tail(q)) /\ Tail(q)[i - 1] = m
    BY <1>1, <1>4, <2>1
  <2> QED
    BY <2>2, Zenon DEF Msgs
<1> QED
  BY <1>1, <1>2, <1>3, <1>4

\* Appending a message adds it, and only it.
LEMMA WriteQueue ==
    ASSUME NEW S, NEW q \in Seq(S), NEW m \in S
    PROVE  Append(q, m) \in Seq(S) /\ Msgs(Append(q, m)) = Msgs(q) \cup {m}
<1> USE SMT
<1>1. /\ Append(q, m) \in Seq(S) /\ Len(q) \in Nat /\ Len(Append(q, m)) = Len(q) + 1
      /\ \A i \in 1 .. Len(q) : Append(q, m)[i] = q[i]
      /\ Append(q, m)[Len(q) + 1] = m
  OBVIOUS
<1> QED
  BY <1>1 DEF Msgs

\* Concatenating nothing, or one message.
LEMMA Concats ==
    ASSUME NEW S, NEW q \in Seq(S), NEW m \in S
    PROVE  q \o <<>> = q /\ q \o <<m>> = Append(q, m)
BY SMT

\* The empty wire carries no message.
LEMMA NoMessages == Msgs(<<>>) = {}
BY SMT DEF Msgs

-----------------------------------------------------------------------------
(***************************************************************************)
(* The data channels.  A channel carries one file at a time; its servicer  *)
(* may still have to record the file before.                               *)
(***************************************************************************)
Outcomes == {"complete"} \cup SourceFaults

ChannelTypes ==
    /\ request \in [Channel -> File \cup {None}]
    /\ reply \in [Channel -> Outcomes \cup {None}]
    /\ serving \in [Channel -> File \cup {None}]
    /\ outcome \in [Channel -> Outcomes \cup {None}]
    /\ fetch \in [Channel -> File \cup {None}]

Exchanged(c) ==
    /\ request[c] # None => request[c] = fetch[c] /\ reply[c] = None
    /\ reply[c] # None => fetch[c] # None
    /\ serving[c] # None /\ outcome[c] = None =>
         fetch[c] = serving[c] /\ request[c] = None /\ reply[c] = None
    /\ outcome[c] # None => serving[c] # None

Held ==
    /\ ChannelTypes
    /\ \A c \in Channel : Exchanged(c)
    /\ \A c \in Channel : fetch[c] # None => pool[fetch[c]] = "taken"
    /\ \A c, d \in Channel : fetch[c] # None /\ fetch[c] = fetch[d] => c = d

\* No channel is in use at the start.
LEMMA HeldInit == Init => Held
BY DEF Init, Held, ChannelTypes, Exchanged

\* Steps that touch neither the channels nor a file in hand.
LEMMA HeldFrame ==
    ASSUME Held, UNCHANGED <<request, reply, serving, outcome, fetch>>,
           \A f \in File : pool[f] = "taken" => pool'[f] = "taken"
    PROVE  Held'
<1>1. ChannelTypes' /\ \A c \in Channel : Exchanged(c)'
  BY DEF Held, ChannelTypes, Exchanged
<1> QED
  BY <1>1 DEF Held, ChannelTypes

\* A servicer reads, serves and records the request of its own channel.
LEMMA HeldServicer ==
    ASSUME Held, NEW c \in Channel, Servicer(c)
    PROVE  Held'
<1>1. fetch' = fetch /\ pool' = pool
  BY DEF Servicer, ReadRequest, Serve, Record, fileVars
<1>2. ChannelTypes'
  BY SMT DEF Servicer, ReadRequest, Serve, Record, Held, ChannelTypes,
     wireVars, Outcomes
<1>3. ASSUME NEW d \in Channel PROVE Exchanged(d)'
  <2> USE SMT
  <2>1. CASE ReadRequest(c)
    BY <2>1, NoneAssumption DEF ReadRequest, Held, ChannelTypes, Exchanged
  <2>2. CASE Serve(c)
    BY <2>2, NoneAssumption, SessionAssumption DEF Serve, Held, ChannelTypes, Exchanged
  <2>3. CASE Record(c)
    BY <2>3, NoneAssumption DEF Record, wireVars, Held, ChannelTypes, Exchanged
  <2> QED
    BY <2>1, <2>2, <2>3 DEF Servicer
<1> QED
  BY <1>1, <1>2, <1>3 DEF Held

\* A fetcher takes a file that no other fetcher holds.
LEMMA HeldFetch ==
    ASSUME Held, FileTypes, NEW c \in Channel, Fetch(c)
    PROVE  Held'
<1>1. PICK f \in File : /\ pool[f] = "ready"
                        /\ pool' = [pool EXCEPT ![f] = "taken"]
                        /\ fetch' = [fetch EXCEPT ![c] = f]
                        /\ request' = [request EXCEPT ![c] = f]
  BY DEF Fetch
<1>2. fetch[c] = None /\ UNCHANGED <<reply, serving, outcome>>
  BY DEF Fetch, servicerVars
<1>3. ChannelTypes'
  BY <1>1, <1>2 DEF Held, ChannelTypes
<1>4. ASSUME NEW d \in Channel PROVE Exchanged(d)'
  BY <1>1, <1>2, NoneAssumption, SMT DEF Held, ChannelTypes, Exchanged
<1>5. \A d \in Channel : fetch[d] # None => fetch[d] # f
  BY <1>1 DEF Held
<1>6. \A d \in Channel : fetch'[d] # None => pool'[fetch'[d]] = "taken"
  BY <1>1, <1>5 DEF Held, ChannelTypes, FileTypes
<1>7. \A d, e \in Channel : fetch'[d] # None /\ fetch'[d] = fetch'[e] => d = e
  BY <1>1, <1>5 DEF Held, ChannelTypes
<1> QED
  BY <1>3, <1>4, <1>6, <1>7 DEF Held

\* The file a fetcher gives up is its own: the others keep theirs.
LEMMA HeldConsume ==
    ASSUME Held, NEW c \in Channel, Consume(c),
           \A f \in File \ {fetch[c]} : pool[f] = "taken" => pool'[f] = "taken"
    PROVE  Held' /\ fetch[c] \in File /\ pool[fetch[c]] = "taken"
<1> /\ reply' = [reply EXCEPT ![c] = None] /\ fetch' = [fetch EXCEPT ![c] = None]
    /\ UNCHANGED <<request, serving, outcome>> /\ reply[c] # None
  BY DEF Consume, servicerVars
<1>2. ChannelTypes'
  BY DEF Held, ChannelTypes
<1>3. fetch[c] # None /\ request[c] = None /\ (serving[c] # None => outcome[c] # None)
  BY DEF Held, Exchanged
<1>4. ASSUME NEW d \in Channel PROVE Exchanged(d)'
  BY <1>3 DEF Held, ChannelTypes, Exchanged
<1> \A d \in Channel : fetch'[d] # None => d # c /\ fetch'[d] = fetch[d]
  BY DEF Held, ChannelTypes
<1>6. \A d \in Channel : fetch'[d] # None => fetch[d] \in File \ {fetch[c]}
  BY DEF Held, ChannelTypes
<1>7. \A d \in Channel : fetch'[d] # None => pool'[fetch'[d]] = "taken"
  BY <1>6 DEF Held
<1>8. \A d, e \in Channel : fetch'[d] # None /\ fetch'[d] = fetch'[e] => d = e
  BY DEF Held
<1>9. fetch[c] \in File /\ pool[fetch[c]] = "taken"
  BY <1>3 DEF Held, ChannelTypes
<1> QED
  BY <1>2, <1>4, <1>7, <1>8, <1>9 DEF Held

-----------------------------------------------------------------------------
(***************************************************************************)
(* The receiver's books.                                                   *)
(***************************************************************************)
Accepted == (UNION decided) \ Invalid
Pending == {"ready", "taken"}

\* Accepted files that are neither in place nor waited for.
Gone == {f \in Accepted : f \notin onDest /\ f \notin parked /\ pool[f] \notin Pending}

Books ==
    /\ \A f \in File : pool[f] # "absent" \/ f \in onDest \/ f \in parked => f \in Accepted
    /\ \A f \in File : pool[f] \in Pending => f \notin onDest
    /\ \A f \in parked : pool[f] = "absent" /\ f \notin onDest
    /\ parked # {} => seen /\ ~placed
    /\ \A f \in rCompleted : f \in onDest /\ pool[f] = "finished"
    /\ rFault = None /\ seen /\ ~placed => \E p \in primaries : pool[p] \in Pending
    /\ rFault = None => failed = Cardinality(Gone)

\* Steps that leave the files alone.
LEMMA BooksFrame ==
    ASSUME FileTypes, Books, UNCHANGED <<decided, fileVars>>, rFault' = None => rFault = None
    PROVE  FileTypes' /\ Books'
<1>1. FileTypes'
  BY DEF FileTypes, fileVars, linkVars
<1>2. Gone' = Gone /\ Accepted' = Accepted
  BY DEF Gone, Accepted, fileVars, linkVars
<1> QED
  BY <1>1, <1>2 DEF Books, fileVars, linkVars

\* At the start nothing is decided and nothing counted.
LEMMA BooksInit == Init => FileTypes /\ Books
<1> SUFFICES ASSUME Init PROVE FileTypes /\ Books
  OBVIOUS
<1>1. FileTypes
  BY DEF Init, FileTypes
<1>2. Gone = {}
  BY DEF Init, Gone, Accepted
<1>3. failed = Cardinality(Gone)
  BY <1>2, FS_EmptySet DEF Init
<1>4. \A f \in File : pool[f] = "absent"
  BY DEF Init
<1> QED
  BY <1>1, <1>3, <1>4 DEF Init, Books, Pending

\* The failed files are a finite set of accepted files.
LEMMA GoneFinite ==
    ASSUME FileTypes
    PROVE  Accepted \subseteq File /\ IsFiniteSet(Gone) /\ Gone \subseteq File
<1>1. Accepted \subseteq File
  BY SessionAssumption DEF FileTypes, Accepted
<1>2. Gone \subseteq File
  BY <1>1 DEF Gone
<1> QED
  BY <1>1, <1>2, SessionAssumption, FS_Subset

\* A file that moves within the queue.
LEMMA BooksMoved ==
    ASSUME FileTypes, Books, NEW f \in File, NEW s \in Pending, pool[f] \in Pending,
           pool' = [pool EXCEPT ![f] = s],
           UNCHANGED <<decided, onDest, rCompleted, failed, linkVars, rFault>>
    PROVE  FileTypes' /\ Books'
<1>1. FileTypes'
  BY DEF FileTypes, linkVars, Pending
<1>2. \A h \in File : /\ pool'[h] \in Pending <=> pool[h] \in Pending
                      /\ pool[h] \notin Pending => pool'[h] = pool[h]
  BY DEF FileTypes, Pending
<1>3. Accepted' = Accepted
  BY DEF Accepted
<1>4. Gone' = Gone
  BY <1>2, <1>3, GoneFinite DEF Gone, linkVars
<1>5. "absent" \notin Pending /\ "finished" \notin Pending
  BY DEF Pending
<1>6. \A h \in File : /\ pool'[h] # "absent" => pool[h] # "absent"
                      /\ pool[h] = "absent" => pool'[h] = "absent"
                      /\ pool[h] = "finished" => pool'[h] = "finished"
  BY <1>2, <1>5
<1> parked \subseteq File /\ rCompleted \subseteq File /\ primaries \subseteq File
  BY DEF FileTypes
<1> parked' = parked /\ primaries' = primaries /\ seen' = seen /\ placed' = placed
  BY DEF linkVars
<1>9. rFault' = None => failed' = Cardinality(Gone')
  BY <1>4 DEF Books
<1>10. rFault' = None /\ seen' /\ ~placed' => \E p \in primaries' : pool'[p] \in Pending
  BY <1>2 DEF Books
<1>11. \A h \in rCompleted' : h \in onDest' /\ pool'[h] = "finished"
  BY <1>6 DEF Books
<1>12. \A h \in parked' : pool'[h] = "absent" /\ h \notin onDest'
  BY <1>6 DEF Books
<1>13. \A h \in File : /\ pool'[h] # "absent" \/ h \in onDest' \/ h \in parked' => h \in Accepted'
                       /\ pool'[h] \in Pending => h \notin onDest'
  BY <1>2, <1>3, <1>6 DEF Books
<1> QED
  BY <1>1, <1>9, <1>10, <1>11, <1>12, <1>13 DEF Books

\* pop leaves the books alone: the file is still pending.
LEMMA BooksFetch ==
    ASSUME FileTypes, Books, NEW c \in Channel, Fetch(c)
    PROVE  FileTypes' /\ Books'
<1>1. PICK f \in File : pool[f] = "ready" /\ pool' = [pool EXCEPT ![f] = "taken"]
  BY DEF Fetch
<1>2. UNCHANGED <<decided, onDest, rCompleted, failed, linkVars, rFault>>
  BY DEF Fetch, receiverVars
<1> QED
  BY <1>1, <1>2, BooksMoved DEF Pending

\* So does a retry, or a file put back because the session is cancelled.
LEMMA BooksBack ==
    ASSUME FileTypes, Books, Held, NEW c \in Channel, Retry(c) \/ Cancelled(c)
    PROVE  FileTypes' /\ Books'
<1>1. Consume(c) /\ pool' = [pool EXCEPT ![fetch[c]] = "ready"]
  BY DEF Retry, Cancelled
<1>2. fetch[c] \in File /\ pool[fetch[c]] = "taken"
  BY <1>1, HeldConsume DEF FileTypes
<1>3. UNCHANGED <<decided, onDest, rCompleted, failed, linkVars, rFault>>
  BY DEF Retry, Cancelled, Consume
<1> QED
  BY <1>1, <1>2, <1>3, BooksMoved DEF Pending

\* Disjoint finite sets add up.
LEMMA DisjointCardinality ==
    ASSUME NEW S, NEW T, IsFiniteSet(S), IsFiniteSet(T), S \cap T = {}
    PROVE  Cardinality(S \cup T) = Cardinality(S) + Cardinality(T)
<1>1. Cardinality(S) \in Nat /\ Cardinality(T) \in Nat
  BY FS_CardinalityType
<1>2. Cardinality(S \cup T) = Cardinality(S) + Cardinality(T) - Cardinality(S \cap T)
  BY FS_Union
<1>3. Cardinality(S \cap T) = 0
  BY FS_EmptySet
<1> QED
  BY <1>1, <1>2, <1>3, SMT

\* No space is left for a file that has arrived.
LEMMA BooksFatal ==
    ASSUME FileTypes, Books, Held, NEW c \in Channel, Consume(c), RFail("E7003"),
           pool' = [pool EXCEPT ![fetch[c]] = "finished"],
           UNCHANGED <<attempt, onDest, rCompleted, failed, linkVars>>
    PROVE  FileTypes' /\ Books'
<1>1. fetch[c] \in File /\ pool[fetch[c]] = "taken"
  BY HeldConsume DEF FileTypes
<1> rFault' # None /\ decided' = decided
  BY NoneAssumption DEF RFail, First, Consume
<1>3. FileTypes'
  BY <1>1 DEF FileTypes, linkVars
<1>4. \A h \in File : /\ pool'[h] # "absent" => pool[h] # "absent"
                      /\ pool'[h] \in Pending => pool[h] \in Pending
                      /\ pool[h] = "absent" => pool'[h] = "absent"
                      /\ pool[h] = "finished" => pool'[h] = "finished"
  BY <1>1 DEF FileTypes, Pending
<1>5. Accepted' = Accepted /\ parked' = parked /\ seen' = seen /\ placed' = placed
  BY DEF Accepted, linkVars
<1>6. parked \subseteq File /\ rCompleted \subseteq File
  BY DEF FileTypes
<1> QED
  BY <1>3, <1>4, <1>5, <1>6 DEF Books

\* A file fails, and the secondaries that wait for it.
LEMMA BooksFails ==
    ASSUME FileTypes, Books, Held, NEW c \in Channel, FileFails(c)
    PROVE  FileTypes' /\ Books'
<1> DEFINE f == fetch[c]
           W == Waiting(f)
<1> /\ Consume(c) /\ pool' = [pool EXCEPT ![f] = "finished"]
    /\ failed' = failed + (1 + Cardinality(W)) /\ parked' = parked \ W
    /\ f \in primaries => ~seen' /\ ~placed'
    /\ f \notin primaries => (seen' <=> seen) /\ (placed' <=> placed)
    /\ UNCHANGED <<decided, onDest, rCompleted, primaries, rFault>>
  BY DEF FileFails, Tally, Consume
<1>2. f \in File /\ pool[f] = "taken"
  BY HeldConsume DEF FileTypes
<1>3. W \subseteq parked /\ IsFiniteSet(W) /\ Cardinality(W) \in Nat
  <2>1. W \subseteq parked
    BY DEF Waiting
  <2>2. W \subseteq File
    BY <2>1 DEF FileTypes
  <2> QED
    BY <2>1, <2>2, SessionAssumption, FS_Subset, FS_CardinalityType
<1>4. IF f \in primaries THEN W = parked ELSE W = {}
  BY DEF Waiting
<1> HIDE DEF f, W
<1> f \in Accepted /\ f \notin onDest /\ f \notin parked /\ f \notin rCompleted /\ f \notin Gone
  <2>1. pool[f] \in Pending /\ pool[f] \notin {"absent", "finished"}
    BY <1>2 DEF Pending
  <2> QED
    BY <1>2, <2>1 DEF Books, Gone
<1>6. \A h \in File : /\ h # f => pool'[h] = pool[h]
                      /\ pool'[f] = "finished"
  BY <1>2 DEF FileTypes
<1>7. Accepted' = Accepted
  BY DEF Accepted
<1>8. FileTypes'
  BY <1>2, <1>3, <1>4, SMT DEF FileTypes
<1>9. Gone' = (Gone \cup {f}) \cup W
  <2>1. "finished" \notin Pending
    BY DEF Pending
  <2>2. \A h \in W : h \in Accepted /\ h \notin onDest /\ pool[h] \notin Pending /\ h # f
    BY <1>3 DEF Books, FileTypes, Pending
  <2>3. Accepted \subseteq File
    BY GoneFinite
  <2> QED
    BY <1>2, <1>6, <1>7, <2>1, <2>2, <2>3 DEF Gone
<1>10. rFault' = None => failed' = Cardinality(Gone')
  <2> SUFFICES ASSUME rFault' = None PROVE failed' = Cardinality(Gone')
    OBVIOUS
  <2>1. failed = Cardinality(Gone) /\ failed \in Nat
    BY DEF Books, FileTypes
  <2>2. IsFiniteSet(Gone \cup {f}) /\ Cardinality(Gone \cup {f}) = Cardinality(Gone) + 1
    BY GoneFinite, FS_AddElement
  <2>3. (Gone \cup {f}) \cap W = {}
    BY <1>3 DEF Gone
  <2>4. Cardinality(Gone') = Cardinality(Gone \cup {f}) + Cardinality(W)
    BY <1>3, <1>9, <2>2, <2>3, DisjointCardinality
  <2> QED
    BY <1>3, <2>1, <2>2, <2>4, SMT
<1>11. rFault' = None /\ seen' /\ ~placed' => \E p \in primaries' : pool'[p] \in Pending
  <2> SUFFICES ASSUME rFault' = None, seen', ~placed' PROVE \E p \in primaries' : pool'[p] \in Pending
    OBVIOUS
  <2>1. f \notin primaries /\ seen /\ ~placed /\ rFault = None
    OBVIOUS
  <2>2. PICK p \in primaries : pool[p] \in Pending
    BY <2>1 DEF Books
  <2>3. p \in File /\ p # f /\ primaries' = primaries
    BY <2>1 DEF FileTypes
  <2> QED
    BY <1>6, <2>2, <2>3
<1>12. \A h \in rCompleted' : h \in onDest' /\ pool'[h] = "finished"
  BY <1>6 DEF Books, FileTypes
<1>13. \A h \in parked' : pool'[h] = "absent" /\ h \notin onDest'
  BY <1>6 DEF Books, FileTypes
<1>14. parked' # {} => seen' /\ ~placed'
  BY <1>4 DEF Books
<1>15. \A h \in File : /\ pool'[h] # "absent" \/ h \in onDest' \/ h \in parked' => h \in Accepted'
                       /\ pool'[h] \in Pending => h \notin onDest'
  <2>1. "finished" \notin Pending
    BY DEF Pending
  <2> QED
    BY <1>6, <1>7, <2>1 DEF Books
<1> QED
  BY <1>8, <1>10, <1>11, <1>12, <1>13, <1>14, <1>15 DEF Books

\* A file is published, and the secondaries that wait for it are linked,
\* queued or counted.
LEMMA BooksPublish ==
    ASSUME FileTypes, Books, Held, NEW c \in Channel, Publish(c)
    PROVE  FileTypes' /\ Books'
<1> DEFINE f == fetch[c]
           W == Waiting(f)
<1>1. PICK linked \in SUBSET W, queued \in SUBSET W :
         /\ linked \cap queued = {}
         /\ onDest' = onDest \cup {f} \cup linked
         /\ rCompleted' = rCompleted \cup {f}
         /\ failed' = failed + Cardinality(W \ (linked \cup queued))
         /\ pool' = [h \in File |-> IF h = f THEN "finished"
                                    ELSE IF h \in queued THEN "ready" ELSE pool[h]]
         /\ parked' = parked \ W
         /\ placed' = (placed \/ f \in primaries)
  BY DEF Publish
<1>2. /\ Consume(c) /\ UNCHANGED <<decided, primaries, seen, rFault>>
      /\ placed' <=> (placed \/ f \in primaries)
  BY <1>1 DEF Publish, Consume
<1>3. W \subseteq parked /\ (IF f \in primaries THEN W = parked ELSE W = {})
  BY DEF Waiting
<1>4. \A h \in W : pool[h] = "absent" /\ h \notin onDest /\ h \in File /\ h \in Accepted
  BY <1>3 DEF Books, FileTypes
<1>5. f \in File /\ pool[f] = "taken"
  <2>1. \A h \in File \ {f} : pool[h] = "taken" => pool'[h] = "taken"
    BY <1>1, <1>4
  <2> QED
    BY <1>2, <2>1, HeldConsume
<1> HIDE DEF f, W
<1> DEFINE G == W \ (linked \cup queued)
<1>6. f \in Accepted /\ f \notin onDest /\ f \notin parked /\ f \notin rCompleted /\ f \notin Gone
  <2>1. pool[f] \in Pending /\ pool[f] \notin {"absent", "finished"}
    BY <1>5 DEF Pending
  <2> QED
    BY <1>5, <2>1 DEF Books, Gone
<1>7. /\ pool' \in [File -> {"absent", "ready", "taken", "finished"}] /\ pool'[f] = "finished"
      /\ \A h \in queued : pool'[h] = "ready"
      /\ \A h \in File : h # f /\ h \notin queued => pool'[h] = pool[h]
  <2>1. f \notin queued /\ queued \subseteq File
    BY <1>3, <1>4, <1>6
  <2> QED
    BY <1>1, <1>5, <2>1 DEF FileTypes
<1>8. IsFiniteSet(G) /\ Cardinality(G) \in Nat
  <2>1. G \subseteq File
    BY <1>4
  <2> QED
    BY <2>1, SessionAssumption, FS_Subset, FS_CardinalityType, SMT
<1>9. Accepted' = Accepted
  BY <1>2 DEF Accepted
<1>10. FileTypes'
  <2>1. failed' \in Nat
    BY <1>1, <1>8, SMT DEF FileTypes
  <2> QED
    BY <1>1, <1>2, <1>4, <1>5, <1>7, <2>1 DEF FileTypes
<1>11. "finished" \notin Pending /\ "absent" \notin Pending /\ "ready" \in Pending
  BY DEF Pending
<1>12. Gone' = Gone \cup G /\ Gone \cap G = {}
  <2>1. \A h \in G : h \notin onDest' /\ h \notin parked' /\ pool'[h] = "absent"
    BY <1>1, <1>3, <1>4, <1>6, <1>7
  <2>2. ASSUME NEW h \in Gone PROVE h \in Gone' /\ h \notin G
    <3>1. h \in File /\ h \notin parked /\ h # f /\ h \notin W
      BY <1>3, <1>6, GoneFinite DEF Gone
    <3> QED
      BY <1>1, <1>7, <1>9, <3>1 DEF Gone
  <2>3. ASSUME NEW h \in Gone', h \notin G PROVE h \in Gone
    <3> h \in Accepted /\ h \notin onDest' /\ h \notin parked' /\ pool'[h] \notin Pending
      BY <1>9 DEF Gone
    <3>2. h \in File /\ h \notin onDest /\ h # f /\ h \notin linked /\ h \notin queued
      BY <1>1, <1>7, <1>11, GoneFinite
    <3>3. h \notin parked /\ pool[h] \notin Pending
      BY <1>1, <1>7, <2>3, <3>2
    <3> QED
      BY <3>2, <3>3 DEF Gone
  <2>4. \A h \in G : h \in Gone'
    BY <1>4, <1>9, <1>11, <2>1 DEF Gone
  <2> QED
    BY <2>2, <2>3, <2>4
<1>13. rFault' = None => failed' = Cardinality(Gone')
  <2>1. Cardinality(Gone') = Cardinality(Gone) + Cardinality(G)
    BY <1>8, <1>12, GoneFinite, DisjointCardinality
  <2>2. rFault' = None => failed = Cardinality(Gone)
    BY <1>2 DEF Books
  <2> QED
    BY <1>1, <2>1, <2>2
<1>14. rFault' = None /\ seen' /\ ~placed' => \E p \in primaries' : pool'[p] \in Pending
  <2> SUFFICES ASSUME rFault' = None, seen', ~placed' PROVE \E p \in primaries' : pool'[p] \in Pending
    OBVIOUS
  <2> f \notin primaries /\ seen /\ ~placed /\ rFault = None /\ primaries' = primaries
    BY <1>2
  <2>2. PICK p \in primaries : pool[p] \in Pending
    BY DEF Books
  <2>3. p \in File /\ p # f
    BY DEF FileTypes
  <2> QED
    BY <1>7, <1>11, <2>2, <2>3
<1>15. \A h \in rCompleted' : h \in onDest' /\ pool'[h] = "finished"
  <2>1. \A h \in rCompleted : h \in onDest /\ pool[h] = "finished" /\ h \in File
    BY DEF Books, FileTypes
  <2>2. \A h \in queued : pool[h] # "finished"
    BY <1>4
  <2> QED
    BY <1>1, <1>7, <2>1, <2>2
<1>16. \A h \in parked' : pool'[h] = "absent" /\ h \notin onDest'
  <2>1. \A h \in parked' : h \in parked /\ h \notin W /\ h # f /\ h \in File
    BY <1>1, <1>6 DEF FileTypes
  <2> QED
    BY <1>1, <1>7, <2>1 DEF Books
<1>17. parked' # {} => seen' /\ ~placed'
  BY <1>1, <1>2, <1>3 DEF Books
<1>18. ASSUME NEW h \in File
       PROVE  /\ pool'[h] # "absent" \/ h \in onDest' \/ h \in parked' => h \in Accepted'
              /\ pool'[h] \in Pending => h \notin onDest'
  <2>1. CASE h = f
    BY <1>6, <1>7, <1>9, <1>11, <2>1
  <2>2. CASE h \in W
    BY <1>1, <1>4, <1>6, <1>7, <1>9, <1>11, <2>2
  <2>3. CASE h # f /\ h \notin W
    BY <1>1, <1>7, <1>9, <2>3 DEF Books
  <2> QED
    BY <2>1, <2>2, <2>3
<1> QED
  BY <1>10, <1>13, <1>14, <1>15, <1>16, <1>17, <1>18 DEF Books

\* What a decision does to the files of its group, and to no other: each is
\* queued (N), in place (X) or parked (Q).
Decision(g, N, X, Q) ==
    /\ N \subseteq g \ Invalid /\ X \subseteq g \ Invalid /\ Q \subseteq g \ Invalid
    /\ N \cup X \cup Q = g \ Invalid
    /\ N \cap X = {} /\ N \cap Q = {} /\ X \cap Q = {}
    /\ onDest' = onDest \cup X
    /\ parked' = parked \cup Q
    /\ primaries \subseteq primaries' /\ primaries' \subseteq primaries \cup (g \ Invalid)
    /\ Q # {} => seen /\ ~placed
    /\ \/ (seen' <=> seen) /\ (placed' <=> placed)
       \/ parked = {} /\ Q = {} /\ seen' /\ (placed' \/ \E p \in N : p \in primaries')
    /\ \/ pool' = [f \in File |-> IF f \in N THEN "ready" ELSE pool[f]] /\ UNCHANGED <<rFault, rRoot>>
       \/ UNCHANGED pool /\ RFail("E7003")
    /\ toSender' = Append(toSender, [type |-> "decision", group |-> g, needed |-> N])
    /\ g \notin decided /\ decided' = decided \cup {g}
    /\ UNCHANGED <<fetch, rCompleted, failed>>

\* A step of decideGroup is a decision in the sense above.
LEMMA DecisionStep ==
    ASSUME Books, NEW g \in Group, Decide(g)
    PROVE  \E N, X, Q \in SUBSET File : Decision(g, N, X, Q)
<1> DEFINE valid == g \ Invalid
           L == valid \cap Link
           Needs(P, need) == ((valid \ Link) \ P) \cup need
<1>1. PICK present \in SUBSET valid, need \in SUBSET L, here \in SUBSET L :
         /\ LinkDecision(L, present, need, here)
         /\ onDest' = onDest \cup (present \ Link) \cup here
         /\ toSender' = Append(toSender, [type |-> "decision", group |-> g,
                                         needed |-> Needs(present, need)])
         /\ \/ /\ pool' = [f \in File |-> IF f \in Needs(present, need) THEN "ready" ELSE pool[f]]
               /\ UNCHANGED <<rFault, rRoot>>
            \/ UNCHANGED pool /\ RFail("E7003")
  BY DEF Decide
<1>2. g \notin decided /\ decided' = decided \cup {g} /\ UNCHANGED <<fetch, rCompleted, failed>>
  BY DEF Decide
<1>3. valid \subseteq File
  BY SessionAssumption
<1> DEFINE N == Needs(present, need)
           X == (present \ Link) \cup here
           Q == L \ (need \cup here)
<1>4. N \in SUBSET File /\ X \in SUBSET File /\ Q \in SUBSET File
  BY <1>3
<1>5. /\ need \cap here = {}
      /\ parked' = parked \cup Q
      /\ primaries \subseteq primaries' /\ primaries' \subseteq primaries \cup valid
      /\ Q # {} => seen /\ ~placed
      /\ \/ (seen' <=> seen) /\ (placed' <=> placed)
         \/ parked = {} /\ Q = {} /\ seen' /\ (placed' \/ \E p \in N : p \in primaries')
  <2>1. CASE need = {} /\ here = L /\ UNCHANGED linkVars
    BY <2>1 DEF linkVars
  <2>2. CASE /\ L # {} /\ (IF placed THEN "E7009" \in DestFaults ELSE ~seen)
             /\ need = L \ present /\ here = L \cap present
             /\ primaries' = primaries \cup L /\ seen' = TRUE
             /\ placed' = (here # {}) /\ UNCHANGED parked
    <3>1. parked = {}
      BY <2>2 DEF Books
    <3>2. Q = {} /\ seen' /\ (placed' <=> here # {})
      BY <2>2
    <3>3. here = {} => \E p \in N : p \in primaries'
      BY <2>2
    <3> QED
      BY <2>2, <3>1, <3>2, <3>3
  <2>3. CASE /\ L # {} /\ ~placed /\ seen /\ need = {} /\ here = {}
             /\ parked' = parked \cup L /\ UNCHANGED <<primaries, seen, placed>>
    BY <2>3
  <2> QED
    BY <1>1, <2>1, <2>2, <2>3 DEF LinkDecision
<1>6. /\ N \subseteq valid /\ X \subseteq valid /\ Q \subseteq valid
      /\ N \cup X \cup Q = valid
      /\ N \cap X = {} /\ N \cap Q = {} /\ X \cap Q = {}
  BY <1>5
<1>7. onDest' = onDest \cup X
  BY <1>1
<1> HIDE DEF valid, N, X, Q
<1>8. Decision(g, N, X, Q)
  BY <1>1, <1>2, <1>5, <1>6, <1>7 DEF Decision, valid, N
<1> QED
  BY <1>4, <1>8

\* One more decided group adds its own files to the decided ones.
LEMMA UnionAdd ==
    ASSUME NEW S, NEW g
    PROVE  UNION (S \cup {g}) = (UNION S) \cup g
<1>1. \A x : x \in UNION (S \cup {g}) <=> x \in UNION S \/ x \in g
  <2>1. \A h : h \in S \cup {g} <=> h \in S \/ h = g
    OBVIOUS
  <2> QED
    BY <2>1
<1> QED
  BY <1>1

\* The files of a decision are new.
LEMMA DecisionNew ==
    ASSUME FileTypes, NEW g \in Group, NEW N, NEW X, NEW Q, Decision(g, N, X, Q)
    PROVE  /\ g \ Invalid \subseteq File /\ (g \ Invalid) \cap Accepted = {}
           /\ Accepted' = Accepted \cup (g \ Invalid)
<1> DEFINE V == g \ Invalid
<1>1. V \subseteq File /\ V \cap Accepted = {}
  <2>1. g \subseteq File
    BY SessionAssumption
  <2>2. \A h \in decided : h \in Group /\ h # g
    BY DEF Decision, FileTypes
  <2>3. \A h \in decided : h \cap g = {}
    BY <2>2, SessionAssumption
  <2> QED
    BY <2>1, <2>3 DEF Accepted
<1>2. Accepted' = Accepted \cup V
  <2>1. decided' = decided \cup {g}
    BY DEF Decision
  <2>2. UNION decided' = (UNION decided) \cup g
    BY <2>1, UnionAdd
  <2>3. Accepted' = (UNION decided') \ Invalid
    BY DEF Accepted
  <2>4. Accepted = (UNION decided) \ Invalid
    BY DEF Accepted
  <2>5. \A A, B, C : (A \cup B) \ C = (A \ C) \cup (B \ C)
    OBVIOUS
  <2> QED
    BY <2>2, <2>3, <2>4, <2>5
<1> QED
  BY <1>1, <1>2

\* decideGroup keeps the books: each entry of the group is in place, queued or
\* parked behind a primary, and none of them is gone.
LEMMA BooksDecide ==
    ASSUME FileTypes, Books, NEW g \in Group, NEW N \in SUBSET File, NEW X \in SUBSET File,
           NEW Q \in SUBSET File, Decision(g, N, X, Q)
    PROVE  FileTypes' /\ Books'
<1> DEFINE V == g \ Invalid
<1> /\ N \cup X \cup Q = V
    /\ N \cap X = {} /\ N \cap Q = {} /\ X \cap Q = {}
    /\ onDest' = onDest \cup X /\ parked' = parked \cup Q
    /\ UNCHANGED <<rCompleted, failed>>
  BY DEF Decision
<1>2. V \subseteq File /\ V \cap Accepted = {}
  BY DecisionNew
<1>3. Accepted' = Accepted \cup V
  BY DecisionNew
<1> HIDE DEF V
<1>4. \A f \in V : pool[f] = "absent" /\ f \notin onDest /\ f \notin parked /\ f \notin rCompleted
  BY <1>2 DEF Books
<1>5. /\ pool' \in [File -> {"absent", "ready", "taken", "finished"}]
      /\ \A f \in File : f \notin N => pool'[f] = pool[f]
      /\ rFault' = None => rFault = None /\ \A f \in N : pool'[f] = "ready"
      /\ \A f \in N : pool'[f] \in {"absent", "ready"}
  <2>1. CASE pool' = [f \in File |-> IF f \in N THEN "ready" ELSE pool[f]] /\ UNCHANGED <<rFault, rRoot>>
    BY <2>1 DEF FileTypes
  <2>2. CASE UNCHANGED pool /\ RFail("E7003")
    <3>1. rFault' # None
      BY <2>2, NoneAssumption DEF RFail, First
    <3> QED
      BY <1>4, <2>2, <3>1 DEF FileTypes
  <2> QED
    BY <2>1, <2>2 DEF Decision
<1>6. FileTypes'
  <2>1. decided' \subseteq Group /\ primaries' \subseteq File
    BY <1>2 DEF Decision, FileTypes, V
  <2> QED
    BY <1>5, <2>1 DEF FileTypes
<1>7. "finished" \notin Pending /\ "absent" \notin Pending /\ "ready" \in Pending
  BY DEF Pending
<1>8. rFault' = None => Gone' = Gone
  <2> SUFFICES ASSUME rFault' = None PROVE Gone' = Gone
    OBVIOUS
  <2>1. \A f \in V : f \notin Gone' /\ f \notin Gone
    BY <1>2, <1>5, <1>7 DEF Gone
  <2>2. \A f \in Accepted : /\ f \notin V /\ pool'[f] = pool[f]
                            /\ f \in onDest' <=> f \in onDest
                            /\ f \in parked' <=> f \in parked
    BY <1>2, <1>5, GoneFinite
  <2> QED
    BY <1>3, <2>1, <2>2 DEF Gone
<1>9. rFault' = None /\ seen' /\ ~placed' => \E p \in primaries' : pool'[p] \in Pending
  <2> SUFFICES ASSUME rFault' = None, seen', ~placed' PROVE \E p \in primaries' : pool'[p] \in Pending
    OBVIOUS
  <2>1. CASE seen /\ ~placed
    <3>1. PICK p \in primaries : pool[p] \in Pending
      BY <1>5, <2>1 DEF Books
    <3>2. p \in primaries' /\ p \in File
      BY DEF Decision, FileTypes
    <3>3. p \notin N
      BY <1>4, <1>7, <3>1
    <3> QED
      BY <1>5, <3>1, <3>2, <3>3
  <2>2. CASE \E p \in N : p \in primaries'
    BY <1>5, <1>7, <2>2
  <2> QED
    BY <2>1, <2>2 DEF Decision
<1>10. parked' # {} => seen' /\ ~placed'
  BY DEF Decision, Books
<1>11. \A f \in parked' : pool'[f] = "absent" /\ f \notin onDest'
  BY <1>2, <1>4, <1>5 DEF Books, FileTypes
<1>12. \A f \in rCompleted' : f \in onDest' /\ pool'[f] = "finished"
  <2>1. \A f \in rCompleted : f \in File /\ f \notin N
    BY <1>4 DEF FileTypes
  <2> QED
    BY <1>5, <2>1 DEF Books
<1>13. ASSUME NEW f \in File
       PROVE  /\ pool'[f] # "absent" \/ f \in onDest' \/ f \in parked' => f \in Accepted'
              /\ pool'[f] \in Pending => f \notin onDest'
  <2>1. CASE f \in V
    BY <1>3, <1>4, <1>5, <1>7, <2>1
  <2>2. CASE f \notin V
    BY <1>3, <1>5, <2>2 DEF Books
  <2> QED
    BY <2>1, <2>2
<1>14. rFault' = None => failed' = Cardinality(Gone')
  BY <1>5, <1>8 DEF Books
<1> QED
  BY <1>6, <1>9, <1>10, <1>11, <1>12, <1>13, <1>14 DEF Books

\* Every step keeps the channels and the books.
LEMMA BooksStep ==
    ASSUME FileTypes, Books, Held, [Next]_vars
    PROVE  FileTypes' /\ Books' /\ Held'
<1>1. CASE UNCHANGED <<decided, fileVars, fetch, request, reply, serving, outcome>>
           /\ (rFault' = None => rFault = None)
  <2>1. UNCHANGED <<decided, fileVars>> /\ pool' = pool
    BY <1>1 DEF fileVars
  <2>2. FileTypes' /\ Books'
    BY <1>1, <2>1, BooksFrame
  <2>3. Held'
    BY <1>1, <2>1, HeldFrame
  <2> QED
    BY <2>2, <2>3
<1>2. ASSUME NEW c \in Channel, Servicer(c) PROVE FileTypes' /\ Books' /\ Held'
  <2>1. UNCHANGED <<decided, fileVars>> /\ rFault' = rFault
    BY <1>2 DEF Servicer, ReadRequest, Serve, Record, receiverVars
  <2> QED
    BY <1>2, <2>1, BooksFrame, HeldServicer
<1>3. ASSUME NEW g \in Group, Decide(g) PROVE FileTypes' /\ Books' /\ Held'
  <2>1. PICK N \in SUBSET File, X \in SUBSET File, Q \in SUBSET File : Decision(g, N, X, Q)
    BY <1>3, DecisionStep
  <2>2. FileTypes' /\ Books'
    BY <2>1, BooksDecide
  <2>3. UNCHANGED <<request, reply, serving, outcome, fetch>>
    BY <1>3 DEF Decide, servicerVars
  <2>4. ASSUME NEW f \in File, pool[f] = "taken" PROVE pool'[f] = "taken"
    <3>1. \A h \in decided : h \in Group /\ h # g
      BY <2>1 DEF Decision, FileTypes
    <3>2. f \in UNION decided
      BY <2>4 DEF Books, Accepted
    <3>3. f \notin N
      BY <2>1, <3>1, <3>2, SessionAssumption DEF Decision
    <3> QED
      BY <2>1, <2>4, <3>3 DEF Decision
  <2> QED
    BY <2>2, <2>3, <2>4, HeldFrame
<1>4. ASSUME NEW c \in Channel, Fetcher(c) PROVE FileTypes' /\ Books' /\ Held'
  <2>1. CASE Fetch(c)
    BY <2>1, BooksFetch, HeldFetch
  <2>2. CASE Publish(c)
    <3>1. FileTypes' /\ Books'
      BY <2>2, BooksPublish
    <3>2. Consume(c)
      BY <2>2 DEF Publish
    <3>3. ASSUME NEW f \in File \ {fetch[c]}, pool[f] = "taken" PROVE pool'[f] = "taken"
      <4>1. \A h \in Waiting(fetch[c]) : pool[h] = "absent"
        BY DEF Books, Waiting
      <4> QED
        BY <2>2, <3>3, <4>1 DEF Publish
    <3> QED
      BY <3>1, <3>2, <3>3, HeldConsume
  <2>3. ASSUME Consume(c), NEW s, pool' = [pool EXCEPT ![fetch[c]] = s] PROVE Held'
    <3>1. \A f \in File \ {fetch[c]} : pool[f] = "taken" => pool'[f] = "taken"
      BY <2>3 DEF FileTypes
    <3> QED
      BY <2>3, <3>1, HeldConsume
  <2>4. CASE Retry(c) \/ Cancelled(c)
    <3>1. Consume(c) /\ pool' = [pool EXCEPT ![fetch[c]] = "ready"]
      BY <2>4 DEF Retry, Cancelled
    <3> QED
      BY <2>3, <2>4, <3>1, BooksBack
  <2>5. CASE FileFails(c)
    <3>1. Consume(c) /\ pool' = [pool EXCEPT ![fetch[c]] = "finished"]
      BY <2>5 DEF FileFails
    <3> QED
      BY <2>3, <2>5, <3>1, BooksFails
  <2>6. CASE FetchFatal(c)
    <3>1. CASE /\ Consume(c) /\ RFail("E7003")
               /\ pool' = [pool EXCEPT ![fetch[c]] = "finished"]
               /\ UNCHANGED <<attempt, onDest, rCompleted, failed, linkVars>>
      BY <2>3, <3>1, BooksFatal
    <3>2. CASE RFail("E3005") /\ UNCHANGED <<wireVars, servicerVars, decided, fetch, fileVars>>
      <4>1. rFault' # None
        BY <3>2, NoneAssumption DEF RFail, First
      <4> QED
        BY <1>1, <3>2, <4>1 DEF wireVars, servicerVars
    <3> QED
      BY <2>6, <3>1, <3>2 DEF FetchFatal
  <2> QED
    BY <1>4, <2>1, <2>2, <2>4, <2>5, <2>6 DEF Fetcher
<1>5. CASE SenderReads \/ SenderMain \/ SenderMishap \/ Ended \/ UNCHANGED vars
  <2>1. UNCHANGED <<decided, fileVars, fetch, request, reply, serving, outcome, rFault>>
    BY <1>5 DEF SenderReads, SenderMain, SendSummary, WaitFails, AwaitAck,
       SenderMishap, Ended, vars, trackerVars, wireVars, servicerVars,
       receiverVars
  <2> QED
    BY <1>1, <2>1
<1>6. CASE DecideSendFails \/ ReceiverReads \/ ReceiverMain \/ ReceiverMishap
  <2>1. UNCHANGED <<decided, fileVars, fetch, request, reply, serving, outcome>>
    BY <1>6 DEF DecideSendFails, ReceiverReads, ReceiverMain, PipelineEnds,
       ReceiverFails, Reconcile, ReceiverMishap, wireVars, servicerVars
  <2>2. rFault' = None => rFault = None
    <3>1. \A e : First(rFault, e) = None => rFault = None
      BY DEF First
    <3> QED
      BY <1>6, <3>1 DEF DecideSendFails, ReceiverReads, ReceiverMain,
         PipelineEnds, ReceiverFails, Reconcile, ReceiverMishap, RFail,
         ReceiverFinish
  <2> QED
    BY <1>1, <2>1, <2>2
<1> QED
  BY <1>2, <1>3, <1>4, <1>5, <1>6 DEF Next, Decider

-----------------------------------------------------------------------------
(***************************************************************************)
(* The protocol of the end.                                                *)
(***************************************************************************)
\* In a queue of control messages an ERROR comes before every CLOSE.
Warned(q) ==
    \A i \in 1 .. Len(q) : q[i].type = "close" => \E j \in 1 .. i - 1 : q[j].type = "error"

\* A warned queue does not begin with CLOSE, and stays warned until ERROR is read.
LEMMA WarnedTail ==
    ASSUME NEW S, NEW q \in Seq(S), q # <<>>, Warned(q)
    PROVE  Head(q).type # "close" /\ (Head(q).type # "error" => Warned(Tail(q)))
<1> USE SMT
<1>1. /\ Len(q) \in Nat /\ Len(q) >= 1 /\ Len(Tail(q)) = Len(q) - 1 /\ Head(q) = q[1]
      /\ \A i \in 1 .. Len(q) - 1 : Tail(q)[i] = q[i + 1]
  OBVIOUS
<1>2. q[1].type # "close"
  BY <1>1 DEF Warned
<1>3. ASSUME q[1].type # "error", NEW i \in 1 .. Len(q) - 1, q[i + 1].type = "close"
      PROVE  \E j \in 1 .. i - 1 : q[j + 1].type = "error"
  <2>1. PICK j \in 1 .. i : q[j].type = "error"
    BY <1>1, <1>3 DEF Warned
  <2>2. j - 1 \in 1 .. i - 1 /\ (j - 1) + 1 = j
    BY <1>3, <2>1
  <2> QED
    BY <2>1, <2>2
<1>4. ASSUME q[1].type # "error", NEW i \in 1 .. Len(q) - 1, Tail(q)[i].type = "close"
      PROVE  \E j \in 1 .. i - 1 : Tail(q)[j].type = "error"
  <2>1. PICK j \in 1 .. i - 1 : q[j + 1].type = "error"
    BY <1>1, <1>3, <1>4
  <2>2. j \in 1 .. Len(q) - 1
    BY <1>1, <1>4, <2>1
  <2> QED
    BY <1>1, <2>1, <2>2
<1> QED
  BY <1>1, <1>2, <1>4 DEF Warned

\* Appending a message other than CLOSE keeps the queue warned.
LEMMA WarnedAppend ==
    ASSUME NEW S, NEW q \in Seq(S), NEW m \in S, Warned(q), m.type # "close"
    PROVE  Warned(Append(q, m))
<1> USE SMT
<1>1. /\ Len(q) \in Nat /\ Len(Append(q, m)) = Len(q) + 1
      /\ \A i \in 1 .. Len(q) : Append(q, m)[i] = q[i]
      /\ Append(q, m)[Len(q) + 1] = m
  OBVIOUS
<1> QED
  BY <1>1 DEF Warned

\* So does appending ERROR and whatever follows it.
LEMMA WarnedEnd ==
    ASSUME NEW S, NEW q \in Seq(S), NEW m \in S, NEW n \in S, Warned(q), m.type = "error"
    PROVE  Warned(Append(Append(q, m), n))
<1> USE SMT
<1> DEFINE r == Append(Append(q, m), n)
<1>1. /\ Len(q) \in Nat /\ Len(r) = Len(q) + 2
      /\ \A i \in 1 .. Len(q) : r[i] = q[i]
      /\ r[Len(q) + 1] = m
  OBVIOUS
<1> HIDE DEF r
<1>2. ASSUME NEW i \in 1 .. Len(r), r[i].type = "close"
      PROVE  \E j \in 1 .. i - 1 : r[j].type = "error"
  <2>1. CASE i \in 1 .. Len(q)
    BY <1>1, <1>2, <2>1 DEF Warned
  <2>2. CASE i = Len(q) + 1
    BY <1>1, <1>2, <2>2
  <2>3. CASE i = Len(q) + 2
    <3>1. Len(q) + 1 \in 1 .. i - 1
      BY <1>1, <2>3
    <3> QED
      BY <1>1, <3>1
  <2> QED
    BY <1>1, <2>1, <2>2, <2>3
<1>3. Warned(r)
  BY <1>2 DEF Warned
<1> QED
  BY <1>3 DEF r

\* A queue without CLOSE is warned.
LEMMA WarnedPlain ==
    ASSUME NEW q, \A m \in Msgs(q) : m.type # "close"
    PROVE  Warned(q)
BY DEF Warned, Msgs

\* No two messages of a queue decide the same group.
Distinct(q) ==
    \A i, j \in 1 .. Len(q) :
        q[i].type = "decision" /\ q[j].type = "decision" /\ q[i].group = q[j].group => i = j

\* Reading a decision leaves no second one for its group.
LEMMA DistinctTail ==
    ASSUME NEW S, NEW q \in Seq(S), q # <<>>, Distinct(q)
    PROVE  /\ Distinct(Tail(q))
           /\ \A m \in Msgs(Tail(q)) :
                Head(q).type = "decision" /\ m.type = "decision" => m.group # Head(q).group
<1> USE SMT
<1> /\ Len(q) \in Nat /\ Len(q) >= 1 /\ Len(Tail(q)) = Len(q) - 1 /\ Head(q) = q[1]
    /\ \A i \in 1 .. Len(q) - 1 : Tail(q)[i] = q[i + 1]
  OBVIOUS
<1>2. Distinct(Tail(q))
  BY DEF Distinct
<1>3. ASSUME NEW i \in 1 .. Len(q) - 1, q[1].type = "decision", q[i + 1].type = "decision"
      PROVE  q[i + 1].group # q[1].group
  BY <1>3 DEF Distinct
<1> QED
  BY <1>2, <1>3 DEF Msgs

\* A decision for a new group keeps the decisions distinct.
LEMMA DistinctAppend ==
    ASSUME NEW S, NEW q \in Seq(S), NEW m \in S, Distinct(q),
           m.type = "decision" =>
               \A n \in Msgs(q) : n.type = "decision" => n.group # m.group
    PROVE  Distinct(Append(q, m))
<1> USE SMT
<1> DEFINE r == Append(q, m)
<1>1. /\ Len(q) \in Nat /\ Len(r) = Len(q) + 1 /\ r[Len(q) + 1] = m
      /\ \A i \in 1 .. Len(q) : r[i] = q[i] /\ q[i] \in Msgs(q)
  BY DEF Msgs
<1> HIDE DEF r
<1>2. Distinct(r)
  BY <1>1 DEF Distinct
<1> QED
  BY <1>2 DEF r

\* What finish puts on the wire.
Bye(q, fault) ==
    q \o (IF fault \in {None, "signal"} THEN <<>> ELSE <<Message("error")>>) \o <<Message("close")>>

\* finish appends ERROR, if there is one to tell, and CLOSE.
LEMMA Parting ==
    ASSUME NEW S, Endings \subseteq S, NEW q \in Seq(S), NEW fault
    PROVE  /\ Bye(q, fault) \in Seq(S)
           /\ \A m \in Msgs(Bye(q, fault)) : m \in Msgs(q) \/ m.type \in {"error", "close"}
           /\ \A m \in Msgs(q) : m \in Msgs(Bye(q, fault))
           /\ fault \notin {None, "signal"} /\ Warned(q) => Warned(Bye(q, fault))
           /\ Distinct(q) => Distinct(Bye(q, fault))
<1> DEFINE e == Message("error")
           d == Message("close")
           r == Bye(q, fault)
<1> SUFFICES /\ r \in Seq(S)
             /\ \A m \in Msgs(r) : m \in Msgs(q) \/ m.type \in {"error", "close"}
             /\ \A m \in Msgs(q) : m \in Msgs(r)
             /\ fault \notin {None, "signal"} /\ Warned(q) => Warned(r)
             /\ Distinct(q) => Distinct(r)
  OBVIOUS
<1> e \in S /\ d \in S /\ e.type = "error" /\ d.type = "close"
  BY DEF Message, Endings
<1> HIDE DEF e, d, r
<1>2. CASE fault \in {None, "signal"}
  <2>1. r = Append(q, d)
    <3>1. r = (q \o <<>>) \o <<d>>
      BY <1>2 DEF d, r, Bye
    <3> QED
      BY <3>1, Concats
  <2>2. Append(q, d) \in Seq(S) /\ Msgs(Append(q, d)) = Msgs(q) \cup {d}
    BY WriteQueue, SMT
  <2>3. Distinct(q) => Distinct(Append(q, d))
    BY DistinctAppend
  <2> QED
    BY <1>2, <2>1, <2>2, <2>3
<1>3. CASE fault \notin {None, "signal"}
  <2> r = Append(Append(q, e), d) /\ Append(q, e) \in Seq(S)
    <3>1. r = (q \o <<e>>) \o <<d>>
      BY <1>3 DEF d, e, r, Bye
    <3>2. q \o <<e>> = Append(q, e) /\ Append(q, e) \in Seq(S)
      BY Concats, WriteQueue
    <3> QED
      BY <3>1, <3>2, Concats
  <2>2. r \in Seq(S) /\ Msgs(r) = (Msgs(q) \cup {e}) \cup {d}
    <3>1. Msgs(Append(q, e)) = Msgs(q) \cup {e}
      BY WriteQueue, SMT
    <3>2. \A s \in Seq(S) : Append(s, d) \in Seq(S) /\ Msgs(Append(s, d)) = Msgs(s) \cup {d}
      BY WriteQueue, SMT
    <3> QED
      BY <3>1, <3>2
  <2>3. Warned(q) => Warned(r)
    BY WarnedEnd
  <2>4. Distinct(q) => Distinct(r)
    <3>1. Distinct(q) => Distinct(Append(q, e))
      BY DistinctAppend
    <3>2. Distinct(Append(q, e)) => Distinct(Append(Append(q, e), d))
      BY DistinctAppend
    <3> QED
      BY <3>1, <3>2
  <2> QED
    BY <2>2, <2>3, <2>4
<1> QED
  BY <1>2, <1>3

\* What the wire to the receiver carries once the sender has left.
LEMMA SenderParts ==
    ASSUME ControlTypes, NEW fault, NEW partial \in BOOLEAN, SenderFinish(fault, partial)
    PROVE  /\ toReceiver' \in Seq(ToReceiver)
           /\ \A m \in Msgs(toReceiver') : m \in Msgs(toReceiver) \/ m.type \in {"error", "close"}
           /\ fault \notin {None, "signal"} /\ Warned(toReceiver) => Warned(toReceiver')
<1>1. toReceiver \in Seq(ToReceiver) /\ Endings \subseteq ToReceiver
  BY DEF ControlTypes, QueueTypes, ToReceiver
<1>2. toReceiver' = Bye(toReceiver, fault)
  BY DEF SenderFinish, Bye
<1> QED
  BY <1>1, <1>2, Parting

\* What the wire to the sender carries once the receiver has left.
LEMMA ReceiverParts ==
    ASSUME ControlTypes, FileTypes, NEW fault, NEW told, ReceiverFinish(fault, told),
           told = <<>> \/ told = <<[type |-> "ack", done |-> rCompleted]>>
    PROVE  /\ toSender' \in Seq(ToSender)
           /\ \A m \in Msgs(toSender') : \/ m \in Msgs(toSender)
                                        \/ m.type \in {"error", "close"}
                                        \/ /\ told # <<>>
                                           /\ m = [type |-> "ack", done |-> rCompleted]
           /\ fault \notin {None, "signal"} /\ Warned(toSender) => Warned(toSender')
           /\ Distinct(toSender) => Distinct(toSender')
           /\ \A m \in Msgs(toSender) : m \in Msgs(toSender')
<1> DEFINE ack == [type |-> "ack", done |-> rCompleted]
           q == toSender \o told
<1> toSender \in Seq(ToSender) /\ Endings \subseteq ToSender
  BY DEF ControlTypes, QueueTypes, ToSender
<1> ack \in ToSender /\ ack.type = "ack"
  BY DEF ToSender, Acks, FileTypes
<1>3. toSender' = q \o (IF fault \in {None, "signal"} THEN <<>> ELSE <<Message("error")>>)
                    \o (IF fault = "signal" THEN <<>> ELSE <<Message("close")>>)
  BY DEF ReceiverFinish
<1> /\ q \in Seq(ToSender)
    /\ \A m \in Msgs(q) : m \in Msgs(toSender) \/ (told # <<>> /\ m = ack)
    /\ Warned(toSender) => Warned(q)
    /\ Distinct(toSender) => Distinct(q)
    /\ \A m \in Msgs(toSender) : m \in Msgs(q)
  <2> HIDE DEF ack
  <2>1. CASE told = <<>>
    <3>1. q = toSender
      BY <2>1, Concats
    <3> QED
      BY <3>1
  <2>2. CASE told = <<ack>>
    <3>1. q = Append(toSender, ack)
      BY <2>2, Concats
    <3>2. Append(toSender, ack) \in Seq(ToSender) /\ Msgs(Append(toSender, ack)) = Msgs(toSender) \cup {ack}
      BY WriteQueue, SMT
    <3>3. Warned(toSender) => Warned(Append(toSender, ack))
      BY WarnedAppend
    <3>5. Distinct(toSender) => Distinct(Append(toSender, ack))
      BY DistinctAppend
    <3>4. told # <<>>
      BY <2>2
    <3> QED
      BY <3>1, <3>2, <3>3, <3>4, <3>5
  <2> QED
    BY <2>1, <2>2 DEF ack
<1> HIDE DEF q, ack
<1>5. CASE fault = "signal"
  <2>1. toSender' = (q \o <<>>) \o <<>>
    BY <1>3, <1>5
  <2>2. toSender' = q
    BY <2>1, Concats
  <2> QED
    BY <1>5, <2>2 DEF ack
<1>6. CASE fault # "signal"
  <2>1. toSender' = Bye(q, fault)
    BY <1>3, <1>6 DEF Bye
  <2>2. /\ toSender' \in Seq(ToSender)
        /\ \A m \in Msgs(toSender') : m \in Msgs(q) \/ m.type \in {"error", "close"}
        /\ fault \notin {None, "signal"} /\ Warned(q) => Warned(toSender')
        /\ Distinct(q) => Distinct(toSender')
        /\ \A m \in Msgs(q) : m \in Msgs(toSender')
    BY <2>1, Parting
  <2> QED
    BY <2>2 DEF ack
<1> QED
  BY <1>5, <1>6

\* The control state is well typed at the start.
LEMMA ControlInit == Init => ControlTypes
<1> SUFFICES ASSUME Init PROVE ControlTypes
  OBVIOUS
<1>1. QueueTypes
  BY SMT DEF Init, QueueTypes
<1>2. TrackerTypes
  <2>1. over \in BOOLEAN
    BY DEF Init
  <2> QED
    BY <2>1 DEF Init, TrackerTypes
<1>3. MainTypes
  <2>1. sRoot \in BOOLEAN /\ rRoot \in BOOLEAN
    BY DEF Init
  <2>2. sMain = "wait" /\ rMain = "pipeline" /\ ackBox = None /\ claimed = None /\ summaryBox = None
    BY DEF Init
  <2> QED
    BY <2>1, <2>2 DEF MainTypes
<1> QED
  BY <1>1, <1>2, <1>3 DEF ControlTypes

\* The sender keeps the control state well typed.
LEMMA ControlSender ==
    ASSUME ControlTypes, FileTypes, Held,
           SenderReads \/ SenderMain \/ SenderMishap \/ \E c \in Channel : Servicer(c)
    PROVE  ControlTypes'
<1> USE DEF ControlTypes
<1>1. ASSUME NEW c \in Channel, Servicer(c) PROVE ControlTypes'
  <2>1. UNCHANGED <<toSender, toReceiver, senderVars, receiverVars>>
    BY <1>1 DEF Servicer, ReadRequest, Serve, Record, wireVars
  <2>2. QueueTypes' /\ MainTypes'
    BY <2>1 DEF QueueTypes, MainTypes, senderVars, receiverVars
  <2>3. CASE UNCHANGED trackerVars
    BY <2>2, <2>3 DEF TrackerTypes, trackerVars
  <2>4. CASE Record(c)
    <3>1. serving[c] \in File
      BY <2>4 DEF Record, Held, ChannelTypes, Exchanged
    <3>2. /\ resolved' \in {resolved, resolved \cup {serving[c]}}
          /\ sCompleted' \in {sCompleted, sCompleted \cup {serving[c]}}
          /\ sFailed' \in {sFailed, sFailed \cup {serving[c]}}
          /\ UNCHANGED <<sDecided, needed>>
      BY <2>4 DEF Record
    <3>3. over' \in BOOLEAN
      BY <2>4 DEF Record, Reeval
    <3>4. TrackerTypes'
      BY <3>1, <3>2, <3>3 DEF TrackerTypes
    <3> QED
      BY <2>2, <3>4
  <2> QED
    BY <1>1, <2>3, <2>4 DEF Servicer, ReadRequest, Serve
<1>2. CASE SenderReads
  <2>1. /\ Tail(toSender) \in Seq(ToSender) /\ Head(toSender) \in ToSender
        /\ toSender' = Tail(toSender) /\ toReceiver' = toReceiver
    BY <1>2, ReadQueue DEF SenderReads, QueueTypes
  <2>2. QueueTypes'
    BY <2>1 DEF QueueTypes
  <2>3. TrackerTypes'
    <3>1. CASE UNCHANGED trackerVars
      BY <3>1 DEF TrackerTypes, trackerVars
    <3>2. CASE Head(toSender).type = "decision"
      <4>1. Head(toSender).group \in Group /\ Head(toSender).needed \subseteq File
        BY <2>1, <3>2 DEF ToSender, Decisions, Acks, Endings, Codes
      <4>2. /\ sDecided' = sDecided \cup {Head(toSender).group}
            /\ needed' = needed \cup Head(toSender).needed
            /\ UNCHANGED <<resolved, sCompleted, sFailed>> /\ Reeval
        BY <1>2, <3>2 DEF SenderReads
      <4>3. over' \in BOOLEAN
        BY <4>2 DEF Reeval
      <4> QED
        BY <4>1, <4>2, <4>3 DEF TrackerTypes
    <3> QED
      BY <1>2, <3>1, <3>2 DEF SenderReads
  <2>4. MainTypes'
    <3>1. ackBox' \in (SUBSET File) \cup {None}
      <4>1. CASE Head(toSender).type = "ack"
        <5>1. Head(toSender).done \in SUBSET File
          BY <2>1, <4>1 DEF ToSender, Decisions, Acks, Endings, Codes
        <5> QED
          BY <1>2, <4>1, <5>1 DEF SenderReads, MainTypes
      <4>2. CASE Head(toSender).type # "ack"
        BY <1>2, <4>2 DEF SenderReads, MainTypes
      <4> QED
        BY <4>1, <4>2
    <3>2. sRoot' \in BOOLEAN /\ UNCHANGED <<sMain, claimed, receiverVars>>
      BY <1>2 DEF SenderReads, MainTypes
    <3> QED
      BY <3>1, <3>2 DEF MainTypes, receiverVars
  <2> QED
    BY <2>2, <2>3, <2>4
<1>3. CASE SenderMain \/ SenderMishap
  <2>1. TrackerTypes' /\ toSender' = toSender
    BY <1>3 DEF TrackerTypes, trackerVars, SenderMain, SendSummary, WaitFails,
       AwaitAck, SenderMishap
  <2>2. sMain' \in {"wait", "ack", "exited"} /\ claimed' \in Claims \cup {None} /\ sRoot' \in BOOLEAN
    <3>1. claimed' = claimed \/ claimed' = [done |-> sCompleted, failed |-> sFailed]
      BY <1>3 DEF SenderMain, SendSummary, WaitFails, AwaitAck, SenderMishap
    <3>2. claimed' \in Claims \cup {None}
      BY <3>1, SMT DEF Claims, TrackerTypes, MainTypes
    <3>3. sMain' = sMain \/ sMain' \in {"ack", "exited"}
      BY <1>3 DEF SenderMain, SendSummary, WaitFails, AwaitAck, SenderMishap,
         SenderFinish
    <3>4. sRoot' = sRoot \/ sRoot' = TRUE
      BY <1>3 DEF SenderMain, SendSummary, WaitFails, AwaitAck, SenderMishap
    <3> QED
      BY <3>2, <3>3, <3>4 DEF MainTypes
  <2>3. UNCHANGED <<ackBox, rMain, rRoot, summaryBox>>
    BY <1>3 DEF SenderMain, SendSummary, WaitFails, AwaitAck, SenderMishap,
       receiverVars
  <2>4. MainTypes'
    BY <2>2, <2>3 DEF MainTypes
  <2>5. toReceiver' \in Seq(ToReceiver)
    <3>1. toReceiver \in Seq(ToReceiver)
      BY DEF QueueTypes
    <3>2. ASSUME NEW m \in ToReceiver, toReceiver' = Append(toReceiver, m)
          PROVE  toReceiver' \in Seq(ToReceiver)
      BY <3>1, <3>2, WriteQueue
    <3>3. CASE toReceiver' = Append(toReceiver, [type |-> "summary", done |-> sCompleted])
      <4>1. [type |-> "summary", done |-> sCompleted] \in ToReceiver
        BY DEF ToReceiver, Summaries, TrackerTypes
      <4> QED
        BY <3>2, <3>3, <4>1
    <3>4. ASSUME NEW how \in DOMAIN SocketFault,
                 toReceiver' = Append(toReceiver, Message(SocketFault[how]))
          PROVE  toReceiver' \in Seq(ToReceiver)
      <4>1. Message(SocketFault[how]) \in ToReceiver
        BY <3>4, SMT DEF ToReceiver, Endings, Codes, Message, SocketFault
      <4> QED
        BY <3>2, <3>4, <4>1
    <3>5. ASSUME NEW fault, NEW partial \in BOOLEAN, SenderFinish(fault, partial)
          PROVE  toReceiver' \in Seq(ToReceiver)
      BY <3>5, SenderParts
    <3>6. (claimed.failed # {}) \in BOOLEAN
      OBVIOUS
    <3> QED
      BY <1>3, <3>1, <3>3, <3>4, <3>5, <3>6 DEF SenderMain, SendSummary,
         WaitFails, AwaitAck, SenderMishap
  <2> QED
    BY <2>1, <2>4, <2>5 DEF QueueTypes
<1> QED
  BY <1>1, <1>2, <1>3

\* How the receiver's main goroutine ends: with an acknowledgement, or without.
LEMMA MainEnds ==
    ASSUME ReceiverFails \/ Reconcile
    PROVE  \/ \E e \in {"E3003", "E4005", "E9002"} : ReceiverFinish(First(rFault, e), <<>>)
           \/ /\ rMain = "summary" /\ summaryBox # None /\ rFault # "signal"
              /\ ReceiverFinish(IF ReceiverAgrees THEN rFault ELSE First(rFault, "E5005"),
                                <<[type |-> "ack", done |-> rCompleted]>>)
<1>1. CASE ReceiverFails
  <2>1. First(rFault, "E3003") = rFault /\ ReceiverFinish(rFault, <<>>)
    BY <1>1 DEF ReceiverFails, First
  <2> QED
    BY <2>1
<1>2. CASE Reconcile
  BY <1>2 DEF Reconcile
<1> QED
  BY <1>1, <1>2

\* A mishap of the receiver is one message.
LEMMA MishapMessage ==
    ASSUME ReceiverMishap
    PROVE  \E m \in Endings : toSender' = Append(toSender, m)
<1>1. CASE toSender' = Append(toSender, Message("close"))
  <2>1. Message("close") \in Endings
    BY DEF Message, Endings
  <2> QED
    BY <1>1, <2>1
<1>2. ASSUME NEW how \in DOMAIN SocketFault,
             toSender' = Append(toSender, Message(SocketFault[how]))
      PROVE  \E m \in Endings : toSender' = Append(toSender, m)
  <2>1. Message(SocketFault[how]) \in Endings
    BY <1>2, SMT DEF Endings, Codes, Message, SocketFault
  <2> QED
    BY <1>2, <2>1
<1> QED
  BY <1>1, <1>2 DEF ReceiverMishap

\* So does the receiver.
LEMMA ControlReceiver ==
    ASSUME ControlTypes, FileTypes, Books, Held,
           Decider \/ ReceiverReads \/ ReceiverMain \/ ReceiverMishap \/ \E c \in Channel : Fetcher(c)
    PROVE  ControlTypes'
<1> USE DEF ControlTypes
<1>1. TrackerTypes' /\ UNCHANGED <<sMain, sRoot, ackBox, claimed>>
  <2>1. UNCHANGED <<trackerVars, senderVars>>
    BY ZenonT(30) DEF Decider, Decide, DecideSendFails, ReceiverReads, ReceiverMain, PipelineEnds,
       ReceiverFails, Reconcile, ReceiverMishap, Fetcher, Fetch, Publish, Retry, FileFails,
       FetchFatal, Cancelled, Consume
  <2> QED
    BY <2>1 DEF TrackerTypes, trackerVars, senderVars
<1>2. ASSUME QueueTypes', rMain' = rMain \/ rMain' \in {"summary", "exited"},
             rRoot' = rRoot \/ rRoot' = TRUE, summaryBox' \in (SUBSET File) \cup {None}
      PROVE  ControlTypes'
  BY <1>1, <1>2 DEF MainTypes
<1>3. summaryBox \in (SUBSET File) \cup {None}
  BY DEF MainTypes
<1>4. ASSUME NEW c \in Channel, Fetcher(c) PROVE ControlTypes'
  <2>1. UNCHANGED <<toSender, toReceiver, rMain, summaryBox>> /\ (rRoot' = rRoot \/ rRoot' = TRUE)
    BY <1>4 DEF Fetcher, Fetch, Publish, Retry, FileFails, FetchFatal,
       Cancelled, Consume, RFail, receiverVars, wireVars
  <2> QED
    BY <1>2, <1>3, <2>1 DEF QueueTypes
<1>5. ASSUME NEW m \in ToSender, toSender' = Append(toSender, m), toReceiver' = toReceiver
      PROVE  QueueTypes'
  BY <1>5, WriteQueue DEF QueueTypes
<1>6. ASSUME NEW g \in Group, Decide(g) PROVE ControlTypes'
  <2>1. PICK N \in SUBSET File, X \in SUBSET File, Q \in SUBSET File : Decision(g, N, X, Q)
    BY <1>6, DecisionStep
  <2>2. toReceiver' = toReceiver /\ rMain' = rMain /\ summaryBox' = summaryBox
        /\ (rRoot' = rRoot \/ rRoot' = TRUE)
    BY <1>6 DEF Decide, RFail
  <2>3. toSender' = Append(toSender, [type |-> "decision", group |-> g, needed |-> N])
    BY <2>1 DEF Decision
  <2>4. [type |-> "decision", group |-> g, needed |-> N] \in ToSender
    BY <2>1 DEF ToSender, Decisions
  <2> QED
    BY <1>2, <1>3, <1>5, <2>2, <2>3, <2>4
<1>7. CASE DecideSendFails \/ PipelineEnds
  <2>1. UNCHANGED <<toSender, toReceiver, summaryBox>> /\ (rRoot' = rRoot \/ rRoot' = TRUE)
        /\ (rMain' = rMain \/ rMain' = "summary")
    BY <1>7 DEF DecideSendFails, PipelineEnds, RFail, wireVars
  <2> QED
    BY <1>2, <1>3, <2>1 DEF QueueTypes
<1>8. CASE ReceiverReads
  <2> /\ Tail(toReceiver) \in Seq(ToReceiver) /\ Head(toReceiver) \in ToReceiver
      /\ toReceiver' = Tail(toReceiver) /\ toSender' = toSender /\ rMain' = rMain
    BY <1>8, ReadQueue DEF ReceiverReads, QueueTypes
  <2>2. QueueTypes'
    BY DEF QueueTypes
  <2>3. rRoot' = rRoot \/ rRoot' = TRUE
    BY <1>8 DEF ReceiverReads, RFail
  <2>4. summaryBox' \in (SUBSET File) \cup {None}
    <3>1. CASE Head(toReceiver).type = "summary"
      <4>1. Head(toReceiver).done \in SUBSET File
        BY <3>1 DEF ToReceiver, Summaries, Endings, Codes
      <4>2. summaryBox' = Head(toReceiver).done
        BY <1>8, <3>1 DEF ReceiverReads
      <4> QED
        BY <4>1, <4>2
    <3>2. CASE Head(toReceiver).type # "summary"
      <4>1. summaryBox' = summaryBox
        BY <1>8, <3>2 DEF ReceiverReads
      <4> QED
        BY <1>3, <4>1
    <3> QED
      BY <3>1, <3>2
  <2> QED
    BY <1>2, <2>2, <2>3, <2>4
<1>9. CASE ReceiverFails \/ Reconcile
  <2>1. UNCHANGED <<toReceiver, rRoot, summaryBox>>
    BY <1>9 DEF ReceiverFails, Reconcile
  <2>2. PICK fault, told :
          /\ ReceiverFinish(fault, told)
          /\ told = <<>> \/ told = <<[type |-> "ack", done |-> rCompleted]>>
    BY <1>9, MainEnds
  <2>3. toSender' \in Seq(ToSender)
    BY <2>2, ReceiverParts
  <2>4. rMain' = "exited"
    BY <2>2 DEF ReceiverFinish
  <2>5. QueueTypes'
    BY <2>1, <2>3 DEF QueueTypes
  <2> QED
    BY <1>2, <1>3, <2>1, <2>4, <2>5
<1>10. CASE ReceiverMishap
  <2>1. /\ UNCHANGED <<toReceiver, summaryBox>>
        /\ rMain' = rMain \/ rMain' = "exited"
        /\ rRoot' = rRoot \/ rRoot' = TRUE
    BY <1>10 DEF ReceiverMishap, RFail
  <2>2. PICK m \in Endings : toSender' = Append(toSender, m)
    BY <1>10, MishapMessage
  <2>3. QueueTypes'
    <3>1. m \in ToSender
      BY <2>2 DEF ToSender
    <3> QED
      BY <1>5, <2>1, <2>2, <3>1
  <2> QED
    BY <1>2, <1>3, <2>1, <2>3
<1> QED
  BY <1>4, <1>6, <1>7, <1>8, <1>9, <1>10 DEF Decider, ReceiverMain

\* What the sender has put on the wire to the receiver.
Told ==
    /\ \A m \in Msgs(toReceiver) :
         /\ m.type = "summary" => sMain # "wait" /\ claimed # None /\ m.done = claimed.done
         /\ m.type # "summary" => sMain = "exited"
    /\ summaryBox # None => sMain # "wait" /\ claimed # None /\ summaryBox = claimed.done
    /\ sMain = "ack" => claimed # None
    /\ sMain # "exited" => sExit = None
    /\ Running => rExit = None
    /\ rFault = "signal" \/ sFatal = "signal" => "signal" \in Mishaps

\* While the receiver runs and was not interrupted.
Well ==
    /\ \A m \in Msgs(toSender) : m.type = "decision"
    /\ ackBox = None
    /\ sExit \notin {0, 1}
    /\ sFatal # "E5005"
    /\ sMain # "exited" => IF sRoot THEN sFatal = "signal" ELSE sFatal = None
    /\ rRoot /\ rFault = None => sMain = "exited" /\ sFatal = "signal"
    /\ sFatal # "signal" /\ rFault = None => Warned(toReceiver)
    /\ rFault # None => rRoot
    /\ rFault # "E5005"
    /\ rMain = "summary" /\ sMain # "exited" => Drained /\ rFault = None

\* Acknowledgements come from a receiver that has exited.
Acknowledged ==
    /\ ackBox # None =>
         /\ rMain = "exited" /\ ackBox = rCompleted /\ sMain # "wait"
         /\ sMain = "ack" => ackBox = claimed.done \/ rFault = "E5005"
    /\ \A m \in Msgs(toSender) : m.type = "ack" =>
         /\ rMain = "exited" /\ m.done = rCompleted
         /\ sMain # "exited" => sMain = "ack" /\ (m.done = claimed.done \/ rFault = "E5005")

\* A disagreement: the sender will hear of it before anything else.
Disputed ==
    /\ rMain = "exited" /\ sMain # "wait" /\ sExit \notin {0, 1}
    /\ sMain = "ack" =>
         /\ rCompleted # claimed.done
         /\ sFatal # "E3003"
         /\ \A m \in Msgs(toSender) : m.type \notin Codes
         /\ sFatal = None => ~sRoot /\ Warned(toSender)

Protocol ==
    /\ Told
    /\ Acknowledged
    /\ Running /\ rFault # "signal" => Well
    /\ rFault = "signal" => rExit \notin {0, 1} /\ sFatal # "E5005"
    /\ rFault = "E5005" => Disputed
    /\ sFatal = "E5005" => rFault = "E5005"

\* While the receiver runs, nothing is acknowledged or disputed.
LEMMA StillRunning ==
    ASSUME Protocol, Running
    PROVE  /\ ackBox = None /\ rFault # "E5005" /\ sFatal # "E5005" /\ rExit = None
           /\ \A m \in Msgs(toSender) : m.type # "ack"
BY DEF Protocol, Running, Acknowledged, Disputed, Told

\* The steps of the servicers.
LEMMA ProtocolFrame ==
    ASSUME Protocol, UNCHANGED <<toSender, toReceiver, senderVars, receiverVars, decided, pool, rCompleted>>
    PROVE  Protocol'
<1> UNCHANGED <<sMain, sRoot, sFatal, claimed, ackBox, sExit, rMain, rRoot, rFault, summaryBox, rExit>>
  BY DEF senderVars, receiverVars
<1>2. Told' /\ Acknowledged'
  BY DEF Protocol, Told, Acknowledged, Msgs, Running
<1>3. Well' = Well /\ Disputed' = Disputed /\ Running' = Running
  BY DEF Well, Disputed, Msgs, Warned, Running, Drained
<1> QED
  BY <1>2, <1>3 DEF Protocol

\* The steps of the decide pool and the fetchers: there is work left.
LEMMA ProtocolWork ==
    ASSUME Protocol, Running, ~Drained,
           UNCHANGED <<toReceiver, senderVars, rMain, summaryBox, rExit>>,
           \A m \in Msgs(toSender') : m \in Msgs(toSender) \/ m.type = "decision",
           \/ UNCHANGED <<rRoot, rFault>>
           \/ \E e \in {"E3003", "E3005", "E7003"} : RFail(e)
    PROVE  Protocol'
<1>1. UNCHANGED <<sMain, sRoot, sFatal, claimed, ackBox, sExit>>
  BY DEF senderVars
<1>2. /\ ackBox = None /\ rFault # "E5005" /\ sFatal # "E5005" /\ rExit = None
      /\ \A m \in Msgs(toSender) : m.type # "ack"
  BY StillRunning
<1> /\ rFault # None => rFault' = rFault
    /\ rFault' \notin {"signal", "E5005"} \/ rFault' = rFault
    /\ (rRoot' <=> rRoot) \/ rFault' # None
    /\ rRoot => rRoot'
    /\ rFault' # None => rFault' = rFault \/ rRoot'
    /\ rFault' = None => rFault = None
  <2>1. CASE UNCHANGED <<rRoot, rFault>>
    BY <2>1
  <2>2. CASE \E e \in {"E3003", "E3005", "E7003"} : RFail(e)
    <3>1. PICK e \in {"E3003", "E3005", "E7003"} : RFail(e)
      BY <2>2
    <3>2. e # None /\ e \notin {"signal", "E5005"}
      BY NoneAssumption
    <3> QED
      BY <3>1, <3>2 DEF RFail, First
  <2> QED
    BY <2>1, <2>2
<1>4. Running'
  BY DEF Running
<1>5. Told'
  <2>1. rFault' = "signal" => rFault = "signal"
    OBVIOUS
  <2> QED
    BY <1>1, <1>2, <2>1 DEF Protocol, Told
<1>6. Acknowledged'
  <2>1. \A m \in Msgs(toSender') : m.type # "ack"
    BY <1>2
  <2> QED
    BY <1>1, <1>2, <2>1 DEF Acknowledged
<1>7. rFault' # "signal" => Well'
  <2> SUFFICES ASSUME rFault' # "signal" PROVE Well'
    OBVIOUS
  <2> Well
    <3>1. rFault # "signal"
      BY NoneAssumption
    <3> QED
      BY <3>1 DEF Protocol
  <2>2. \A m \in Msgs(toSender') : m.type = "decision"
    BY DEF Well
  <2>3. rMain = "summary" => sMain = "exited"
    BY DEF Well
  <2>4. rFault' # "E5005" /\ (rFault' # None => rRoot')
    BY <1>2 DEF Well
  <2>5. /\ rRoot' /\ rFault' = None => sMain = "exited" /\ sFatal = "signal"
        /\ sFatal # "signal" /\ rFault' = None => Warned(toReceiver)
    BY DEF Well
  <2> QED
    BY <1>1, <1>2, <2>2, <2>3, <2>4, <2>5 DEF Well, Warned
<1>8. rFault' = "signal" => rExit' \notin {0, 1} /\ sFatal' # "E5005"
  BY <1>1, <1>2, NoneAssumption
<1> QED
  BY <1>1, <1>2, <1>5, <1>6, <1>7, <1>8 DEF Protocol

\* The decide pool and the fetchers.
LEMMA ProtocolWorkers ==
    ASSUME ControlTypes, FileTypes, Held, Books, Protocol,
           Decider \/ \E c \in Channel : Fetcher(c)
    PROVE  Protocol'
<1>1. ASSUME NEW g \in Group, Decide(g) PROVE Protocol'
  <2>1. PICK N \in SUBSET File, X \in SUBSET File, Q \in SUBSET File : Decision(g, N, X, Q)
    BY <1>1, DecisionStep
  <2>2. /\ Running /\ UNCHANGED <<toReceiver, senderVars, rMain, summaryBox, rExit>>
        /\ g \notin decided
        /\ UNCHANGED <<rRoot, rFault>> \/ RFail("E7003")
    BY <1>1 DEF Decide
  <2>3. ~Drained
    BY <2>2 DEF Drained
  <2>4. \A m \in Msgs(toSender') : m \in Msgs(toSender) \/ m.type = "decision"
    <3> DEFINE d == [type |-> "decision", group |-> g, needed |-> N]
    <3>1. toSender' = Append(toSender, d)
      BY <2>1 DEF Decision
    <3>2. d \in ToSender /\ d.type = "decision"
      BY <2>1 DEF ToSender, Decisions
    <3> HIDE DEF d
    <3>3. toSender \in Seq(ToSender)
      BY DEF ControlTypes, QueueTypes
    <3>4. Msgs(Append(toSender, d)) = Msgs(toSender) \cup {d}
      BY <3>2, <3>3, WriteQueue, SMT
    <3> QED
      BY <3>1, <3>2, <3>4
  <2> QED
    BY <2>2, <2>3, <2>4, ProtocolWork
<1>2. CASE DecideSendFails
  <2>1. /\ Running /\ UNCHANGED <<toReceiver, senderVars, rMain, summaryBox, rExit, toSender>>
        /\ RFail("E3003") /\ ~Drained
    BY <1>2 DEF DecideSendFails, wireVars, Drained
  <2>2. Msgs(toSender') = Msgs(toSender)
    BY <2>1 DEF Msgs
  <2> QED
    BY <2>1, <2>2, ProtocolWork
<1>3. ASSUME NEW c \in Channel, Fetcher(c) PROVE Protocol'
  <2>1. /\ Running /\ UNCHANGED <<toReceiver, senderVars, rMain, summaryBox, rExit, toSender>>
        /\ UNCHANGED <<rRoot, rFault>> \/ RFail("E7003") \/ RFail("E3005")
    BY <1>3 DEF Fetcher, Fetch, Publish, Retry, FileFails, FetchFatal,
       Cancelled, Consume, Working, receiverVars, wireVars
  <2>2. (\E f \in File : pool[f] = "ready") \/ reply[c] # None \/ fetch[c] # None
    BY <1>3 DEF Fetcher, Fetch, Publish, Retry, FileFails, FetchFatal,
       Cancelled, Consume
  <2>3. fetch[c] # None => fetch[c] \in File /\ pool[fetch[c]] = "taken"
    BY DEF Held, ChannelTypes
  <2>4. ~Drained
    BY <2>2, <2>3 DEF Drained, Held, Exchanged
  <2>5. Msgs(toSender') = Msgs(toSender)
    BY <2>1 DEF Msgs
  <2> QED
    BY <2>1, <2>4, <2>5, ProtocolWork
<1> QED
  BY <1>1, <1>2, <1>3 DEF Decider

\* The sender's control.reader.
LEMMA ProtocolSenderReads ==
    ASSUME ControlTypes, Protocol, SenderReads
    PROVE  Protocol'
<1> DEFINE m == Head(toSender)
<1> /\ sMain # "exited" /\ toSender # <<>> /\ toSender' = Tail(toSender)
    /\ UNCHANGED <<toReceiver, sMain, claimed, sExit, rMain, rRoot, rFault, summaryBox, rExit>>
    /\ UNCHANGED <<decided, pool, rCompleted>>
  BY DEF SenderReads, fileVars, receiverVars
<1>2. toSender \in Seq(ToSender)
  BY DEF ControlTypes, QueueTypes
<1> /\ m \in Msgs(toSender) /\ Msgs(toSender') \subseteq Msgs(toSender)
    /\ Warned(toSender) => m.type # "close" /\ (m.type # "error" => Warned(toSender'))
  BY <1>2, ReadQueue, WarnedTail
<1> /\ m.type = "ack" => ackBox' = m.done /\ UNCHANGED <<sRoot, sFatal>>
    /\ m.type # "ack" => ackBox' = ackBox
    /\ m.type \in {"decision", "ack"} => UNCHANGED <<sRoot, sFatal>>
    /\ sFatal' = sFatal \/ (sFatal = None /\ sFatal' \in {"peer", "E3003", "E4005"})
    /\ m.type = "error" => sFatal' # None /\ (sFatal' = sFatal \/ sFatal' = "peer")
    /\ m.type = "close" => sFatal' = sFatal
    /\ m.type \in {"decision", "ack", "error", "close"} \cup Codes
  <2>1. None # "peer"
    BY NoneAssumption
  <2> HIDE DEF m
  <2> QED
    BY <2>1 DEF SenderReads, SetFatal, Codes, m
<1> HIDE DEF m
<1>5. Told'
  BY DEF Protocol, Told, Running, Msgs
<1>6. Acknowledged'
  <2>1. m.type = "ack" => /\ rMain = "exited" /\ m.done = rCompleted
                         /\ sMain = "ack" /\ (m.done = claimed.done \/ rFault = "E5005")
    BY DEF Protocol, Acknowledged
  <2>2. ackBox' # None =>
         /\ rMain = "exited" /\ ackBox' = rCompleted /\ sMain # "wait"
         /\ sMain = "ack" => ackBox' = claimed.done \/ rFault = "E5005"
    <3>1. CASE m.type = "ack"
      BY <2>1, <3>1
    <3>2. CASE m.type # "ack"
      BY <3>2 DEF Protocol, Acknowledged
    <3> QED
      BY <3>1, <3>2
  <2> QED
    BY <2>2 DEF Protocol, Acknowledged
<1>7. Running /\ rFault # "signal" => Well'
  <2> SUFFICES ASSUME Running, rFault # "signal" PROVE Well'
    OBVIOUS
  <2>1. Well /\ m.type = "decision"
    BY DEF Protocol, Well
  <2>2. UNCHANGED <<sRoot, sFatal, ackBox>>
    BY <2>1
  <2>3. Drained' = Drained
    BY DEF Drained
  <2> QED
    BY <2>1, <2>2, <2>3 DEF Well, Warned
<1>8. rFault = "E5005" => Disputed'
  <2> SUFFICES ASSUME rFault = "E5005" PROVE Disputed'
    OBVIOUS
  <2> /\ rMain = "exited" /\ sMain # "wait" /\ sExit \notin {0, 1}
      /\ sMain = "ack" /\ rCompleted # claimed.done /\ sFatal # "E3003"
      /\ \A n \in Msgs(toSender) : n.type \notin Codes
      /\ sFatal = None => ~sRoot /\ Warned(toSender)
    BY DEF Protocol, Disputed, ControlTypes, MainTypes
  <2>2. m.type \in {"decision", "ack", "error", "close"}
    OBVIOUS
  <2> sFatal' # "E3003" /\ (sFatal' = None => sFatal = None)
    BY <2>2
  <2>4. sFatal' = None => ~sRoot' /\ Warned(toSender')
    <3> SUFFICES ASSUME sFatal' = None PROVE ~sRoot' /\ Warned(toSender')
      OBVIOUS
    <3>1. m.type \in {"decision", "ack"}
      BY <2>2
    <3> QED
      BY <3>1, SMT
  <2> QED
    BY <2>4 DEF Disputed
<1>9. sFatal' = "E5005" => sFatal = "E5005"
  OBVIOUS
<1> QED
  BY <1>5, <1>6, <1>7, <1>8, <1>9 DEF Protocol, Running

\* The sender finishes.
LEMMA ProtocolSenderLeaves ==
    ASSUME ControlTypes, Protocol, sMain # "exited", NEW fault, NEW partial \in BOOLEAN,
           SenderFinish(fault, partial),
           UNCHANGED <<toSender, claimed, ackBox, receiverVars, decided, pool, rCompleted>>,
           fault = "signal" => sFatal = "signal",
           fault = "E5005" => rFault = "E5005",
           Running /\ rFault # "signal" => fault \in {"signal", "cancelled", "E9002"},
           rFault = "E5005" => fault \notin {None, "E3003"}
    PROVE  Protocol'
<1> /\ sMain' = "exited" /\ sFatal' = fault
    /\ fault \notin {None, "E3003"} => sExit' \notin {0, 1}
    /\ UNCHANGED <<rMain, rRoot, rFault, summaryBox, rExit>>
  BY SMT DEF SenderFinish, ExitCode, receiverVars
<1>2. /\ \A m \in Msgs(toReceiver') : m \in Msgs(toReceiver) \/ m.type \in {"error", "close"}
      /\ fault \notin {None, "signal"} /\ Warned(toReceiver) => Warned(toReceiver')
  BY SenderParts
<1>3. Told'
  <2>1. \A m \in Msgs(toReceiver') : m.type = "summary" => sMain # "wait" /\ claimed # None /\ m.done = claimed.done
    BY <1>2 DEF Protocol, Told
  <2>2. \A m \in Msgs(toReceiver')  :
          m.type = "summary" => sMain' # "wait" /\ claimed' # None /\ m.done = claimed'.done
    BY <2>1
  <2> QED
    BY <2>2 DEF Protocol, Told, Running
<1>4. Acknowledged'
  BY DEF Protocol, Acknowledged, Msgs
<1>5. Running /\ rFault # "signal" => Well'
  <2> SUFFICES ASSUME Running, rFault # "signal" PROVE Well'
    OBVIOUS
  <2> Well /\ fault \in {"signal", "cancelled", "E9002"}
    BY DEF Protocol
  <2>2. fault # None
    BY NoneAssumption
  <2>3. fault # "E3003" /\ fault # "E5005"
    OBVIOUS
  <2>4. Warned(toReceiver)
    BY WarnedPlain DEF Protocol, Told
  <2>5. Drained' = Drained
    BY DEF Drained
  <2>6. Msgs(toSender') = Msgs(toSender)
    BY DEF Msgs
  <2>7. sFatal' # "signal" => Warned(toReceiver')
    BY <1>2, <2>2, <2>4
  <2>8. sExit' \notin {0, 1} /\ sFatal' # "E5005"
    BY <2>2, <2>3
  <2> QED
    BY <2>5, <2>6, <2>7, <2>8 DEF Well
<1>6. rFault = "E5005" => Disputed'
  <2> SUFFICES ASSUME rFault = "E5005" PROVE Disputed'
    OBVIOUS
  <2>1. rMain = "exited" /\ sExit' \notin {0, 1}
    BY DEF Protocol, Disputed
  <2> QED
    BY <2>1 DEF Disputed
<1>7. rFault = "signal" => fault # "E5005"
  OBVIOUS
<1> QED
  BY <1>3, <1>4, <1>5, <1>6, <1>7 DEF Protocol, Running

\* The sender's main goroutine.
LEMMA ProtocolSenderMain ==
    ASSUME ControlTypes, Protocol, SenderMain
    PROVE  Protocol'
<1>1. UNCHANGED <<toSender, ackBox, receiverVars, decided, pool, rCompleted, sRoot>>
  BY DEF SenderMain, SendSummary, WaitFails, AwaitAck, fileVars
<1>2. UNCHANGED <<rMain, rRoot, rFault, summaryBox, rExit>>
  BY <1>1 DEF receiverVars
<1>3. None \notin {"signal", "cancelled", "E3003", "E5005", "E9002"}
  BY NoneAssumption
<1>4. ASSUME sMain = "wait", claimed' = [done |-> sCompleted, failed |-> sFailed],
             toReceiver' = Append(toReceiver, [type |-> "summary", done |-> sCompleted]),
             sMain' = "ack", UNCHANGED <<sFatal, sExit>>
      PROVE  Protocol'
  <2> DEFINE s == [type |-> "summary", done |-> sCompleted]
  <2>1. s \in ToReceiver /\ s.type = "summary" /\ s.done = claimed'.done /\ claimed' # None
    BY <1>4, NoneAssumption DEF ToReceiver, Summaries, ControlTypes, TrackerTypes
  <2> toReceiver \in Seq(ToReceiver) /\ toReceiver' = Append(toReceiver, s)
    BY <1>4 DEF ControlTypes, QueueTypes
  <2> HIDE DEF s
  <2>3. Msgs(Append(toReceiver, s)) = Msgs(toReceiver) \cup {s}
    BY <2>1, WriteQueue, SMT
  <2>4. Warned(toReceiver) => Warned(Append(toReceiver, s))
    BY <2>1, WarnedAppend
  <2> Msgs(toReceiver) = {} /\ summaryBox = None /\ ackBox = None /\ rFault # "E5005"
    <3>1. \A m \in Msgs(toReceiver) : FALSE
      BY <1>4 DEF Protocol, Told
    <3>2. summaryBox = None /\ ackBox = None /\ rFault # "E5005"
      BY <1>4 DEF Protocol, Told, Acknowledged, Disputed
    <3> QED
      BY <3>1, <3>2
  <2>6. Told'
    <3>1. \A m \in Msgs(toReceiver') : m = s
      BY <2>3
    <3>2. sExit' = None /\ (Running' => rExit' = None)
      BY <1>2, <1>4 DEF Protocol, Told, Running
    <3>3. rFault' = "signal" \/ sFatal' = "signal" => "signal" \in Mishaps
      BY <1>2, <1>4 DEF Protocol, Told
    <3> QED
      BY <1>2, <1>4, <2>1, <3>1, <3>2, <3>3 DEF Told
  <2>7. Acknowledged'
    <3>1. \A m \in Msgs(toSender) : m.type # "ack"
      BY <1>4 DEF Protocol, Acknowledged
    <3> QED
      BY <1>1, <3>1 DEF Acknowledged, Msgs
  <2>8. Running /\ rFault # "signal" => Well'
    <3> SUFFICES ASSUME Running, rFault # "signal" PROVE Well'
      OBVIOUS
    <3>1. Well /\ Drained' = Drained /\ Msgs(toSender') = Msgs(toSender)
      BY <1>1 DEF Protocol, Drained, Msgs
    <3>2. sMain # "exited" /\ sMain' # "exited"
      BY <1>4
    <3> QED
      BY <1>1, <1>2, <1>4, <2>4, <3>1, <3>2 DEF Well
  <2> QED
    BY <1>2, <1>4, <2>6, <2>7, <2>8 DEF Protocol, Running
<1>5. ASSUME sMain # "exited", NEW fault, NEW partial \in BOOLEAN, SenderFinish(fault, partial),
             claimed' = claimed,
             fault = "signal" => sFatal = "signal",
             fault = "E5005" => rFault = "E5005",
             Running /\ rFault # "signal" => fault \in {"signal", "cancelled", "E9002"},
             rFault = "E5005" => fault \notin {None, "E3003"}
      PROVE  Protocol'
  BY <1>1, <1>5, ProtocolSenderLeaves
<1> /\ sFatal = "E5005" => rFault = "E5005"
    /\ sMain = "wait" => rFault # "E5005"
    /\ sMain = "ack" /\ rFault = "E5005" =>
         rCompleted # claimed.done /\ sFatal # "E3003" /\ (sFatal = None => ~sRoot)
  BY DEF Protocol, Disputed
<1>7. Running /\ rFault # "signal" /\ sMain # "exited" =>
        IF sRoot THEN sFatal = "signal" ELSE sFatal = None
  BY DEF Protocol, Well
<1>8. CASE SendSummary
  <2>1. CASE rMain = "exited" /\ SenderFinish(First(sFatal, "E3003"), FALSE) /\ UNCHANGED claimed
    <3> DEFINE fault == First(sFatal, "E3003")
    <3>1. sMain = "wait" /\ ~Running /\ rFault # "E5005" /\ sMain # "exited"
      BY <1>8, <2>1, SMT DEF SendSummary, Running
    <3>2. (fault = "signal" => sFatal = "signal") /\ (fault = "E5005" => sFatal = "E5005")
      BY DEF First
    <3> HIDE DEF fault
    <3> QED
      BY <1>5, <2>1, <3>1, <3>2 DEF fault
  <2> QED
    BY <1>4, <1>8, <2>1 DEF SendSummary
<1>9. CASE WaitFails
  <2>1. PICK e \in {"cancelled", "E9002"} : SenderFinish(First(sFatal, e), FALSE)
    BY <1>9 DEF WaitFails
  <2> DEFINE fault == First(sFatal, e)
  <2>2. sMain = "wait" /\ rFault # "E5005" /\ sMain # "exited" /\ claimed' = claimed
    BY <1>9 DEF WaitFails
  <2>3. /\ fault = "signal" => sFatal = "signal"
        /\ fault = "E5005" => sFatal = "E5005"
        /\ sFatal \in {None, "signal"} => fault \in {"signal", "cancelled", "E9002"}
    BY DEF First
  <2>4. Running /\ rFault # "signal" => sFatal \in {None, "signal"}
    BY <1>7, <2>2
  <2> HIDE DEF fault
  <2> QED
    BY <1>5, <2>1, <2>2, <2>3, <2>4 DEF fault
<1>10. CASE AwaitAck
  <2> sMain = "ack" /\ claimed' = claimed /\ sMain # "exited"
    BY <1>10 DEF AwaitAck
  <2>2. CASE ackBox # None /\ SenderAgrees /\ SenderFinish(sFatal, claimed.failed # {})
    <3>1. ~Running /\ rFault # "E5005"
      BY <2>2 DEF Protocol, Acknowledged, SenderAgrees, Running
    <3>2. (claimed.failed # {}) \in BOOLEAN
      OBVIOUS
    <3> QED
      BY <1>5, <2>2, <3>1, <3>2
  <2>3. CASE ackBox # None /\ ~SenderAgrees /\ SenderFinish(First(sFatal, "E5005"), FALSE)
    <3> DEFINE fault == First(sFatal, "E5005")
    <3>1. ~Running /\ rFault = "E5005"
      BY <2>3 DEF Protocol, Acknowledged, SenderAgrees, Running
    <3>2. (fault = "signal" => sFatal = "signal") /\ fault \notin {None, "E3003"}
      BY <1>3, <3>1, SMT DEF First
    <3> HIDE DEF fault
    <3> QED
      BY <1>5, <2>3, <3>1, <3>2 DEF fault
  <2>4. CASE sRoot /\ SenderFinish(sFatal, FALSE)
    <3>1. Running /\ rFault # "signal" => sFatal = "signal"
      BY <1>7, <2>4
    <3>2. rFault = "E5005" => sFatal \notin {None, "E3003"}
      BY <2>4
    <3> QED
      BY <1>5, <2>4, <3>1, <3>2
  <2>5. CASE SenderFinish(First(sFatal, "E9002"), FALSE)
    <3> DEFINE fault == First(sFatal, "E9002")
    <3>1. /\ fault = "signal" => sFatal = "signal"
          /\ fault = "E5005" => sFatal = "E5005"
          /\ sFatal \in {None, "signal"} => fault \in {"signal", "cancelled", "E9002"}
          /\ sFatal # "E3003" => fault \notin {None, "E3003"}
      BY <1>3 DEF First
    <3>2. Running /\ rFault # "signal" => sFatal \in {None, "signal"}
      BY <1>7
    <3> HIDE DEF fault
    <3> QED
      BY <1>5, <2>5, <3>1, <3>2 DEF fault
  <2> QED
    BY <1>10, <2>2, <2>3, <2>4, <2>5 DEF AwaitAck
<1> QED
  BY <1>8, <1>9, <1>10 DEF SenderMain

\* A socket's fault is a message of its own.
LEMMA SocketCodes ==
    ASSUME NEW how \in DOMAIN SocketFault
    PROVE  /\ Message(SocketFault[how]) \in Endings
           /\ Message(SocketFault[how]).type \in Codes
BY SMT DEF Endings, Codes, Message, SocketFault

\* A sender that is interrupted or dies: the receiver hears at most the end of
\* the connection.
LEMMA ProtocolSenderMishap ==
    ASSUME ControlTypes, Protocol, SenderMishap
    PROVE  Protocol'
<1> /\ UNCHANGED <<toSender, claimed, ackBox, rMain, rRoot, rFault, summaryBox, rExit>>
    /\ UNCHANGED <<decided, pool, rCompleted>> /\ sMain # "exited"
  BY DEF SenderMishap, fileVars, receiverVars
<1> Drained' = Drained /\ Msgs(toSender') = Msgs(toSender) /\ (Running' <=> Running)
  BY DEF Drained, Msgs, Running
<1>3. ASSUME "signal" \in Mishaps, ~sRoot, SetFatal("signal"), sRoot' = TRUE,
             UNCHANGED <<sMain, sExit, toReceiver>>
      PROVE  Protocol'
  <2> sFatal' # None /\ (sFatal = None => sFatal' = "signal") /\ (sFatal # None => sFatal' = sFatal)
    BY <1>3, NoneAssumption DEF SetFatal
  <2>2. Told' /\ Acknowledged'
    BY <1>3 DEF Protocol, Told, Acknowledged, Msgs
  <2>3. Running /\ rFault # "signal" => Well'
    <3> SUFFICES ASSUME Running, rFault # "signal" PROVE Well'
      OBVIOUS
    <3>1. Well /\ sFatal = None
      BY <1>3 DEF Protocol, Well
    <3>2. sFatal' = "signal" /\ sRoot'
      BY <1>3, <3>1, SMT
    <3> QED
      BY <1>3, <3>1, <3>2 DEF Well, Warned
  <2>4. rFault = "E5005" => Disputed'
    <3>1. sFatal # "E3003" => sFatal' # "E3003"
      OBVIOUS
    <3> QED
      BY <1>3, <3>1 DEF Protocol, Disputed
  <2>5. sFatal' = "E5005" => sFatal = "E5005"
    OBVIOUS
  <2> QED
    BY <2>2, <2>3, <2>4, <2>5 DEF Protocol
<1>4. ASSUME NEW how \in Mishaps \cap DOMAIN SocketFault, sMain' = "exited", sExit' = Killed,
             toReceiver' = Append(toReceiver, Message(SocketFault[how])), UNCHANGED <<sRoot, sFatal>>
      PROVE  Protocol'
  <2> DEFINE m == Message(SocketFault[how])
  <2>1. toReceiver \in Seq(ToReceiver) /\ m \in ToReceiver /\ m.type \in Codes
    BY SocketCodes DEF ControlTypes, QueueTypes, ToReceiver
  <2>2. m.type # "summary" /\ m.type # "close"
    BY <2>1 DEF Codes
  <2>3. toReceiver' = Append(toReceiver, m)
    BY <1>4
  <2> HIDE DEF m
  <2>4. Msgs(Append(toReceiver, m)) = Msgs(toReceiver) \cup {m}
    BY <2>1, WriteQueue, SMT
  <2>5. Warned(toReceiver) => Warned(Append(toReceiver, m))
    BY <2>1, <2>2, WarnedAppend
  <2>6. sExit' \notin {0, 1}
    BY <1>4, SMT DEF Killed
  <2>7. \A n \in Msgs(toReceiver') : n \in Msgs(toReceiver) \/ n = m
    BY <2>3, <2>4
  <2>8. Told'
    <3>1. \A n \in Msgs(toReceiver') : n.type = "summary" => claimed # None /\ n.done = claimed.done
      BY <2>2, <2>7 DEF Protocol, Told
    <3>2. summaryBox # None => claimed # None /\ summaryBox = claimed.done
      BY DEF Protocol, Told
    <3>3. (Running => rExit = None) /\ (rFault = "signal" \/ sFatal = "signal" => "signal" \in Mishaps)
      BY DEF Protocol, Told
    <3> QED
      BY <1>4, <3>1, <3>2, <3>3, SMT DEF Told
  <2>9. Acknowledged'
    BY <1>4 DEF Protocol, Acknowledged
  <2>10. Running /\ rFault # "signal" => Well'
    <3> SUFFICES ASSUME Running, rFault # "signal" PROVE Well'
      OBVIOUS
    <3>1. Well
      BY DEF Protocol
    <3> QED
      BY <1>4, <2>3, <2>5, <2>6, <3>1 DEF Well
  <2>11. rFault = "E5005" => Disputed'
    <3>1. rFault = "E5005" => rMain = "exited"
      BY DEF Protocol, Disputed
    <3> QED
      BY <1>4, <2>6, <3>1, SMT DEF Disputed
  <2> QED
    BY <1>4, <2>8, <2>9, <2>10, <2>11 DEF Protocol
<1> QED
  BY <1>3, <1>4 DEF SenderMishap

\* The receiver's control.reader.
LEMMA ProtocolReceiverReads ==
    ASSUME ControlTypes, Protocol, ReceiverReads
    PROVE  Protocol'
<1> DEFINE m == Head(toReceiver)
<1>1. /\ Running /\ toReceiver # <<>> /\ toReceiver' = Tail(toReceiver)
      /\ UNCHANGED <<toSender, sMain, sRoot, sFatal, claimed, ackBox, sExit, rMain, rExit>>
      /\ UNCHANGED <<decided, pool, rCompleted>>
  BY DEF ReceiverReads, fileVars, senderVars, Running
<1>2. toReceiver \in Seq(ToReceiver)
  BY DEF ControlTypes, QueueTypes
<1>3. /\ m \in Msgs(toReceiver) /\ Msgs(toReceiver') \subseteq Msgs(toReceiver)
      /\ Warned(toReceiver) => m.type # "close" /\ (m.type # "error" => Warned(toReceiver'))
  BY <1>1, <1>2, ReadQueue, WarnedTail, SMT
<1>4. /\ ackBox = None /\ rFault # "E5005" /\ sFatal # "E5005" /\ rExit = None
      /\ \A n \in Msgs(toSender) : n.type # "ack"
  BY <1>1, StillRunning
<1> /\ m.type = "summary" => summaryBox' = m.done /\ UNCHANGED <<rRoot, rFault>>
    /\ m.type # "summary" => summaryBox' = summaryBox
    /\ rFault # None => rFault' = rFault
    /\ rFault' = rFault \/ (rFault' \in {"peer", "E3003", "E4005"} /\ rRoot')
    /\ m.type = "error" => rFault' # None
    /\ rRoot => rRoot'
    /\ rFault' = None => (rRoot' <=> rRoot) \/ m.type = "close"
  <2>1. None \notin {"peer", "E3003", "E4005"}
    BY NoneAssumption
  <2>2. CASE m.type = "summary"
    <3>1. summaryBox' = m.done /\ UNCHANGED <<rRoot, rFault>>
      BY <2>2 DEF ReceiverReads
    <3> QED
      BY <2>2, <3>1
  <2>3. CASE m.type = "error"
    BY <2>1, <2>3 DEF ReceiverReads, RFail, First
  <2>4. CASE m.type = "close"
    BY <2>4 DEF ReceiverReads
  <2>5. CASE m.type \in {"E3003", "E4005"}
    BY <2>1, <2>5 DEF ReceiverReads, RFail, First
  <2> QED
    BY <2>2, <2>3, <2>4, <2>5 DEF ReceiverReads
<1> HIDE DEF m
<1>6. Told'
  <2>1. /\ m.type = "summary" => sMain # "wait" /\ claimed # None /\ m.done = claimed.done
        /\ \A n \in Msgs(toReceiver') :
             /\ n.type = "summary" => sMain # "wait" /\ claimed # None /\ n.done = claimed.done
             /\ n.type # "summary" => sMain = "exited"
    BY <1>3 DEF Protocol, Told
  <2>2. summaryBox' # None => sMain # "wait" /\ claimed # None /\ summaryBox' = claimed.done
    <3>1. CASE m.type = "summary"
      BY <2>1, <3>1
    <3>2. CASE m.type # "summary"
      BY <3>2 DEF Protocol, Told
    <3> QED
      BY <3>1, <3>2
  <2>3. /\ sMain = "ack" => claimed # None
        /\ sMain # "exited" => sExit = None
    BY DEF Protocol, Told
  <2>4. rFault' = "signal" \/ sFatal = "signal" => "signal" \in Mishaps
    <3>1. rFault' = "signal" => rFault = "signal"
      OBVIOUS
    <3> QED
      BY <3>1 DEF Protocol, Told
  <2> QED
    BY <1>1, <1>4, <2>1, <2>2, <2>3, <2>4 DEF Told
<1>7. Acknowledged'
  BY <1>1, <1>4 DEF Acknowledged, Msgs
<1>8. rFault' # "signal" => Well'
  <2> SUFFICES ASSUME rFault' # "signal" PROVE Well'
    OBVIOUS
  <2> Well
    <3>1. rFault # "signal"
      BY NoneAssumption
    <3> QED
      BY <1>1, <3>1 DEF Protocol
  <2>2. m.type # "summary" => sMain = "exited"
    BY <1>3 DEF Protocol, Told
  <2>3. rFault' = None => rFault = None
    OBVIOUS
  <2>4. Drained' = Drained /\ Msgs(toSender') = Msgs(toSender)
    BY <1>1 DEF Drained, Msgs
  <2>5. sFatal # "signal" /\ rFault' = None => m.type # "close" /\ Warned(toReceiver')
    BY <1>3, <2>3 DEF Well
  <2>6. rRoot' /\ rFault' = None => sMain = "exited" /\ sFatal = "signal"
    <3> SUFFICES ASSUME rRoot', rFault' = None PROVE sMain = "exited" /\ sFatal = "signal"
      OBVIOUS
    <3>1. CASE rRoot
      BY <2>3, <3>1 DEF Well
    <3>2. CASE ~rRoot
      <4>1. m.type = "close"
        BY <3>2
      <4> QED
        BY <2>2, <2>5, <4>1
    <3> QED
      BY <3>1, <3>2
  <2>7. rFault' # "E5005"
    BY <1>4
  <2>8. rFault' # None => rRoot'
    BY DEF Well
  <2>9. rMain = "summary" /\ sMain # "exited" => Drained /\ rFault' = None
    BY <2>2 DEF Well
  <2> QED
    BY <1>1, <2>4, <2>5, <2>6, <2>7, <2>8, <2>9 DEF Well
<1>9. rFault' # "E5005"
  BY <1>4
<1>10. rExit' \notin {0, 1}
  BY <1>1, <1>4, NoneAssumption
<1> QED
  BY <1>1, <1>4, <1>6, <1>7, <1>8, <1>9, <1>10 DEF Protocol

\* The receiver's main goroutine.
LEMMA ProtocolPipelineEnds ==
    ASSUME Protocol, PipelineEnds
    PROVE  Protocol'
<1> /\ UNCHANGED <<toSender, toReceiver, sMain, sRoot, sFatal, claimed, ackBox, sExit>>
    /\ UNCHANGED <<rRoot, rFault, summaryBox, rExit, decided, pool, rCompleted>>
    /\ rMain = "pipeline" /\ rFault = None /\ PipelineDone /\ rMain' = "summary"
  BY DEF PipelineEnds, wireVars, fileVars, senderVars
<1> Running /\ Running' /\ rFault # "signal" /\ rFault # "E5005"
  BY NoneAssumption DEF Running
<1>3. ackBox = None /\ sFatal # "E5005" /\ \A m \in Msgs(toSender) : m.type # "ack"
  BY StillRunning
<1> Msgs(toSender') = Msgs(toSender) /\ Msgs(toReceiver') = Msgs(toReceiver) /\ Drained' = Drained
  BY DEF Msgs, Drained
<1>5. Told'
  BY DEF Protocol, Told
<1>6. Acknowledged'
  BY <1>3 DEF Acknowledged
<1>7. Well'
  <2>1. Well
    BY DEF Protocol
  <2>2. sMain # "exited" => Drained
    BY <2>1 DEF Well, PipelineDone
  <2> QED
    BY <2>1, <2>2 DEF Well, Warned
<1> QED
  BY <1>3, <1>5, <1>6, <1>7 DEF Protocol

\* The receiver exits: a disagreement is told to a sender that still waits
\* before the channel is closed.
LEMMA ProtocolReceiverEnds ==
    ASSUME ControlTypes, FileTypes, Protocol, ReceiverFails \/ Reconcile
    PROVE  Protocol'
<1>1. /\ UNCHANGED <<toReceiver, sMain, sRoot, sFatal, claimed, ackBox, sExit>>
      /\ UNCHANGED <<summaryBox, rCompleted>> /\ Running
  BY DEF ReceiverFails, Reconcile, fileVars, senderVars, Running
<1>2. /\ ackBox = None /\ rFault # "E5005" /\ sFatal # "E5005" /\ rExit = None
      /\ \A m \in Msgs(toSender) : m.type # "ack"
  BY <1>1, StillRunning
<1>3. ASSUME NEW fault, NEW told, ReceiverFinish(fault, told),
             told = <<>> \/ told = <<[type |-> "ack", done |-> rCompleted]>>,
             fault = "signal" => rFault = "signal"
      PROVE  /\ rMain' = "exited" /\ rFault' = fault /\ ~Running'
             /\ Told'
             /\ fault = "signal" => rExit' \notin {0, 1}
  <2> rMain' = "exited" /\ rFault' = fault
    BY <1>3 DEF ReceiverFinish
  <2>2. fault = "signal" => rExit' \notin {0, 1}
    BY <1>3, NoneAssumption, SMT DEF ReceiverFinish, ExitCode
  <2>3. Msgs(toReceiver') = Msgs(toReceiver) /\ ~Running'
    BY <1>1 DEF Msgs, Running
  <2>4. Told'
    BY <1>1, <1>3, <2>3 DEF Protocol, Told
  <2> QED
    BY <2>2, <2>3, <2>4
<1>4. ASSUME NEW e \in {"E3003", "E4005", "E9002"}, ReceiverFinish(First(rFault, e), <<>>)
      PROVE  Protocol'
  <2> DEFINE fault == First(rFault, e)
  <2>1. fault # "E5005" /\ (fault = "signal" => rFault = "signal")
    BY <1>2, <1>4 DEF First
  <2>2. ReceiverFinish(fault, <<>>)
    BY <1>4
  <2> HIDE DEF fault
  <2>3. /\ rMain' = "exited" /\ rFault' = fault /\ ~Running'
        /\ Told'
        /\ fault = "signal" => rExit' \notin {0, 1}
    BY <1>3, <2>1, <2>2
  <2>4. \A m \in Msgs(toSender') : m \in Msgs(toSender) \/ m.type \in {"error", "close"}
    BY <2>2, ReceiverParts
  <2>5. Acknowledged'
    <3>1. \A m \in Msgs(toSender') : m.type # "ack"
      BY <1>2, <2>4
    <3> QED
      BY <1>1, <1>2, <3>1 DEF Acknowledged
  <2> QED
    BY <1>1, <1>2, <2>1, <2>3, <2>5 DEF Protocol
<1>5. ASSUME rMain = "summary", summaryBox # None, rFault # "signal",
             ReceiverFinish(IF ReceiverAgrees THEN rFault ELSE First(rFault, "E5005"),
                            <<[type |-> "ack", done |-> rCompleted]>>)
      PROVE  Protocol'
  <2> DEFINE fault == IF ReceiverAgrees THEN rFault ELSE First(rFault, "E5005")
             ack == [type |-> "ack", done |-> rCompleted]
  <2>1. /\ fault # "signal"
        /\ fault = "E5005" <=> rFault = None /\ rCompleted # summaryBox
    BY <1>2, <1>5, NoneAssumption DEF First, ReceiverAgrees
  <2>2. ReceiverFinish(fault, <<ack>>) /\ ack.type = "ack" /\ ack.done = rCompleted
    BY <1>5
  <2>3. \/ <<ack>> = <<>>
        \/ <<ack>> = <<[type |-> "ack", done |-> rCompleted]>>
    OBVIOUS
  <2> HIDE DEF fault
  <2>4. /\ rMain' = "exited" /\ rFault' = fault /\ ~Running' /\ Told'
    BY <1>3, <2>1, <2>2, <2>3
  <2>5. /\ \A m \in Msgs(toSender') : m \in Msgs(toSender) \/ m.type \in {"error", "close"} \/ m = ack
        /\ fault = "E5005" /\ Warned(toSender) => Warned(toSender')
    <3>1. fault = "E5005" => fault \notin {None, "signal"}
      BY NoneAssumption
    <3> QED
      BY <2>2, <2>3, <3>1, ReceiverParts
  <2> Well
    BY <1>1, <1>5 DEF Protocol
  <2> sMain # "wait" /\ claimed # None /\ summaryBox = claimed.done
    BY <1>5 DEF Protocol, Told
  <2>8. sMain # "exited" => sMain = "ack" /\ rFault = None
    BY <1>5 DEF Well, ControlTypes, MainTypes
  <2> HIDE DEF ack
  <2>9. Acknowledged'
    <3>1. \A m \in Msgs(toSender') : m.type = "ack" => m = ack
      BY <1>2, <2>5
    <3>2. sMain # "exited" => sMain = "ack" /\ (rCompleted = claimed.done \/ fault = "E5005")
      BY <2>1, <2>8
    <3> QED
      BY <1>1, <1>2, <2>2, <2>4, <3>1, <3>2 DEF Acknowledged
  <2>10. fault = "E5005" => Disputed'
    <3> SUFFICES ASSUME fault = "E5005" PROVE Disputed'
      OBVIOUS
    <3>1. rFault = None /\ rCompleted # claimed.done
      BY <2>1
    <3>2. sExit \notin {0, 1}
      BY DEF Well
    <3>3. \A m \in Msgs(toSender') : m.type \notin Codes
      <4>1. \A m \in Msgs(toSender) : m.type = "decision"
        BY DEF Well
      <4> QED
        BY <2>2, <2>5, <4>1, SMT DEF Codes
    <3>4. sMain = "ack" => sFatal # "E3003" /\ (sFatal = None => ~sRoot)
      <4>1. sMain = "ack" => IF sRoot THEN sFatal = "signal" ELSE sFatal = None
        BY DEF Well
      <4> QED
        BY <4>1, NoneAssumption
    <3>5. Warned(toSender')
      <4>1. \A m \in Msgs(toSender) : m.type # "close"
        BY DEF Well
      <4>2. Warned(toSender)
        BY <4>1, WarnedPlain
      <4> QED
        BY <2>5, <4>2
    <3> QED
      BY <1>1, <2>4, <3>1, <3>2, <3>3, <3>4, <3>5 DEF Disputed
  <2> QED
    BY <1>1, <1>2, <2>1, <2>4, <2>9, <2>10 DEF Protocol
<1> QED
  BY <1>4, <1>5, MainEnds

\* A receiver that is interrupted or dies acknowledges nothing.
LEMMA ProtocolReceiverMishap ==
    ASSUME ControlTypes, Protocol, ReceiverMishap
    PROVE  Protocol'
<1> /\ UNCHANGED <<toReceiver, sMain, sRoot, sFatal, claimed, ackBox, sExit>>
    /\ UNCHANGED <<summaryBox, rCompleted>> /\ Running
  BY DEF ReceiverMishap, fileVars, senderVars, Running
<1>2. /\ ackBox = None /\ rFault # "E5005" /\ sFatal # "E5005" /\ rExit = None
      /\ \A m \in Msgs(toSender) : m.type # "ack"
  BY StillRunning
<1>3. Msgs(toReceiver') = Msgs(toReceiver) /\ toSender \in Seq(ToSender)
  BY DEF Msgs, ControlTypes, QueueTypes
<1>4. ASSUME NEW m \in ToSender, m.type # "ack", toSender' = Append(toSender, m),
             rExit' \notin {0, 1}, Running' => rExit' = None, Running' => rFault' = "signal",
             rFault' = rFault \/ (rFault' = "signal" /\ "signal" \in Mishaps)
      PROVE  Protocol'
  <2>1. Msgs(Append(toSender, m)) = Msgs(toSender) \cup {m}
    BY <1>3, <1>4, WriteQueue, SMT
  <2>2. \A n \in Msgs(toSender') : n.type # "ack"
    BY <1>2, <1>4, <2>1
  <2>3. Acknowledged'
    BY <1>2, <2>2 DEF Acknowledged
  <2>4. Told'
    BY <1>3, <1>4 DEF Protocol, Told
  <2>5. rFault' # "E5005"
    BY <1>2, <1>4
  <2> QED
    BY <1>2, <1>4, <2>3, <2>4, <2>5 DEF Protocol
<1>5. ASSUME "signal" \in Mishaps, ~rRoot, RFail("signal"),
             toSender' = Append(toSender, Message("close")), UNCHANGED <<rMain, rExit>>
      PROVE  Protocol'
  <2>1. Message("close") \in ToSender /\ Message("close").type # "ack"
    BY DEF Message, ToSender, Endings
  <2>2. rFault \in {None, "signal"}
    BY <1>5 DEF Protocol, Well
  <2>3. rFault' = "signal"
    BY <1>5, <2>2 DEF RFail, First
  <2>4. rExit' = None /\ rExit' \notin {0, 1}
    BY <1>2, <1>5, NoneAssumption
  <2> QED
    BY <1>4, <1>5, <2>1, <2>3, <2>4
<1>6. ASSUME NEW how \in Mishaps \cap DOMAIN SocketFault, rMain' = "exited", rExit' = Killed,
             toSender' = Append(toSender, Message(SocketFault[how])), UNCHANGED <<rRoot, rFault>>
      PROVE  Protocol'
  <2> DEFINE m == Message(SocketFault[how])
  <2>1. m \in Endings /\ m.type \in Codes
    BY SocketCodes
  <2>2. toSender' = Append(toSender, m)
    BY <1>6
  <2> HIDE DEF m
  <2>3. m \in ToSender /\ m.type # "ack"
    BY <2>1 DEF ToSender, Codes
  <2>4. rExit' \notin {0, 1} /\ ~Running'
    BY <1>6, SMT DEF Killed, Running
  <2> QED
    BY <1>4, <1>6, <2>2, <2>3, <2>4
<1> QED
  BY <1>5, <1>6 DEF ReceiverMishap

\* At the start nobody has heard anything.
LEMMA ProtocolInit == Init => Protocol
<1> SUFFICES ASSUME Init PROVE Protocol
  OBVIOUS
<1> /\ toSender = <<>> /\ toReceiver = <<>> /\ ackBox = None /\ claimed = None /\ summaryBox = None
    /\ sMain = "wait" /\ ~sRoot /\ sFatal = None /\ sExit = None
    /\ rMain = "pipeline" /\ ~rRoot /\ rFault = None /\ rExit = None
  BY DEF Init
<1> Msgs(toSender) = {} /\ Msgs(toReceiver) = {}
  BY NoMessages
<1>3. Warned(toReceiver)
  BY WarnedPlain
<1> None \notin {"signal", "E5005"} /\ None \notin {0, 1}
  BY NoneAssumption
<1>5. Told /\ Acknowledged
  BY DEF Told, Acknowledged
<1>6. Well
  BY <1>3 DEF Well
<1> QED
  BY <1>5, <1>6 DEF Protocol

-----------------------------------------------------------------------------
(***************************************************************************)
(* The inductive invariant.                                                *)
(***************************************************************************)
IInv == ControlTypes /\ FileTypes /\ Held /\ Books /\ Protocol

\* Every step of either process keeps the protocol.
LEMMA ProtocolStep ==
    ASSUME IInv, Next
    PROVE  Protocol'
<1> USE DEF IInv
<1>1. ASSUME NEW c \in Channel, Servicer(c) PROVE Protocol'
  <2>1. UNCHANGED <<toSender, toReceiver, senderVars, receiverVars, decided, pool, rCompleted>>
    BY <1>1 DEF Servicer, ReadRequest, Serve, Record, wireVars, fileVars
  <2> QED
    BY <2>1, ProtocolFrame
<1>2. CASE Ended
  <2>1. UNCHANGED <<toSender, toReceiver, senderVars, receiverVars, decided, pool, rCompleted>>
    BY <1>2 DEF Ended, vars, wireVars, fileVars
  <2> QED
    BY <2>1, ProtocolFrame
<1> QED
  BY <1>1, <1>2, ProtocolWorkers, ProtocolSenderReads, ProtocolSenderMain,
     ProtocolSenderMishap, ProtocolReceiverReads, ProtocolPipelineEnds,
     ProtocolReceiverEnds, ProtocolReceiverMishap DEF Next, ReceiverMain

\* Every step keeps the control state well typed.
LEMMA ControlStep ==
    ASSUME IInv, Next
    PROVE  ControlTypes'
<1> USE DEF IInv
<1>1. CASE Ended
  BY <1>1 DEF Ended, vars, wireVars, trackerVars, senderVars, receiverVars,
     ControlTypes, QueueTypes, TrackerTypes, MainTypes
<1> QED
  BY <1>1, ControlSender, ControlReceiver DEF Next

\* The invariant holds at the start ...
LEMMA IInvInit == Init => IInv
  BY ControlInit, BooksInit, HeldInit, ProtocolInit DEF IInv

\* ... and every step keeps it.
LEMMA IInvStep ==
    ASSUME IInv, [Next]_vars
    PROVE  IInv'
<1>1. FileTypes' /\ Books' /\ Held'
  BY BooksStep DEF IInv
<1>2. CASE UNCHANGED vars
  <2>1. UNCHANGED <<toSender, toReceiver, senderVars, receiverVars, decided, pool, rCompleted, trackerVars>>
    BY <1>2 DEF vars, wireVars, fileVars
  <2>2. Protocol'
    BY <2>1, ProtocolFrame DEF IInv
  <2>3. ControlTypes'
    BY <2>1 DEF IInv, trackerVars, senderVars, receiverVars, ControlTypes,
       QueueTypes, TrackerTypes, MainTypes
  <2> QED
    BY <1>1, <2>2, <2>3 DEF IInv
<1> QED
  BY <1>1, <1>2, ProtocolStep, ControlStep DEF IInv

\* In every session, whatever faults and mishaps it meets, what a data channel
\* carries belongs to one file, every file of a decided group is in place,
\* waited for or counted, and each process has heard only what the other said.
THEOREM Inductive == Spec => []IInv
  BY IInvInit, IInvStep, PTL DEF Spec

\* A disagreement about what was moved fails both sides: whatever is lost,
\* retried, interrupted or killed, after the receiver has found one the sender
\* does not exit 0 or 1, and the sender finds none alone.
THEOREM DisagreementFailsBoth == Spec => []DisagreementOnBoth
<1>1. IInv => DisagreementOnBoth
  BY DEF IInv, Protocol, Disputed, DisagreementOnBoth
<1> QED
  BY <1>1, Inductive, PTL

=============================================================================
