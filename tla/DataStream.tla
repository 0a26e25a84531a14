----------------------------- MODULE DataStream -----------------------------
(***************************************************************************)
(* What travels over one data channel: a fetcher asks for a file, a        *)
(* servicer streams it, and either may meet an error in the middle, or the *)
(* connection may end.  The receiver reads answers in order and does not   *)
(* look at their request ids, so after an error it may only go on with a   *)
(* channel it has read to the end of the answer; from any other it parts   *)
(* and joins again (desynced, channelLost in receiver/fetch.go).           *)
(*                                                                         *)
(* The record layer turns the end of a connection into an error: CLOSE is  *)
(* io.EOF, a bare end of stream E4005, a reset or failed write E3003.      *)
(* Content is counted in chunks; chunk i of file f is <<f, i>>.            *)
(***************************************************************************)
EXTENDS Naturals, Sequences, FiniteSets

CONSTANTS
    File,
    Chunks,        \* Chunks[f]: how many chunks f has
    MaxRetries,    \* --max-retries
    SourceFaults,  \* of {"E6001", "E6003", "E6004", "E8003"}
    DestFaults,    \* of {"E7001", "E7003", "E7004", "E7005", "E8001", "E8003"}
    Breaks,        \* of {"close", "fin", "reset", "stall"}
    MaxBreaks,     \* bound: connections that break, in each way
    None

ASSUME StreamAssumption ==
    /\ Chunks \in [File -> Nat]
    /\ MaxRetries \in Nat /\ MaxBreaks \in Nat

VARIABLES
    status,   \* status[f]: "queued", "taken", "done" or "failed"
    attempt,  \* attempt[f]: needItem.attempt
    worker,   \* "pop", "await" (the header), "stream", "rejoin", "ended"
    item,     \* the file the fetcher works on
    written,  \* chunks of this answer written so far
    part,     \* part[f]: what is in the part file of f
    dest,     \* dest[f]: what was published as f
    req,      \* request ids used so far
    toS, toR, \* the connection: requests; answers, and how it ended
    reset,    \* the receiver's end is reset: writes fail too
    serving,  \* the request being served: [req, file, next], or None
    orphan,   \* a servicer still writes to a connection the receiver left
    fatal,    \* the receiver's session failed
    sFatal,   \* the sender's session failed
    breaks,   \* breaks[how]: how many connections broke that way
    errors    \* errors[f]: errors of the file itself (history)

fetchVars == <<status, attempt, worker, item, written, part, dest, req, errors>>
wireVars == <<toS, toR, reset>>
serveVars == <<serving, orphan, sFatal>>
vars == <<fetchVars, wireVars, serveVars, fatal, breaks>>

Init ==
    /\ status = [f \in File |-> "queued"]
    /\ attempt = [f \in File |-> 0]
    /\ worker = "pop"
    /\ item = None
    /\ written = 0
    /\ part = [f \in File |-> <<>>]
    /\ dest = [f \in File |-> <<>>]
    /\ req = 0
    /\ toS = <<>> /\ toR = <<>> /\ reset = FALSE
    /\ serving = None /\ orphan = FALSE
    /\ fatal = FALSE /\ sFatal = FALSE
    /\ breaks = [how \in Breaks |-> 0]
    /\ errors = [f \in File |-> 0]

Message(t, r, x) == [type |-> t, req |-> r, arg |-> x]
Endings == {"CLOSE", "FIN", "RESET"}
Ending(how) == Message(how, 0, 0)
Next1(t) == toR # <<>> /\ Head(toR).type = t

-----------------------------------------------------------------------------
(***************************************************************************)
(* Servicer.  SendMsg writes to the socket of a connection that is up.     *)
(***************************************************************************)
Send(m) == toR' = Append(toR, m)

\* Errors met before FILE_HEADER: the file cannot be opened, or it is not the
\* file that was scanned.
EarlyFaults == SourceFaults \cap {"E6001", "E6003", "E6004"}

Serve ==
    /\ serving = None
    /\ toS # <<>>
    /\ toS' = Tail(toS)
    /\ LET r == Head(toS) IN
          \/ /\ serving' = [req |-> r.req, file |-> r.arg, next |-> 1]
             /\ Send(Message("header", r.req, Chunks[r.arg]))
          \/ \E e \in EarlyFaults :
                /\ Send(Message("error", r.req, e))
                /\ UNCHANGED serving
    /\ UNCHANGED <<fetchVars, reset, orphan, sFatal, fatal, breaks>>

SendChunk ==
    /\ serving # None
    /\ serving.next <= Chunks[serving.file]
    /\ Send(Message("chunk", serving.req, serving.next))
    /\ serving' = [serving EXCEPT !.next = @ + 1]
    /\ UNCHANGED <<fetchVars, toS, reset, orphan, sFatal, fatal, breaks>>

\* The terminal message: FILE_COMPLETE, or FILE_ERROR for a read error
\* (E6004), for a file that turned out shorter (E6003), or, at the end, for a
\* digest that is not the manifest's (E8003).
Terminal ==
    /\ serving # None
    /\ \/ /\ serving.next > Chunks[serving.file]
          /\ Send(Message("complete", serving.req, 0))
       \/ \E e \in SourceFaults \cap {"E6003", "E6004", "E8003"} :
             /\ e = "E8003" => serving.next > Chunks[serving.file]
             /\ Send(Message("error", serving.req, e))
    /\ serving' = None
    /\ UNCHANGED <<fetchVars, toS, reset, orphan, sFatal, fatal, breaks>>

\* A servicer whose receiver has left the channel: what it still writes is
\* taken by the socket buffers and it then reads CLOSE, or a write fails with
\* E3003, a coded fault, which is fatal for the session.
OrphanEnds ==
    /\ orphan
    /\ orphan' = FALSE
    /\ sFatal' \in {sFatal, TRUE}
    /\ UNCHANGED <<fetchVars, wireVars, serving, fatal, breaks>>

-----------------------------------------------------------------------------
(***************************************************************************)
(* How a transfer ends in the fetch loop.                                  *)
(***************************************************************************)
Fatal == {"E3005", "E4005", "E5001", "E5006", "E7003"}
Retryable == {"E3003", "E6004", "E7001", "E7004", "E7005", "E8001", "E8002"}

\* Where the worker goes: on with this channel, or away from it, closing it.
\* (A servicer that is in the middle of an answer becomes an orphan.)
Leave(away, stays) ==
    /\ item' = None
    /\ worker' = IF away THEN "rejoin" ELSE "pop"
    /\ IF away
       THEN /\ toS' = <<>> /\ toR' = <<>>
            /\ reset' = FALSE
            /\ serving' = None
            /\ orphan' = (orphan \/ serving # None)
       ELSE /\ toR' = stays
            /\ UNCHANGED <<toS, reset, serving, orphan>>
    /\ UNCHANGED <<sFatal, breaks>>

\* Mutant of FetchError: the channel is kept whatever is still on it.
FetchErrorStays(f, code, desynced, stays) ==
    IF code \in Fatal
    THEN /\ fatal' = TRUE
         /\ worker' = "ended"
         /\ status' = [status EXCEPT ![f] = "failed"]
         /\ UNCHANGED <<attempt, item, wireVars, serveVars, breaks, errors>>
    ELSE /\ IF code \in Retryable /\ attempt[f] + 1 <= MaxRetries
            THEN /\ attempt' = [attempt EXCEPT ![f] = @ + 1]
                 /\ status' = [status EXCEPT ![f] = "queued"]
            ELSE /\ status' = [status EXCEPT ![f] = "failed"]
                 /\ UNCHANGED attempt
         /\ errors' = [errors EXCEPT ![f] = IF code = "E3003" THEN @ ELSE @ + 1]
         /\ Leave(FALSE, stays)
         /\ UNCHANGED fatal

\* An error with a code: fatal, retried, or the end of this file.  An error
\* in the middle of an answer is desynced: the worker leaves the channel.
FetchError(f, code, desynced, stays) ==
    IF code \in Fatal
    THEN /\ fatal' = TRUE
         /\ worker' = "ended"
         /\ status' = [status EXCEPT ![f] = "failed"]
         /\ UNCHANGED <<attempt, item, wireVars, serveVars, breaks, errors>>
    ELSE /\ IF code \in Retryable /\ attempt[f] + 1 <= MaxRetries
            THEN /\ attempt' = [attempt EXCEPT ![f] = @ + 1]
                 /\ status' = [status EXCEPT ![f] = "queued"]
            ELSE /\ status' = [status EXCEPT ![f] = "failed"]
                 /\ UNCHANGED attempt
         /\ errors' = [errors EXCEPT ![f] = IF code = "E3003" THEN @ ELSE @ + 1]
         /\ Leave(desynced, stays)
         /\ UNCHANGED fatal

\* Mutant of ChannelLost: a closed channel costs the file an attempt.
ChannelLostCounts(f) ==
    /\ status' = [status EXCEPT ![f] = IF attempt[f] < MaxRetries THEN "queued" ELSE "failed"]
    /\ attempt' = [attempt EXCEPT ![f] = IF @ < MaxRetries THEN @ + 1 ELSE @]
    /\ Leave(TRUE, <<>>)
    /\ UNCHANGED <<errors, fatal>>

\* Mutant of ChannelLost: the file is not handed back.
ChannelLostDrops(f) ==
    /\ Leave(TRUE, <<>>)
    /\ UNCHANGED <<status, attempt, errors, fatal>>

\* An error without a code, which is io.EOF: the file goes back to the queue
\* as it was, and the worker leaves.
ChannelLost(f) ==
    /\ status' = [status EXCEPT ![f] = "queued"]
    /\ Leave(TRUE, <<>>)
    /\ UNCHANGED <<attempt, errors, fatal>>

-----------------------------------------------------------------------------
(***************************************************************************)
(* Fetcher.                                                                *)
(***************************************************************************)
\* pop and SendMsg(FILE_REQUEST).  A write to a closed connection is taken by
\* the socket; one to a reset connection fails.
Request(f) ==
    /\ worker = "pop"
    /\ ~fatal
    /\ status[f] = "queued"
    /\ req' = req + 1
    /\ \/ /\ ~reset
          /\ status' = [status EXCEPT ![f] = "taken"]
          /\ item' = f
          /\ worker' = "await"
          /\ toS' = Append(toS, Message("request", req + 1, f))
          /\ UNCHANGED <<attempt, toR, reset, serveVars, fatal, breaks, errors>>
       \/ /\ reset
          /\ FetchError(f, "E3003", FALSE, toR)
    /\ UNCHANGED <<written, part, dest>>

\* Mutant of Header: the part file keeps what an earlier attempt wrote.
HeaderNoTruncate ==
    /\ worker = "await"
    /\ Next1("header")
    /\ \/ /\ worker' = "stream"
          /\ written' = 0
          /\ toR' = Tail(toR)
          /\ UNCHANGED <<status, attempt, item, part, toS, reset, serveVars, fatal, breaks, errors>>
       \/ /\ \E e \in DestFaults \cap {"E7001", "E7004"} : FetchError(item, e, TRUE, Tail(toR))
          /\ UNCHANGED <<written, part>>
    /\ UNCHANGED <<dest, req>>

\* FILE_HEADER: the part file is opened and emptied.
Header ==
    /\ worker = "await"
    /\ Next1("header")
    /\ \/ /\ worker' = "stream"
          /\ written' = 0
          /\ part' = [part EXCEPT ![item] = <<>>]
          /\ toR' = Tail(toR)
          /\ UNCHANGED <<status, attempt, item, toS, reset, serveVars, fatal, breaks, errors>>
       \/ /\ \E e \in DestFaults \cap {"E7001", "E7004"} : FetchError(item, e, TRUE, Tail(toR))
          /\ UNCHANGED <<written, part>>
    /\ UNCHANGED <<dest, req>>

\* Any other message: FILE_ERROR, instead of the header or after some chunks,
\* is terminal; what has no place here is E5001.
Other ==
    /\ worker \in {"await", "stream"}
    /\ toR # <<>>
    /\ LET m == Head(toR) IN
          /\ m.type \notin Endings
          /\ m.type \notin (IF worker = "await" THEN {"header"} ELSE {"chunk", "complete"})
          /\ IF m.type = "error"
             THEN FetchError(item, m.arg, FALSE, Tail(toR))
             ELSE FetchError(item, "E5001", worker = "stream", Tail(toR))
    /\ UNCHANGED <<written, part, dest, req>>

\* FILE_CHUNK: appended if its offset is the next one (E5006) and the disk
\* takes it.
Chunk ==
    /\ worker = "stream"
    /\ Next1("chunk")
    /\ \/ /\ Head(toR).arg = written + 1
          /\ part' = [part EXCEPT ![item] = Append(@, <<item, Head(toR).arg>>)]
          /\ written' = written + 1
          /\ toR' = Tail(toR)
          /\ UNCHANGED <<status, attempt, worker, item, toS, reset, serveVars, fatal, breaks, errors>>
       \/ /\ \E e \in IF Head(toR).arg # written + 1
                   THEN {"E5006"}
                   ELSE DestFaults \cap {"E7003", "E7004"} : FetchError(item, e, TRUE, Tail(toR))
          /\ UNCHANGED <<written, part>>
    /\ UNCHANGED <<dest, req>>

\* FILE_COMPLETE: finish verifies what was written and publishes it (and
\* records it in the journal: Resume).
Complete ==
    /\ worker = "stream"
    /\ Next1("complete")
    /\ \/ /\ written = Chunks[item]
          /\ dest' = [dest EXCEPT ![item] = part[item]]
          /\ part' = [part EXCEPT ![item] = <<>>]
          /\ status' = [status EXCEPT ![item] = "done"]
          /\ Leave(FALSE, Tail(toR))
          /\ UNCHANGED <<attempt, fatal, errors>>
       \/ /\ \E e \in IF written # Chunks[item]
                   THEN {"E8002"}
                   ELSE DestFaults \cap {"E7004", "E7005", "E8001", "E8003"} :
                FetchError(item, e, FALSE, Tail(toR))
          /\ UNCHANGED <<part, dest>>
    /\ UNCHANGED <<written, req>>

\* The end of the connection is read.
ReadEnd ==
    /\ worker \in {"await", "stream"}
    /\ \/ Next1("CLOSE") /\ ChannelLost(item)
       \/ Next1("FIN") /\ FetchError(item, "E4005", worker = "stream", toR)
       \/ Next1("RESET") /\ FetchError(item, "E3003", worker = "stream", toR)
    /\ UNCHANGED <<written, part, dest, req>>

\* registerAndStart: a fresh CHANNEL_JOIN replaces the channel (Linking says
\* when that succeeds).
Rejoin ==
    /\ worker = "rejoin"
    /\ worker' = "pop"
    /\ UNCHANGED <<status, attempt, item, written, part, dest, req, errors,
                   wireVars, serveVars, fatal, breaks>>

\* The sender reports its fatal error on the control channel.
SenderFails ==
    /\ sFatal
    /\ ~fatal
    /\ fatal' = TRUE
    /\ worker' = "ended"
    /\ UNCHANGED <<status, attempt, item, written, part, dest, req, errors,
                   wireVars, serveVars, breaks>>

-----------------------------------------------------------------------------
(***************************************************************************)
(* The connection.                                                         *)
(***************************************************************************)
Up == ~reset /\ \A i \in 1 .. Len(toR) : toR[i].type \notin Endings

\* The sender's end is closed with a CLOSE record, or without one, after what
\* was written; or the connection is reset, which may destroy what is under
\* way, and which the servicer may or may not notice.
Break(how) ==
    /\ Up
    /\ ~fatal
    /\ breaks[how] < MaxBreaks
    /\ breaks' = [breaks EXCEPT ![how] = @ + 1]
    /\ toS' = <<>>
    /\ serving' = None
    /\ \/ /\ how = "close"
          /\ Send(Ending("CLOSE"))
          /\ UNCHANGED <<reset, orphan>>
       \/ /\ how = "fin"
          /\ Send(Ending("FIN"))
          /\ UNCHANGED <<reset, orphan>>
       \/ /\ how = "reset"
          /\ \E n \in 0 .. Len(toR) : toR' = Append(SubSeq(toR, 1, n), Ending("RESET"))
          /\ reset' = TRUE
          /\ orphan' = TRUE
    /\ UNCHANGED <<fetchVars, sFatal, fatal>>

\* The sender goes quiet: the receive deadline expires (E3005).
Stall ==
    /\ "stall" \in Breaks
    /\ worker \in {"await", "stream"}
    /\ toR = <<>>
    /\ FetchError(item, "E3005", worker = "stream", toR)
    /\ UNCHANGED <<written, part, dest, req>>

-----------------------------------------------------------------------------
Servicer == Up /\ (Serve \/ SendChunk \/ Terminal)
Fetcher ==
    \/ \E f \in File : Request(f)
    \/ Header \/ Other \/ Chunk \/ Complete \/ ReadEnd \/ Rejoin
    \/ SenderFails

Next ==
    \/ Servicer
    \/ OrphanEnds
    \/ Fetcher
    \/ \E how \in Breaks : Break(how)
    \/ Stall

Spec == Init /\ [][Next]_vars

\* Both goroutines run on; nothing has to break.
FairSpec == Spec /\ WF_vars(Servicer) /\ WF_vars(OrphanEnds) /\ WF_vars(Fetcher)
-----------------------------------------------------------------------------
\* "reusing it would read the dead request's tail as the next request's
\* FILE_HEADER" (fetchOne): what a fetcher reads next answers the request it
\* has sent, although nobody compares request ids; so it never meets E5001 or
\* E5006.
InSync ==
    worker \in {"await", "stream"} /\ toR # <<>> =>
        \/ Head(toR).type \in Endings
        \/ /\ Head(toR).req = req
           /\ worker = "await" => Head(toR).type \in {"header", "error"}
           /\ worker = "stream" => Head(toR).type # "header"
           /\ Head(toR).type = "chunk" => Head(toR).arg = written + 1

\* A published file is its chunks, each once and in order, whatever earlier
\* attempts left in its part file.
PublishedWhole ==
    \A f \in File : status[f] = "done" => dest[f] = [i \in 1 .. Chunks[f] |-> <<f, i>>]

\* While no connection was reset, a file fails only for errors of its own,
\* more of them than the retries it had or one that is not retried: a channel
\* that closes costs it nothing ("it is not resolved, failed, or counted").
FailsForCause ==
    (\A how \in Breaks : how = "reset" => breaks[how] = 0) =>
        \A f \in File :
            /\ attempt[f] <= errors[f]
            /\ status[f] = "failed" /\ ~fatal => errors[f] > attempt[f]

\* Every file is delivered or reported, or the session fails.
Ends == <>(fatal \/ \A f \in File : status[f] \in {"done", "failed"})

\* "This is not a session failure" (startServicer): without a fault of the
\* connection or of the source, an error of one file on the receiver's disk
\* leaves both sessions running.
SessionSurvives == ~fatal /\ ~sFatal
=============================================================================
