------------------------------- MODULE Resume -------------------------------
(***************************************************************************)
(* The resume journal under <dest>/.esync (fsx/journal.go), the part files *)
(* and their publication (fsx/dest.go), and the receiver runs that use     *)
(* them, one after the other, on one destination: a run may be killed at   *)
(* any point, may fail, may be repeated with the same source or with a     *)
(* changed one.  The manifest digest is made of the paths, sizes and       *)
(* modification times of the plan, not of contents: a source may change    *)
(* under one digest.                                                       *)
(*                                                                         *)
(* The directory holds session.json (the manifest digest of the session),  *)
(* complete.log (one line per published file, keyed by file id) and the    *)
(* parts.  A file id is an index into the plan, so a record means nothing  *)
(* without the plan it was written under: the digest of session.json is    *)
(* what ties the two together.                                             *)
(*                                                                         *)
(* A killed process leaves what it wrote in the kernel's hands; the loss   *)
(* of power, which loses that too, is not modelled.  Nobody else writes    *)
(* the destination.  Sizes are compared and digests taken, as they are     *)
(* without --quick, and a digest is that of the bytes on the disk (the     *)
(* cache of digests is module DigestCache).                                *)
(***************************************************************************)
EXTENDS Integers, Sequences, FiniteSets

CONSTANTS
    FileId,     \* file ids, the same for every plan
    PlanGroup,  \* the plan's groups, a partition of FileId
    Path,       \* destination paths
    Content,    \* file contents, told apart by their digests
    Manifest,   \* manifest digests
    Plan,       \* Plan[m][i]: the path of file i under m, and the contents
                \* that have the size and the time its entry names
    Absent,     \* no file, no content
    Bad,        \* a torn session.json, a torn line, a part with wrong bytes
    Faults,     \* what may go wrong: "kill", "fatal", "item", "short", "remove"
    MaxFaults,  \* bound: how often something goes wrong
    MaxChanges  \* bound: how often the source changes between two runs

ASSUME ResumeAssumption ==
    /\ Path # {} /\ Manifest # {}
    /\ \A g \in PlanGroup : g \subseteq FileId
    /\ Plan \in [Manifest -> [FileId -> [path : Path, contents : SUBSET Content]]]
    /\ \A m \in Manifest, i \in FileId : Plan[m][i].contents # {}
    /\ \A m \in Manifest, i, j \in FileId : Plan[m][i].path = Plan[m][j].path => i = j
    /\ Absent \notin Content \cup Manifest /\ Bad \notin Content \cup Manifest
    /\ Bad \notin FileId /\ Absent # Bad
    /\ MaxFaults \in Nat /\ MaxChanges \in Nat

VARIABLES
    session,    \* session.json: Absent, Bad or the digest it holds
    logged,     \* complete.log exists
    log,        \* its lines: ids, or Bad for a line that does not decode
    part,       \* part[i]: the bytes of parts/<i>.part
    tree,       \* tree[p]: the content at path p
    pc,         \* where the receiver process is
    current,    \* the manifest digest of this run, or of the last one
    source,     \* source[i]: the content of file i at the sender
    prior,      \* priorComplete, the ids Open returned
    file,       \* file[i]: how far file i is in this run
    exit,       \* how the last run ended
    uncleared,  \* history: the last run's Clear failed, which is only logged
    orphaned,   \* history: the log has outlived the session.json it belongs to
    faults,     \* faults so far
    changes     \* source changes so far

journalVars == <<session, logged, log>>
runVars == <<current, source>>
historyVars == <<uncleared, orphaned>>
processVars == <<pc, runVars, prior, file, exit>>
boundVars == <<faults, changes>>
resumeVars == <<journalVars, part, tree, processVars, historyVars, boundVars>>

ProcessState == {"down", "open", "discard", "write", "fill", "log", "run", "stop", "clear"}
FileState == {"todo", "need", "fetch", "received", "published", "done", "skipped", "failed"}
Resolved == {"done", "skipped", "failed"}

Here(i) == Plan[current][i]

\* A source whose manifest digest is m.
Sources(m) == {s \in [FileId -> Content] : \A i \in FileId : s[i] \in Plan[m][i].contents}

ResumeTypeOK ==
    /\ session \in Manifest \cup {Absent, Bad}
    /\ logged \in BOOLEAN
    /\ log \in Seq(FileId \cup {Bad})
    /\ part \in [FileId -> Content \cup {Absent, Bad}]
    /\ tree \in [Path -> Content \cup {Absent, Bad}]
    /\ pc \in ProcessState
    /\ current \in Manifest /\ source \in Sources(current)
    /\ prior \subseteq FileId
    /\ file \in [FileId -> FileState]
    /\ exit \in {"none", "ok", "partial", "error", "killed"}
    /\ uncleared \in BOOLEAN /\ orphaned \in BOOLEAN
    /\ faults \in 0 .. MaxFaults /\ changes \in 0 .. MaxChanges

ResumeInit ==
    /\ session = Absent /\ logged = FALSE /\ log = <<>>
    /\ part = [i \in FileId |-> Absent]
    /\ tree \in [Path -> Content \cup {Absent}]
    /\ pc = "down" /\ current \in Manifest /\ source \in Sources(current)
    /\ prior = {} /\ file = [i \in FileId |-> "todo"]
    /\ exit = "none" /\ uncleared = FALSE /\ orphaned = FALSE
    /\ faults = 0 /\ changes = 0

\* A fault of the given kind happens here.
Fault(kind) ==
    /\ kind \in Faults /\ faults < MaxFaults
    /\ faults' = faults + 1
    /\ UNCHANGED changes

-----------------------------------------------------------------------------
(* A run begins, and opens the journal. *)

\* The operator starts the receiver again after a run that was not a success,
\* or the source has changed: other entries, and so another manifest digest,
\* or under the same digest another content of the same size and time.
Begin ==
    /\ pc = "down"
    /\ \/ exit # "ok" /\ UNCHANGED <<runVars, changes>>
       \/ /\ changes < MaxChanges
          /\ changes' = changes + 1
          /\ \E m \in Manifest : \E s \in Sources(m) :
               /\ <<m, s>> # <<current, source>>
               /\ current' = m /\ source' = s
    /\ pc' = "open"
    /\ prior' = {} /\ file' = [i \in FileId |-> "todo"]
    /\ exit' = "none" /\ uncleared' = FALSE
    /\ UNCHANGED <<journalVars, part, tree, orphaned, faults>>

\* parseCompleteLog: the lines up to the first that does not decode.
Parse(lines) ==
    {lines[j] : j \in {k \in DOMAIN lines : \A l \in 1 .. k : lines[l] # Bad}}

\* Mutant of OpenJournal: another session's journal is an error.
OpenRefuses ==
    /\ pc = "open"
    /\ \/ /\ session = current
          /\ prior' = IF logged THEN Parse(log) ELSE {}
          /\ pc' = "log"
       \/ /\ session = Absent
          /\ pc' = "write" /\ UNCHANGED prior
       \/ /\ session \notin {Absent, current}
          /\ pc' = "stop" /\ UNCHANGED prior
    /\ orphaned' = (orphaned /\ log # <<>>)
    /\ UNCHANGED <<journalVars, part, tree, runVars, file, exit, uncleared, boundVars>>

\* Open reads session.json: a matching digest resumes, a different or torn
\* one discards the directory, none starts afresh, with the complete.log that
\* may be there.
OpenJournal ==
    /\ pc = "open"
    /\ \/ /\ session = current
          /\ prior' = IF logged THEN Parse(log) ELSE {}
          /\ pc' = "log"
       \/ /\ session = Absent
          /\ pc' = "write" /\ UNCHANGED prior
       \/ /\ session \notin {Absent, current}
          /\ pc' = "discard" /\ UNCHANGED prior
    /\ orphaned' = (orphaned /\ log # <<>>)
    /\ UNCHANGED <<journalVars, part, tree, runVars, file, exit, uncleared, boundVars>>

\* RemoveAll takes the directory's entries away one by one, in the order the
\* file system lists them.
RemoveEntry ==
    /\ pc \in {"discard", "clear"}
    /\ \/ /\ session # Absent
          /\ session' = Absent
          /\ UNCHANGED <<logged, log, part>>
       \/ /\ logged
          /\ logged' = FALSE /\ log' = <<>>
          /\ UNCHANGED <<session, part>>
       \/ \E i \in FileId :
            /\ part[i] # Absent
            /\ part' = [part EXCEPT ![i] = Absent]
            /\ UNCHANGED journalVars
    /\ UNCHANGED <<tree, processVars, historyVars, boundVars>>

\* A removal that goes no further may leave the records without their digest.
CutShort ==
    orphaned' = (orphaned \/ (pc \in {"discard", "clear"} /\ session = Absent /\ log # <<>>))

\* exit 0, or the exit code for files that have failed.
ExitStatus == IF \E i \in FileId : file[i] = "failed" THEN "partial" ELSE "ok"

Emptied == session = Absent /\ ~logged /\ \A i \in FileId : part[i] = Absent

\* Open goes on with a new directory.
Discarded ==
    /\ pc = "discard" /\ Emptied
    /\ pc' = "write"
    /\ orphaned' = FALSE
    /\ UNCHANGED <<journalVars, part, tree, runVars, prior, file, exit, uncleared, boundVars>>

\* RemoveAll fails on an entry and leaves it there.  Open ignores the error,
\* but then the directory exists, Mkdir fails and E7007 is fatal; the error
\* of Clear is logged and the run ends as it would have.
RemoveFails ==
    /\ pc \in {"discard", "clear"}
    /\ Fault("remove")
    /\ \/ /\ pc = "discard"
          /\ pc' = "stop"
          /\ UNCHANGED <<exit, uncleared>>
       \/ /\ pc = "clear"
          /\ uncleared' = TRUE
          /\ pc' = "down" /\ exit' = ExitStatus
    /\ CutShort
    /\ UNCHANGED <<journalVars, part, tree, runVars, prior, file>>

\* WriteFile: session.json is created or truncated, then filled.
WriteSession ==
    /\ pc = "write"
    /\ session' = Bad
    /\ pc' = "fill"
    /\ UNCHANGED <<logged, log, part, tree, runVars, prior, file, exit, historyVars, boundVars>>

FillSession ==
    /\ pc = "fill"
    /\ session' = current
    /\ pc' = "log"
    /\ UNCHANGED <<logged, log, part, tree, runVars, prior, file, exit, historyVars, boundVars>>

\* complete.log is opened for appending and keeps what it has.
OpenLog ==
    /\ pc = "log"
    /\ logged' = TRUE
    /\ pc' = "run"
    /\ UNCHANGED <<session, log, part, tree, runVars, prior, file, exit, historyVars, boundVars>>

-----------------------------------------------------------------------------
(* The transfer. *)

\* Mutant of Verdict: any file at the path will do.
VerdictPresent(i) ==
    IF i \in prior \/ tree[Here(i).path] # Absent THEN "skipped" ELSE "need"

\* The verdict on one entry: a journalled file is skipped unseen, any other
\* is compared with what the destination has.
Verdict(i) ==
    IF i \in prior \/ tree[Here(i).path] = source[i] THEN "skipped" ELSE "need"

\* decideGroup.  The log's Sync at its end changes nothing a killed process
\* would lose.
DecideGroup(g) ==
    /\ pc = "run"
    /\ \A i \in g : file[i] = "todo"
    /\ file' = [i \in FileId |-> IF i \in g THEN Verdict(i) ELSE file[i]]
    /\ UNCHANGED <<journalVars, part, tree, pc, runVars, prior, exit, historyVars, boundVars>>

\* Mutant of OpenPart: the part of an earlier attempt is not truncated.
OpenPartAppend(i) ==
    /\ pc = "run" /\ file[i] = "need"
    /\ file' = [file EXCEPT ![i] = "fetch"]
    /\ part' = [part EXCEPT ![i] = IF @ = Absent THEN Bad ELSE @]
    /\ UNCHANGED <<journalVars, tree, pc, runVars, prior, exit, historyVars, boundVars>>

\* fetchOne has the FILE_HEADER: the part is opened and truncated, whatever
\* an earlier attempt or an earlier run has left in it.
OpenPart(i) ==
    /\ pc = "run" /\ file[i] = "need"
    /\ file' = [file EXCEPT ![i] = "fetch"]
    /\ part' = [part EXCEPT ![i] = Bad]
    /\ UNCHANGED <<journalVars, tree, pc, runVars, prior, exit, historyVars, boundVars>>

\* The chunks have been written and finish's comparisons have succeeded.
\* They are made on the bytes of the stream, not on those of the part: a
\* part that had been whole before the first chunk would be overwritten.
Receive(i) ==
    /\ pc = "run" /\ file[i] = "fetch"
    /\ file' = [file EXCEPT ![i] = "received"]
    /\ part' = [part EXCEPT ![i] = IF @ = Bad THEN source[i] ELSE Bad]
    /\ UNCHANGED <<journalVars, tree, pc, runVars, prior, exit, historyVars, boundVars>>

\* A fault of this file: the item is tried again, or has used its attempts.
ItemFails(i) ==
    /\ pc = "run" /\ file[i] = "fetch"
    /\ Fault("item")
    /\ \E to \in {"need", "failed"} : file' = [file EXCEPT ![i] = to]
    /\ UNCHANGED <<journalVars, part, tree, pc, runVars, prior, exit, historyVars>>

\* PublishPart: the rename, which a reader sees done or not begun.
PublishPart(i) ==
    /\ pc \in {"run", "stop"} /\ file[i] = "received"
    /\ tree' = [tree EXCEPT ![Here(i).path] = part[i]]
    /\ part' = [part EXCEPT ![i] = Absent]
    /\ file' = [file EXCEPT ![i] = "published"]
    /\ UNCHANGED <<journalVars, pc, runVars, prior, exit, historyVars, boundVars>>

\* MarkComplete appends the record, and the file counts as transferred.
MarkComplete(i) ==
    /\ pc \in {"run", "stop"} /\ file[i] = "published"
    /\ log' = Append(log, i)
    /\ file' = [file EXCEPT ![i] = "done"]
    /\ UNCHANGED <<session, logged, part, tree, pc, runVars, prior, exit, historyVars, boundVars>>

\* The write comes up short (a full disk): a torn line, and E7007 is fatal.
MarkShort(i) ==
    /\ pc \in {"run", "stop"} /\ file[i] = "published"
    /\ Fault("short")
    /\ log' = Append(log, Bad)
    /\ file' = [file EXCEPT ![i] = "failed"]
    /\ pc' = "stop"
    /\ UNCHANGED <<session, logged, part, tree, runVars, prior, exit, historyVars>>

\* Anything else that is fatal: a signal, a disk that is full, the peer.
Fatal ==
    /\ pc \in {"open", "write", "fill", "log", "run"}
    /\ Fault("fatal")
    /\ pc' = "stop"
    /\ UNCHANGED <<journalVars, part, tree, runVars, prior, file, exit, historyVars>>

\* finish with a fault: Sync, Close, and .esync is kept for the next run.
Stop ==
    /\ pc = "stop"
    /\ pc' = "down" /\ exit' = "error"
    /\ UNCHANGED <<journalVars, part, tree, runVars, prior, file, historyVars, boundVars>>

\* The summaries agree: journal.Clear, also when files have failed.
Reconciled ==
    /\ pc = "run"
    /\ \A i \in FileId : file[i] \in Resolved
    /\ pc' = "clear"
    /\ UNCHANGED <<journalVars, part, tree, runVars, prior, file, exit, historyVars, boundVars>>

Exit ==
    /\ pc = "clear" /\ Emptied
    /\ pc' = "down"
    /\ exit' = ExitStatus
    /\ UNCHANGED <<journalVars, part, tree, runVars, prior, file, historyVars, boundVars>>

\* The process is killed, wherever it is.
Kill ==
    /\ pc # "down"
    /\ Fault("kill")
    /\ pc' = "down" /\ exit' = "killed"
    /\ CutShort
    /\ UNCHANGED <<journalVars, part, tree, runVars, prior, file, uncleared>>

-----------------------------------------------------------------------------
\* The last run was a success and the source changes no more.
Settled == pc = "down" /\ exit = "ok" /\ changes = MaxChanges

Progress(i) == OpenPart(i) \/ Receive(i) \/ PublishPart(i) \/ MarkComplete(i)

ResumeNext ==
    \/ Begin \/ OpenJournal \/ RemoveEntry \/ Discarded \/ RemoveFails
    \/ WriteSession \/ FillSession \/ OpenLog
    \/ \E g \in PlanGroup : DecideGroup(g)
    \/ \E i \in FileId :
         \/ OpenPart(i) \/ Receive(i) \/ ItemFails(i)
         \/ PublishPart(i) \/ MarkComplete(i) \/ MarkShort(i)
    \/ Fatal \/ Stop \/ Reconciled \/ Exit \/ Kill
    \/ Settled /\ UNCHANGED resumeVars

\* The process runs and its workers take their turns; the operator repeats a
\* run that was not a success.  Faults are not owed.
Fairness ==
    /\ WF_resumeVars(Begin)
    /\ WF_resumeVars(\/ OpenJournal \/ RemoveEntry \/ Discarded
                     \/ WriteSession \/ FillSession \/ OpenLog)
    /\ WF_resumeVars(\E g \in PlanGroup : DecideGroup(g))
    /\ \A i \in FileId : WF_resumeVars(Progress(i))
    /\ WF_resumeVars(Stop \/ Reconciled \/ Exit)

ResumeSpec == ResumeInit /\ [][ResumeNext]_resumeVars /\ Fairness

-----------------------------------------------------------------------------
(* Properties. *)

\* File i is in place: it has the content of the source or, if it was skipped
\* on the word of the journal, a content of the size and the time its entry
\* names, unless the word was that of another session.
InPlace(i) ==
    IF i \in prior
    THEN ~orphaned => tree[Here(i).path] \in Here(i).contents
    ELSE tree[Here(i).path] = source[i]

\* What this run counts as in place is in place, as far as the journal can
\* tell: a file it has compared or fetched has the content of the source, and
\* one that receiver/decide.go skips on a record, without a look at the file,
\* has a content that the manifest digest allows.  The exception is a log
\* that outlived its session.json, in a removal cut short, and was taken over
\* by the next session: its ids mean other files.
SkipSound ==
    \A i \in FileId : pc # "down" /\ file[i] \in {"skipped", "done"} => InPlace(i)

\* A skipped file has the content of the source now, whatever the digest is
\* made of, and whichever session wrote the record: what "Completed in a
\* previous session and the manifest digest matches" (receiver/decide.go)
\* takes for granted.  It is violated by a change of content under the same
\* size and time, and by a log that outlived its session.json.
SkipCurrent ==
    \A i \in FileId : pc # "down" /\ file[i] \in {"skipped", "done"} =>
        tree[Here(i).path] = source[i]

\* A final path never holds a partial file, nor the bytes of two attempts:
\* "A reader on the destination sees either the old file or the complete new
\* file, never a partial one" (doc/ARCHITECTURE.md section 12.2).
NeverPartial == \A p \in Path : tree[p] # Bad

\* Exit 0 means that every file is in place, whatever runs came before.
SuccessComplete == exit = "ok" => \A i \in FileId : InPlace(i)

\* Every record of the log is of a file that is in place under the plan whose
\* digest session.json holds, also while no process runs: a kill between any
\* two steps leaves nothing a resumed run may not believe, but for a log that
\* was taken over from a session whose session.json was removed.
RecordsTrue ==
    session \in Manifest /\ ~orphaned =>
        \A j \in DOMAIN log : log[j] # Bad =>
            tree[Plan[session][log[j]].path] \in Plan[session][log[j]].contents

\* However often runs are killed or fail, the operator who repeats them ends
\* up with a success, and with no .esync left behind unless its removal
\* failed.
Converges == <>[](pc = "down" /\ exit = "ok" /\ (Emptied \/ uncleared))

=============================================================================
