---------------------------- MODULE HardlinkMap -----------------------------
(***************************************************************************)
(* The receiver's hardlink map (internal/receiver/decide.go, hardlinkMap)  *)
(* for one hardlink key, with the goroutines that use it:                  *)
(*                                                                         *)
(*  - the decide workers, each with one entry of the key at a time in      *)
(*    decideFile: look the path up, link to it, or park on the pending     *)
(*    primary, or become the primary;                                      *)
(*  - the fetchers, which register a primary they have published and link  *)
(*    the parked entries to it, or abandon those of a primary that failed. *)
(*                                                                         *)
(* Every method of the map holds its mutex and is one action, but          *)
(* decideFile calls several of them: between pathFor, claimSecondary and   *)
(* markPrimary any other goroutine may run.  An entry that cannot be       *)
(* linked is fetched as content (hlfallback.go) or counted as failed.      *)
(***************************************************************************)
EXTENDS Integers, FiniteSets

CONSTANTS
    LinkEntry,      \* the manifest entries that share the key
    DecideWorkers,  \* --decide-workers
    LinkFails,      \* link() may fail (E7009)
    FetchFails,     \* content may fail for good, or find no space
    NoEntry

ASSUME HardlinkAssumption ==
    /\ DecideWorkers \in Nat
    /\ LinkFails \in BOOLEAN /\ FetchFails \in BOOLEAN
    /\ NoEntry \notin LinkEntry

VARIABLES
    stage,      \* stage[e]: what is being done with entry e, or became of it
    target,     \* target[e]: the entry whose path e is about to be linked to
    keyToPath,  \* the entry whose path is registered for the key
    seen,       \* the key has a primary
    fileKey,    \* the entries registered as primaries of the key
    pending     \* the entries parked on the key

mapVars == <<keyToPath, seen, fileKey, pending>>
keyVars == <<stage, target, mapVars>>

\* Where a decide worker is in decideFile.
Deciding == {"claim", "link", "clear", "mark", "content", "skip"}
State == {"todo", "parked", "linking", "queued", "published", "failing",
          "placed", "failed"} \cup Deciding

\* A primary that will still register its path or abandon the key.
Outstanding ==
    {e \in fileKey : stage[e] \in {"content", "skip", "queued", "published", "failing"}}

InPlace == {e \in LinkEntry : stage[e] \in {"skip", "published", "placed"}}

KeyInit ==
    /\ stage = [e \in LinkEntry |-> "todo"]
    /\ target = [e \in LinkEntry |-> NoEntry]
    /\ keyToPath = NoEntry
    /\ seen = FALSE
    /\ fileKey = {}
    /\ pending = {}

\* fetchInstead: queued as content, or counted if there is no space.
FetchInstead == {"queued"} \cup IF FetchFails THEN {"failed"} ELSE {}

-----------------------------------------------------------------------------
(***************************************************************************)
(* decideFile.                                                             *)
(***************************************************************************)
PathFor(e) ==
    /\ stage[e] = "todo"
    /\ Cardinality({f \in LinkEntry : stage[f] \in Deciding}) < DecideWorkers
    /\ stage' = [stage EXCEPT ![e] = IF keyToPath = NoEntry THEN "claim" ELSE "link"]
    /\ target' = [target EXCEPT ![e] = keyToPath]
    /\ UNCHANGED mapVars

\* Mutant of MakeHardlink: an entry whose link fails is decided again.
MakeHardlinkAgain(e) ==
    /\ stage[e] \in {"link", "linking"}
    /\ \/ stage' = [stage EXCEPT ![e] = "placed"]
       \/ LinkFails /\ stage' = [stage EXCEPT ![e] = "todo"]
    /\ target' = [target EXCEPT ![e] = NoEntry]
    /\ UNCHANGED mapVars

\* MakeHardlink, for an entry that found a path or was parked.
MakeHardlink(e) ==
    /\ stage[e] \in {"link", "linking"}
    /\ \/ stage' = [stage EXCEPT ![e] = "placed"]
       \/ LinkFails /\ stage[e] = "link" /\ stage' = [stage EXCEPT ![e] = "clear"]
       \/ /\ LinkFails /\ stage[e] = "linking"
          /\ \E s \in FetchInstead : stage' = [stage EXCEPT ![e] = s]
    /\ target' = [target EXCEPT ![e] = NoEntry]
    /\ UNCHANGED mapVars

\* clear: the key is retired and whoever is parked on it falls back.
Clear(e) ==
    /\ stage[e] = "clear"
    /\ keyToPath' = NoEntry
    /\ seen' = FALSE
    /\ pending' = {}
    /\ \E s \in [pending -> FetchInstead] :
          stage' = [f \in LinkEntry |-> IF f = e THEN "mark"
                                     ELSE IF f \in pending THEN s[f] ELSE stage[f]]
    /\ UNCHANGED <<target, fileKey>>

\* Mutant of ClaimSecondary: a registered path is not looked for again.
ClaimUnchecked(e) ==
    /\ stage[e] = "claim"
    /\ stage' = [stage EXCEPT ![e] = IF seen THEN "parked" ELSE "mark"]
    /\ pending' = IF seen THEN pending \cup {e} ELSE pending
    /\ UNCHANGED <<target, keyToPath, seen, fileKey>>

ClaimSecondary(e) ==
    LET parks == seen /\ keyToPath = NoEntry IN
    /\ stage[e] = "claim"
    /\ stage' = [stage EXCEPT ![e] = IF parks THEN "parked" ELSE "mark"]
    /\ pending' = IF parks THEN pending \cup {e} ELSE pending
    /\ UNCHANGED <<target, keyToPath, seen, fileKey>>

\* Mutant of MarkPrimary: the path is registered before the content is there.
MarkRegisters(e) ==
    /\ stage[e] = "mark"
    /\ seen' = TRUE
    /\ fileKey' = fileKey \cup {e}
    /\ keyToPath' = e
    /\ stage' = [stage EXCEPT ![e] = "content"]
    /\ UNCHANGED <<target, pending>>

MarkPrimary(e) ==
    /\ stage[e] = "mark"
    /\ seen' = TRUE
    /\ fileKey' = fileKey \cup {e}
    /\ stage' = [stage EXCEPT ![e] = "content"]
    /\ UNCHANGED <<target, keyToPath, pending>>

\* decideFileContent: the content has to be fetched, or is there already.
DecideFileContent(e) ==
    /\ stage[e] = "content"
    /\ \E s \in {"queued", "skip"} : stage' = [stage EXCEPT ![e] = s]
    /\ UNCHANGED <<target, mapVars>>

(***************************************************************************)
(* The fetchers.                                                           *)
(***************************************************************************)
\* A queued entry is published, or fails for good.
Fetch(e) ==
    /\ stage[e] = "queued"
    /\ \/ stage' = [stage EXCEPT ![e] = "published"]
       \/ FetchFails /\ stage' = [stage EXCEPT ![e] = "failing"]
    /\ UNCHANGED <<target, mapVars>>

\* registerMaterialised, by the fetcher that published e or by the decide
\* worker that found e in place; the parked entries are linked to e next.
RegisterMaterialised(e) ==
    LET waiting == IF e \in fileKey THEN pending ELSE {} IN
    /\ stage[e] \in {"skip", "published"}
    /\ keyToPath' = IF e \in fileKey /\ keyToPath = NoEntry THEN e ELSE keyToPath
    /\ pending' = pending \ waiting
    /\ stage' = [f \in LinkEntry |-> IF f = e THEN "placed"
                                  ELSE IF f \in waiting THEN "linking" ELSE stage[f]]
    /\ target' = [f \in LinkEntry |-> IF f \in waiting THEN e ELSE target[f]]
    /\ UNCHANGED <<seen, fileKey>>

\* abandon: the parked entries fail with their primary.
Abandon(e) ==
    LET orphans == IF e \in fileKey THEN pending ELSE {} IN
    /\ stage[e] = "failing"
    /\ stage' = [f \in LinkEntry |-> IF f = e \/ f \in orphans THEN "failed" ELSE stage[f]]
    /\ pending' = pending \ orphans
    /\ keyToPath' = IF e \in fileKey THEN NoEntry ELSE keyToPath
    /\ seen' = IF e \in fileKey THEN FALSE ELSE seen
    /\ UNCHANGED <<target, fileKey>>

Step(e) ==
    \/ PathFor(e) \/ MakeHardlink(e) \/ Clear(e) \/ ClaimSecondary(e) \/ MarkPrimary(e)
    \/ DecideFileContent(e) \/ Fetch(e) \/ RegisterMaterialised(e) \/ Abandon(e)

\* Nothing is being decided or fetched any more: the pipeline has drained.
\* It would drain just as well with an entry still parked.
Drained ==
    /\ \A e \in LinkEntry : stage[e] \in {"placed", "failed", "parked"}
    /\ UNCHANGED keyVars

KeyNext == (\E e \in LinkEntry : Step(e)) \/ Drained

KeySpec == KeyInit /\ [][KeyNext]_keyVars

\* Decide workers and fetchers are scheduled, and a fetch ends one way or
\* another.
FairKeySpec == KeySpec /\ \A e \in LinkEntry : WF_keyVars(Step(e))

-----------------------------------------------------------------------------
\* Every variable has its type; exactly the parked entries are pending.
KeyTypeOK ==
    /\ stage \in [LinkEntry -> State]
    /\ target \in [LinkEntry -> LinkEntry \cup {NoEntry}]
    /\ keyToPath \in LinkEntry \cup {NoEntry}
    /\ seen \in BOOLEAN
    /\ fileKey \subseteq LinkEntry
    /\ pending = {e \in LinkEntry : stage[e] = "parked"}

\* No entry is parked "on a primary that had already published and would
\* never call registerMaterialised again" (decide.go:130): while one is
\* parked, a primary of the key is still to register or to fail.
NobodyStranded == pending # {} => Outstanding # {}

\* Nor will one be: a key without a path that would make an entry park has
\* such a primary.
SeenHasPrimary == seen /\ keyToPath = NoEntry => Outstanding # {}

\* A link is only ever made to content that is in place: the registered
\* path, and every path read from it earlier, stay good.
LinkTargetsInPlace ==
    /\ keyToPath # NoEntry => keyToPath \in InPlace
    /\ \A e \in LinkEntry : stage[e] \in {"link", "linking"} => target[e] \in InPlace

\* Every entry ends up in place or counted as failed.
EverySettles == \A e \in LinkEntry : <>(stage[e] \in {"placed", "failed"})

\* The inductive invariant behind the theorems of HardlinkProofs.
KeyInv == KeyTypeOK /\ NobodyStranded /\ SeenHasPrimary /\ LinkTargetsInPlace
=============================================================================
