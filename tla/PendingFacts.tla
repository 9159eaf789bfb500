------------------------------ MODULE PendingFacts ------------------------------
(***************************************************************************)
(* PENDING.md between its writers and the optimizer: MemoryStore           *)
(* (agent/memory.py) appends a batch of facts once per source, with a      *)
(* marker line in the file and a row in consolidation_writes.db;           *)
(* MemoryOptimizer (proactive_v2/memory_optimizer.py) renames the file to  *)
(* a snapshot, lets the model merge it into MEMORY.md, and deletes the     *)
(* snapshot or puts it back.                                               *)
(*                                                                         *)
(* A batch is known by its source; a file is the sequence of the batches   *)
(* in it, each with its marker.  The file operations of one call run       *)
(* without an await, so that only a crash can separate them.               *)
(***************************************************************************)
EXTENDS Naturals, Sequences, FiniteSets, SequencesExt

CONSTANTS
    Batches,        \* sources of facts
    MaxLen,         \* bound: batches in PENDING.md and the snapshot
    MaxMerges,      \* bound: times a batch is merged
    MaxDeaths       \* bound: crashes

PendingFactsAssumption == MaxLen \in Nat /\ MaxMerges \in Nat /\ MaxDeaths \in Nat

VARIABLES
    running,        \* does the process run?
    pending,        \* PENDING.md
    snapshot,       \* PENDING.snapshot.md, as the set of its one text or none
    written,        \* consolidation_writes: sources that have a row
    longTerm,       \* MEMORY.md: how often each batch was merged into it
    optimizing,     \* MemoryOptimizer: idle, waiting for the merge, or past it
    merging,        \* the batches it has sent to the model
    deaths,         \* crashes so far
    accepted,       \* history: sources whose append has returned
    repeatable,     \* history: batches that have been in two places at once
    torn            \* history: a crash fell between the truncation and the write

vars == <<running, pending, snapshot, written, longTerm, optimizing, merging, deaths,
          accepted, repeatable, torn>>

InSnapshot == UNION {ToSet(t) : t \in snapshot}
Has(s, b) == b \in ToSet(s)
Count(s, b) == Cardinality({i \in DOMAIN s : s[i] = b})

\* The one type invariant: at most one snapshot, and none while nobody optimizes unless
\* the optimizer failed on it.
PendingTypeOK ==
    /\ running \in BOOLEAN /\ torn \in BOOLEAN
    /\ pending \in Seq(Batches) /\ Cardinality(snapshot) <= 1
    /\ \A t \in snapshot : t \in Seq(Batches) /\ t # <<>>
    /\ written \subseteq Batches /\ accepted \subseteq Batches
    /\ repeatable \subseteq Batches
    /\ longTerm \in [Batches -> Nat] /\ merging \subseteq Batches
    /\ optimizing \in {"idle", "merging", "settling"}
    /\ ~running => optimizing = "idle"
    /\ optimizing = "merging" => merging = InSnapshot
-------------------------------------------------------------------------------
\* Mutant: the snapshot goes back over what was appended meanwhile.
PutBackAlone(file) == IF snapshot = {} THEN file ELSE CHOOSE t \in snapshot : TRUE

\* rollback_pending_snapshot: the older batches first.
PutBack(file) == IF snapshot = {} THEN file ELSE (CHOOSE t \in snapshot : TRUE) \o file

\* _append_once_with_index: a source with a row is written again when its marker is not
\* in the file; a source without a row is not when its marker is.
AppendOnce(b) == IF Has(pending, b) THEN pending ELSE Append(pending, b)

\* append_pending_once: a consolidation, or a candidate the user confirmed.
AppendFacts(b) ==
    /\ running /\ Len(PutBack(pending)) < MaxLen
    /\ pending' = AppendOnce(b)
    /\ written' = written \cup {b}
    /\ accepted' = accepted \cup {b}
    /\ repeatable' = IF b \in accepted THEN repeatable \cup {b} ELSE repeatable
    /\ UNCHANGED <<running, snapshot, longTerm, optimizing, merging, deaths, torn>>

\* snapshot_pending, which first puts back what an earlier run left, and the request to
\* the model; when MEMORY.md and PENDING.md are empty there is nothing to do.
Optimize ==
    LET file == PutBack(pending)
    IN  /\ running /\ optimizing = "idle" /\ \A b \in Batches : longTerm[b] < MaxMerges
        /\ snapshot' = IF file = <<>> THEN {} ELSE {file}
        /\ pending' = <<>>
        /\ merging' = ToSet(file)
        /\ optimizing' = IF file = <<>> /\ \A b \in Batches : longTerm[b] = 0
                         THEN "idle" ELSE "merging"
        /\ UNCHANGED <<running, written, longTerm, deaths, accepted, repeatable, torn>>

Merged == [b \in Batches |-> longTerm[b] + Cardinality(merging \cap {b})]

SnapshotGone == {}

\* The model has answered: write_long_term, append_history, commit_pending_snapshot.
MergeDone ==
    /\ optimizing = "merging"
    /\ longTerm' = Merged
    /\ snapshot' = SnapshotGone /\ merging' = {}
    /\ optimizing' = "settling"
    /\ UNCHANGED <<running, pending, written, deaths, accepted, repeatable, torn>>

\* It has failed or answered nothing: rollback_pending_snapshot.
MergeEmpty ==
    /\ optimizing = "merging"
    /\ pending' = PutBack(pending)
    /\ snapshot' = {} /\ merging' = {}
    /\ optimizing' = "settling"
    /\ UNCHANGED <<running, written, longTerm, deaths, accepted, repeatable, torn>>

\* MEMORY.md cannot be written, or its copy: the snapshot is left to the next run.
MergeRaises ==
    /\ optimizing = "merging"
    /\ optimizing' = "idle" /\ merging' = {}
    /\ UNCHANGED <<running, pending, snapshot, written, longTerm, deaths, accepted,
                   repeatable, torn>>

\* SELF.md, after a pause; the lock is released.
Settle ==
    /\ optimizing = "settling" /\ optimizing' = "idle"
    /\ UNCHANGED <<running, pending, snapshot, written, longTerm, merging, deaths,
                   accepted, repeatable, torn>>
-------------------------------------------------------------------------------
Dies ==
    /\ running /\ deaths < MaxDeaths
    /\ running' = FALSE /\ deaths' = deaths + 1
    /\ optimizing' = "idle" /\ merging' = {}
    /\ UNCHANGED <<accepted>>

Crash ==
    /\ Dies
    /\ UNCHANGED <<pending, snapshot, written, longTerm, repeatable, torn>>

\* The batch is in the file, its row is not in the database.
CrashInAppend(b) ==
    /\ Dies /\ Len(PutBack(pending)) < MaxLen /\ b \notin written
    /\ pending' = AppendOnce(b)
    /\ repeatable' = repeatable \cup {b}
    /\ UNCHANGED <<snapshot, written, longTerm, torn>>

\* MEMORY.md is written, the snapshot is still there.
CrashInMerge ==
    /\ Dies /\ optimizing = "merging"
    /\ longTerm' = Merged
    /\ repeatable' = repeatable \cup merging
    /\ UNCHANGED <<pending, snapshot, written, torn>>

\* rollback_pending_snapshot has opened PENDING.md for writing (which empties it) or has
\* written it, and has not deleted the snapshot.
CrashInRollback(file) ==
    /\ Dies /\ snapshot # {} /\ optimizing \in {"idle", "merging"}
    /\ file \in {<<>>, PutBack(pending)} /\ Len(file) <= MaxLen
    /\ pending' = file
    /\ torn' = (torn \/ (file = <<>> /\ pending # <<>>))
    /\ repeatable' = repeatable \cup InSnapshot
    /\ UNCHANGED <<snapshot, written, longTerm>>

\* MemoryStore.__init__: a snapshot left behind goes back.
Start ==
    /\ ~running /\ running' = TRUE
    /\ pending' = PutBack(pending)
    /\ snapshot' = {}
    /\ UNCHANGED <<written, longTerm, optimizing, merging, deaths, accepted, repeatable, torn>>

Init ==
    /\ running = TRUE /\ pending = <<>> /\ snapshot = {} /\ written = {}
    /\ longTerm = [b \in Batches |-> 0] /\ optimizing = "idle" /\ merging = {}
    /\ deaths = 0 /\ accepted = {} /\ repeatable = {} /\ torn = FALSE

Next ==
    \/ \E b \in Batches : AppendFacts(b) \/ CrashInAppend(b)
    \/ Optimize \/ MergeDone \/ MergeEmpty \/ MergeRaises \/ Settle
    \/ Crash \/ CrashInMerge
    \/ \E file \in {<<>>, PutBack(pending)} : CrashInRollback(file)
    \/ Start

Spec == Init /\ [][Next]_vars
-------------------------------------------------------------------------------
(* Properties *)

\* Facts survive: what an append has accepted is in PENDING.md, in the snapshot or in
\* MEMORY.md, through failed merges and crashes anywhere but inside the rewrite of
\* PENDING.md, which is not atomic.
FactsSurvive ==
    ~torn => \A b \in accepted :
        Has(pending, b) \/ b \in InSnapshot \/ longTerm[b] > 0

\* A batch is merged into the long-term memory once, unless it was appended again or a
\* crash left it in two places.
MergedOnce ==
    \A b \in Batches \ repeatable :
        Count(pending, b) + Cardinality({t \in snapshot : Has(t, b)}) + longTerm[b] <= 1
===============================================================================
