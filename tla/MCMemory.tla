-------------------------------- MODULE MCMemory --------------------------------
(***************************************************************************)
(* Instances for TLC of the three stores the memory is kept in: the log    *)
(* with its consolidation, PENDING.md and the vector memory.  They share   *)
(* no variable; a behaviour is one of one of them, named by part.          *)
(***************************************************************************)
EXTENDS Naturals, Sequences, FiniteSets, SequencesExt

CONSTANTS Keep, MinNew, MaxId, MaxQueue, MaxCrashes, MaxManual,
          Batches, MaxLen, MaxMerges, MaxDeaths,
          Preferences, Rules, MaxSeq, MaxWindows, MaxCalls

VARIABLES
    part,
    alive, rows, savedCursor, nextSeq, msgs, cursor, stream, queue, phase, draft, holder,
    history, asked, losses, ghosts, undone, trims, movedMidway, misread, reopened,
    running, pending, snapshot, written, longTerm, optimizing, merging, deaths, accepted,
    repeatable, torn,
    items, seq, turn, turns, saving, ingested, judging, windows, calls, undoneIds, held,
    raced, origins, astray

logVars == <<alive, rows, savedCursor, nextSeq, msgs, cursor, stream, queue, phase, draft,
             holder, history, asked, losses, ghosts, undone, trims, movedMidway, misread,
             reopened>>
pendingVars == <<running, pending, snapshot, written, longTerm, optimizing, merging, deaths,
                 accepted, repeatable, torn>>
vectorVars == <<items, seq, turn, turns, saving, ingested, judging, windows, calls,
                undoneIds, held, raced, origins, astray>>
vars == <<part, logVars, pendingVars, vectorVars>>

C == INSTANCE Consolidation
P == INSTANCE PendingFacts
V == INSTANCE VectorMemory

ASSUME MemoryAssumption ==
       C!ConsolidationAssumption /\ P!PendingFactsAssumption /\ V!VectorMemoryAssumption

\* The texts that are being saved after a step.
Saves(texts) == \A a \in V!Savers : saving'[a].text \in texts \cup {""}

Init == /\ part \in {"log", "pending", "preferences", "rules"}
        /\ C!Init /\ P!Init /\ V!Init

\* The two kinds of items do not meet, since every search is for one kind: they are
\* explored one at a time.
Next == /\ UNCHANGED part
        /\ \/ part = "log" /\ C!Next /\ UNCHANGED <<pendingVars, vectorVars>>
           \/ part = "pending" /\ P!Next /\ UNCHANGED <<logVars, vectorVars>>
           \/ part = "preferences" /\ V!Next /\ Saves(Preferences)
              /\ UNCHANGED <<logVars, pendingVars>>
           \/ part = "rules" /\ V!Next /\ Saves(Rules)
              /\ UNCHANGED <<logVars, pendingVars>>

Only(A) == part = "log" /\ A /\ UNCHANGED <<part, pendingVars, vectorVars>>

Spec == Init /\ [][Next]_vars
FairSpec == /\ Spec
            /\ WF_vars(Only(C!WorkerRun)) /\ WF_vars(Only(C!WorkerEnd))
            /\ WF_vars(Only(C!Restart))
            /\ \A a \in {"worker", "manual"} : WF_vars(Only(C!Finish(a)))

\* The properties of the three modules, under their names there, or joined.
\* Each message is summarised exactly once.
SummarisedExactlyOnce == C!ConsolidationTypeOK /\ C!NothingSkipped /\ C!SummarisedOnce

\* Each accepted fact is kept, and merged once.
FactsKeptOnce == P!PendingTypeOK /\ P!FactsSurvive /\ P!MergedOnce

\* What the user asked for is said by an active item, and not contradicted by another.
MemoryIsHeld == V!VectorTypeOK /\ V!RememberedIsHeld /\ V!NoRivals

UndoTakesBack == V!UndoTakesBack
RequestsServed == C!RequestsServed

\* What the code's own words say and the code does not do.
CursorStaysInPlace == C!CursorStaysInPlace
===============================================================================
