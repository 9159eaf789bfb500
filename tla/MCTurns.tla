------------------------------- MODULE MCTurns -------------------------------
(***************************************************************************)
(* Turns for TLC: those of two processes, and those of one process at a     *)
(* time, that work on a task (TaskTurn); the loop of model and tools inside *)
(* a turn (TurnLoop); and the context that turns share (ToolContext).  A    *)
(* behaviour is one of one of them, named by part.                          *)
(***************************************************************************)
EXTENDS MCTaskTurn

CONSTANTS a1, Modes, Batches, AlwaysOn, Capacity, IterationLimit, Plans, RepeatLimit,
          Kinds, Chats

VARIABLES
    part,
    pc, batch, at, answers, plan, iter, visible, finalOnly, enough, recent, held,
    mode, ledger, closed, misled, terminal, fellBack, runs, lru, guard,
    context, place, calls, disturbed

contextVars == <<context, place, calls, disturbed>>
loopVars == <<pc, batch, at, answers, plan, iter, visible, finalOnly, enough, recent, held,
              mode, ledger, closed, misled, terminal, fellBack, runs, lru, guard>>

Ask(t, a) == [tool |-> t, arg |-> a]
Hunt == Ask("search_docs", {"c1"})
Read(n) == Ask("fetch_doc_chunk", {n})
Find(t) == Ask("tool_search", {t})
Shell == Ask("shell", {})
Other == Ask("other", {})

\* A search and what it found; two chunks; a tool unlocked and one that may be blocked;
\* a tool that nobody offered.
SomeBatches == {<<Hunt, Read("c1")>>, <<Read("c1"), Read("c2")>>, <<Find("other"), Shell>>,
                <<Other>>}

ModeOf(search, coordinated, localOk, docs, disabled) ==
    [search |-> search, coordinated |-> coordinated, localOk |-> localOk,
     docs |-> docs, disabled |-> disabled]

\* Each depth of a request for documents, with and without the coordinator, a turn about
\* nothing of the kind, and one without tool search.
SomeModes == {ModeOf(TRUE, FALSE, FALSE, "none", {}),
              ModeOf(TRUE, FALSE, FALSE, "simple", {}),
              ModeOf(TRUE, FALSE, FALSE, "original", {}),
              ModeOf(TRUE, TRUE, FALSE, "original", {}),
              ModeOf(TRUE, TRUE, TRUE, "evidence", {}),
              ModeOf(FALSE, FALSE, FALSE, "none", {"other"})}

L == INSTANCE TurnLoop

\* One process at a time; u2 delivers the message of u1 again.
Deliveries == {u1, u2, u3}
S == INSTANCE TaskTurn WITH
        Overlap <- FALSE, Attempts <- {a1}, Turns <- Deliveries,
        TurnSession <- [u \in Deliveries |-> k1],
        TurnRequest <- [u \in Deliveries |-> IF u = u3 THEN r2 ELSE r1]

\* Two chats write, a soft job of the first is due, a background task of the second ends.
FourTurns == [first |-> "message", second |-> "message", done |-> "completion", job |-> "job"]
TwoChats == [first |-> "chat1", second |-> "chat2", done |-> "chat2", job |-> "chat1"]
X == INSTANCE ToolContext WITH
        Turns <- DOMAIN Kinds, KindOf <- Kinds, ChatOf <- Chats, at <- place

ASSUME TurnsAssumption ==
       /\ S!StoreAssumption /\ S!TurnAssumption
       /\ L!TurnLoopAssumption /\ X!ToolContextAssumption

\* The mode matters to the loop only.
TurnsInit == /\ part \in {"attempt", "single", "loop", "context"}
             /\ IF part = "single" THEN S!TurnInit ELSE TurnInit
             /\ L!LoopInit /\ X!ContextInit
             /\ part # "loop" => mode = CHOOSE m \in Modes : TRUE

TurnsNext == /\ UNCHANGED part
             /\ \/ part = "attempt" /\ TurnNext /\ UNCHANGED <<loopVars, contextVars>>
                \/ part = "single" /\ S!TurnNext /\ UNCHANGED <<loopVars, contextVars>>
                \/ part = "loop" /\ L!LoopNext /\ UNCHANGED <<allVars, contextVars>>
                \/ part = "context" /\ X!ContextNext /\ UNCHANGED <<allVars, loopVars>>

\* As TurnFairSpec of TaskTurn, for one process at a time.
TurnsSpec ==
    /\ TurnsInit /\ [][TurnsNext]_<<part, allVars, loopVars, contextVars>>
    /\ \A u \in Deliveries : WF_allVars(part = "single" /\ S!Drive(u))
    /\ WF_allVars(part = "single" /\ \E i \in Instances : S!Boot(i))

\* The properties of the modules, for the instance they are about.
AttemptsHaveTurns == part = "attempt" => RunningHasTurn /\ SnapshotIsPast
SucceedsOnEvidence == part = "attempt" => SuccessHasEvidence
RestartsLeaveNothing == part = "single" => S!TurnInvariant
SettledInTheEnd == part = "single" => S!RunningIsSettled
CallsAreAnswered == L!CallsAreAnswered
ToolsStayWithinPolicy == L!ToolsStayWithinPolicy
ContextIsOfItsTurn == X!ToolContextTypeOK /\ X!OnlyOverlapsMislead
===============================================================================
