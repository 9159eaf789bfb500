------------------------------ MODULE TurnsProofs ------------------------------
(***************************************************************************)
(* Machine-checked proofs about turns, in the module that TLC runs: the    *)
(* turns of overlapping processes and those of one process at a time (S,   *)
(* TaskTurn), from the proofs about TaskTurn; the loop of model and tools  *)
(* (L, TurnLoop), and the context that turns share (X, ToolContext).       *)
(***************************************************************************)
EXTENDS MCTurns, TaskTurnProofs

-------------------------------------------------------------------------------
(* Turns of processes that may overlap *)

\* A behaviour is one of one of four machines.
LEMMA AttemptPart == TurnsSpec => [](part = "attempt" => TurnInv)
<1>1. TurnsInit => (part = "attempt" => TurnInv)
  BY TurnStarts DEF TurnsInit
<1>2. ASSUME part = "attempt" => TurnInv,
             [TurnsNext]_<<part, allVars, loopVars, contextVars>>
      PROVE  (part = "attempt" => TurnInv)'
  <2>1. part' = part /\ (part = "attempt" => [TurnNext]_allVars)
    BY <1>2 DEF TurnsNext
  <2> QED
    BY <1>2, <2>1, TurnInvStep
<1> QED
  BY <1>1, <1>2, PTL DEF TurnsSpec

\* No turn of a live process leaves its attempt running: by a reply, the limit, an
\* exception, an interrupt or a lost lease, finalize_turn settles it; and no turn
\* remembers an end that the store does not have (execution_runtime.py finalize_turn).
THEOREM NobodyIsLeftRunning == TurnsSpec => []AttemptsHaveTurns
<1>1. (part = "attempt" => TurnInv) => AttemptsHaveTurns
  BY DriversExist DEF AttemptsHaveTurns
<1> QED
  BY <1>1, AttemptPart, PTL

\* A step is reported as done only with a successful work result in its log, or for the
\* file change the user approved (execution_service.py _has_successful_work_event).
THEOREM DoneOnEvidence == TurnsSpec => []SucceedsOnEvidence
<1>1. (part = "attempt" => TurnInv) => SucceedsOnEvidence
  BY DEF TurnInv, SucceedsOnEvidence
<1> QED
  BY <1>1, AttemptPart, PTL

-------------------------------------------------------------------------------
(* One process at a time *)

\* The proofs of TaskTurn, for the constants of S.
T == INSTANCE TaskTurnProofs WITH
        Overlap <- FALSE, Attempts <- {a1}, Turns <- Deliveries,
        TurnSession <- [u \in Deliveries |-> k1],
        TurnRequest <- [u \in Deliveries |-> IF u = u3 THEN r2 ELSE r1]

\* S and T have the same constants: what they define is the same.
LEMMA SameInstance ==
    /\ S!TurnInit <=> T!TurnInit
    /\ S!TurnNext <=> T!TurnNext
    /\ S!TurnInvariant <=> T!TurnInvariant
<1>1. S!TurnInit <=> T!TurnInit
  BY DEF
     S!TurnInit, T!TurnInit, S!Init, T!Init, S!Without, T!Without
<1>2. S!TurnNext <=> T!TurnNext
  BY DEF
     S!TurnNext, T!TurnNext, S!Drive, T!Drive, S!Begin, T!Begin, S!Answered, T!Answered,
     S!GuardFails, T!GuardFails, S!Active, T!Active, S!Dispatched, T!Dispatched, S!Holds,
     T!Holds, S!Rows, T!Rows, S!ClaimNow, T!ClaimNow, S!ActivePlan, T!ActivePlan,
     S!NextStep, T!NextStep, S!StepsOf, T!StepsOf, S!Latest, T!Latest, S!OnStep, T!OnStep,
     S!Retryable, T!Retryable, S!RetryableBlockReasons, T!RetryableBlockReasons,
     S!ClaimFresh, T!ClaimFresh, S!MayClaim, T!MayClaim, S!Replays, T!Replays,
     S!HasActiveAttempt, T!HasActiveAttempt, S!ActiveOn, T!ActiveOn, S!OnTask, T!OnTask,
     S!Unsettled, T!Unsettled, S!IsNextNo, T!IsNextNo, S!Insert, T!Insert, S!NewRow,
     T!NewRow, S!ClaimRetry, T!ClaimRetry, S!Reset, T!Reset, S!Resettable, T!Resettable,
     S!ClaimRefused, T!ClaimRefused, S!Request, T!Request, S!CanRetry, T!CanRetry, S!vars,
     T!vars, S!See, T!See, S!Remember, T!Remember, S!Adopt, T!Adopt, S!Start, T!Start,
     S!SetRow, T!SetRow, S!Log, T!Log, S!Raise, T!Raise, S!Settle, T!Settle, S!Terminal,
     T!Terminal, S!Block, T!Block, S!Reconcile, T!Reconcile, S!Stale, T!Stale, S!Close,
     T!Close, S!Without, T!Without, S!NotCommitted, T!NotCommitted, S!StartTool,
     T!StartTool, S!Working, T!Working, S!AppendEvent, T!AppendEvent, S!ToolEvents,
     T!ToolEvents, S!EndWork, T!EndWork, S!Returned, T!Returned, S!EndFinish, T!EndFinish,
     S!HasWork, T!HasWork, S!Finalize, T!Finalize, S!CompletePlanIfDone,
     T!CompletePlanIfDone, S!AllDone, T!AllDone, S!EndDefer, T!EndDefer, S!Defer, T!Defer,
     S!EndAbort, T!EndAbort, S!Abort, T!Abort, S!AbortAsked, T!AbortAsked, S!turnVars,
     T!turnVars, S!DeferOrBlock, T!DeferOrBlock, S!FailAtBoundary, T!FailAtBoundary,
     S!FailAttempt, T!FailAttempt, S!Final, T!Final, S!ReturnAccepted, T!ReturnAccepted,
     S!MaxIterations, T!MaxIterations, S!Interrupt, T!Interrupt, S!Open, T!Open,
     S!Awaiting, T!Awaiting, S!Arrive, T!Arrive, S!Prepare, T!Prepare, S!RetryStep,
     T!RetryStep, S!Boot, T!Boot, S!Crash, T!Crash, S!Outside, T!Outside, S!CreatePlan,
     T!CreatePlan, S!SessionHasActiveAttempt, T!SessionHasActiveAttempt, S!UpdateStep,
     T!UpdateStep, S!LeaseLapses, T!LeaseLapses, S!CompleteAuthorized,
     T!CompleteAuthorized
<1>3. S!TurnInvariant <=> T!TurnInvariant
  BY DEF
     S!TurnInvariant, T!TurnInvariant, S!TurnTypeOK, T!TurnTypeOK, S!Turn, T!Turn,
     S!Awaiting, T!Awaiting, S!Unsettled, T!Unsettled, S!Terminal, T!Terminal, S!Rows,
     T!Rows, S!NothingOfTheDead, T!NothingOfTheDead, S!Dispatched, T!Dispatched
<1> QED
  BY <1>1, <1>2, <1>3

LEMMA SinglePart == TurnsSpec => [](part = "single" => T!TurnInv)
<1>1. TurnsInit => (part = "single" => T!TurnInv)
  BY TurnsAssumption, SameInstance, T!TurnStarts
     DEF TurnsInit, S!StoreAssumption, S!TurnAssumption
<1>2. ASSUME part = "single" => T!TurnInv,
             [TurnsNext]_<<part, allVars, loopVars, contextVars>>
      PROVE  (part = "single" => T!TurnInv)'
  <2>1. part' = part /\ (part = "single" => [T!TurnNext]_T!allVars)
    BY <1>2, SameInstance
       DEF TurnsNext, allVars, vars, turnVars, T!allVars, T!vars, T!turnVars
  <2> QED
    BY <1>2, <2>1, TurnsAssumption, T!TurnInvStep DEF S!StoreAssumption, S!TurnAssumption
<1> QED
  BY <1>1, <1>2, PTL DEF TurnsSpec

\* One process at a time, each with a recovery pass at its start: nothing is dispatched
\* in the name of a dead one (bootstrap/tools.py, the startup's reconcile).
THEOREM RestartsAreClean == TurnsSpec => []RestartsLeaveNothing
<1>1. (part = "single" => T!TurnInv) => RestartsLeaveNothing
  BY SameInstance DEF RestartsLeaveNothing, T!TurnInv, T!TurnInvariant
<1> QED
  BY <1>1, SinglePart, PTL

-------------------------------------------------------------------------------
(* The loop of model and tools *)

\* What the conversation is made of, the model is asked while rounds are left, and every
\* call of its answer has its result.
TalkInv ==
    /\ L!LoopTypeOK /\ lru \in Seq(L!Tools) /\ recent \in Seq(L!Tools)
    /\ pc \in {"model", "calls"} => iter < IterationLimit
    /\ L!OneResultPerCall

Ledgers == [retrievals : Nat, expands : Nat, seen : SUBSET L!Calls,
            hit : BOOLEAN, chunk : BOOLEAN, signal : BOOLEAN]

\* Nothing of one turn is left for the next.
CleanInv ==
    pc = "idle" => ledger = L!EmptyLedger /\ ~terminal /\ ~fellBack /\ ~misled
                   /\ runs = [t \in L!Docs |-> 0]

\* The ledger counts no less than what ran, the access plan knows what a document tool has
\* said, and in the first plan what the ledger has seen is in the conversation.
LedgerInv ==
    /\ mode.search => /\ runs["search_docs"] <= ledger.retrievals
                      /\ runs["fetch_doc_chunk"] <= ledger.expands
    /\ (terminal /\ mode.search /\ ~mode.coordinated) => closed
    /\ (plan = 1 /\ (ledger.hit \/ ledger.chunk)) => held

PolicyInv ==
    /\ ledger \in Ledgers /\ runs \in [L!Docs -> Nat]
    /\ closed \in BOOLEAN /\ held \in BOOLEAN /\ misled \in BOOLEAN
    /\ terminal \in BOOLEAN /\ fellBack \in BOOLEAN
    /\ CleanInv /\ LedgerInv /\ L!ToolsStayWithinPolicy

\* Moving a tool to the end of the memory, or adding it, keeps the memory within its size.
LEMMA TouchKeeps ==
    ASSUME NEW l \in Seq(L!Tools), Len(l) <= Capacity, Capacity \in Nat \ {0}, NEW t \in L!Tools
    PROVE  L!Touch(l, t) \in Seq(L!Tools) /\ Len(L!Touch(l, t)) <= Capacity
<1> DEFINE others == IF t \in L!ToSet(l)
                     THEN L!RemoveAt(l, CHOOSE i \in DOMAIN l : l[i] = t) ELSE l
           s == Append(others, t)
<1>1. others \in Seq(L!Tools) /\ Len(others) <= Capacity
  <2>1. CASE t \notin L!ToSet(l)
    BY <2>1
  <2>2. CASE t \in L!ToSet(l)
    <3> DEFINE k == CHOOSE i \in DOMAIN l : l[i] = t
    <3>0. \E i \in DOMAIN l : l[i] = t
      BY <2>2 DEF L!ToSet
    <3>1. k \in 1..Len(l)
      BY <3>0
    <3>2. others = SubSeq(l, 1, k - 1) \o SubSeq(l, k + 1, Len(l))
      BY <2>2 DEF L!RemoveAt
    <3> HIDE DEF others, k
    <3>3. SubSeq(l, 1, k - 1) \in Seq(L!Tools) /\ Len(SubSeq(l, 1, k - 1)) = k - 1
      BY <3>1, SubSeqProperties
    <3>4. /\ SubSeq(l, k + 1, Len(l)) \in Seq(L!Tools)
          /\ Len(SubSeq(l, k + 1, Len(l))) = Len(l) - k
      BY <3>1, SubSeqProperties
    <3>5. PICK x \in Seq(L!Tools), y \in Seq(L!Tools) :
              others = x \o y /\ Len(x) = k - 1 /\ Len(y) = Len(l) - k
      BY <3>2, <3>3, <3>4
    <3>6. x \o y \in Seq(L!Tools) /\ Len(x \o y) = Len(x) + Len(y)
      BY ConcatProperties
    <3>7. others \in Seq(L!Tools) /\ Len(others) = (k - 1) + (Len(l) - k)
      BY <3>5, <3>6
    <3> QED
      BY <3>1, <3>7
  <2> QED
    BY <2>1, <2>2
<1> HIDE DEF others
<1>2. s \in Seq(L!Tools) /\ Len(s) = Len(others) + 1 /\ s # <<>>
  BY <1>1, AppendProperties
<1>3. Tail(s) \in Seq(L!Tools) /\ Len(Tail(s)) = Len(s) - 1
  BY <1>2, HeadTailProperties
<1>4. L!Touch(l, t) = IF t \in L!NonLru THEN l ELSE IF Len(s) > Capacity THEN Tail(s) ELSE s
  BY DEF L!Touch, others
<1> HIDE DEF s
<1> QED
  BY <1>1, <1>2, <1>3, <1>4

LEMMA VisibleAreTools ==
    ASSUME TalkInv, NEW m \in L!ModeFields, NEW off, L!TurnLoopAssumption
    PROVE  L!VisibleNames(m, off) \subseteq L!Tools
<1>1. L!ToSet(lru) \subseteq L!Tools
  BY DEF TalkInv, L!ToSet
<1> QED
  BY <1>1 DEF L!VisibleNames, L!VisibleAdd, L!TurnLoopAssumption, L!Tools, L!Docs

LEMMA CallIsTyped ==
    ASSUME TalkInv, at <= Len(batch)
    PROVE  /\ L!Call \in L!Calls /\ batch \in Seq(L!Calls) /\ at \in DOMAIN batch
           /\ L!Call.tool = "tool_search" => L!Call.arg \subseteq L!Tools
<1>1. batch \in Batches
  BY DEF TalkInv, L!LoopTypeOK
<1>2. batch \in Seq(L!Calls)
  BY <1>1, TurnsAssumption DEF L!TurnLoopAssumption
<1>3. at \in DOMAIN batch
  BY <1>2 DEF TalkInv, L!LoopTypeOK
<1> QED
  BY <1>1, <1>2, <1>3, TurnsAssumption DEF L!TurnLoopAssumption, L!Call

\* A run starts with a conversation of its own.
LEMMA RunStarts ==
    ASSUME TalkInv, NEW m \in Modes, NEW n \in 1..Plans, NEW off, L!StartRun(m, n, off),
           mode' = m, lru' = lru
    PROVE  TalkInv'
<1>1. m \in L!ModeFields
  BY TurnsAssumption DEF L!TurnLoopAssumption
<1>2. visible' \subseteq L!Tools
  BY <1>1, VisibleAreTools, TurnsAssumption DEF L!StartRun
<1>3. /\ pc' = "step" /\ plan' = n /\ iter' = 0 /\ recent' = lru
      /\ batch' = <<>> /\ at' = 1 /\ answers' = <<>>
  BY DEF L!StartRun
<1>4. IterationLimit \in Nat /\ 0 \in 0..IterationLimit
  BY TurnsAssumption DEF L!TurnLoopAssumption
<1>5. Len(batch') = 0 /\ DOMAIN batch' = {} /\ answers' \in [DOMAIN batch' -> Nat]
  BY <1>3
<1>6. L!LoopTypeOK'
  BY <1>2, <1>3, <1>4, <1>5 DEF TalkInv, L!LoopTypeOK
<1> QED
  BY <1>3, <1>5, <1>6 DEF TalkInv, L!OneResultPerCall

\* What belongs to a turn goes with it.
LEMMA TurnsEnd ==
    ASSUME TalkInv, L!TurnOver, lru' \in {lru, recent}
    PROVE  TalkInv'
<1>1. /\ pc' = "idle" /\ plan' = 1 /\ iter' = 0 /\ batch' = <<>> /\ at' = 1 /\ answers' = <<>>
      /\ visible' = {} /\ recent' = <<>> /\ mode' = mode
  BY DEF L!TurnOver
<1>2. /\ IterationLimit \in Nat /\ 0 \in 0..IterationLimit /\ 1 \in 1..Plans
      /\ Capacity \in Nat
  BY TurnsAssumption DEF L!TurnLoopAssumption
<1>3. Len(batch') = 0 /\ DOMAIN batch' = {} /\ answers' \in [DOMAIN batch' -> Nat]
  BY <1>1
<1>4. Len(recent') = 0 /\ recent' \in Seq(L!Tools)
  BY <1>1
<1>5. lru' \in Seq(L!Tools) /\ Len(lru') <= Capacity
  BY DEF TalkInv, L!LoopTypeOK
<1> QED
  BY <1>1, <1>2, <1>3, <1>4, <1>5 DEF TalkInv, L!LoopTypeOK, L!OneResultPerCall

\* The call that is next gets its result, and only that one.
LEMMA AnswersOne ==
    ASSUME TalkInv, pc = "calls", at <= Len(batch), L!Answered
    PROVE  /\ at' \in 1..(Len(batch) + 1) /\ answers' \in [DOMAIN batch -> Nat]
           /\ pc' = pc /\ batch' = batch /\ L!OneResultPerCall'
<1>1. batch \in Seq(L!Calls) /\ at \in DOMAIN batch /\ at \in 1..Len(batch)
  BY CallIsTyped
<1>2. answers \in [DOMAIN batch -> Nat] /\ DOMAIN batch = 1..Len(batch)
  BY <1>1 DEF TalkInv, L!LoopTypeOK
<1>3. /\ answers' = [answers EXCEPT ![at] = answers[at] + 1] /\ at' = at + 1
      /\ pc' = pc /\ batch' = batch
  BY DEF L!Answered
<1>4. \A i \in DOMAIN batch : answers'[i] = IF i = at THEN answers[i] + 1 ELSE answers[i]
  BY <1>1, <1>2, <1>3
<1>5. \A i \in DOMAIN batch : answers[i] = IF i >= at THEN 0 ELSE 1
  BY DEF TalkInv, L!OneResultPerCall
<1> QED
  BY <1>1, <1>2, <1>3, <1>4, <1>5 DEF L!OneResultPerCall

\* A cut gives its result to every call that has none.
LEMMA CutsOff ==
    ASSUME TalkInv, pc = "calls", at <= Len(batch), L!CutOff
    PROVE  /\ at' \in 1..(Len(batch) + 1) /\ answers' \in [DOMAIN batch -> Nat]
           /\ pc' = "end" /\ batch' = batch /\ L!OneResultPerCall'
<1>1. batch \in Seq(L!Calls) /\ at \in DOMAIN batch /\ at \in 1..Len(batch)
  BY CallIsTyped
<1>2. answers \in [DOMAIN batch -> Nat] /\ DOMAIN batch = 1..Len(batch)
  BY <1>1 DEF TalkInv, L!LoopTypeOK
<1>3. /\ answers' = [i \in DOMAIN batch |-> answers[i] + IF i >= at THEN 1 ELSE 0]
      /\ at' = Len(batch) + 1 /\ pc' = "end" /\ batch' = batch
  BY <1>2 DEF L!CutOff
<1>4. \A i \in DOMAIN batch : answers[i] = IF i >= at THEN 0 ELSE 1
  BY DEF TalkInv, L!OneResultPerCall
<1>5. \A i \in DOMAIN batch : answers'[i] = 1
  BY <1>1, <1>2, <1>3, <1>4
<1>6. answers' \in [DOMAIN batch -> Nat] /\ at' \in 1..(Len(batch) + 1)
  BY <1>1, <1>2, <1>3
<1> QED
  BY <1>3, <1>5, <1>6 DEF L!OneResultPerCall

\* What a tool leaves visible is a set of tools.
LEMMA ShownAreTools ==
    ASSUME TalkInv, pc = "calls", at <= Len(batch), NEW o
    PROVE  L!ShownAfter(L!Call, o) \subseteq L!Tools
<1> DEFINE base == L!VisibleNames(mode, L!Refreshed \/ o = "off")
           matched == L!Call.arg \ (AlwaysOn \cup visible \cup mode.disabled
                                    \cup L!Blocked(mode, closed))
<1>1. mode \in L!ModeFields /\ visible \subseteq L!Tools
  BY TurnsAssumption DEF TalkInv, L!LoopTypeOK, L!TurnLoopAssumption
<1>2. base \subseteq L!Tools
  BY <1>1, VisibleAreTools, TurnsAssumption
<1>3. L!Call.tool = "tool_search" => matched \subseteq L!Tools
  BY CallIsTyped
<1>4. L!ShownAfter(L!Call, o) \in {visible, base, base \cup matched, visible \cup matched}
  BY DEF L!ShownAfter
<1>5. L!Call.tool # "tool_search" => L!ShownAfter(L!Call, o) \in {visible, base}
  BY DEF L!ShownAfter
<1> HIDE DEF base, matched
<1> QED
  BY <1>1, <1>2, <1>3, <1>4, <1>5

LEMMA TalkStep == ASSUME TalkInv, L!LoopNext PROVE TalkInv'
<1> USE DEF L!inCalls, L!inRun, L!inTurn, L!outside
<1>1. ASSUME NEW m \in Modes, L!Begin(m) PROVE TalkInv'
  <2>1. 1 \in 1..Plans
    BY TurnsAssumption DEF L!TurnLoopAssumption
  <2> QED
    BY <1>1, <2>1, RunStarts DEF L!Begin
<1>2. CASE L!Step \/ L!StopsEarly \/ L!ModelAnswers
  <2>1. /\ pc' \in {"step", "model", "end"} /\ pc # "idle"
        /\ pc' = "model" => ~(iter >= IterationLimit)
        /\ pc \in {"step", "model"} \/ at > Len(batch)
        /\ UNCHANGED <<batch, at, answers, plan, iter, visible, recent, mode, lru>>
    BY <1>2 DEF L!Step, L!StopsEarly, L!ModelAnswers
  <2>2. pc = "calls" => \A i \in DOMAIN batch : ~(i >= at)
    BY <2>1, TurnsAssumption DEF TalkInv, L!LoopTypeOK, L!TurnLoopAssumption
  <2>3. L!OneResultPerCall'
    BY <2>1, <2>2 DEF TalkInv, L!OneResultPerCall
  <2>4. pc' = "model" => iter < IterationLimit
    BY <2>1, TurnsAssumption DEF TalkInv, L!LoopTypeOK, L!TurnLoopAssumption
  <2> QED
    BY <2>1, <2>3, <2>4 DEF TalkInv, L!LoopTypeOK
<1>3. CASE L!Retry
  <2>1. plan + 1 \in 1..Plans /\ mode \in Modes
    BY <1>3, TurnsAssumption DEF L!Retry, TalkInv, L!LoopTypeOK, L!TurnLoopAssumption
  <2> QED
    BY <1>3, <2>1, RunStarts DEF L!Retry
<1>4. CASE L!Refuse \/ L!SoftStop \/ L!NotLoaded
  <2>1. /\ pc = "calls" /\ at <= Len(batch) /\ (L!Answered \/ L!CutOff)
        /\ UNCHANGED <<plan, iter, visible, recent, mode, lru>>
    BY <1>4 DEF L!Refuse, L!SoftStop, L!NotLoaded, L!Asked
  <2>2. /\ at' \in 1..(Len(batch) + 1) /\ answers' \in [DOMAIN batch -> Nat]
        /\ pc' \in {pc, "end"} /\ batch' = batch /\ L!OneResultPerCall'
    BY <2>1, AnswersOne, CutsOff
  <2> QED
    BY <2>1, <2>2 DEF TalkInv, L!LoopTypeOK
<1>5. ASSUME NEW b \in Batches, L!ModelCalls(b) PROVE TalkInv'
  <2>1. CASE finalOnly
    <3>1. pc' = "end" /\ pc = "model"
          /\ UNCHANGED <<batch, at, answers, plan, iter, visible, recent, mode, lru>>
      BY <1>5, <2>1 DEF L!ModelCalls
    <3> QED
      BY <3>1 DEF TalkInv, L!LoopTypeOK, L!OneResultPerCall
  <2>2. CASE ~finalOnly
    <3>1. /\ pc' = "calls" /\ pc = "model"
          /\ batch' = b /\ at' = 1 /\ answers' = [i \in DOMAIN b |-> 0]
          /\ UNCHANGED <<plan, iter, visible, recent, mode, lru>>
      BY <1>5, <2>2 DEF L!ModelCalls
    <3>2. b \in Seq(L!Calls) /\ Len(b) \in Nat /\ DOMAIN b = 1..Len(b)
      BY TurnsAssumption DEF L!TurnLoopAssumption
    <3>3. /\ 1 \in 1..(Len(b) + 1) /\ answers' \in [DOMAIN b -> Nat]
          /\ \A i \in DOMAIN b : i >= 1 /\ answers'[i] = 0
      BY <3>1, <3>2
    <3> QED
      BY <3>1, <3>3 DEF TalkInv, L!LoopTypeOK, L!OneResultPerCall
  <2> QED
    BY <2>1, <2>2
<1>6. ASSUME NEW o, L!RunTool(o) PROVE TalkInv'
  <2>1. /\ pc = "calls" /\ at <= Len(batch) /\ (L!Answered \/ L!CutOff)
        /\ recent' \in {recent, L!Touch(recent, L!Call.tool)}
        /\ visible' = L!ShownAfter(L!Call, o)
        /\ UNCHANGED <<plan, iter, mode, lru>>
    BY <1>6 DEF L!RunTool, L!Asked
  <2>2. /\ at' \in 1..(Len(batch) + 1) /\ answers' \in [DOMAIN batch -> Nat]
        /\ pc' \in {pc, "end"} /\ batch' = batch /\ L!OneResultPerCall'
    BY <2>1, AnswersOne, CutsOff
  <2>3. visible' \subseteq L!Tools
    BY <2>1, ShownAreTools
  <2>4. recent' \in Seq(L!Tools) /\ Len(recent') <= Capacity
    <3>1. L!Call.tool \in L!Tools
      BY <2>1, CallIsTyped DEF L!Calls
    <3> QED
      BY <2>1, <3>1, TouchKeeps, TurnsAssumption DEF TalkInv, L!LoopTypeOK, L!TurnLoopAssumption
  <2> QED
    BY <2>1, <2>2, <2>3, <2>4 DEF TalkInv, L!LoopTypeOK
<1>7. CASE L!BatchDone
  <2>1. /\ pc = "calls" /\ at > Len(batch) /\ pc' = "step" /\ iter' = iter + 1
        /\ UNCHANGED <<batch, at, answers, plan, visible, recent, mode, lru>>
    BY <1>7 DEF L!BatchDone
  <2>2. iter + 1 \in 0..IterationLimit
    BY <2>1, TurnsAssumption DEF TalkInv, L!LoopTypeOK, L!TurnLoopAssumption
  <2>3. \A i \in DOMAIN batch : ~(i >= at)
    BY <2>1, TurnsAssumption DEF TalkInv, L!LoopTypeOK, L!TurnLoopAssumption
  <2> QED
    BY <2>1, <2>2, <2>3 DEF TalkInv, L!LoopTypeOK, L!OneResultPerCall
<1>8. CASE L!EndTurn \/ L!Abort
  <2>1. L!TurnOver /\ lru' \in {lru, recent}
    BY <1>8 DEF L!EndTurn, L!Abort
  <2> QED
    BY <2>1, TurnsEnd
<1> QED
  BY <1>1, <1>2, <1>3, <1>4, <1>5, <1>6, <1>7, <1>8 DEF L!LoopNext

\* A step that leaves the turn's records alone.
LEMMA RecordsKept ==
    ASSUME PolicyInv, pc' = "idle" => pc = "idle",
           UNCHANGED <<mode, ledger, runs, closed, held, misled, terminal, fellBack, plan>>
    PROVE  PolicyInv'
  BY DEF PolicyInv, CleanInv, LedgerInv, L!ToolsStayWithinPolicy, L!FallbackStaysClosed,
         L!WithinBudget, L!ExpandBudget, L!Evidence, L!OnlyRetryMisleads

\* Nothing has run yet in this turn.
LEMMA CleanKeeps ==
    ASSUME ledger' = L!EmptyLedger, runs' = [t \in L!Docs |-> 0],
           ~closed', closed' \in BOOLEAN, ~held', held' \in BOOLEAN, ~misled', misled' \in BOOLEAN,
           ~terminal', terminal' \in BOOLEAN, ~fellBack', fellBack' \in BOOLEAN
    PROVE  PolicyInv'
<1>1. /\ ledger' \in Ledgers /\ ~ledger'.hit /\ ~ledger'.chunk
      /\ ledger'.retrievals = 0 /\ ledger'.expands = 0
  BY DEF L!EmptyLedger, Ledgers
<1>2. runs' \in [L!Docs -> Nat] /\ runs'["search_docs"] = 0 /\ runs'["fetch_doc_chunk"] = 0
  BY DEF L!Docs
<1>3. L!ToolsStayWithinPolicy'
  BY <1>2 DEF L!ToolsStayWithinPolicy, L!FallbackStaysClosed,
              L!WithinBudget, L!ExpandBudget, L!OnlyRetryMisleads
<1> QED
  BY <1>1, <1>2, <1>3 DEF PolicyInv, CleanInv, LedgerInv

\* In a new run the access plan is what it was, unless the coordinator makes a new one.
LEMMA RetryKeeps == ASSUME TalkInv, PolicyInv, L!Retry PROVE PolicyInv'
<1>1. /\ plan' = plan + 1 /\ ~held' /\ held' \in BOOLEAN /\ pc' = "step"
      /\ closed' = (closed /\ ~mode.coordinated)
      /\ UNCHANGED <<mode, ledger, misled, terminal, fellBack, runs>>
  BY DEF L!Retry, L!StartRun
<1>2. plan \in Nat /\ plan >= 1
  BY TurnsAssumption DEF TalkInv, L!LoopTypeOK, L!TurnLoopAssumption
<1>3. L!ToolsStayWithinPolicy'
  BY <1>1, <1>2 DEF PolicyInv, L!ToolsStayWithinPolicy, L!FallbackStaysClosed,
                    L!WithinBudget, L!ExpandBudget, L!Evidence, L!OnlyRetryMisleads
<1> QED
  BY <1>1, <1>2, <1>3 DEF PolicyInv, CleanInv, LedgerInv

\* Whoever is told that the search is complete holds its evidence, in the first plan.
LEMMA SoftStopKeeps == ASSUME TalkInv, PolicyInv, L!SoftStop PROVE PolicyInv'
<1>1. /\ pc = "calls" /\ pc' = pc
      /\ ledger' = [ledger EXCEPT !.signal = ledger.signal \/ L!EvidenceComplete(L!Call)]
      /\ misled' = (misled \/ (L!EvidenceComplete(L!Call) /\ ~held))
      /\ UNCHANGED <<plan, held, mode, closed, terminal, fellBack, runs>>
  BY DEF L!SoftStop, L!Asked, L!Answered
<1>2. /\ ledger \in Ledgers /\ misled \in BOOLEAN /\ held \in BOOLEAN
      /\ L!EvidenceComplete(L!Call) => ledger.hit
  BY DEF PolicyInv, L!EvidenceComplete
<1>3. L!EvidenceComplete(L!Call) \in BOOLEAN
  BY DEF L!EvidenceComplete, L!Evidence
<1>4. /\ ledger' \in Ledgers /\ ledger'.hit = ledger.hit /\ ledger'.chunk = ledger.chunk
      /\ ledger'.retrievals = ledger.retrievals /\ ledger'.expands = ledger.expands
  BY <1>1, <1>2, <1>3 DEF Ledgers
<1>5. misled' \in BOOLEAN /\ (misled' => misled \/ (ledger.hit /\ ~held))
  BY <1>1, <1>2
<1>6. plan \in Nat /\ plan >= 1
  BY TurnsAssumption DEF TalkInv, L!LoopTypeOK, L!TurnLoopAssumption
<1>7. CleanInv' /\ LedgerInv'
  BY <1>1, <1>4 DEF PolicyInv, CleanInv, LedgerInv
<1>8. L!ToolsStayWithinPolicy'
  <2>1. misled' => plan > 1
    BY <1>5, <1>6 DEF PolicyInv, LedgerInv, L!ToolsStayWithinPolicy, L!OnlyRetryMisleads
  <2> QED
    BY <1>1, <2>1 DEF PolicyInv, L!ToolsStayWithinPolicy, L!FallbackStaysClosed,
                      L!WithinBudget, L!ExpandBudget, L!Evidence, L!OnlyRetryMisleads
<1> QED
  BY <1>1, <1>2, <1>4, <1>5, <1>7, <1>8 DEF PolicyInv

\* A call that passes the gate: within the budget of a turn about documents, and of no
\* local tool when the access plan is closed.
LEMMA GateHolds ==
    ASSUME mode \in L!ModeFields, closed \in BOOLEAN, L!Gate(L!Call) = "run", mode.search
    PROVE  /\ ~L!OverBudget(L!Call)
           /\ closed => L!Call.tool \notin L!Local
<1>1. L!Call.tool \notin L!Blocked(mode, closed) /\ ~L!OverBudget(L!Call)
  BY DEF L!Gate
<1> QED
  BY <1>1 DEF L!Blocked

LEMMA RunToolKeeps == ASSUME TalkInv, PolicyInv, NEW o, L!RunTool(o) PROVE PolicyInv'
<1> DEFINE c == L!Call
           reached == o \notin {"repeats", "refused"}
<1>1. /\ pc = "calls" /\ at <= Len(batch) /\ L!Gate(c) = "run" /\ o \in L!Outcomes(c)
      /\ pc' \in {"calls", "end"} /\ plan' = plan /\ mode' = mode
  BY DEF L!RunTool, L!Asked, L!Answered, L!CutOff
<1>2. /\ ledger' = IF mode.search THEN L!Recorded(c, o) ELSE ledger
      /\ closed' = (mode.search /\ (L!Refreshed \/ o = "off"))
      /\ held' = (held \/ o \in {"hits", "chunk"})
      /\ misled' = (misled \/ ((enough' /\ mode.docs # "none" /\ ~mode.localOk) /\ ~held'))
      /\ enough' = (mode.search /\ L!Sufficient(mode, ledger'))
      /\ terminal' = (terminal \/ o = "off")
      /\ fellBack' = (fellBack \/ (terminal /\ reached /\ c.tool \in L!Local))
      /\ runs' = [t \in L!Docs |-> runs[t] + IF reached /\ t = c.tool THEN 1 ELSE 0]
  BY DEF L!RunTool
<1>3. c \in L!Calls /\ c.tool \in L!Tools
  BY <1>1, CallIsTyped DEF L!Calls
<1>4. mode \in L!ModeFields /\ plan \in Nat /\ plan >= 1
  BY TurnsAssumption DEF TalkInv, L!LoopTypeOK, L!TurnLoopAssumption
<1>5. o \in {"repeats", "refused", "failed", "hits", "nothing", "off", "chunk", "done"}
  BY <1>1 DEF L!Outcomes
<1>6. mode.search => ~L!OverBudget(c) /\ (closed => c.tool \notin L!Local)
  BY <1>1, <1>4, GateHolds DEF PolicyInv
<1> HIDE DEF c
<1>7. /\ ledger \in Ledgers /\ runs \in [L!Docs -> Nat] /\ closed \in BOOLEAN /\ held \in BOOLEAN
      /\ misled \in BOOLEAN /\ terminal \in BOOLEAN /\ fellBack \in BOOLEAN
      /\ mode.search \in BOOLEAN /\ mode.coordinated \in BOOLEAN /\ mode.localOk \in BOOLEAN
  BY <1>4 DEF PolicyInv, L!ModeFields
<1>8. L!Recorded(c, o) \in Ledgers
  <2>1. {d \in {c} : d.tool \in L!Docs} \subseteq L!Calls
    BY <1>3
  <2>2. ledger.seen \cup {d \in {c} : d.tool \in L!Docs} \in SUBSET L!Calls
    BY <1>7, <2>1 DEF Ledgers
  <2>3. PICK m \in Nat : m = ledger.retrievals + IF c.tool = "search_docs" THEN 1 ELSE 0
    BY <1>7 DEF Ledgers
  <2>4. PICK n \in Nat : n = ledger.expands + IF c.tool = "fetch_doc_chunk" THEN 1 ELSE 0
    BY <1>7 DEF Ledgers
  <2>5. PICK s \in SUBSET L!Calls : s = ledger.seen \cup {d \in {c} : d.tool \in L!Docs}
    BY <2>2
  <2>6. PICK h \in BOOLEAN : h = (ledger.hit \/ o = "hits")
    BY <1>7 DEF Ledgers
  <2>7. PICK k \in BOOLEAN : k = (ledger.chunk \/ o = "chunk")
    BY <1>7 DEF Ledgers
  <2>8. L!Recorded(c, o) = [ledger EXCEPT !.retrievals = m, !.expands = n, !.seen = s,
                                          !.hit = h, !.chunk = k]
    BY <2>3, <2>4, <2>5, <2>6, <2>7, Zenon DEF L!Recorded
  <2> QED
    BY <1>7, <2>8 DEF Ledgers
<1>9. /\ L!Recorded(c, o).retrievals = ledger.retrievals + IF c.tool = "search_docs" THEN 1 ELSE 0
      /\ L!Recorded(c, o).expands = ledger.expands + IF c.tool = "fetch_doc_chunk" THEN 1 ELSE 0
      /\ L!Recorded(c, o).hit = (ledger.hit \/ o = "hits")
      /\ L!Recorded(c, o).chunk = (ledger.chunk \/ o = "chunk")
  BY <1>7 DEF L!Recorded, Ledgers
<1>10. /\ runs' \in [L!Docs -> Nat]
       /\ runs'["search_docs"] = runs["search_docs"]
                                 + IF reached /\ c.tool = "search_docs" THEN 1 ELSE 0
       /\ runs'["fetch_doc_chunk"] = runs["fetch_doc_chunk"]
                                     + IF reached /\ c.tool = "fetch_doc_chunk" THEN 1 ELSE 0
  BY <1>2, <1>7 DEF L!Docs
<1>11. mode.search => /\ runs'["search_docs"] <= ledger'.retrievals
                      /\ runs'["fetch_doc_chunk"] <= ledger'.expands
  BY <1>2, <1>7, <1>9, <1>10 DEF PolicyInv, LedgerInv, Ledgers, L!Docs
<1>12. (terminal' /\ mode.search /\ ~mode.coordinated) => closed'
  BY <1>2, <1>7 DEF PolicyInv, LedgerInv, L!Refreshed
<1>13. (plan = 1 /\ (ledger'.hit \/ ledger'.chunk)) => held'
  BY <1>2, <1>7, <1>9 DEF PolicyInv, LedgerInv
<1>14. (fellBack' /\ mode.search) => mode.coordinated
  BY <1>2, <1>6, <1>7
     DEF PolicyInv, LedgerInv, L!ToolsStayWithinPolicy, L!FallbackStaysClosed
<1>15. (mode.search /\ mode.docs # "none") =>
           runs'["search_docs"] <= 1 /\ runs'["fetch_doc_chunk"] <= L!ExpandBudget
  <2> SUFFICES ASSUME mode.search, mode.docs # "none"
               PROVE  runs'["search_docs"] <= 1 /\ runs'["fetch_doc_chunk"] <= L!ExpandBudget
    OBVIOUS
  <2>1. /\ c.tool = "search_docs" => ~(ledger.retrievals >= 1)
        /\ c.tool = "fetch_doc_chunk" => ~(ledger.expands >= L!ExpandBudget)
    BY <1>6 DEF L!OverBudget
  <2>2. /\ runs["search_docs"] <= 1 /\ runs["fetch_doc_chunk"] <= L!ExpandBudget
        /\ runs["search_docs"] <= ledger.retrievals /\ runs["fetch_doc_chunk"] <= ledger.expands
    BY DEF PolicyInv, LedgerInv, L!ToolsStayWithinPolicy, L!WithinBudget
  <2>3. L!ExpandBudget \in Nat
    BY DEF L!ExpandBudget
  <2>4. /\ runs["search_docs"] \in Nat /\ runs["fetch_doc_chunk"] \in Nat
        /\ ledger.retrievals \in Nat /\ ledger.expands \in Nat
    BY <1>7 DEF L!Docs, Ledgers
  <2> QED
    BY <1>10, <2>1, <2>2, <2>3, <2>4
<1>16. misled' => plan > 1
  <2>1. enough' => ledger'.hit
    BY <1>2 DEF L!Sufficient
  <2> QED
    BY <1>2, <1>4, <1>13, <2>1 DEF PolicyInv, L!ToolsStayWithinPolicy, L!OnlyRetryMisleads
<1>17. /\ closed' \in BOOLEAN /\ held' \in BOOLEAN /\ misled' \in BOOLEAN
       /\ terminal' \in BOOLEAN /\ fellBack' \in BOOLEAN /\ ledger' \in Ledgers
  BY <1>2, <1>7, <1>8
<1>18. L!ToolsStayWithinPolicy'
  BY <1>1, <1>14, <1>15, <1>16
     DEF L!ToolsStayWithinPolicy, L!FallbackStaysClosed, L!WithinBudget, L!ExpandBudget,
         L!Evidence, L!OnlyRetryMisleads
<1> QED
  BY <1>1, <1>10, <1>11, <1>12, <1>13, <1>17, <1>18 DEF PolicyInv, CleanInv, LedgerInv

LEMMA PolicyStep == ASSUME TalkInv, PolicyInv, L!LoopNext PROVE PolicyInv'
<1>1. ASSUME NEW m \in Modes, L!Begin(m) PROVE PolicyInv'
  BY <1>1, CleanKeeps DEF L!Begin, L!StartRun, PolicyInv, CleanInv
<1>2. CASE \/ L!Step \/ L!StopsEarly \/ L!ModelAnswers \/ L!Refuse \/ L!NotLoaded \/ L!BatchDone
           \/ \E b \in Batches : L!ModelCalls(b)
  <2>1. /\ pc' # "idle"
        /\ UNCHANGED <<mode, ledger, runs, closed, held, misled, terminal, fellBack, plan>>
    BY <1>2 DEF L!Step, L!StopsEarly, L!ModelAnswers, L!Refuse, L!NotLoaded, L!BatchDone,
                L!ModelCalls, L!Asked, L!Answered, L!CutOff, L!inRun, L!inTurn
  <2> QED
    BY <2>1, RecordsKept
<1>3. CASE L!EndTurn \/ L!Abort
  BY <1>3, CleanKeeps DEF L!EndTurn, L!Abort, L!TurnOver
<1> QED
  BY <1>1, <1>2, <1>3, RetryKeeps, SoftStopKeeps, RunToolKeeps DEF L!LoopNext

\* The loop runs in part "loop" only, from its start.
LEMMA LoopPart == TurnsSpec => [](TalkInv /\ PolicyInv)
<1>1. ASSUME TurnsInit PROVE TalkInv /\ PolicyInv
  <2>1. L!LoopInit
    BY <1>1 DEF TurnsInit
  <2>2. /\ IterationLimit \in Nat /\ 0 \in 0..IterationLimit /\ 1 \in 1..Plans
        /\ Capacity \in Nat
    BY TurnsAssumption DEF L!TurnLoopAssumption
  <2>3. Len(batch) = 0 /\ DOMAIN batch = {} /\ answers \in [DOMAIN batch -> Nat]
    BY <2>1 DEF L!LoopInit
  <2>4. TalkInv
    BY <2>1, <2>2, <2>3 DEF L!LoopInit, TalkInv, L!LoopTypeOK, L!OneResultPerCall
  <2>5. /\ ledger \in Ledgers /\ ~ledger.hit /\ ~ledger.chunk
        /\ ledger.retrievals = 0 /\ ledger.expands = 0
    BY <2>1 DEF L!LoopInit, L!EmptyLedger, Ledgers
  <2>6. runs \in [L!Docs -> Nat] /\ runs["search_docs"] = 0 /\ runs["fetch_doc_chunk"] = 0
    BY <2>1 DEF L!LoopInit, L!Docs
  <2>7. L!ToolsStayWithinPolicy
    BY <2>1, <2>6 DEF L!LoopInit, L!ToolsStayWithinPolicy, L!FallbackStaysClosed,
                      L!WithinBudget, L!ExpandBudget, L!OnlyRetryMisleads
  <2>8. CleanInv /\ LedgerInv
    BY <2>1, <2>5, <2>6 DEF L!LoopInit, CleanInv, LedgerInv
  <2> QED
    BY <2>1, <2>4, <2>5, <2>6, <2>7, <2>8 DEF L!LoopInit, PolicyInv
<1>2. ASSUME TalkInv /\ PolicyInv, [TurnsNext]_<<part, allVars, loopVars, contextVars>>
      PROVE  (TalkInv /\ PolicyInv)'
  <2>1. CASE L!LoopNext
    BY <1>2, <2>1, TalkStep, PolicyStep
  <2>2. CASE UNCHANGED loopVars
    <3>1. UNCHANGED <<pc, batch, at, answers, plan, iter, visible, recent, held, mode, ledger,
                      closed, misled, terminal, fellBack, runs, lru>>
      BY <2>2 DEF loopVars
    <3>2. TalkInv'
      BY <1>2, <3>1 DEF TalkInv, L!LoopTypeOK, L!OneResultPerCall
    <3>3. PolicyInv'
      BY <1>2, <3>1, RecordsKept
    <3> QED
      BY <3>2, <3>3
  <2> QED
    BY <1>2, <2>1, <2>2 DEF TurnsNext
<1> QED
  BY <1>1, <1>2, PTL DEF TurnsSpec

\* Whatever the gates, the executor, the guard and a retry do with the calls of an answer,
\* each has exactly one result when the model sees it next, for any batches and limits
\* (agent/core/passive_turn.py run).
THEOREM CallsStayAnswered == TurnsSpec => []CallsAreAnswered
<1>1. TalkInv => CallsAreAnswered
  BY DEF TalkInv, CallsAreAnswered, L!CallsAreAnswered
<1> QED
  BY <1>1, LoopPart, PTL

\* What a document tool has closed stays closed, documents are searched and read within the
\* budget of the turn, and nobody is sent to answer from evidence that is not there, but
\* in a later plan (agent/policies, passive_turn.py _observe_tool_result).
THEOREM PoliciesHold == TurnsSpec => []ToolsStayWithinPolicy
<1>1. PolicyInv => ToolsStayWithinPolicy
  BY DEF PolicyInv, ToolsStayWithinPolicy
<1> QED
  BY <1>1, LoopPart, PTL

-------------------------------------------------------------------------------
(* The context of tools *)

\* A turn that reasons undisturbed finds its own chat and message in the context.
OwnContext(u) ==
    /\ context.chat = Chats[u]
    /\ Kinds[u] # "completion" => context.source = u

ContextInv ==
    /\ X!ToolContextTypeOK /\ X!OnlyOverlapsMislead
    /\ \A u \in DOMAIN Kinds : (place[u] = "reasoning" /\ u \notin disturbed) => OwnContext(u)

LEMMA UpdateIsOwn ==
    ASSUME X!ToolContextTypeOK, NEW t \in DOMAIN Kinds, context' = X!Updated(t)
    PROVE  context' \in X!Context /\ OwnContext(t)'
<1>1. context \in X!Context /\ context.source \in X!Identity /\ t \in X!Identity
  BY DEF X!ToolContextTypeOK, X!Context, X!Identity
<1>2. Chats[t] \in {Chats[u] : u \in DOMAIN Kinds} \cup {X!None}
  OBVIOUS
<1>3. PICK s \in X!Identity : s = IF Kinds[t] = "completion" THEN context.source ELSE t
  BY <1>1
<1>4. context' = [chat |-> Chats[t], source |-> s]
  BY <1>3 DEF X!Updated
<1> QED
  BY <1>2, <1>3, <1>4 DEF X!Context, OwnContext

LEMMA ContextStep == ASSUME ContextInv, [X!ContextNext]_contextVars PROVE ContextInv'
<1>0. /\ place \in [DOMAIN Kinds -> {"waiting", "begun", "reasoning", "over"}]
      /\ context \in X!Context /\ disturbed \subseteq DOMAIN Kinds
      /\ calls \subseteq [turn : DOMAIN Kinds, identity : X!Identity, context : X!Context]
  BY DEF ContextInv, X!ToolContextTypeOK
<1>1. ASSUME UNCHANGED <<context, calls, disturbed>>,
             place' \in [DOMAIN Kinds -> {"waiting", "begun", "reasoning", "over"}],
             \A u \in DOMAIN Kinds : place'[u] = "reasoning" => place[u] = "reasoning"
      PROVE  ContextInv'
  BY <1>1 DEF ContextInv, OwnContext, X!ToolContextTypeOK, X!OnlyOverlapsMislead
<1>2. ASSUME NEW t \in DOMAIN Kinds, X!BeginTurn(t) \/ X!EndTurn(t) PROVE ContextInv'
  <2>1. /\ UNCHANGED <<context, calls, disturbed>>
        /\ \/ place' = [place EXCEPT ![t] = "begun"]
           \/ place' = [place EXCEPT ![t] = "over"]
    BY <1>2 DEF X!BeginTurn, X!EndTurn
  <2> QED
    BY <1>0, <1>1, <2>1
<1>3. ASSUME NEW t \in DOMAIN Kinds, X!SetContext(t) PROVE ContextInv'
  <2>1. /\ place[t] = "begun" /\ place' = [place EXCEPT ![t] = "reasoning"]
        /\ disturbed' = disturbed \cup {u \in DOMAIN Kinds : place[u] = "reasoning"}
        /\ context' = X!Updated(t) /\ calls' = calls
    BY <1>3 DEF X!SetContext
  <2>2. context' \in X!Context /\ OwnContext(t)'
    BY <2>1, UpdateIsOwn DEF ContextInv
  <2>3. X!ToolContextTypeOK'
    BY <1>0, <2>1, <2>2 DEF X!ToolContextTypeOK
  <2>4. X!OnlyOverlapsMislead'
    BY <2>1 DEF ContextInv, X!OnlyOverlapsMislead
  <2>5. ASSUME NEW u \in DOMAIN Kinds, place'[u] = "reasoning", u \notin disturbed'
        PROVE  OwnContext(u)'
    BY <1>0, <2>1, <2>2, <2>5
  <2> QED
    BY <2>3, <2>4, <2>5 DEF ContextInv
<1>4. ASSUME NEW t \in DOMAIN Kinds, X!CallTool(t) PROVE ContextInv'
  <2>1. PICK i \in {t, X!None} : calls' = calls \cup {[turn |-> t, identity |-> i, context |-> context]}
    BY <1>4 DEF X!CallTool
  <2>2. place[t] = "reasoning" /\ UNCHANGED <<context, place, disturbed>>
    BY <1>4 DEF X!CallTool
  <2>3. i \in X!Identity
    BY DEF X!Identity
  <2>4. X!ToolContextTypeOK'
    BY <1>0, <2>1, <2>2, <2>3 DEF X!ToolContextTypeOK
  <2>5. t \notin disturbed => OwnContext(t)
    BY <2>2 DEF ContextInv
  <2>6. X!OnlyOverlapsMislead'
    BY <2>1, <2>2, <2>5 DEF ContextInv, X!OnlyOverlapsMislead, OwnContext
  <2> QED
    BY <2>2, <2>4, <2>6 DEF ContextInv, OwnContext
<1>5. CASE UNCHANGED contextVars
  BY <1>0, <1>1, <1>5 DEF contextVars
<1> QED
  BY <1>2, <1>3, <1>4, <1>5 DEF X!ContextNext

\* Only a turn that writes the context while another reasons can mislead a tool: what a
\* finished turn has left there is never used, and the identity passed with a call is
\* its turn's (agent/tools/registry.py set_context, execute).
THEOREM ContextStaysOwn == TurnsSpec => []ContextIsOfItsTurn
<1>1. ASSUME TurnsInit PROVE ContextInv
  <2>1. /\ context = [chat |-> X!None, source |-> X!None] /\ calls = {} /\ disturbed = {}
        /\ place = [u \in DOMAIN Kinds |-> "waiting"]
    BY <1>1 DEF TurnsInit, X!ContextInit
  <2>2. context \in X!Context
    BY <2>1 DEF X!Context, X!Identity
  <2> QED
    BY <2>1, <2>2 DEF ContextInv, X!ToolContextTypeOK, X!OnlyOverlapsMislead
<1>2. ASSUME ContextInv, [TurnsNext]_<<part, allVars, loopVars, contextVars>> PROVE ContextInv'
  BY <1>2, ContextStep DEF TurnsNext
<1>3. ContextInv => ContextIsOfItsTurn
  BY DEF ContextInv, ContextIsOfItsTurn
<1> QED
  BY <1>1, <1>2, <1>3, PTL DEF TurnsSpec
===============================================================================
