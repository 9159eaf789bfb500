---------------------------- MODULE TaskTurnProofs ----------------------------
(***************************************************************************)
(* Machine-checked proofs about TaskTurn, for any number of sessions,      *)
(* tasks, messages, attempts and processes: the running agent uses the     *)
(* store as the store means to be used, no turn of a live process leaves   *)
(* its attempt running, and no step is reported as done without evidence.  *)
(***************************************************************************)
EXTENDS TaskTurn, TaskStoreProofs

\* Whoever owns an attempt has run; one process at a time unless they may overlap.
ProcessInv ==
    /\ \A a \in Rows : attempts[a].owner \in booted
    /\ ~Overlap => \A i, j \in alive : i = j

\* What a turn saw of its attempt has not been taken back.
PastOf(u) ==
    \A a \in turn[u].mine :
        /\ turn[u].seen \in Terminal => attempts[a].status = turn[u].seen
        /\ turn[u].seen = "waiting_authorization" =>
              attempts[a].status \in {"waiting_authorization", "succeeded", "cancelled"}
        /\ turn[u].seen = "running" => attempts[a].status # "pending"

\* What one turn remembers: nothing before it begins and after it ends; in between, the
\* attempt of its own request or none, and none while the begin tool runs.
TurnOK(u) ==
    IF Open(u)
    THEN /\ turn[u].inst \in alive
         /\ turn[u].mine \subseteq Request(u)
         /\ turn[u].mine = {} <=> turn[u].seen = "nothing"
         /\ turn[u].phase = "begin" => turn[u].mine = {}
         /\ PastOf(u)
    ELSE turn[u].mine = {} /\ turn[u].seen = "nothing"

\* The turn that drives a running attempt knows that it is its own.
Drives(u, a) == DrivenBy(a, u) /\ a \in turn[u].mine

DriveInv ==
    \A a \in Rows : (attempts[a].status = "running" /\ attempts[a].owner \in alive) =>
        \E u \in Turns : Drives(u, a)

\* The inductive invariant.
TurnInv ==
    /\ StoreInv /\ TurnTypeOK /\ ProcessInv
    /\ \A u \in Turns : TurnOK(u)
    /\ DriveInv /\ SuccessHasEvidence /\ NothingOfTheDead

-------------------------------------------------------------------------------
(* What turns do to the store *)

\* The transactions that the running agent makes, and on whose behalf.
Claiming(u, a) == Open(u) /\ ClaimNow(u, a)

Adopting(u, a) ==
    /\ turn[u].phase = "begin" /\ a \in Request(u) /\ Start(a, turn[u].inst)
    /\ turn' = [turn EXCEPT ![u] = [turn[u] EXCEPT !.phase = "model", !.mine = {a},
                                                  !.seen = "running"]]

Writing(a, i) ==
    \/ \E type \in ToolEvents : AppendEvent(a, i, type)
    \/ \E success \in BOOLEAN : Finalize(a, i, success) /\ (success => HasWork(a))
    \/ \E reason \in BlockReasons : Block(a, i, reason)
    \/ \E asks \in {"file", "other"} : Defer(a, i, asks)

StoreMove ==
    \/ UNCHANGED vars
    \/ \E u \in Turns, a \in Attempts : Claiming(u, a)
    \/ \E u \in Turns, a \in Rows : Adopting(u, a)
    \/ \E a \in Rows, i \in Instances : Writing(a, i)
    \/ \E a \in Rows : Abort(a) \/ LeaseLapses(a)
    \/ \E a \in Rows, i \in alive : CompleteAuthorized(a, i)
    \/ \E i \in Instances, ks \in {Sessions} \cup {{k} : k \in Sessions} : Reconcile(i, ks)
    \/ \E t \in Tasks, replace \in BOOLEAN : CreatePlan(t, replace)
    \/ \E s \in Steps, status \in ManualStatuses : UpdateStep(s, status)

\* What the constants and the types say of a turn.
LEMMA TurnTypes ==
    ASSUME TurnTypeOK, NEW u \in Turns
    PROVE  /\ turn[u] \in Turn /\ turn[u].inst \in Instances /\ turn[u].mine \subseteq Rows
           /\ TurnSession[u] \in Sessions /\ TurnRequest[u] \in Requests
           /\ {TurnSession[u]} \in {Sessions} \cup {{k} : k \in Sessions}
BY TurnAssumption DEF TurnTypeOK, Turn

\* Settling blocks an attempt or reconciles the session.
LEMMA SettleMoves ==
    ASSUME TurnTypeOK, NEW u \in Turns, Settle(u)
    PROVE  StoreMove
<1>1. CASE UNCHANGED vars
  BY <1>1 DEF StoreMove
<1>2. ASSUME NEW a, Block(a, turn[u].inst, "outcome_unknown") PROVE StoreMove
  <2>1. a \in Rows /\ turn[u].inst \in Instances /\ "outcome_unknown" \in BlockReasons
    BY <1>2, TurnTypes DEF Block, Holds, BlockReasons, RetryableBlockReasons
  <2> QED
    BY <1>2, <2>1 DEF StoreMove, Writing
<1>3. CASE Reconcile(turn[u].inst, {TurnSession[u]})
  BY <1>3, TurnTypes DEF StoreMove
<1> QED
  BY <1>1, <1>2, <1>3 DEF Settle

LEMMA FailMoves ==
    ASSUME TurnTypeOK, NEW u \in Turns, FailAttempt(u)
    PROVE  StoreMove
<1> PICK a \in turn[u].mine :
        IF Holds(turn[u].inst, a) /\ attempts[a].status = "running"
        THEN Finalize(a, turn[u].inst, FALSE) ELSE Settle(u)
  BY DEF FailAttempt, Raise
<1>1. CASE Finalize(a, turn[u].inst, FALSE)
  BY <1>1, TurnTypes DEF StoreMove, Writing
<1>2. CASE Settle(u)
  BY <1>2, SettleMoves
<1> QED
  BY <1>1, <1>2

\* Every step of a turn, of a process or from outside makes one of these moves.
LEMMA Moves == ASSUME TurnTypeOK, TurnNext PROVE StoreMove
<1>1. ASSUME NEW u \in Turns, Drive(u) PROVE StoreMove
  <2>0. /\ turn[u].inst \in Instances /\ turn[u].mine \subseteq Rows
        /\ {TurnSession[u]} \in {Sessions} \cup {{k} : k \in Sessions}
    BY TurnTypes
  <2>1. CASE Begin(u)
    <3>1. Open(u)
      BY <2>1 DEF Begin, Answered, Open, Awaiting
    <3> QED
      BY <2>1, <3>1 DEF Begin, Claiming, StoreMove
  <2>2. CASE Adopt(u)
    <3>1. CASE Raise(u)
      BY <3>1, SettleMoves DEF Raise
    <3>2. CASE UNCHANGED vars
      BY <3>2 DEF StoreMove
    <3>3. ASSUME NEW a \in Request(u), Start(a, turn[u].inst),
                 Remember(u, [turn[u] EXCEPT !.phase = "model", !.mine = {a}, !.seen = "running"])
          PROVE  StoreMove
      BY <2>2, <3>3 DEF Adopt, Adopting, Remember, StoreMove, Request, Replays
    <3> QED
      BY <2>2, <3>1, <3>2, <3>3 DEF Adopt
  <2>3. CASE NotCommitted(u)
    BY <2>3 DEF NotCommitted, StoreMove, vars
  <2>4. CASE StartTool(u)
    <3>1. CASE Raise(u)
      BY <3>1, SettleMoves DEF Raise
    <3>2. ASSUME NEW a \in turn[u].mine, AppendEvent(a, turn[u].inst, "tool_event")
          PROVE  StoreMove
      BY <2>0, <3>2 DEF StoreMove, Writing, ToolEvents
    <3> QED
      BY <2>4, <3>1, <3>2 DEF StartTool
  <2>5. ASSUME NEW type \in ToolEvents, EndWork(u, type) PROVE StoreMove
    <3>1. ASSUME NEW a \in turn[u].mine, AppendEvent(a, turn[u].inst, type)
          PROVE  StoreMove
      BY <2>0, <3>1 DEF StoreMove, Writing
    <3>2. CASE Reconcile(turn[u].inst, {TurnSession[u]})
      BY <2>0, <3>2 DEF StoreMove
    <3> QED
      BY <2>5, <3>1, <3>2 DEF EndWork
  <2>6. ASSUME NEW success \in BOOLEAN, EndFinish(u, success) PROVE StoreMove
    BY <2>0, <2>6 DEF EndFinish, StoreMove, Writing
  <2>7. CASE EndDefer(u)
    BY <2>0, <2>7 DEF EndDefer, StoreMove, Writing
  <2>8. CASE EndAbort(u)
    BY <2>0, <2>8 DEF EndAbort, StoreMove
  <2>9. CASE AbortAsked(u)
    <3>1. PICK a : Abort(a) /\ a \in Rows
      BY <2>9 DEF AbortAsked, Abort
    <3> QED
      BY <3>1 DEF StoreMove
  <2>10. ASSUME NEW asks \in {"file", "other"}, DeferOrBlock(u, asks) PROVE StoreMove
    <3>1. CASE Raise(u)
      BY <3>1, SettleMoves DEF Raise
    <3>2. ASSUME NEW a \in turn[u].mine, Defer(a, turn[u].inst, asks) PROVE StoreMove
      BY <2>0, <3>2 DEF StoreMove, Writing
    <3>3. ASSUME NEW a \in turn[u].mine, Block(a, turn[u].inst, "defer_persistence_failed")
          PROVE  StoreMove
      BY <2>0, <3>3 DEF StoreMove, Writing, BlockReasons
    <3>4. CASE UNCHANGED vars
      BY <3>4 DEF StoreMove
    <3> QED
      BY <2>10, <3>1, <3>2, <3>3, <3>4 DEF DeferOrBlock, vars
  <2>11. CASE FailAtBoundary(u)
    BY <2>11, FailMoves DEF FailAtBoundary
  <2>12. CASE Final(u)
    <3>1. CASE ReturnAccepted(u)
      BY <3>1, SettleMoves DEF ReturnAccepted, StoreMove
    <3>2. CASE FailAttempt(u)
      BY <3>2, FailMoves
    <3>3. CASE UNCHANGED vars
      BY <3>3 DEF StoreMove
    <3> QED
      BY <2>12, <3>1, <3>2, <3>3 DEF Final
  <2>13. CASE MaxIterations(u)
    BY <2>13, FailMoves, SettleMoves DEF MaxIterations, Raise
  <2>14. CASE Interrupt(u)
    BY <2>14, SettleMoves DEF Interrupt, Raise
  <2> QED
    BY <1>1, <2>1, <2>2, <2>3, <2>4, <2>5, <2>6, <2>7, <2>8, <2>9, <2>10, <2>11, <2>12, <2>13,
       <2>14 DEF Drive
<1>2. ASSUME NEW u \in Turns, Arrive(u) PROVE StoreMove
  <2>1. PICK i \in alive, intent \in {"chat", "continue", "retry", "abort"} : Prepare(u, i, intent)
    BY <1>2 DEF Arrive
  <2>2. i \in Instances
    BY DEF TurnTypeOK
  <2>3. UNCHANGED vars \/ Reconcile(i, {TurnSession[u]})
    BY <2>1 DEF Prepare
  <2> QED
    BY <2>2, <2>3, TurnTypes DEF StoreMove
<1>3. ASSUME NEW i \in Instances, Boot(i) \/ Crash(i) PROVE StoreMove
  BY <1>3 DEF Boot, Crash, StoreMove
<1>4. CASE Outside
  BY <1>4 DEF Outside, StoreMove
<1> QED
  BY <1>1, <1>2, <1>3, <1>4 DEF TurnNext

\* They are transactions of the store.
LEMMA MovesAreSteps == ASSUME TurnTypeOK, \A u \in Turns : TurnOK(u), StoreMove PROVE [Next]_vars
<1>1. ASSUME NEW u \in Turns, NEW a \in Attempts, Claiming(u, a) PROVE Claim
  <2>0. /\ turn[u].inst \in Instances /\ TurnSession[u] \in Sessions /\ TurnRequest[u] \in Requests
    BY TurnTypes
  <2>1. ASSUME NEW t, NEW s \in NextStep(t),
               ClaimFresh(a, s, TurnSession[u], TurnRequest[u], turn[u].inst)
        PROVE  Claim
    BY <2>0, <2>1 DEF NextStep, StepsOf, Claim
  <2>2. ASSUME NEW t, NEW s \in turn[u].target \cap StepsOf(t), NEW b \in Latest(s),
               ClaimRetry(a, b, s, TurnSession[u], TurnRequest[u], turn[u].inst)
        PROVE  Claim
    BY <2>0, <2>2 DEF StepsOf, Latest, OnStep, Claim
  <2> QED
    BY <1>1, <2>1, <2>2 DEF Claiming, ClaimNow
<1>2. ASSUME NEW u \in Turns, NEW a \in Rows, Adopting(u, a) PROVE OwnerWrite
  BY <1>2, TurnTypes DEF Adopting, OwnerWrite
<1>3. ASSUME NEW a \in Rows, NEW i \in Instances, Writing(a, i) PROVE OwnerWrite
  BY <1>3 DEF Writing, OwnerWrite
<1>4. ASSUME NEW a \in Rows, Abort(a) \/ LeaseLapses(a) PROVE OtherWrite
  BY <1>4 DEF OtherWrite
<1>5. ASSUME NEW a \in Rows, NEW i \in alive, CompleteAuthorized(a, i) PROVE OtherWrite
  BY <1>5 DEF OtherWrite, TurnTypeOK
<1>6. ASSUME NEW i \in Instances, NEW ks \in {Sessions} \cup {{k} : k \in Sessions},
             Reconcile(i, ks)
      PROVE  OtherWrite
  BY <1>6 DEF OtherWrite
<1>7. ASSUME NEW t \in Tasks, NEW replace \in BOOLEAN, CreatePlan(t, replace) PROVE PlanWrite
  BY <1>7 DEF PlanWrite
<1>8. ASSUME NEW s \in Steps, NEW status \in ManualStatuses, UpdateStep(s, status)
      PROVE  PlanWrite
  BY <1>8 DEF PlanWrite
<1> QED
  BY <1>1, <1>2, <1>3, <1>4, <1>5, <1>6, <1>7, <1>8 DEF StoreMove, Next
-------------------------------------------------------------------------------
(* What a step does to one attempt *)

\* An attempt keeps its place and its log only grows.
Kept(b) ==
    /\ b \in DOMAIN attempts'
    /\ attempts'[b].session = attempts[b].session
    /\ attempts'[b].request = attempts[b].request
    /\ \A n \in 1..Len(events[b]) :
          n \in 1..Len(events'[b]) /\ events'[b][n] = events[b][n]

\* Its status moves along the edges the turns use, each for its own reason.
Story(b) ==
    LET before == attempts[b].status
        after == attempts'[b].status
        sameOwner == attempts'[b].owner = attempts[b].owner
    IN  \/ attempts'[b] = attempts[b]
        \/ sameOwner /\ before \in Dispatched /\ after = before
        \/ sameOwner /\ before = "pending" /\ after = "running"
             /\ \E u \in Turns : Adopting(u, b)
        \/ sameOwner /\ before = "running" /\ after = "succeeded" /\ HasWork(b)
        \/ sameOwner /\ before \in Dispatched
             /\ after \in {"failed", "blocked", "waiting_authorization"}
        \/ sameOwner /\ before \in Unsettled /\ after = "cancelled"
        \/ /\ attempts'[b].owner \in alive /\ before = "waiting_authorization"
           /\ after = "succeeded" /\ attempts'[b].asks = "file"

LEMMA AppendKeeps ==
    ASSUME NEW T, NEW log \in Seq(T), NEW e
    PROVE  \A n \in 1..Len(log) :
              n \in 1..Len(Append(log, e)) /\ Append(log, e)[n] = log[n]
OBVIOUS

LEMMA ConcatKeeps ==
    ASSUME NEW T, NEW log \in Seq(T), NEW d, NEW e
    PROVE  \A n \in 1..Len(log) :
              n \in 1..Len(log \o <<d, e>>) /\ (log \o <<d, e>>)[n] = log[n]
OBVIOUS

\* What is left alone is kept.
LEMMA UntouchedStory ==
    ASSUME NEW b \in Rows, b \in DOMAIN attempts',
           attempts'[b] = attempts[b], events'[b] = events[b]
    PROVE  Kept(b) /\ Story(b)
BY DEF Kept, Story

\* So is what one write logs.
LEMMA LoggedKept ==
    ASSUME TypeOK, NEW a \in Rows, NEW type, Log(a, type), DOMAIN attempts' = Rows,
           attempts'[a].session = attempts[a].session,
           attempts'[a].request = attempts[a].request
    PROVE  Kept(a)
<1>1. events[a] \in Seq(EventType) /\ events'[a] = Append(events[a], type)
  BY DEF TypeOK, Rows, Log
<1>2. \A n \in 1..Len(events[a]) :
         n \in 1..Len(Append(events[a], type)) /\ Append(events[a], type)[n] = events[a][n]
  BY <1>1, AppendKeeps
<1> QED
  BY <1>1, <1>2 DEF Kept, Rows

\* The write of one row leaves the other rows as they were.
LEMMA OthersUntouched ==
    ASSUME TypeOK, NEW a \in Rows, NEW b \in Rows, b # a,
           \/ \E u \in Turns : Adopting(u, a)
           \/ \E i \in Instances : Writing(a, i)
           \/ Abort(a) \/ LeaseLapses(a)
           \/ \E i \in alive : CompleteAuthorized(a, i)
    PROVE  Kept(b) /\ Story(b)
<1>0. DOMAIN events = Rows
  BY DEF TypeOK, Rows
<1>1. b \in DOMAIN attempts' /\ attempts'[b] = attempts[b]
  BY DEF Adopting, Writing, Start, AppendEvent, Finalize, Block, Defer, Abort, LeaseLapses,
         CompleteAuthorized, SetRow, Rows
<1>2. events'[b] = events[b]
  BY <1>0 DEF Adopting, Writing, Start, AppendEvent, Finalize, Block, Defer, Abort, LeaseLapses,
         CompleteAuthorized, Log
<1> QED
  BY <1>1, <1>2, UntouchedStory

LEMMA WrittenStory ==
    ASSUME TypeOK, NEW a \in Rows, NEW i \in Instances, Writing(a, i)
    PROVE  Kept(a) /\ Story(a)
<1>0. attempts[a] \in Row /\ a \in DOMAIN attempts /\ attempts[a].status \in Unsettled \cup Terminal
  BY DEF TypeOK, Rows, Row
<1>1. ASSUME NEW type \in ToolEvents, AppendEvent(a, i, type) PROVE Kept(a) /\ Story(a)
  <2>1. attempts' = attempts /\ Log(a, type)
    BY <1>1 DEF AppendEvent
  <2> QED
    BY <2>1, LoggedKept DEF Story, Rows
<1>2. ASSUME NEW success \in BOOLEAN, Finalize(a, i, success), success => HasWork(a)
      PROVE  Kept(a) /\ Story(a)
  <2> DEFINE row == [attempts[a] EXCEPT !.status = IF success THEN "succeeded" ELSE "failed"]
  <2>1. /\ attempts[a].status = "running" /\ SetRow(a, row)
        /\ Log(a, IF success THEN "attempt_succeeded" ELSE "attempt_failed")
    BY <1>2 DEF Finalize
  <2>2. DOMAIN attempts' = Rows /\ attempts'[a] = row
    BY <1>0, <2>1 DEF SetRow, Rows
  <2>3. /\ row.session = attempts[a].session /\ row.request = attempts[a].request
        /\ row.owner = attempts[a].owner
        /\ row.status = IF success THEN "succeeded" ELSE "failed"
    BY <1>0 DEF Row
  <2>4. Kept(a)
    BY <2>1, <2>2, <2>3, LoggedKept
  <2> HIDE DEF row
  <2>5. CASE success
    <3>1. attempts'[a].status = "succeeded" /\ attempts'[a].owner = attempts[a].owner
      BY <2>2, <2>3, <2>5
    <3> QED
      BY <1>2, <2>1, <2>4, <2>5, <3>1 DEF Story
  <2>6. CASE ~success
    <3>1. attempts'[a].status = "failed" /\ attempts'[a].owner = attempts[a].owner
      BY <2>2, <2>3, <2>6
    <3> QED
      BY <2>1, <2>4, <3>1 DEF Story, Dispatched
  <2> QED
    BY <2>4, <2>5, <2>6
<1>3. ASSUME NEW reason \in BlockReasons, Block(a, i, reason) PROVE Kept(a) /\ Story(a)
  <2> DEFINE row == [attempts[a] EXCEPT !.status = "blocked", !.reason = reason]
  <2>1. attempts[a].status \in Dispatched /\ SetRow(a, row) /\ Log(a, "attempt_blocked")
    BY <1>3 DEF Block
  <2>2. DOMAIN attempts' = Rows /\ attempts'[a] = row
    BY <1>0, <2>1 DEF SetRow, Rows
  <2>3. /\ row.session = attempts[a].session /\ row.request = attempts[a].request
        /\ row.owner = attempts[a].owner /\ row.status = "blocked"
    BY <1>0 DEF Row
  <2> QED
    BY <2>1, <2>2, <2>3, LoggedKept DEF Story
<1>4. ASSUME NEW asks \in {"file", "other"}, Defer(a, i, asks) PROVE Kept(a) /\ Story(a)
  <2> DEFINE row == [attempts[a] EXCEPT !.status = "waiting_authorization", !.asks = asks]
  <2>1. attempts[a].status \in Dispatched /\ SetRow(a, row) /\ Log(a, "authorization_deferred")
    BY <1>4 DEF Defer
  <2>2. DOMAIN attempts' = Rows /\ attempts'[a] = row
    BY <1>0, <2>1 DEF SetRow, Rows
  <2>3. /\ row.session = attempts[a].session /\ row.request = attempts[a].request
        /\ row.owner = attempts[a].owner /\ row.status = "waiting_authorization"
    BY <1>0 DEF Row
  <2> QED
    BY <2>1, <2>2, <2>3, LoggedKept DEF Story
<1> QED
  BY <1>1, <1>2, <1>3, <1>4 DEF Writing

LEMMA StartedStory ==
    ASSUME TypeOK, NEW a \in Rows, NEW u \in Turns, Adopting(u, a)
    PROVE  Kept(a) /\ Story(a) /\ attempts'[a].status = "running"
<1>0. attempts[a] \in Row
  BY DEF TypeOK, Rows
<1> DEFINE row == [attempts[a] EXCEPT !.status = "running"]
<1>1. attempts[a].status = "pending" /\ SetRow(a, row) /\ Log(a, "attempt_started")
  BY DEF Adopting, Start
<1>2. DOMAIN attempts' = Rows /\ attempts'[a] = row
  BY <1>1 DEF SetRow, Rows
<1>3. /\ row.session = attempts[a].session /\ row.request = attempts[a].request
      /\ row.owner = attempts[a].owner /\ row.status = "running"
  BY <1>0 DEF Row
<1> QED
  BY <1>1, <1>2, <1>3, LoggedKept DEF Story

LEMMA ForeignStory ==
    ASSUME TypeOK, NEW a \in Rows,
           Abort(a) \/ LeaseLapses(a) \/ \E i \in alive : CompleteAuthorized(a, i),
           alive \subseteq Instances
    PROVE  Kept(a) /\ Story(a)
<1>0. attempts[a] \in Row /\ events[a] \in Seq(EventType)
  BY DEF TypeOK, Rows
<1>1. CASE Abort(a)
  <2> DEFINE row == [attempts[a] EXCEPT !.status = "cancelled"]
  <2>1. attempts[a].status \in Unsettled /\ SetRow(a, row) /\ Log(a, "attempt_cancelled")
    BY <1>1 DEF Abort
  <2>2. DOMAIN attempts' = Rows /\ attempts'[a] = row
    BY <2>1 DEF SetRow, Rows
  <2>3. /\ row.session = attempts[a].session /\ row.request = attempts[a].request
        /\ row.owner = attempts[a].owner /\ row.status = "cancelled"
    BY <1>0 DEF Row
  <2> QED
    BY <2>1, <2>2, <2>3, LoggedKept DEF Story
<1>2. CASE LeaseLapses(a)
  <2> DEFINE row == [attempts[a] EXCEPT !.lease = "lapsed"]
  <2>1. attempts[a].status \in Dispatched /\ SetRow(a, row) /\ events' = events
    BY <1>2 DEF LeaseLapses
  <2>2. DOMAIN attempts' = Rows /\ attempts'[a] = row
    BY <2>1 DEF SetRow, Rows
  <2>3. /\ row.session = attempts[a].session /\ row.request = attempts[a].request
        /\ row.owner = attempts[a].owner /\ row.status = attempts[a].status
    BY <1>0 DEF Row
  <2> QED
    BY <2>1, <2>2, <2>3 DEF Story, Kept, Rows
<1>3. ASSUME NEW i \in alive, CompleteAuthorized(a, i) PROVE Kept(a) /\ Story(a)
  <2> DEFINE row == [attempts[a] EXCEPT !.status = "succeeded", !.owner = i, !.lease = "live"]
  <2>1. /\ attempts[a].status = "waiting_authorization" /\ attempts[a].asks = "file"
        /\ SetRow(a, row)
        /\ events' = [events EXCEPT ![a] = @ \o <<"tool_event", "attempt_succeeded">>]
    BY <1>3 DEF CompleteAuthorized
  <2>2. DOMAIN attempts' = Rows /\ attempts'[a] = row
    BY <2>1 DEF SetRow, Rows
  <2>3. /\ row.session = attempts[a].session /\ row.request = attempts[a].request
        /\ row.owner = i /\ row.status = "succeeded" /\ row.asks = attempts[a].asks
    BY <1>0 DEF Row
  <2>4. events'[a] = events[a] \o <<"tool_event", "attempt_succeeded">>
    BY <2>1 DEF TypeOK, Rows
  <2>5. \A n \in 1..Len(events[a]) :
           n \in 1..Len(events'[a]) /\ events'[a][n] = events[a][n]
    BY <1>0, <2>4, ConcatKeeps
  <2>6. Kept(a)
    BY <2>2, <2>3, <2>5 DEF Kept, Rows
  <2> QED
    BY <2>1, <2>2, <2>3, <2>6 DEF Story
<1> QED
  BY <1>1, <1>2, <1>3

LEMMA ReconciledStory ==
    ASSUME TypeOK, NEW i, NEW ks, Reconcile(i, ks), NEW b \in Rows
    PROVE  Kept(b) /\ Story(b)
<1>0. attempts[b] \in Row /\ events[b] \in Seq(EventType)
  BY DEF TypeOK, Rows
<1>1. CASE b \in Stale(i, ks)
  <2> DEFINE row == [attempts[b] EXCEPT !.status = "blocked", !.reason = "outcome_unknown"]
  <2>1. /\ attempts[b].status \in Dispatched /\ DOMAIN attempts' = Rows /\ attempts'[b] = row
        /\ events'[b] = Append(events[b], "recovery_reconciled")
    BY <1>1 DEF Reconcile, Stale
  <2>2. /\ row.session = attempts[b].session /\ row.request = attempts[b].request
        /\ row.owner = attempts[b].owner /\ row.status = "blocked"
    BY <1>0 DEF Row
  <2>3. \A n \in 1..Len(events[b]) :
           n \in 1..Len(events'[b]) /\ events'[b][n] = events[b][n]
    BY <1>0, <2>1, AppendKeeps
  <2> QED
    BY <2>1, <2>2, <2>3 DEF Kept, Story, Rows
<1>2. CASE b \notin Stale(i, ks)
  BY <1>2, UntouchedStory DEF Reconcile, Rows
<1> QED
  BY <1>1, <1>2

\* Every transaction of the agent treats every attempt in this way.
LEMMA StoryOfRow ==
    ASSUME TypeOK, alive \subseteq Instances, StoreMove, NEW b \in Rows
    PROVE  Kept(b) /\ Story(b)
<1>1. CASE UNCHANGED vars
  BY <1>1, UntouchedStory DEF vars, Rows
<1>2. ASSUME NEW u \in Turns, NEW a \in Attempts, Claiming(u, a) PROVE Kept(b) /\ Story(b)
  <2>1. \E row : Insert(a, row)
    BY <1>2 DEF Claiming, ClaimNow, ClaimFresh, ClaimRetry
  <2>2. a \notin Rows
    BY <1>2 DEF Claiming, ClaimNow, ClaimFresh, ClaimRetry
  <2> QED
    BY <2>1, <2>2, UntouchedStory DEF Insert, Rows
<1>3. ASSUME NEW u \in Turns, NEW a \in Rows, Adopting(u, a) PROVE Kept(b) /\ Story(b)
  BY <1>3, StartedStory, OthersUntouched
<1>4. ASSUME NEW a \in Rows, NEW i \in Instances, Writing(a, i) PROVE Kept(b) /\ Story(b)
  BY <1>4, WrittenStory, OthersUntouched
<1>5. ASSUME NEW a \in Rows, Abort(a) \/ LeaseLapses(a) PROVE Kept(b) /\ Story(b)
  BY <1>5, ForeignStory, OthersUntouched
<1>6. ASSUME NEW a \in Rows, NEW i \in alive, CompleteAuthorized(a, i)
      PROVE  Kept(b) /\ Story(b)
  BY <1>6, ForeignStory, OthersUntouched
<1>7. ASSUME NEW i, NEW ks, Reconcile(i, ks) PROVE Kept(b) /\ Story(b)
  BY <1>7, ReconciledStory
<1>8. ASSUME NEW t \in Tasks, NEW replace \in BOOLEAN, CreatePlan(t, replace)
      PROVE  Kept(b) /\ Story(b)
  BY <1>8, UntouchedStory DEF CreatePlan, Rows
<1>9. ASSUME NEW s \in Steps, NEW status \in ManualStatuses, UpdateStep(s, status)
      PROVE  Kept(b) /\ Story(b)
  BY <1>9, UntouchedStory DEF UpdateStep, Rows
<1> QED
  BY <1>1, <1>2, <1>3, <1>4, <1>5, <1>6, <1>7, <1>8, <1>9 DEF StoreMove

\* And a new attempt is one that an open turn has just claimed.
LEMMA NewRows ==
    ASSUME TypeOK, TurnTypeOK, StoreMove, NEW b \in DOMAIN attempts', b \notin Rows
    PROVE  /\ attempts'[b].status = "pending"
           /\ \E u \in Turns : Claiming(u, b) /\ attempts'[b].owner = turn[u].inst
<1>1. ASSUME ~\E u \in Turns, a \in Attempts : Claiming(u, a) PROVE DOMAIN attempts' = Rows
  BY <1>1 DEF StoreMove, vars, Adopting, Writing, Start, AppendEvent, Finalize, Block, Defer,
              Abort, LeaseLapses, CompleteAuthorized, SetRow, Reconcile, CreatePlan, UpdateStep,
              Rows
<1>2. PICK u \in Turns, a \in Attempts : Claiming(u, a)
  BY <1>1
<1>3. PICK s, k, r, n : Insert(a, NewRow(s, k, r, turn[u].inst, n))
  BY <1>2 DEF Claiming, ClaimNow, ClaimFresh, ClaimRetry
<1>4. a = b /\ attempts'[b] = NewRow(s, k, r, turn[u].inst, n)
  BY <1>3 DEF Insert, Rows
<1>5. Claiming(u, b)
  BY <1>2, <1>4
<1>6. ASSUME NEW i PROVE /\ NewRow(s, k, r, i, n).status = "pending"
                         /\ NewRow(s, k, r, i, n).owner = i
  BY DEF NewRow
<1>7. /\ NewRow(s, k, r, turn[u].inst, n).status = "pending"
      /\ NewRow(s, k, r, turn[u].inst, n).owner = turn[u].inst
  BY <1>6
<1> QED
  BY <1>4, <1>5, <1>7
-------------------------------------------------------------------------------
(* What turns remember *)

Known == StoreInv /\ TurnTypeOK /\ \A u \in Turns : TurnOK(u)

\* A status that was read and the status there is.
Reflects(seen, status) ==
    /\ seen \in Terminal => status = seen
    /\ seen = "waiting_authorization" =>
          status \in {"waiting_authorization", "succeeded", "cancelled"}
    /\ seen = "running" => status # "pending"

\* Turn u writes one record, and it is true.
ActorOK(u) ==
    /\ \E rec \in Turn : turn' = [turn EXCEPT ![u] = rec] /\ rec.mine \subseteq DOMAIN attempts'
    /\ TurnOK(u)'
    /\ UNCHANGED <<alive, booted>>

\* A turn owns one attempt at most.
LEMMA MineIsOne ==
    ASSUME Known, NEW u \in Turns, NEW a \in turn[u].mine
    PROVE  /\ Open(u) /\ turn[u].mine = {a} /\ a \in Rows /\ a \in Request(u)
           /\ turn[u].seen # "nothing" /\ turn[u].phase # "begin" /\ turn[u].inst \in alive
<1>1. TurnOK(u) /\ turn[u].mine \subseteq Rows
  BY DEF Known, TurnTypeOK
<1>2. /\ Open(u) /\ turn[u].mine \subseteq Request(u) /\ turn[u].seen # "nothing"
      /\ turn[u].phase # "begin" /\ turn[u].inst \in alive
  BY <1>1 DEF TurnOK
<1>3. \A b \in Request(u) : b = a
  BY <1>2 DEF Known, StoreInv, OneAttemptPerRequest, Request, Replays
<1> QED
  BY <1>1, <1>2, <1>3

LEMMA RowsStay ==
    ASSUME Known, StoreMove
    PROVE  \A b \in Rows : Kept(b) /\ Story(b)
BY StoryOfRow DEF Known, StoreInv, TurnTypeOK

\* The attempt of a request stays the attempt of that request.
LEMMA RequestStays ==
    ASSUME Known, StoreMove, NEW u \in Turns
    PROVE  Request(u) \subseteq Request(u)'
BY RowsStay DEF Request, Replays, Kept, Rows

\* A true record of an open turn.
LEMMA RecordOK ==
    ASSUME Known, StoreMove, UNCHANGED <<alive, booted>>, NEW u \in Turns, NEW rec \in Turn,
           turn' = [turn EXCEPT ![u] = rec],
           rec.phase \in Awaiting, rec.inst \in alive, rec.mine \subseteq Request(u),
           rec.mine = {} <=> rec.seen = "nothing",
           rec.phase = "begin" => rec.mine = {},
           \A a \in rec.mine : Reflects(rec.seen, attempts'[a].status)
    PROVE  ActorOK(u)
<1>1. turn'[u] = rec
  BY DEF Known, TurnTypeOK
<1>2. rec.mine \subseteq Request(u)' /\ rec.mine \subseteq DOMAIN attempts'
  BY RequestStays, RowsStay DEF Request, Replays, Kept, Rows
<1>3. PastOf(u)'
  BY <1>1 DEF PastOf, Reflects
<1>4. TurnOK(u)'
  BY <1>1, <1>2, <1>3 DEF TurnOK, Open
<1> QED
  BY <1>2, <1>4 DEF ActorOK

\* The record of a turn that is over.
LEMMA WithoutType ==
    ASSUME NEW phase \in {"queued", "closed", "lost"}
    PROVE  /\ Without(phase) \in Turn /\ Without(phase).phase = phase
           /\ Without(phase).mine = {} /\ Without(phase).seen = "nothing"
<1>1. (CHOOSE i \in Instances : TRUE) \in Instances
  BY TurnAssumption
<1> DEFINE some == CHOOSE i \in Instances : TRUE
<1>2. some \in Instances
  BY <1>1
<1> HIDE DEF some
<1>3. Without(phase) =
        [phase |-> phase, inst |-> some, intent |-> "chat",
         target |-> {}, asked |-> {}, mine |-> {}, seen |-> "nothing",
         replay |-> FALSE, corrected |-> FALSE]
  BY DEF Without, some
<1> QED
  BY <1>2, <1>3 DEF Turn

LEMMA CloseOK ==
    ASSUME Known, NEW u \in Turns, Close(u), UNCHANGED <<alive, booted>>
    PROVE  ActorOK(u)
<1> DEFINE rec == Without("closed")
<1>1. /\ rec \in Turn /\ rec.phase = "closed" /\ rec.mine = {} /\ rec.seen = "nothing"
  BY WithoutType
<1>2. turn' = [turn EXCEPT ![u] = rec]
  BY DEF Close, Remember
<1> HIDE DEF rec
<1>3. turn'[u] = rec
  BY <1>2 DEF Known, TurnTypeOK
<1>4. TurnOK(u)'
  BY <1>1, <1>3 DEF TurnOK, Open, Awaiting
<1> QED
  BY <1>1, <1>2, <1>4 DEF ActorOK

\* A turn that reads the status of its attempt again.
LEMMA SeeOK ==
    ASSUME Known, StoreMove, UNCHANGED <<alive, booted>>, NEW u \in Turns,
           NEW a \in turn[u].mine, NEW status \in Unsettled \cup Terminal,
           NEW phase \in {"model", "tool"}, See(u, status, phase),
           Reflects(status, attempts'[a].status)
    PROVE  ActorOK(u)
<1> DEFINE rec == [turn[u] EXCEPT !.seen = status, !.phase = phase]
<1>1. turn[u] \in Turn
  BY TurnTypes DEF Known
<1>2. /\ rec \in Turn /\ rec.phase = phase /\ rec.seen = status
      /\ rec.mine = turn[u].mine /\ rec.inst = turn[u].inst
  BY <1>1 DEF Turn, Awaiting
<1>3. turn' = [turn EXCEPT ![u] = rec]
  BY DEF See, Remember
<1> HIDE DEF rec
<1>4. turn[u].mine = {a} /\ a \in Request(u) /\ turn[u].inst \in alive
  BY MineIsOne
<1>5. status # "nothing"
  BY DEF Unsettled, Terminal
<1> QED
  BY <1>2, <1>3, <1>4, <1>5, RecordOK DEF Awaiting

\* A turn without an attempt that waits for the begin tool or stops waiting for it.
LEMMA SeeNothingOK ==
    ASSUME Known, StoreMove, UNCHANGED <<alive, booted>>, NEW u \in Turns, Open(u),
           turn[u].mine = {}, NEW phase \in {"model", "begin"}, See(u, "nothing", phase)
    PROVE  ActorOK(u)
<1> DEFINE rec == [turn[u] EXCEPT !.seen = "nothing", !.phase = phase]
<1>1. turn[u] \in Turn /\ turn[u].inst \in alive
  BY TurnTypes DEF Known, TurnOK
<1>2. /\ rec \in Turn /\ rec.phase = phase /\ rec.seen = "nothing"
      /\ rec.mine = turn[u].mine /\ rec.inst = turn[u].inst
  BY <1>1 DEF Turn, Awaiting
<1>3. turn' = [turn EXCEPT ![u] = rec]
  BY DEF See, Remember
<1> HIDE DEF rec
<1> QED
  BY <1>1, <1>2, <1>3, RecordOK DEF Awaiting

\* The turns that do not move still know the truth.
LEMMA BystanderOK ==
    ASSUME Known, StoreMove, NEW v \in Turns, turn'[v] = turn[v],
           Open(v) => turn[v].inst \in alive'
    PROVE  TurnOK(v)'
<1>1. TurnOK(v) /\ turn[v].mine \subseteq Rows
  BY DEF Known, TurnTypeOK
<1>2. CASE ~Open(v)
  BY <1>1, <1>2 DEF TurnOK, Open
<1>3. CASE Open(v)
  <2>1. PastOf(v) /\ turn[v].mine \subseteq Request(v)'
    BY <1>1, <1>3, RequestStays DEF TurnOK
  <2>2. ASSUME NEW a \in turn[v].mine PROVE Reflects(turn[v].seen, attempts'[a].status)
    <3>1. Story(a) /\ Reflects(turn[v].seen, attempts[a].status)
      BY <1>1, <2>1, RowsStay DEF PastOf, Reflects
    <3> QED
      BY <3>1 DEF Story, Reflects, Terminal, Dispatched, Unsettled
  <2>3. PastOf(v)'
    BY <2>2 DEF PastOf, Reflects
  <2> QED
    BY <1>1, <1>3, <2>1, <2>3 DEF TurnOK, Open
<1> QED
  BY <1>2, <1>3
LEMMA RaiseOK ==
    ASSUME Known, NEW u \in Turns, Raise(u)
    PROVE  ActorOK(u)
BY CloseOK DEF Raise

\* A write to one row gives it the status written.
LEMMA StatusWritten ==
    ASSUME TypeOK, NEW a \in Rows, NEW i
    PROVE  /\ Start(a, i) => attempts'[a].status = "running"
           /\ \A type : AppendEvent(a, i, type) => attempts'[a].status = "running"
           /\ Finalize(a, i, TRUE) => attempts'[a].status = "succeeded"
           /\ Finalize(a, i, FALSE) => attempts'[a].status = "failed"
           /\ \A asks : Defer(a, i, asks) => attempts'[a].status = "waiting_authorization"
           /\ \A reason : Block(a, i, reason) => attempts'[a].status = "blocked"
           /\ Abort(a) => attempts'[a].status = "cancelled"
<1>0. attempts[a] \in Row /\ a \in DOMAIN attempts
  BY DEF TypeOK, Rows
<1>1. Start(a, i) => attempts'[a].status = "running"
  BY <1>0 DEF Start, SetRow, Row
<1>2. ASSUME NEW type, AppendEvent(a, i, type) PROVE attempts'[a].status = "running"
  BY <1>0, <1>2 DEF AppendEvent
<1>3. Finalize(a, i, TRUE) => attempts'[a].status = "succeeded"
  <2>1. Finalize(a, i, TRUE) => SetRow(a, [attempts[a] EXCEPT !.status = "succeeded"])
    BY DEF Finalize
  <2> QED
    BY <1>0, <2>1 DEF SetRow, Row
<1>4. Finalize(a, i, FALSE) => attempts'[a].status = "failed"
  <2>1. Finalize(a, i, FALSE) => SetRow(a, [attempts[a] EXCEPT !.status = "failed"])
    BY DEF Finalize
  <2> QED
    BY <1>0, <2>1 DEF SetRow, Row
<1>5. ASSUME NEW asks, Defer(a, i, asks) PROVE attempts'[a].status = "waiting_authorization"
  BY <1>0, <1>5 DEF Defer, SetRow, Row
<1>6. ASSUME NEW reason, Block(a, i, reason) PROVE attempts'[a].status = "blocked"
  BY <1>0, <1>6 DEF Block, SetRow, Row
<1>7. Abort(a) => attempts'[a].status = "cancelled"
  BY <1>0 DEF Abort, SetRow, Row
<1> QED
  BY <1>1, <1>2, <1>3, <1>4, <1>5, <1>6, <1>7

\* The snapshot that a turn takes of its own write, or of what it finds.
LEMMA FailAttemptOK ==
    ASSUME Known, StoreMove, NEW u \in Turns, FailAttempt(u)
    PROVE  ActorOK(u)
<1>1. PICK a \in turn[u].mine :
        \/ /\ Finalize(a, turn[u].inst, FALSE) /\ See(u, "failed", "model")
           /\ UNCHANGED <<alive, booted>>
        \/ Raise(u)
  BY DEF FailAttempt
<1>2. CASE Raise(u)
  BY <1>2, RaiseOK
<1>3. CASE Finalize(a, turn[u].inst, FALSE) /\ See(u, "failed", "model")
             /\ UNCHANGED <<alive, booted>>
  <2>1. attempts'[a].status = "failed"
    BY <1>3, MineIsOne, StatusWritten DEF Known, StoreInv
  <2> QED
    BY <1>3, <2>1, SeeOK DEF Reflects, Terminal
<1> QED
  BY <1>1, <1>2, <1>3

LEMMA AdoptOK ==
    ASSUME Known, StoreMove, NEW u \in Turns, Adopt(u)
    PROVE  ActorOK(u)
<1>0. turn[u] \in Turn /\ Open(u) /\ turn[u].inst \in alive
  BY TurnTypes DEF Known, TurnOK, Adopt, Open, Awaiting
<1>1. ASSUME NEW a \in Request(u), NEW status \in {"running"} \cup Unsettled \cup Terminal,
             Remember(u, [turn[u] EXCEPT !.phase = "model", !.mine = {a}, !.seen = status]),
             Reflects(status, attempts'[a].status), UNCHANGED <<alive, booted>>
      PROVE  ActorOK(u)
  <2> DEFINE rec == [turn[u] EXCEPT !.phase = "model", !.mine = {a}, !.seen = status]
  <2>1. a \in Attempts
    BY DEF Request, Replays, Rows, Known, StoreInv, TypeOK
  <2>2. /\ rec \in Turn /\ rec.phase = "model" /\ rec.seen = status
        /\ rec.mine = {a} /\ rec.inst = turn[u].inst
    BY <1>0, <2>1 DEF Turn, Awaiting, Unsettled
  <2>3. turn' = [turn EXCEPT ![u] = rec]
    BY <1>1 DEF Remember
  <2> HIDE DEF rec
  <2>4. status # "nothing"
    BY DEF Unsettled, Terminal
  <2> QED
    BY <1>0, <1>1, <2>2, <2>3, <2>4, RecordOK DEF Awaiting
<1>2. PICK a \in Request(u) :
        LET owning(status) == Remember(u, [turn[u] EXCEPT
                                !.phase = "model", !.mine = {a}, !.seen = status])
        IN  \/ /\ Start(a, turn[u].inst) /\ owning("running") /\ UNCHANGED <<alive, booted>>
            \/ Raise(u)
            \/ /\ attempts[a].status # "pending"
               /\ owning(attempts[a].status) /\ UNCHANGED <<vars, alive, booted>>
  BY DEF Adopt
<1>3. a \in Rows /\ attempts[a] \in Row
  BY DEF Request, Replays, Rows, Known, StoreInv, TypeOK
<1>4. CASE Raise(u)
  BY <1>4, RaiseOK
<1>5. CASE Start(a, turn[u].inst) /\ UNCHANGED <<alive, booted>>
             /\ Remember(u, [turn[u] EXCEPT !.phase = "model", !.mine = {a}, !.seen = "running"])
  <2>1. attempts'[a].status = "running"
    BY <1>3, <1>5, StatusWritten DEF Known, StoreInv
  <2> QED
    BY <1>1, <1>5, <2>1 DEF Reflects, Terminal
<1>6. CASE /\ attempts[a].status # "pending" /\ UNCHANGED <<vars, alive, booted>>
           /\ Remember(u, [turn[u] EXCEPT !.phase = "model", !.mine = {a},
                                          !.seen = attempts[a].status])
  <2>1. attempts' = attempts /\ attempts[a].status \in Unsettled \cup Terminal
    BY <1>3, <1>6 DEF vars, Row
  <2> QED
    BY <1>1, <1>6, <2>1 DEF Reflects
<1> QED
  BY <1>2, <1>4, <1>5, <1>6

\* A turn that finds its attempt as it is.
LEMMA FoundOK ==
    ASSUME Known, StoreMove, NEW u \in Turns, NEW a \in turn[u].mine,
           UNCHANGED <<vars, alive, booted>>, See(u, attempts[a].status, "model")
    PROVE  ActorOK(u)
<1>1. a \in Rows /\ attempts[a] \in Row /\ attempts' = attempts
  BY MineIsOne DEF Known, StoreInv, TypeOK, vars, Rows
<1>2. attempts[a].status \in Unsettled \cup Terminal
  BY <1>1 DEF Row
<1> QED
  BY <1>1, <1>2, SeeOK DEF Reflects

\* However a turn moves, what it remembers is true.
LEMMA DriveOK ==
    ASSUME Known, StoreMove, NEW u \in Turns, Drive(u)
    PROVE  ActorOK(u) \/ (turn' = turn /\ UNCHANGED <<alive, booted>>)
<1>0. TypeOK
  BY DEF Known, StoreInv
<1>1. CASE Begin(u)
  <2>1. Open(u) /\ turn[u].mine = {} /\ See(u, "nothing", "begin") /\ UNCHANGED <<alive, booted>>
    BY <1>1 DEF Begin, Answered, Open, Awaiting
  <2> QED
    BY <2>1, SeeNothingOK
<1>2. CASE Adopt(u)
  BY <1>2, AdoptOK
<1>3. CASE NotCommitted(u)
  <2>1. Open(u) /\ See(u, "nothing", "model") /\ UNCHANGED <<alive, booted>>
    BY <1>3 DEF NotCommitted, Open, Awaiting
  <2>2. turn[u].mine = {}
    BY <1>3, MineIsOne DEF NotCommitted
  <2> QED
    BY <2>1, <2>2, SeeNothingOK
<1>4. CASE StartTool(u)
  <2>1. PICK a \in turn[u].mine :
          \/ /\ AppendEvent(a, turn[u].inst, "tool_event") /\ See(u, "running", "tool")
             /\ UNCHANGED <<alive, booted>>
          \/ Raise(u)
    BY <1>4 DEF StartTool
  <2>2. CASE Raise(u)
    BY <2>2, RaiseOK
  <2>3. CASE AppendEvent(a, turn[u].inst, "tool_event") /\ See(u, "running", "tool")
               /\ UNCHANGED <<alive, booted>>
    <3>1. attempts'[a].status = "running"
      BY <1>0, <2>3, MineIsOne, StatusWritten
    <3> QED
      BY <2>3, <3>1, SeeOK DEF Reflects, Terminal, Unsettled
  <2> QED
    BY <2>1, <2>2, <2>3
<1>5. ASSUME NEW type \in ToolEvents, EndWork(u, type) PROVE ActorOK(u)
  <2>1. UNCHANGED <<alive, booted>>
    BY <1>5 DEF EndWork
  <2>2. PICK a \in turn[u].mine :
          \/ AppendEvent(a, turn[u].inst, type) /\ See(u, "running", "model")
          \/ Close(u)
    BY <1>5 DEF EndWork
  <2>3. CASE Close(u)
    BY <2>1, <2>3, CloseOK
  <2>4. CASE AppendEvent(a, turn[u].inst, type) /\ See(u, "running", "model")
    <3>1. attempts'[a].status = "running"
      BY <1>0, <2>4, MineIsOne, StatusWritten
    <3> QED
      BY <2>1, <2>4, <3>1, SeeOK DEF Reflects, Terminal, Unsettled
  <2> QED
    BY <2>2, <2>3, <2>4
<1>6. ASSUME NEW success \in BOOLEAN, EndFinish(u, success) PROVE ActorOK(u)
  <2>1. UNCHANGED <<alive, booted>>
    BY <1>6 DEF EndFinish
  <2>2. PICK a \in turn[u].mine :
          \/ /\ Finalize(a, turn[u].inst, success) /\ See(u, attempts'[a].status, "model")
          \/ UNCHANGED vars /\ See(u, attempts[a].status, "model")
    BY <1>6 DEF EndFinish
  <2>3. CASE UNCHANGED vars /\ See(u, attempts[a].status, "model")
    BY <2>1, <2>3, FoundOK
  <2>4. CASE Finalize(a, turn[u].inst, success) /\ See(u, attempts'[a].status, "model")
    <3>1. ASSUME success PROVE attempts'[a].status \in {"succeeded", "failed"}
      <4>1. Finalize(a, turn[u].inst, TRUE)
        BY <2>4, <3>1
      <4> QED
        BY <1>0, <4>1, MineIsOne, StatusWritten
    <3>2. ASSUME ~success PROVE attempts'[a].status \in {"succeeded", "failed"}
      <4>1. Finalize(a, turn[u].inst, FALSE)
        BY <2>4, <3>2
      <4> QED
        BY <1>0, <4>1, MineIsOne, StatusWritten
    <3>3. attempts'[a].status \in {"succeeded", "failed"}
      BY <3>1, <3>2
    <3> QED
      BY <2>1, <2>4, <3>3, SeeOK DEF Reflects, Terminal, Unsettled
  <2> QED
    BY <2>2, <2>3, <2>4
<1>7. CASE EndDefer(u)
  <2>1. UNCHANGED <<alive, booted>>
    BY <1>7 DEF EndDefer
  <2>2. PICK a \in turn[u].mine :
          \/ Defer(a, turn[u].inst, "other") /\ See(u, "waiting_authorization", "model")
          \/ UNCHANGED vars /\ See(u, attempts[a].status, "model")
    BY <1>7 DEF EndDefer
  <2>3. CASE UNCHANGED vars /\ See(u, attempts[a].status, "model")
    BY <2>1, <2>3, FoundOK
  <2>4. CASE Defer(a, turn[u].inst, "other") /\ See(u, "waiting_authorization", "model")
    <3>1. attempts'[a].status = "waiting_authorization"
      BY <1>0, <2>4, MineIsOne, StatusWritten
    <3> QED
      BY <2>1, <2>4, <3>1, SeeOK DEF Reflects, Terminal, Unsettled
  <2> QED
    BY <2>2, <2>3, <2>4
<1>8. CASE EndAbort(u)
  <2>1. UNCHANGED <<alive, booted>>
    BY <1>8 DEF EndAbort
  <2>2. PICK a \in turn[u].mine :
          \/ Abort(a) /\ See(u, "cancelled", "model")
          \/ UNCHANGED vars /\ See(u, attempts[a].status, "model")
    BY <1>8 DEF EndAbort
  <2>3. CASE UNCHANGED vars /\ See(u, attempts[a].status, "model")
    BY <2>1, <2>3, FoundOK
  <2>4. CASE Abort(a) /\ See(u, "cancelled", "model")
    <3>1. attempts'[a].status = "cancelled"
      BY <1>0, <2>4, MineIsOne, StatusWritten
    <3> QED
      BY <2>1, <2>4, <3>1, SeeOK DEF Reflects, Terminal
  <2> QED
    BY <2>2, <2>3, <2>4
<1>9. CASE AbortAsked(u)
  BY <1>9 DEF AbortAsked, turnVars
<1>10. ASSUME NEW asks \in {"file", "other"}, DeferOrBlock(u, asks) PROVE ActorOK(u)
  <2>1. PICK a \in turn[u].mine :
          \/ /\ Defer(a, turn[u].inst, asks) /\ See(u, "waiting_authorization", "model")
             /\ UNCHANGED <<alive, booted>>
          \/ /\ Block(a, turn[u].inst, "defer_persistence_failed") /\ See(u, "blocked", "model")
             /\ UNCHANGED <<alive, booted>>
          \/ See(u, attempts[a].status, "model") /\ UNCHANGED <<vars, alive, booted>>
          \/ Raise(u)
    BY <1>10 DEF DeferOrBlock
  <2>2. CASE Raise(u)
    BY <2>2, RaiseOK
  <2>3. CASE See(u, attempts[a].status, "model") /\ UNCHANGED <<vars, alive, booted>>
    BY <2>3, FoundOK
  <2>4. CASE /\ Defer(a, turn[u].inst, asks) /\ See(u, "waiting_authorization", "model")
             /\ UNCHANGED <<alive, booted>>
    <3>1. attempts'[a].status = "waiting_authorization"
      BY <1>0, <2>4, MineIsOne, StatusWritten
    <3> QED
      BY <2>4, <3>1, SeeOK DEF Reflects, Terminal, Unsettled
  <2>5. CASE /\ Block(a, turn[u].inst, "defer_persistence_failed") /\ See(u, "blocked", "model")
             /\ UNCHANGED <<alive, booted>>
    <3>1. attempts'[a].status = "blocked"
      BY <1>0, <2>5, MineIsOne, StatusWritten
    <3> QED
      BY <2>5, <3>1, SeeOK DEF Reflects, Terminal
  <2> QED
    BY <2>1, <2>2, <2>3, <2>4, <2>5
<1>11. CASE FailAtBoundary(u)
  BY <1>11, FailAttemptOK DEF FailAtBoundary
<1>12. CASE Final(u)
  <2>1. CASE FailAttempt(u)
    BY <2>1, FailAttemptOK
  <2>2. CASE ReturnAccepted(u)
    BY <2>2, CloseOK DEF ReturnAccepted
  <2>3. CASE /\ Working(u) /\ Remember(u, [turn[u] EXCEPT !.corrected = TRUE])
             /\ UNCHANGED <<vars, alive, booted>>
    <3> DEFINE rec == [turn[u] EXCEPT !.corrected = TRUE]
    <3>1. PICK a \in turn[u].mine : TRUE
      BY <2>3 DEF Working
    <3>2. /\ Open(u) /\ turn[u].mine = {a} /\ a \in Rows /\ a \in Request(u)
          /\ turn[u].inst \in alive /\ turn[u].phase # "begin"
      BY <3>1, MineIsOne
    <3>3. turn[u] \in Turn
      BY TurnTypes DEF Known
    <3>4. /\ rec \in Turn /\ rec.phase = turn[u].phase /\ rec.seen = "running"
          /\ rec.mine = {a} /\ rec.inst = turn[u].inst
      BY <2>3, <3>2, <3>3 DEF Turn, Working
    <3>5. attempts'[a].status # "pending"
      <4>1. TurnOK(u)
        BY DEF Known
      <4>2. attempts[a].status # "pending"
        BY <2>3, <3>2, <4>1 DEF TurnOK, PastOf, Working
      <4> QED
        BY <2>3, <4>2 DEF vars
    <3>6. turn' = [turn EXCEPT ![u] = rec] /\ UNCHANGED <<alive, booted>>
      BY <2>3 DEF Remember
    <3> HIDE DEF rec
    <3>7. Reflects(rec.seen, attempts'[a].status)
      BY <3>4, <3>5 DEF Reflects, Terminal
    <3> QED
      BY <3>2, <3>4, <3>6, <3>7, RecordOK DEF Open
  <2> QED
    BY <1>12, <2>1, <2>2, <2>3 DEF Final
<1>13. CASE MaxIterations(u)
  BY <1>13, FailAttemptOK, RaiseOK DEF MaxIterations
<1>14. CASE Interrupt(u)
  BY <1>14, RaiseOK DEF Interrupt
<1> QED
  BY <1>1, <1>2, <1>3, <1>4, <1>5, <1>6, <1>7, <1>8, <1>9, <1>10, <1>11, <1>12, <1>13, <1>14
     DEF Drive

\* So it is when a message arrives: a request that has an attempt is replayed.
LEMMA ArriveOK ==
    ASSUME Known, StoreMove, TypeOK', NEW u \in Turns, Arrive(u)
    PROVE  ActorOK(u)
<1>1. PICK i \in alive, intent \in {"chat", "continue", "retry", "abort"} : Prepare(u, i, intent)
  BY DEF Arrive
<1>2. turn[u] \in Turn /\ turn[u].mine = {} /\ turn[u].seen = "nothing" /\ i \in Instances
  BY <1>1, TurnTypes DEF Known, TurnOK, Prepare, Open, Awaiting, TurnTypeOK
<1>3. UNCHANGED <<alive, booted>>
  BY <1>1 DEF Prepare
<1>4. ASSUME NEW a \in Request(u), UNCHANGED vars,
             Remember(u, [turn[u] EXCEPT !.phase = "model", !.inst = i, !.mine = {a},
                              !.seen = attempts[a].status, !.replay = TRUE])
      PROVE  ActorOK(u)
  <2> DEFINE rec == [turn[u] EXCEPT !.phase = "model", !.inst = i, !.mine = {a},
                                    !.seen = attempts[a].status, !.replay = TRUE]
  <2>1. /\ a \in Rows /\ a \in Attempts /\ attempts' = attempts
        /\ attempts[a].status \in Unsettled \cup Terminal
    BY <1>4 DEF Request, Replays, Rows, Known, StoreInv, TypeOK, Row, vars
  <2>2. /\ rec \in Turn /\ rec.phase = "model" /\ rec.seen = attempts[a].status
        /\ rec.mine = {a} /\ rec.inst = i
    BY <1>2, <2>1 DEF Turn, Awaiting
  <2>3. turn' = [turn EXCEPT ![u] = rec]
    BY <1>4 DEF Remember
  <2> HIDE DEF rec
  <2>4. rec.seen # "nothing" /\ Reflects(rec.seen, attempts'[a].status)
    BY <2>1, <2>2 DEF Unsettled, Terminal, Reflects
  <2> QED
    BY <1>3, <2>2, <2>3, <2>4, RecordOK DEF Awaiting
<1>5. ASSUME NEW intended \in {"chat", "continue", "retry", "abort"},
             NEW target \in SUBSET Steps, NEW asked \in SUBSET Attempts,
             Remember(u, [turn[u] EXCEPT !.phase = "model", !.inst = i, !.intent = intended,
                              !.target = target, !.asked = asked])
      PROVE  ActorOK(u)
  <2> DEFINE rec == [turn[u] EXCEPT !.phase = "model", !.inst = i, !.intent = intended,
                                    !.target = target, !.asked = asked]
  <2>1. /\ rec \in Turn /\ rec.phase = "model" /\ rec.seen = "nothing"
        /\ rec.mine = {} /\ rec.inst = i
    BY <1>2 DEF Turn, Awaiting
  <2>2. turn' = [turn EXCEPT ![u] = rec]
    BY <1>5 DEF Remember
  <2> HIDE DEF rec
  <2> QED
    BY <1>3, <2>1, <2>2, RecordOK DEF Awaiting
<1>6. CASE ~\E a \in Request(u) :
              /\ UNCHANGED vars
              /\ Remember(u, [turn[u] EXCEPT !.phase = "model", !.inst = i, !.mine = {a},
                                  !.seen = attempts[a].status, !.replay = TRUE])
  <2> DEFINE k == TurnSession[u]
             retry == UNION {RetryStep(t)' : t \in ActivePlan(k)}
             inert == ActivePlan(k) = {} \/ (intent = "retry" /\ retry = {})
             intended == IF inert THEN "chat" ELSE intent
             target == IF intent = "retry" THEN retry ELSE {}
             asked == IF intent = "abort" THEN UNION {ActiveOn(t)' : t \in ActivePlan(k)} ELSE {}
  <2>1. Remember(u, [turn[u] EXCEPT !.phase = "model", !.inst = i, !.intent = intended,
                              !.target = target, !.asked = asked])
    BY <1>1, <1>6 DEF Prepare
  <2>2. retry \in SUBSET Steps
    BY DEF RetryStep, StepsOf
  <2>3. UNION {ActiveOn(t)' : t \in ActivePlan(k)} \in SUBSET Attempts
    BY DEF ActiveOn, OnTask, Rows, TypeOK
  <2>4. intended \in {"chat", "continue", "retry", "abort"} /\ target \in SUBSET Steps
        /\ asked \in SUBSET Attempts
    BY <2>2, <2>3
  <2> HIDE DEF intended, target, asked
  <2> QED
    BY <1>5, <2>1, <2>4
<1> QED
  BY <1>4, <1>6
-------------------------------------------------------------------------------
(* The invariant is inductive *)

\* The process side of a step: who runs and who ever ran.
LEMMA ActorRest ==
    ASSUME Known, StoreMove, NEW u \in Turns,
           ActorOK(u) \/ (turn' = turn /\ UNCHANGED <<alive, booted>>)
    PROVE  /\ TurnTypeOK' /\ \A v \in Turns : TurnOK(v)'
           /\ \A v \in Turns : v # u => turn'[v] = turn[v]
           /\ alive' = alive /\ booted' = booted
<1>0. Rows \subseteq DOMAIN attempts' /\ DOMAIN turn = Turns
  BY RowsStay DEF Kept, Known, TurnTypeOK
<1>1. CASE turn' = turn /\ UNCHANGED <<alive, booted>>
  <2>1. TurnTypeOK'
    BY <1>0, <1>1 DEF Known, TurnTypeOK, Rows
  <2>2. ASSUME NEW v \in Turns PROVE TurnOK(v)'
    BY <1>1, BystanderOK DEF Known, TurnOK
  <2> QED
    BY <1>1, <2>1, <2>2
<1>2. CASE ActorOK(u)
  <2>1. PICK rec \in Turn : turn' = [turn EXCEPT ![u] = rec] /\ rec.mine \subseteq DOMAIN attempts'
    BY <1>2 DEF ActorOK
  <2>2. alive' = alive /\ booted' = booted /\ TurnOK(u)'
    BY <1>2 DEF ActorOK
  <2>3. turn'[u] = rec /\ \A v \in Turns : v # u => turn'[v] = turn[v]
    BY <1>0, <2>1
  <2>4. TurnTypeOK'
    BY <1>0, <2>1, <2>2, <2>3 DEF Known, TurnTypeOK, Rows
  <2>5. ASSUME NEW v \in Turns, v # u PROVE TurnOK(v)'
    BY <2>2, <2>3, <2>5, BystanderOK DEF Known, TurnOK
  <2> QED
    BY <2>2, <2>3, <2>4, <2>5
<1> QED
  BY <1>1, <1>2

\* A crash takes the turns of its process with it and no others.
LEMMA CrashOK ==
    ASSUME Known, StoreMove, NEW i \in Instances, Crash(i)
    PROVE  /\ TurnTypeOK' /\ \A v \in Turns : TurnOK(v)'
           /\ \A v \in Turns : (Open(v) /\ turn[v].inst # i) => turn'[v] = turn[v]
<1>0. Rows \subseteq DOMAIN attempts'
  BY RowsStay DEF Kept
<1> DEFINE none == Without("lost")
<1>1. none \in Turn /\ none.phase = "lost" /\ none.mine = {} /\ none.seen = "nothing"
  BY WithoutType
<1>2. turn' = [u \in Turns |-> IF Open(u) /\ turn[u].inst = i THEN none ELSE turn[u]]
  BY DEF Crash
<1> HIDE DEF none
<1>3. ASSUME NEW v \in Turns PROVE TurnOK(v)'
  <2>1. CASE Open(v) /\ turn[v].inst = i
    <3>1. turn'[v] = none
      BY <1>2, <2>1
    <3> QED
      BY <1>1, <3>1 DEF TurnOK, Open, Awaiting
  <2>2. CASE ~(Open(v) /\ turn[v].inst = i)
    <3>1. turn'[v] = turn[v]
      BY <1>2, <2>2
    <3>2. Open(v) => turn[v].inst \in alive'
      BY <2>2 DEF Crash, Known, TurnOK
    <3> QED
      BY <3>1, <3>2, BystanderOK
  <2> QED
    BY <2>1, <2>2
<1>4. TurnTypeOK'
  <2>1. turn' \in [Turns -> Turn]
    BY <1>1, <1>2 DEF Known, TurnTypeOK
  <2>2. ASSUME NEW v \in Turns PROVE turn'[v].mine \subseteq DOMAIN attempts'
    BY <1>0, <1>1, <1>2 DEF Known, TurnTypeOK
  <2>3. alive' \subseteq booted' /\ booted' \subseteq Instances
    BY DEF Crash, Known, TurnTypeOK
  <2> QED
    BY <2>1, <2>2, <2>3 DEF TurnTypeOK, Rows
<1> QED
  BY <1>2, <1>3, <1>4

LEMMA KnownStep == ASSUME Known, TurnNext PROVE Known' /\ StoreMove /\ [Next]_vars
<1>1. StoreMove /\ [Next]_vars
  BY Moves, MovesAreSteps DEF Known
<1>2. StoreInv'
  BY <1>1, InvStep, StoreAssumption DEF Known
<1>3. TypeOK'
  BY <1>2 DEF StoreInv
<1>4. TurnTypeOK' /\ \A v \in Turns : TurnOK(v)'
  <2>1. ASSUME NEW u \in Turns, Drive(u) PROVE TurnTypeOK' /\ \A v \in Turns : TurnOK(v)'
    BY <1>1, <2>1, DriveOK, ActorRest
  <2>2. ASSUME NEW u \in Turns, Arrive(u) PROVE TurnTypeOK' /\ \A v \in Turns : TurnOK(v)'
    BY <1>1, <1>3, <2>2, ArriveOK, ActorRest
  <2>3. ASSUME NEW i \in Instances, Boot(i) PROVE TurnTypeOK' /\ \A v \in Turns : TurnOK(v)'
    <3>1. ASSUME NEW v \in Turns PROVE TurnOK(v)'
      BY <1>1, <2>3, BystanderOK DEF Boot, Known, TurnOK
    <3>2. TurnTypeOK'
      <4>1. Rows \subseteq DOMAIN attempts'
        BY <1>1, RowsStay DEF Kept
      <4> QED
        BY <2>3, <4>1 DEF Boot, Known, TurnTypeOK, Rows
    <3> QED
      BY <3>1, <3>2
  <2>4. ASSUME NEW i \in Instances, Crash(i) PROVE TurnTypeOK' /\ \A v \in Turns : TurnOK(v)'
    BY <1>1, <2>4, CrashOK
  <2>5. CASE Outside
    <3>1. turn' = turn /\ alive' = alive /\ booted' = booted
      BY <2>5 DEF Outside, turnVars
    <3>2. ASSUME NEW v \in Turns PROVE TurnOK(v)'
      BY <1>1, <3>1, BystanderOK DEF Known, TurnOK
    <3>3. Rows \subseteq DOMAIN attempts'
      BY <1>1, RowsStay DEF Kept
    <3> QED
      BY <3>1, <3>2, <3>3 DEF Known, TurnTypeOK, Rows
  <2> QED
    BY <2>1, <2>2, <2>3, <2>4, <2>5 DEF TurnNext
<1> QED
  BY <1>1, <1>2, <1>4 DEF Known

\* Who runs after a step, seen from outside a start and a crash.
LEMMA ProcessesStay ==
    ASSUME Known, TurnNext
    PROVE  \/ alive' = alive /\ booted' = booted
           \/ \E i \in Instances : Boot(i) \/ Crash(i)
<1>0. StoreMove /\ TypeOK'
  BY KnownStep DEF Known, StoreInv
<1> QED
  BY <1>0, DriveOK, ArriveOK DEF TurnNext, ActorOK, Outside, turnVars

LEMMA ProcessStep == ASSUME Known, ProcessInv, TurnNext PROVE ProcessInv'
<1>0. StoreMove
  BY KnownStep
<1>1. booted \subseteq booted' /\ alive \subseteq booted
  BY ProcessesStay DEF Boot, Crash, Known, TurnTypeOK
<1>2. ASSUME NEW b \in DOMAIN attempts' PROVE attempts'[b].owner \in booted'
  <2>1. CASE b \in Rows
    BY <1>0, <1>1, <2>1, RowsStay DEF Story, ProcessInv
  <2>2. CASE b \notin Rows
    <3>1. PICK u \in Turns : Claiming(u, b) /\ attempts'[b].owner = turn[u].inst
      BY <1>0, <2>2, NewRows DEF Known, StoreInv
    <3> QED
      BY <1>1, <3>1 DEF Claiming, Known, TurnOK
  <2> QED
    BY <2>1, <2>2
<1>3. ~Overlap => \A i, j \in alive' : i = j
  BY ProcessesStay DEF Boot, Crash, ProcessInv
<1> QED
  BY <1>2, <1>3 DEF ProcessInv, Rows

\* No success without evidence: the log only grows, and only the finish tool, which
\* looks for a successful work event, and an approved file change succeed.
LEMMA EvidenceStep == ASSUME Known, SuccessHasEvidence, TurnNext PROVE SuccessHasEvidence'
<1>0. StoreMove
  BY KnownStep
<1> SUFFICES ASSUME NEW b \in DOMAIN attempts', attempts'[b].status = "succeeded"
             PROVE  HasWork(b)' \/ attempts'[b].asks = "file"
  BY DEF SuccessHasEvidence, Rows
<1>1. b \in Rows
  BY <1>0, NewRows DEF Known, StoreInv
<1>2. Kept(b) /\ Story(b)
  BY <1>0, <1>1, RowsStay
<1>3. HasWork(b) => HasWork(b)'
  BY <1>2 DEF Kept, HasWork
<1>4. HasWork(b) \/ attempts'[b].asks = "file"
  BY <1>1, <1>2 DEF Story, SuccessHasEvidence, Dispatched
<1> QED
  BY <1>3, <1>4

\* A process that starts alone takes every dispatched attempt from the dead.
LEMMA DeadStep ==
    ASSUME Known, ProcessInv, NothingOfTheDead, TurnNext
    PROVE  NothingOfTheDead'
<1>0. StoreMove
  BY KnownStep
<1> SUFFICES ASSUME alive' # {}, ~Overlap,
                    NEW b \in DOMAIN attempts', attempts'[b].status \in Dispatched
             PROVE  attempts'[b].owner \in alive'
  BY DEF NothingOfTheDead, Rows
<1>1. CASE alive' = alive
  <2>1. CASE b \in Rows
    <3>1. attempts[b].status \in Dispatched /\ attempts'[b].owner = attempts[b].owner
      BY <1>0, <2>1, RowsStay DEF Story, Dispatched
    <3> QED
      BY <1>1, <2>1, <3>1 DEF NothingOfTheDead
  <2>2. CASE b \notin Rows
    <3>1. PICK u \in Turns : Claiming(u, b) /\ attempts'[b].owner = turn[u].inst
      BY <1>0, <2>2, NewRows DEF Known, StoreInv
    <3> QED
      BY <1>1, <3>1 DEF Claiming, Known, TurnOK
  <2> QED
    BY <2>1, <2>2
<1>2. ASSUME NEW i \in Instances, Boot(i) PROVE FALSE
  <2>1. Reconcile(i, Sessions) /\ i \notin booted
    BY <1>2 DEF Boot
  <2>2. b \in Rows /\ attempts[b] \in Row
    BY <2>1 DEF Reconcile, Rows, Known, StoreInv, TypeOK
  <2>3. CASE b \in Stale(i, Sessions)
    <3>1. attempts'[b].status = "blocked"
      BY <2>1, <2>2, <2>3 DEF Reconcile, Row
    <3> QED
      BY <3>1 DEF Dispatched
  <2>4. CASE b \notin Stale(i, Sessions)
    <3>1. attempts'[b] = attempts[b]
      BY <2>1, <2>2, <2>4 DEF Reconcile
    <3>2. attempts[b].owner # i /\ attempts[b].session \in Sessions
      BY <2>1, <2>2 DEF ProcessInv, Row
    <3> QED
      BY <2>2, <2>4, <3>1, <3>2 DEF Stale
  <2> QED
    BY <2>3, <2>4
<1>3. ASSUME NEW i \in Instances, Crash(i) PROVE FALSE
  BY <1>3 DEF Crash, ProcessInv
<1> QED
  BY <1>1, <1>2, <1>3, ProcessesStay
-------------------------------------------------------------------------------
(* No turn of a live process leaves its attempt running *)

\* A turn that drives a running attempt believes that it is dispatched.
LEMMA DriverKnows ==
    ASSUME Known, NEW u \in Turns, NEW b \in Rows, Drives(u, b), attempts[b].status = "running"
    PROVE  /\ turn[u].seen \in Dispatched /\ turn[u].mine = {b} /\ Open(u)
           /\ turn[u].phase # "begin" /\ turn[u].inst = attempts[b].owner
<1>1. /\ turn[u].mine = {b} /\ Open(u) /\ turn[u].phase # "begin" /\ turn[u].seen # "nothing"
      /\ turn[u].inst = attempts[b].owner
  BY MineIsOne DEF Drives, DrivenBy
<1>2. TurnOK(u) /\ turn[u] \in Turn
  BY TurnTypes DEF Known
<1>3. turn[u].seen \notin Terminal /\ turn[u].seen # "waiting_authorization"
  BY <1>1, <1>2 DEF TurnOK, PastOf, Terminal
<1> QED
  BY <1>1, <1>2, <1>3 DEF Turn, Unsettled, Dispatched

\* A recovery pass of the turn's session settles an attempt whose lease it has lost.
LEMMA RecoverySettles ==
    ASSUME Known, NEW u \in Turns, NEW b \in Rows, Drives(u, b), attempts[b].status = "running",
           ~Holds(turn[u].inst, b), Reconcile(turn[u].inst, {TurnSession[u]})
    PROVE  attempts'[b].status = "blocked"
<1>1. attempts[b] \in Row /\ attempts[b].lease = "lapsed"
  BY DriverKnows DEF Known, StoreInv, TypeOK, Rows, Row, Holds
<1>2. attempts[b].session = TurnSession[u]
  BY DEF Drives, DrivenBy
<1>3. b \in Stale(turn[u].inst, {TurnSession[u]})
  BY <1>1, <1>2 DEF Stale, Dispatched
<1> QED
  BY <1>1, <1>3 DEF Reconcile, Row

\* finalize_turn settles the running attempt of the turn, held or not.
LEMMA SettleSettles ==
    ASSUME Known, NEW u \in Turns, NEW b \in Rows, Drives(u, b), attempts[b].status = "running",
           Settle(u)
    PROVE  attempts'[b].status = "blocked"
<1>1. turn[u].mine = {b} /\ turn[u].seen \in Dispatched
  BY DriverKnows
<1> DEFINE Left == {a \in IF turn[u].mine # {} THEN turn[u].mine ELSE Request(u) :
                       /\ attempts[a].status \notin Terminal
                       /\ IF turn[u].mine # {} THEN turn[u].seen \in Dispatched
                          ELSE attempts[a].status # "waiting_authorization"}
<1>2. Left = {b}
  BY <1>1 DEF Terminal
<1>3. \/ Left = {}
      \/ \E a \in Left : Block(a, turn[u].inst, "outcome_unknown")
      \/ \E a \in Left : /\ ~(attempts[a].status \in Dispatched /\ Holds(turn[u].inst, a))
                         /\ Reconcile(turn[u].inst, {TurnSession[u]})
  BY DEF Settle
<1> HIDE DEF Left
<1>4. \/ Block(b, turn[u].inst, "outcome_unknown")
      \/ /\ ~Holds(turn[u].inst, b) /\ Reconcile(turn[u].inst, {TurnSession[u]})
  BY <1>2, <1>3 DEF Dispatched
<1>5. CASE Block(b, turn[u].inst, "outcome_unknown")
  BY <1>5, StatusWritten DEF Known, StoreInv
<1>6. CASE ~Holds(turn[u].inst, b) /\ Reconcile(turn[u].inst, {TurnSession[u]})
  BY <1>6, RecoverySettles
<1> QED
  BY <1>4, <1>5, <1>6

\* A turn that reads the status again still drives the attempt.
LEMMA SeeDrives ==
    ASSUME Known, StoreMove, NEW u \in Turns, NEW b \in Rows, Drives(u, b),
           NEW status, NEW phase \in {"model", "tool"}, See(u, status, phase),
           attempts'[b].owner = attempts[b].owner
    PROVE  Drives(u, b)'
<1>1. turn[u] \in Turn /\ DOMAIN turn = Turns
  BY TurnTypes DEF Known, TurnTypeOK
<1>2. turn'[u] = [turn[u] EXCEPT !.seen = status, !.phase = phase]
  BY <1>1 DEF See, Remember
<1>3. turn'[u].phase = phase /\ turn'[u].mine = turn[u].mine /\ turn'[u].inst = turn[u].inst
  BY <1>1, <1>2 DEF Turn
<1>4. Kept(b)
  BY RowsStay
<1> QED
  BY <1>3, <1>4 DEF Drives, DrivenBy, Open, Awaiting, Kept

\* Whichever way the driver of a running attempt moves, it goes on driving it or the
\* attempt runs no longer.
LEMMA DriverMoves ==
    ASSUME Known, StoreMove, NEW u \in Turns, Drive(u), NEW b \in Rows, Drives(u, b),
           attempts[b].status = "running", attempts'[b].status = "running",
           attempts'[b].owner = attempts[b].owner
    PROVE  Drives(u, b)'
<1>0. /\ turn[u].seen \in Dispatched /\ turn[u].mine = {b} /\ Open(u)
      /\ turn[u].phase # "begin" /\ turn[u].inst = attempts[b].owner
  BY DriverKnows
<1>1. ~Settle(u) /\ ~Raise(u)
  BY SettleSettles DEF Raise
<1>2. ASSUME NEW status, NEW phase \in {"model", "tool"}, See(u, status, phase)
      PROVE  Drives(u, b)'
  BY <1>2, SeeDrives
<1>3. ~Begin(u) /\ ~Adopt(u) /\ ~NotCommitted(u)
  BY <1>0 DEF Begin, Adopt, NotCommitted
<1>4. CASE StartTool(u)
  BY <1>1, <1>2, <1>4 DEF StartTool
<1>5. ASSUME NEW type \in ToolEvents, EndWork(u, type) PROVE Drives(u, b)'
  <2>1. \/ See(u, "running", "model")
        \/ ~Holds(turn[u].inst, b) /\ Reconcile(turn[u].inst, {TurnSession[u]})
    BY <1>0, <1>5 DEF EndWork
  <2>2. ~(~Holds(turn[u].inst, b) /\ Reconcile(turn[u].inst, {TurnSession[u]}))
    BY RecoverySettles
  <2> QED
    BY <1>2, <2>1, <2>2
<1>6. ASSUME NEW success \in BOOLEAN, EndFinish(u, success) PROVE Drives(u, b)'
  <2>1. \E status : See(u, status, "model")
    BY <1>6 DEF EndFinish
  <2> QED
    BY <1>2, <2>1
<1>7. CASE EndDefer(u)
  BY <1>2, <1>7 DEF EndDefer
<1>8. CASE EndAbort(u)
  BY <1>2, <1>8 DEF EndAbort
<1>9. CASE AbortAsked(u)
  BY <1>0, <1>9 DEF AbortAsked
<1>10. ASSUME NEW asks, DeferOrBlock(u, asks) PROVE Drives(u, b)'
  <2>1. \E status : See(u, status, "model")
    BY <1>1, <1>10 DEF DeferOrBlock
  <2> QED
    BY <1>2, <2>1
<1>11. ASSUME FailAttempt(u) PROVE Drives(u, b)'
  BY <1>1, <1>2, <1>11 DEF FailAttempt
<1>12. CASE FailAtBoundary(u)
  BY <1>11, <1>12 DEF FailAtBoundary
<1>13. CASE Final(u)
  <2>1. ~ReturnAccepted(u)
    BY <1>0, <1>1 DEF ReturnAccepted, Active
  <2>2. CASE Remember(u, [turn[u] EXCEPT !.corrected = TRUE])
    <3>1. turn[u] \in Turn /\ DOMAIN turn = Turns
      BY TurnTypes DEF Known, TurnTypeOK
    <3>2. turn'[u] = [turn[u] EXCEPT !.corrected = TRUE]
      BY <2>2, <3>1 DEF Remember
    <3>3. /\ turn'[u].phase = turn[u].phase /\ turn'[u].mine = turn[u].mine
          /\ turn'[u].inst = turn[u].inst
      BY <3>1, <3>2 DEF Turn
    <3>4. Kept(b)
      BY RowsStay
    <3> QED
      BY <3>3, <3>4 DEF Drives, DrivenBy, Open, Kept
  <2> QED
    BY <1>11, <1>13, <2>1, <2>2 DEF Final
<1>14. CASE MaxIterations(u)
  BY <1>1, <1>11, <1>14 DEF MaxIterations
<1>15. ~Interrupt(u)
  BY <1>1 DEF Interrupt
<1> QED
  BY <1>3, <1>4, <1>5, <1>6, <1>7, <1>8, <1>9, <1>10, <1>12, <1>13, <1>14, <1>15 DEF Drive

LEMMA DriveStep == ASSUME Known, ProcessInv, DriveInv, TurnNext PROVE DriveInv'
<1>0. StoreMove /\ Known'
  BY KnownStep
<1> SUFFICES ASSUME NEW b \in DOMAIN attempts', attempts'[b].status = "running",
                    attempts'[b].owner \in alive'
             PROVE  \E u \in Turns : Drives(u, b)'
  BY DEF DriveInv, Rows
<1>1. b \in Rows
  BY <1>0, NewRows DEF Known, StoreInv
<1>2. Kept(b) /\ Story(b)
  BY <1>0, <1>1, RowsStay
<1>3. \/ attempts[b].status = "running" /\ attempts'[b].owner = attempts[b].owner
      \/ /\ attempts'[b].owner = attempts[b].owner
         /\ \E u \in Turns : Adopting(u, b)
  BY <1>2 DEF Story
<1>4. ASSUME NEW u \in Turns, Adopting(u, b), attempts'[b].owner = attempts[b].owner
      PROVE  \E v \in Turns : Drives(v, b)'
  <2>1. turn[u] \in Turn /\ DOMAIN turn = Turns
    BY TurnTypes DEF Known, TurnTypeOK
  <2>2. turn'[u] = [turn[u] EXCEPT !.phase = "model", !.mine = {b}, !.seen = "running"]
    BY <1>4, <2>1 DEF Adopting
  <2>3. turn'[u].phase = "model" /\ turn'[u].mine = {b} /\ turn'[u].inst = turn[u].inst
    BY <2>1, <2>2 DEF Turn
  <2>4. /\ turn[u].inst = attempts[b].owner /\ attempts[b].session = TurnSession[u]
        /\ attempts[b].request = TurnRequest[u]
    BY <1>4 DEF Adopting, Start, Holds, Request, Replays
  <2>5. Drives(u, b)'
    BY <1>2, <1>4, <2>3, <2>4 DEF Drives, DrivenBy, Open, Awaiting, Kept
  <2> QED
    BY <2>5
<1>5. ASSUME attempts[b].status = "running", attempts'[b].owner = attempts[b].owner
      PROVE  \E v \in Turns : Drives(v, b)'
  <2>1. attempts[b].owner \in alive
    BY <1>1, <1>5, ProcessesStay DEF Boot, Crash, ProcessInv
  <2>2. PICK v \in Turns : Drives(v, b)
    BY <1>1, <1>5, <2>1 DEF DriveInv
  <2>3. ASSUME turn'[v] = turn[v] PROVE Drives(v, b)'
    BY <1>2, <1>5, <2>2, <2>3 DEF Drives, DrivenBy, Open, Kept
  <2>4. Open(v) /\ turn[v].inst = attempts[b].owner
    BY <1>1, <1>5, <2>2, DriverKnows
  <2>5. ASSUME NEW u \in Turns, Drive(u) PROVE Drives(v, b)'
    <3>1. CASE u = v
      BY <1>0, <1>1, <1>5, <2>2, <2>5, <3>1, DriverMoves
    <3>2. CASE u # v
      BY <1>0, <2>3, <2>5, <3>2, DriveOK, ActorRest
    <3> QED
      BY <3>1, <3>2
  <2>6. ASSUME NEW u \in Turns, Arrive(u) PROVE Drives(v, b)'
    <3>1. u # v
      BY <2>4, <2>6 DEF Arrive, Prepare, Open, Awaiting
    <3>2. TypeOK'
      BY <1>0 DEF Known, StoreInv
    <3> QED
      BY <1>0, <2>3, <2>6, <3>1, <3>2, ArriveOK, ActorRest
  <2>7. ASSUME NEW i \in Instances, Boot(i) PROVE Drives(v, b)'
    BY <2>3, <2>7 DEF Boot
  <2>8. ASSUME NEW i \in Instances, Crash(i) PROVE Drives(v, b)'
    <3>1. turn[v].inst # i
      BY <1>5, <2>4, <2>8 DEF Crash
    <3> QED
      BY <1>0, <2>3, <2>4, <2>8, <3>1, CrashOK
  <2>9. CASE Outside
    BY <2>3, <2>9 DEF Outside, turnVars
  <2> QED
    BY <2>5, <2>6, <2>7, <2>8, <2>9 DEF TurnNext
<1> QED
  BY <1>3, <1>4, <1>5

\* Nothing has happened yet.
LEMMA TurnStarts == ASSUME TurnInit PROVE TurnInv
<1> DEFINE none == Without("queued")
<1>1. none \in Turn /\ none.phase = "queued" /\ none.mine = {} /\ none.seen = "nothing"
  BY WithoutType
<1>2. turn = [u \in Turns |-> none] /\ alive = {} /\ booted = {} /\ Init
  BY DEF TurnInit
<1> HIDE DEF none
<1>3. Rows = {}
  BY <1>2 DEF Init, Rows
<1>4. StoreInv
  BY <1>2, StoreStarts
<1>5. TurnTypeOK
  BY <1>1, <1>2 DEF TurnTypeOK
<1>6. \A u \in Turns : TurnOK(u)
  BY <1>1, <1>2 DEF TurnOK, Open, Awaiting
<1> QED
  BY <1>2, <1>3, <1>4, <1>5, <1>6
     DEF TurnInv, ProcessInv, DriveInv, SuccessHasEvidence, NothingOfTheDead

LEMMA TurnInvStep == ASSUME TurnInv, [TurnNext]_allVars PROVE TurnInv' /\ [Next]_vars
<1>1. Known
  BY DEF TurnInv, Known
<1>2. CASE TurnNext
  BY <1>1, <1>2, KnownStep, ProcessStep, DriveStep, EvidenceStep, DeadStep DEF TurnInv, Known
<1>3. CASE UNCHANGED allVars
  <2>1. /\ UNCHANGED vars /\ plans' = plans /\ steps' = steps /\ attempts' = attempts
        /\ events' = events /\ turn' = turn /\ alive' = alive /\ booted' = booted
    BY <1>3 DEF allVars, vars, turnVars
  <2>2. StoreInv'
    BY <2>1, InvStep, StoreAssumption DEF TurnInv
  <2>3. /\ TurnTypeOK' /\ ProcessInv' /\ SuccessHasEvidence' /\ NothingOfTheDead'
    BY <2>1 DEF TurnInv, TurnTypeOK, ProcessInv, SuccessHasEvidence, HasWork, NothingOfTheDead, Rows
  <2>4. DriveInv'
    BY <2>1 DEF TurnInv, DriveInv, Drives, DrivenBy, Open, Rows
  <2>5. ASSUME NEW u \in Turns PROVE TurnOK(u)'
    BY <2>1 DEF TurnInv, TurnOK, PastOf, Open, Request, Replays, Rows
  <2> QED
    BY <2>1, <2>2, <2>3, <2>4, <2>5 DEF TurnInv
<1> QED
  BY <1>2, <1>3

\* In every reachable state: what the turns remember is true of the store, and whoever
\* runs an attempt is a turn that knows it.
THEOREM TurnInvariance == TurnSpec => []TurnInv
<1>1. TurnInit => TurnInv
  BY TurnStarts
<1>2. TurnInv /\ [TurnNext]_allVars => TurnInv'
  BY TurnInvStep
<1> QED
  BY <1>1, <1>2, PTL DEF TurnSpec

\* The agent uses the store only through the transactions of its public methods, with the
\* sessions, requests and instances it has: all that is proved of the store for any caller
\* holds of it in the agent (agent/task_plan/execution_runtime.py, execution_service.py).
THEOREM TurnsUseTheStore == TurnSpec => Spec
<1>1. TurnInit => Init
  BY DEF TurnInit
<1>2. TurnInv /\ [TurnNext]_allVars => [Next]_vars
  BY TurnInvStep
<1> QED
  BY <1>1, <1>2, TurnInvariance, PTL DEF TurnSpec, Spec

\* Whoever starts alone leaves nothing dispatched in the name of a dead process
\* (bootstrap/tools.py, the recovery pass of the startup).
THEOREM StartsTakeFromTheDead == TurnSpec => []TurnInvariant
<1>1. TurnInv => TurnInvariant
  BY DEF TurnInv, TurnInvariant
<1> QED
  BY <1>1, TurnInvariance, PTL

LEMMA DriversExist == ASSUME TurnInv PROVE RunningHasTurn /\ SnapshotIsPast
<1>1. RunningHasTurn
  BY DEF TurnInv, DriveInv, Drives, RunningHasTurn
<1>2. SnapshotIsPast
  BY DEF TurnInv, TurnOK, PastOf, SnapshotIsPast
<1> QED
  BY <1>1, <1>2
===============================================================================
