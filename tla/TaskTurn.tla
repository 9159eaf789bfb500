-------------------------------- MODULE TaskTurn --------------------------------
(***************************************************************************)
(* The turns that drive the task store: TaskExecutionRuntimeCoordinator    *)
(* (agent/task_plan/execution_runtime.py) over TaskExecutionService, at    *)
(* the points where the agent loop of agent/core/passive_turn.py calls it. *)
(*                                                                         *)
(* A turn is a coroutine: it runs without interruption from one await to   *)
(* the next, and each action below is one such stretch.  It awaits the     *)
(* model ("model"), the tool that claims a step ("begin") and any other    *)
(* tool ("tool").  What other turns, instances, users and the clock do in  *)
(* between, its snapshot of the attempt does not show: a turn decides on   *)
(* the status it has seen.                                                 *)
(*                                                                         *)
(* An instance answers one message of a session at a time, as the loop of  *)
(* agent/looping/core.py does; a restart may overlap with the process it   *)
(* replaces when the constant Overlap says so.                             *)
(***************************************************************************)
EXTENDS TaskStore

CONSTANTS
    Turns,          \* deliveries of a message to the agent
    TurnSession,    \* the session of a turn
    TurnRequest,    \* its request id; a redelivered message keeps its own
    Index,          \* position of a step in its plan
    Overlap         \* may a new instance start while another one lives?

ASSUME TurnAssumption ==
    /\ TurnSession \in [Turns -> Sessions]
    /\ TurnRequest \in [Turns -> Requests]
    /\ Index \in [Steps -> Nat]
    /\ Overlap \in BOOLEAN
    /\ Instances # {}

VARIABLES
    turn,           \* what each turn remembers
    alive,          \* instances that run
    booted          \* instances that ever ran: an id is never used again

turnVars == <<turn, alive, booted>>
allVars == <<vars, turnVars>>

Awaiting == {"model", "begin", "tool"}

\* target is the step a retry is for and asked the attempt an abort is for, both
\* chosen when the turn starts; mine holds the attempt the turn owns, seen its
\* status in the turn's snapshot.
Turn == [phase : Awaiting \cup {"queued", "closed", "lost"},
         inst : Instances, intent : {"chat", "continue", "retry", "abort"},
         target : SUBSET Steps, asked : SUBSET Attempts, mine : SUBSET Attempts,
         seen : Unsettled \cup Terminal \cup {"nothing"},
         replay : BOOLEAN, corrected : BOOLEAN]

\* A turn that has not begun or is over remembers nothing.
Without(phase) ==
    [phase |-> phase, inst |-> CHOOSE i \in Instances : TRUE, intent |-> "chat",
     target |-> {}, asked |-> {}, mine |-> {}, seen |-> "nothing",
     replay |-> FALSE, corrected |-> FALSE]

\* The one type invariant of the turns.
TurnTypeOK ==
    /\ turn \in [Turns -> Turn]
    /\ \A u \in Turns : turn[u].mine \subseteq Rows
    /\ alive \subseteq booted /\ booted \subseteq Instances

-------------------------------------------------------------------------------
(* What a turn sees *)

Request(u) == Replays(TurnSession[u], TurnRequest[u])
Open(u) == turn[u].phase \in Awaiting

\* attempt_is_active: by the snapshot, not by the database.
Active(u) == turn[u].mine # {} /\ turn[u].seen \in Dispatched

\* The turn may work: its contract is in phase "work" and the snapshot runs.
Working(u) == turn[u].mine # {} /\ turn[u].seen = "running" /\ ~turn[u].replay

\* The lease guard renews on leaving an await; the renewal fails when the
\* attempt is still dispatched but no longer held.
GuardFails(u) ==
    Active(u) /\ \E a \in turn[u].mine : attempts[a].status \in Dispatched
                                         /\ ~Holds(turn[u].inst, a)

\* The model has answered and the lease guard around the call let go.
Answered(u) == turn[u].phase = "model" /\ ~GuardFails(u)

Remember(u, rec) == turn' = [turn EXCEPT ![u] = rec]
See(u, status, phase) == Remember(u, [turn[u] EXCEPT !.seen = status, !.phase = phase])

\* The step begin_next_step picks: nothing failed, first pending one by index,
\* unless its last attempt awaits an explicit retry.
NextStep(t) ==
    {s \in StepsOf(t) :
        /\ \A x \in StepsOf(t) : steps[x] # "failed"
        /\ steps[s] = "pending"
        /\ \A x \in StepsOf(t) : steps[x] = "pending" => Index[s] <= Index[x]
        /\ \A b \in Latest(s) : ~(attempts[b].status = "blocked" /\ Retryable(b))}

\* The step find_retryable_step offers: the first that can be retried.
CanRetry(s) ==
    steps[s] \in {"failed", "pending"} /\ \E b \in Latest(s) : Retryable(b)
RetryStep(t) ==
    {s \in StepsOf(t) : CanRetry(s)
        /\ \A x \in StepsOf(t) : CanRetry(x) => Index[s] <= Index[x]}

ActivePlan(k) == {t \in Tasks : SessionOf[t] = k /\ plans[t] = "active"}
-------------------------------------------------------------------------------
(* How a turn ends *)

\* Mutant: a turn whose lease is gone leaves its attempt to the next startup.
SettleIfHeld(u) ==
    LET r == turn[u]
    IN  \/ \E a \in r.mine : Block(a, r.inst, "outcome_unknown")
        \/ /\ \A a \in r.mine : ~(attempts[a].status \in Dispatched /\ Holds(r.inst, a))
           /\ UNCHANGED vars

\* finalize_turn: block the attempt the turn owns, or the one its request claimed
\* unnoticed; when the lease is gone, leave it to a recovery pass of the session.
Settle(u) ==
    LET r == turn[u]
        Left == {a \in IF r.mine # {} THEN r.mine ELSE Request(u) :
                    /\ attempts[a].status \notin Terminal
                    /\ IF r.mine # {} THEN r.seen \in Dispatched
                       ELSE attempts[a].status # "waiting_authorization"}
        Blockable(a) == attempts[a].status \in Dispatched /\ Holds(r.inst, a)
    IN  \/ Left = {} /\ UNCHANGED vars
        \/ \E a \in Left : Blockable(a) /\ Block(a, r.inst, "outcome_unknown")
        \/ \E a \in Left : ~Blockable(a) /\ Reconcile(r.inst, {TurnSession[u]})

Close(u) == Remember(u, Without("closed"))

\* An exception or a cancellation leaves the run: finalize_turn, then re-raise.
Raise(u) == Settle(u) /\ Close(u) /\ UNCHANGED <<alive, booted>>

\* A normal return calls finalize_turn only for an attempt the snapshot shows.
ReturnAccepted(u) ==
    /\ IF Active(u) THEN Settle(u) ELSE UNCHANGED vars
    /\ Close(u)
    /\ UNCHANGED <<alive, booted>>

\* _fail_attempt: a conflict is not caught and leaves the run.
FailAttempt(u) ==
    \E a \in turn[u].mine :
        IF Holds(turn[u].inst, a) /\ attempts[a].status = "running"
        THEN Finalize(a, turn[u].inst, FALSE) /\ See(u, "failed", "model")
                /\ UNCHANGED <<alive, booted>>
        ELSE Raise(u)

\* Interrupt by the user, error of the model, or a lease guard that fails.
Interrupt(u) == Open(u) /\ Raise(u)

\* handle_model_final: a reply in the middle of the work is corrected once, then
\* the attempt is failed; any other reply is accepted.
Final(u) ==
    /\ Answered(u)
    /\ IF Working(u)
       THEN IF ~turn[u].corrected
            THEN /\ Remember(u, [turn[u] EXCEPT !.corrected = TRUE])
                 /\ UNCHANGED <<vars, alive, booted>>
            ELSE FailAttempt(u)
       ELSE ReturnAccepted(u)

\* The iteration limit: finalize_turn looks for an unnoticed claim as well.
MaxIterations(u) ==
    /\ Answered(u)
    /\ IF turn[u].mine # {} /\ turn[u].seen = "running" THEN FailAttempt(u) ELSE Raise(u)
-------------------------------------------------------------------------------
(* Starting and claiming *)

\* prepare_turn: a request that has an attempt is replayed and owns it; any other
\* one starts with a recovery pass over its session.
Prepare(u, i, intent) ==
    LET k == TurnSession[u]
    IN  /\ turn[u].phase = "queued" /\ i \in alive
        /\ \A v \in Turns : ~(Open(v) /\ turn[v].inst = i /\ TurnSession[v] = k)
        /\ \/ \E a \in Request(u) :
                /\ Remember(u, [turn[u] EXCEPT !.phase = "model", !.inst = i, !.mine = {a},
                                    !.seen = attempts[a].status, !.replay = TRUE])
                /\ UNCHANGED vars
           \/ /\ Request(u) = {}
              /\ Reconcile(i, {k})
              /\ LET retry == UNION {RetryStep(t)' : t \in ActivePlan(k)}
                     inert == ActivePlan(k) = {} \/ (intent = "retry" /\ retry = {})
                 IN  Remember(u, [turn[u] EXCEPT
                         !.phase = "model", !.inst = i,
                         !.intent = IF inert THEN "chat" ELSE intent,
                         !.target = IF intent = "retry" THEN retry ELSE {},
                         !.asked = IF intent = "abort"
                                   THEN UNION {ActiveOn(t)' : t \in ActivePlan(k)} ELSE {}])
        /\ UNCHANGED <<alive, booted>>

\* begin_next_step or retry_step, inside the begin tool.
ClaimNow(u, a) ==
    LET k == TurnSession[u]
        r == TurnRequest[u]
        i == turn[u].inst
    IN  \E t \in ActivePlan(k) :
            \/ /\ turn[u].intent = "continue"
               /\ \E s \in NextStep(t) : ClaimFresh(a, s, k, r, i)
            \/ /\ turn[u].intent = "retry"
               /\ \E s \in turn[u].target \cap StepsOf(t) :
                    \E b \in Latest(s) : ClaimRetry(a, b, s, k, r, i)

\* What the service or the store refuses: the request has an attempt (which it
\* replays), another attempt is active, or no step qualifies.
ClaimRefused(u) ==
    \/ Request(u) # {}
    \/ \A t \in ActivePlan(TurnSession[u]) :
        \/ HasActiveAttempt(t)
        \/ turn[u].intent = "continue" /\ \A s \in NextStep(t) :
                \E b \in Latest(s) : attempts[b].status \in {"failed", "blocked"}
        \/ turn[u].intent = "retry" /\ \A s \in turn[u].target \cap StepsOf(t) : ~CanRetry(s)

\* The begin tool claims a step; a refusal is only told to the model.
Begin(u) ==
    /\ Answered(u) /\ turn[u].mine = {} /\ turn[u].intent \in {"continue", "retry"}
    /\ \/ \E a \in Attempts : ClaimNow(u, a)
       \/ ClaimRefused(u) /\ UNCHANGED vars
    /\ See(u, "nothing", "begin")
    /\ UNCHANGED <<alive, booted>>

\* after_tool_call adopts the claim and starts it; a claim that somebody blocked
\* or aborted meanwhile is adopted as it is.
Adopt(u) ==
    /\ turn[u].phase = "begin"
    /\ \E a \in Request(u) :
        LET owning(status) == Remember(u, [turn[u] EXCEPT
                                !.phase = "model", !.mine = {a}, !.seen = status])
        IN  \/ /\ attempts[a].status = "pending"
               /\ IF Holds(turn[u].inst, a)
                  THEN Start(a, turn[u].inst) /\ owning("running") /\ UNCHANGED <<alive, booted>>
                  ELSE Raise(u)
            \/ /\ attempts[a].status # "pending"
               /\ owning(attempts[a].status) /\ UNCHANGED <<vars, alive, booted>>

\* The begin tool reported an error: task_execution_begin_not_committed, and the
\* turn owns nothing.  Most errors are refusals, but _claim_step reads the plan
\* again after its claim is committed, and the tool turns any exception of that
\* read (a locked or failing database) into the same answer.
NotCommitted(u) ==
    /\ turn[u].phase = "begin"
    /\ See(u, "nothing", "model")
    /\ UNCHANGED <<vars, alive, booted>>
-------------------------------------------------------------------------------
(* Working *)

\* The tool loop records every tool call of an attempt before it makes it; a
\* conflict there is a lost lease.
StartTool(u) ==
    /\ Answered(u) /\ Working(u)
    /\ \E a \in turn[u].mine :
        /\ Len(events[a]) < MaxEvents - 1
        /\ IF Holds(turn[u].inst, a) /\ attempts[a].status = "running"
           THEN /\ AppendEvent(a, turn[u].inst, "tool_event") /\ See(u, "running", "tool")
                /\ UNCHANGED <<alive, booted>>
           ELSE Raise(u)

\* A tool call is over and the lease guard around it let go.
Returned(u) == turn[u].phase = "tool" /\ ~GuardFails(u)

\* after_tool_call for a work tool: a result that comes too late is not recorded,
\* a recovery pass settles the attempt and the turn ends.
EndWork(u, type) ==
    /\ Returned(u)
    /\ \E a \in turn[u].mine :
        IF Holds(turn[u].inst, a) /\ attempts[a].status = "running"
        THEN AppendEvent(a, turn[u].inst, type) /\ See(u, "running", "model")
        ELSE Reconcile(turn[u].inst, {TurnSession[u]}) /\ Close(u)
    /\ UNCHANGED <<alive, booted>>

HasWork(a) == \E n \in 1..Len(events[a]) : events[a][n] = "work_done"

\* Mutant: success is accepted without any evidence of work.
EndFinishUnchecked(u, success) ==
    /\ Returned(u)
    /\ \E a \in turn[u].mine :
        IF Holds(turn[u].inst, a) /\ attempts[a].status = "running"
        THEN Finalize(a, turn[u].inst, success) /\ See(u, attempts'[a].status, "model")
        ELSE UNCHANGED vars /\ See(u, attempts[a].status, "model")
    /\ UNCHANGED <<alive, booted>>

\* The finish tool: success needs a successful work event; what it refuses is
\* told to the model, and the snapshot is read again either way.
EndFinish(u, success) ==
    /\ Returned(u)
    /\ \E a \in turn[u].mine :
        IF /\ success => HasWork(a)
           /\ Holds(turn[u].inst, a) /\ attempts[a].status = "running"
        THEN Finalize(a, turn[u].inst, success) /\ See(u, attempts'[a].status, "model")
        ELSE UNCHANGED vars /\ See(u, attempts[a].status, "model")
    /\ UNCHANGED <<alive, booted>>

\* The tool that asks for permission carries no managed payload.
EndDefer(u) ==
    /\ Returned(u)
    /\ \E a \in turn[u].mine :
        IF Holds(turn[u].inst, a) /\ attempts[a].status \in Dispatched
        THEN Defer(a, turn[u].inst, "other") /\ See(u, "waiting_authorization", "model")
        ELSE UNCHANGED vars /\ See(u, attempts[a].status, "model")
    /\ UNCHANGED <<alive, booted>>

\* The abort tool, in the turn that works on the attempt.
EndAbort(u) ==
    /\ Returned(u)
    /\ \E a \in turn[u].mine :
        IF attempts[a].status \in Unsettled
        THEN Abort(a) /\ See(u, "cancelled", "model")
        ELSE UNCHANGED vars /\ See(u, attempts[a].status, "model")
    /\ UNCHANGED <<alive, booted>>

\* The abort tool, in a turn the user asked for it: it owns nothing.
AbortAsked(u) ==
    /\ Answered(u) /\ turn[u].intent = "abort" /\ turn[u].mine = {}
    /\ \E a \in turn[u].asked : Abort(a)
    /\ UNCHANGED turnVars

\* before_tool_call for a tool that is not read-only: _persist_defer, and when
\* that fails the attempt is blocked for good; when that fails too, the turn ends.
DeferOrBlock(u, asks) ==
    /\ Answered(u) /\ Working(u)
    /\ \E a \in turn[u].mine :
        \/ /\ Defer(a, turn[u].inst, asks) /\ See(u, "waiting_authorization", "model")
           /\ UNCHANGED <<alive, booted>>
        \/ /\ Block(a, turn[u].inst, "defer_persistence_failed") /\ See(u, "blocked", "model")
           /\ UNCHANGED <<alive, booted>>
        \/ /\ attempts[a].status \in Terminal
           /\ See(u, attempts[a].status, "model") /\ UNCHANGED <<vars, alive, booted>>
        \/ /\ attempts[a].status \notin Terminal
           /\ ~(Holds(turn[u].inst, a) /\ attempts[a].status \in Dispatched)
           /\ Raise(u)

\* before_tool_call when the boundary decides that the attempt has failed.
FailAtBoundary(u) == Answered(u) /\ Working(u) /\ FailAttempt(u)
-------------------------------------------------------------------------------
(* Processes and the outside *)

\* Mutant: no recovery pass at startup.
BootWithoutRecovery(i) ==
    /\ i \notin booted
    /\ Overlap \/ alive = {}
    /\ alive' = alive \cup {i} /\ booted' = booted \cup {i}
    /\ UNCHANGED <<vars, turn>>

\* Startup: a recovery pass over every session before the first message.
Boot(i) ==
    /\ i \notin booted
    /\ Overlap \/ alive = {}
    /\ alive' = alive \cup {i} /\ booted' = booted \cup {i}
    /\ Reconcile(i, Sessions)
    /\ UNCHANGED turn

\* A process dies between two awaits; one more can always be started.
Crash(i) ==
    /\ i \in alive /\ booted # Instances
    /\ alive' = alive \ {i}
    /\ turn' = [u \in Turns |-> IF Open(u) /\ turn[u].inst = i
                                THEN Without("lost") ELSE turn[u]]
    /\ UNCHANGED <<vars, booted>>

\* What the plan tools of other turns, the approval runtime and the clock do.
Outside ==
    /\ \/ \E t \in Tasks, replace \in BOOLEAN : CreatePlan(t, replace)
       \/ \E s \in Steps, status \in ManualStatuses : UpdateStep(s, status)
       \/ \E a \in Rows : LeaseLapses(a)
       \/ \E a \in Rows, i \in alive : CompleteAuthorized(a, i)
    /\ UNCHANGED turnVars

TurnInit ==
    /\ Init
    /\ turn = [u \in Turns |-> Without("queued")]
    /\ alive = {} /\ booted = {}

Drive(u) ==
    \/ Begin(u) \/ Adopt(u) \/ NotCommitted(u)
    \/ StartTool(u)
    \/ \E type \in ToolEvents : EndWork(u, type)
    \/ \E success \in BOOLEAN : EndFinish(u, success)
    \/ EndDefer(u) \/ EndAbort(u) \/ AbortAsked(u)
    \/ \E asks \in {"file", "other"} : DeferOrBlock(u, asks)
    \/ FailAtBoundary(u)
    \/ Final(u) \/ MaxIterations(u) \/ Interrupt(u)

Arrive(u) ==
    \E i \in alive, intent \in {"chat", "continue", "retry", "abort"} : Prepare(u, i, intent)

TurnNext ==
    \/ \E u \in Turns : Drive(u) \/ Arrive(u)
    \/ \E i \in Instances : Boot(i) \/ Crash(i)
    \/ Outside

TurnSpec == TurnInit /\ [][TurnNext]_allVars

\* The scheduling the code relies on: the model and the tools return or fail in
\* the end, the iterations of a turn are limited (here by MaxEvents), and a dead
\* process is restarted.
TurnFairSpec ==
    /\ TurnSpec
    /\ \A u \in Turns : WF_allVars(Drive(u))
    /\ WF_allVars(\E i \in Instances : Boot(i))
-------------------------------------------------------------------------------
(* Properties *)

DrivenBy(a, u) ==
    /\ Open(u) /\ turn[u].inst = attempts[a].owner
    /\ TurnSession[u] = attempts[a].session /\ TurnRequest[u] = attempts[a].request

\* No turn of a live process leaves its attempt running: whichever way it ends,
\* by a reply, a limit, an exception or a lost lease, finalize_turn settles it.
RunningHasTurn ==
    \A a \in Rows : (attempts[a].status = "running" /\ attempts[a].owner \in alive) =>
        \E u \in Turns : DrivenBy(a, u)

\* A snapshot may be old but is never ahead of the database nor wrong about an
\* end: what a turn saw settled is settled that way, what it saw waiting was only
\* completed or cancelled since, and what it saw running is not unstarted.
SnapshotIsPast ==
    \A u \in Turns : Open(u) => \A a \in turn[u].mine :
        /\ turn[u].seen \in Terminal => attempts[a].status = turn[u].seen
        /\ turn[u].seen = "waiting_authorization" =>
              attempts[a].status \in {"waiting_authorization", "succeeded", "cancelled"}
        /\ turn[u].seen = "running" => attempts[a].status # "pending"

\* A step is only reported as done on evidence: the log of a succeeded attempt has
\* a successful work result, unless it is the file change the user approved.
SuccessHasEvidence ==
    \A a \in Rows : attempts[a].status = "succeeded" => HasWork(a) \/ attempts[a].asks = "file"

\* Once a process is up, nothing is dispatched in the name of a dead one: the
\* startup pass leaves no attempt that nobody drives.
NothingOfTheDead ==
    (alive # {} /\ ~Overlap) =>
        \A a \in Rows : attempts[a].status \in Dispatched => attempts[a].owner \in alive

TurnInvariant == TurnTypeOK /\ NothingOfTheDead

\* Every running attempt is settled or starts to wait, through crashes, lapsed
\* leases and interrupts: nobody's step stays in progress for ever.
RunningIsSettled ==
    \A a \in Attempts :
        (a \in Rows /\ attempts[a].status = "running") ~> (a \in Rows /\ attempts[a].status # "running")
===============================================================================
