------------------------------- MODULE TaskStore -------------------------------
(***************************************************************************)
(* The task-plan database of agent/task_plan/store.py: one action per      *)
(* public method of TaskPlanStore that writes.  Every such method runs in  *)
(* one BEGIN IMMEDIATE transaction, so a method is one atomic step and a   *)
(* method that raises (and rolls back) is a step that is not enabled.      *)
(*                                                                         *)
(* The callers are unconstrained here: any thread of any process that      *)
(* opened the database may call any method, in any order, which is what    *)
(* the store's own tests do with thread pools.  The turn coordinator that  *)
(* calls it in the running agent is module TaskTurn.                       *)
(*                                                                         *)
(* Data the properties do not tell apart is abstracted: titles, summaries, *)
(* timestamps and tool arguments are left out, and a lease is either live  *)
(* (lease_expires_at > now) or lapsed.                                     *)
(***************************************************************************)
EXTENDS Naturals, Sequences

CONSTANTS
    Sessions,       \* session keys
    Tasks,          \* ids for task_plans rows
    Steps,          \* ids for task_steps rows
    Requests,       \* request ids; unique only within a session
    Attempts,       \* ids for task_execution_attempts rows
    Instances,      \* runtime_instance_id of every process that ever runs
    SessionOf,      \* the session a task is created for
    TaskOf,         \* the task a step belongs to
    ManualStatuses, \* statuses the callers of update_step ask for
    MaxAttemptNo,   \* bound on attempt_no
    MaxEvents       \* bound on the events of one attempt, terminal one apart

ASSUME StoreAssumption ==
    /\ SessionOf \in [Tasks -> Sessions]
    /\ TaskOf \in [Steps -> Tasks]
    /\ ManualStatuses \subseteq {"pending", "in_progress", "completed", "failed", "skipped"}
    /\ MaxAttemptNo \in Nat \ {0}
    /\ MaxEvents \in Nat \ {0}

VARIABLES
    plans,      \* task_plans: status of each task, "absent" before create_plan
    steps,      \* task_steps: status of each step
    attempts,   \* task_execution_attempts: a row for each attempt claimed
    events      \* task_execution_events: the log of each attempt, in sequence_no order

vars == <<plans, steps, attempts, events>>

-------------------------------------------------------------------------------
(* Types *)

PlanStatus == {"active", "completed", "cancelled", "failed"}
StepStatus == {"pending", "in_progress", "completed", "failed", "skipped"}

Unsettled == {"pending", "running", "waiting_authorization"}
Dispatched == {"pending", "running"}
Terminal == {"succeeded", "failed", "blocked", "cancelled"}

\* Why an attempt is blocked: the four reasons of RETRYABLE_BLOCK_REASONS, all
\* of them "nobody knows how it ended", are one value here; the only other reason
\* is that deferring the attempt failed.
RetryableBlockReasons == {"outcome_unknown"}
BlockReasons == RetryableBlockReasons \cup {"defer_persistence_failed"}

\* What a deferred attempt asked permission for: a managed file change with an
\* approval request, or anything else (no approval row, or another tool).
Asks == {"none", "file", "other"}

Row == [session : Sessions, request : Requests, step : Steps,
        no : 1..MaxAttemptNo, status : Unsettled \cup Terminal,
        owner : Instances, lease : {"live", "lapsed"},
        reason : BlockReasons \cup {""}, asks : Asks]

\* A tool event is either one that _has_successful_work_event accepts, the
\* successful end of a read-only work tool, or any other start or end of a tool.
ToolEvents == {"tool_event", "work_done"}
EventType == ToolEvents \cup
    {"attempt_claimed", "attempt_started", "authorization_deferred",
     "attempt_succeeded", "attempt_failed", "attempt_blocked",
     "attempt_cancelled", "recovery_reconciled"}

\* The one type invariant: the four tables hold rows of the schema's types.
TypeOK ==
    /\ plans \in [Tasks -> PlanStatus \cup {"absent"}]
    /\ steps \in [Steps -> StepStatus]
    /\ DOMAIN attempts \subseteq Attempts
    /\ attempts \in [DOMAIN attempts -> Row]
    /\ events \in [DOMAIN attempts -> Seq(EventType)]

-------------------------------------------------------------------------------
(* Queries *)

Rows == DOMAIN attempts
StepsOf(t) == {s \in Steps : TaskOf[s] = t}
OnTask(t) == {a \in Rows : TaskOf[attempts[a].step] = t}
OnStep(s) == {a \in Rows : attempts[a].step = s}

ActiveOn(t) == {a \in OnTask(t) : attempts[a].status \in Unsettled}

HasActiveAttempt(t) == ActiveOn(t) # {}

\* Some plan of session k is active and has an unsettled attempt.
SessionHasActiveAttempt(k) ==
    \E t \in Tasks : SessionOf[t] = k /\ plans[t] = "active" /\ HasActiveAttempt(t)

Replays(k, r) == {a \in Rows : attempts[a].session = k /\ attempts[a].request = r}

\* ORDER BY attempt_no DESC LIMIT 1: empty when the step was never attempted.
Latest(s) == {a \in OnStep(s) : \A b \in OnStep(s) : attempts[b].no <= attempts[a].no}

\* COALESCE(MAX(attempt_no), 0) + 1
IsNextNo(n, s) ==
    /\ \A a \in OnStep(s) : attempts[a].no < n
    /\ n = 1 \/ \E a \in OnStep(s) : attempts[a].no + 1 = n

\* Mutant: every blocked attempt is retryable.
RetryableIfBlocked(a) == attempts[a].status \in {"failed", "blocked"}

Retryable(a) ==
    \/ attempts[a].status = "failed"
    \/ attempts[a].status = "blocked" /\ attempts[a].reason \in RetryableBlockReasons

\* Mutant: the owner is compared, the lease is not.
Owns(i, a) == a \in Rows /\ attempts[a].owner = i

\* The compare-and-set condition of every runtime-owned write.
Holds(i, a) == a \in Rows /\ attempts[a].owner = i /\ attempts[a].lease = "live"

AllDone(f, t) == \A s \in StepsOf(t) : f[s] \in {"completed", "skipped"}

Resettable == {"pending", "in_progress", "failed"}
Reset(s) == IF steps[s] \in Resettable THEN "pending" ELSE steps[s]

\* attempts with the row of a updated
SetRow(a, row) == attempts' = [attempts EXCEPT ![a] = row]
Log(a, type) == events' = [events EXCEPT ![a] = Append(@, type)]

-------------------------------------------------------------------------------
(* Plans and steps *)

\* The unique index on active plans rejects the insert when the session still
\* has an active plan; replace_active cancels that plan in the same transaction.
CreatePlan(t, replace) ==
    LET k == SessionOf[t]
        Replaced == {u \in Tasks : SessionOf[u] = k /\ plans[u] = "active"}
    IN  /\ plans[t] = "absent"
        /\ IF replace THEN ~SessionHasActiveAttempt(k) ELSE Replaced = {}
        /\ plans' = [u \in Tasks |-> IF u = t THEN "active"
                                     ELSE IF u \in Replaced THEN "cancelled"
                                     ELSE plans[u]]
        /\ steps' = [s \in Steps |-> IF TaskOf[s] = t THEN "pending" ELSE steps[s]]
        /\ UNCHANGED <<attempts, events>>

\* No check of the plan's status: the service checks it beforehand.
UpdateStep(s, status) ==
    /\ plans[TaskOf[s]] # "absent"
    /\ ~HasActiveAttempt(TaskOf[s])
    /\ steps' = [steps EXCEPT ![s] = status]
    /\ UNCHANGED <<plans, attempts, events>>

\* Mutant: a plan is completed or cancelled under an active attempt.
SetTaskStatusUnguarded(t, status) ==
    /\ plans[t] # "absent"
    /\ plans' = [plans EXCEPT ![t] = status]
    /\ UNCHANGED <<steps, attempts, events>>

SetTaskStatus(t, status) ==
    /\ plans[t] # "absent"
    /\ ~HasActiveAttempt(t)
    /\ plans' = [plans EXCEPT ![t] = status]
    /\ UNCHANGED <<steps, attempts, events>>

-------------------------------------------------------------------------------
(* Claiming *)

NewRow(s, k, r, i, n) ==
    [session |-> k, request |-> r, step |-> s, no |-> n, status |-> "pending",
     owner |-> i, lease |-> "live", reason |-> "", asks |-> "none"]

Insert(a, row) ==
    /\ attempts' = [b \in Rows \cup {a} |-> IF b = a THEN row ELSE attempts[b]]
    /\ events' = [b \in Rows \cup {a} |->
                    IF b = a THEN <<"attempt_claimed">> ELSE events[b]]

\* Checks of claim_execution_attempt common to a fresh claim and to a retry.
MayClaim(s, k, r) ==
    /\ Replays(k, r) = {}
    /\ ~HasActiveAttempt(TaskOf[s])
    /\ SessionOf[TaskOf[s]] = k
    /\ plans[TaskOf[s]] = "active"

\* retry_from_attempt_id is None
ClaimFresh(a, s, k, r, i) ==
    /\ a \in Attempts \ Rows
    /\ MayClaim(s, k, r)
    /\ steps[s] = "pending"
    /\ \A b \in Latest(s) : attempts[b].status \notin {"failed", "blocked"}
    /\ \E n \in 1..MaxAttemptNo : IsNextNo(n, s) /\ Insert(a, NewRow(s, k, r, i, n))
    /\ UNCHANGED <<plans, steps>>

\* retry_from_attempt_id is b
ClaimRetry(a, b, s, k, r, i) ==
    /\ a \in Attempts \ Rows
    /\ MayClaim(s, k, r)
    /\ b \in Latest(s) /\ Retryable(b)
    /\ steps[s] \in {"failed", "pending"}
    /\ \E n \in 1..MaxAttemptNo : IsNextNo(n, s) /\ Insert(a, NewRow(s, k, r, i, n))
    /\ steps' = [steps EXCEPT ![s] = Reset(s)]
    /\ UNCHANGED plans

-------------------------------------------------------------------------------
(* The owner's writes *)

\* A renewal gives a later expiry to a lease that is still live: in terms of
\* live and lapsed nothing changes, and a lapsed lease is never revived.
LeaseLapses(a) ==
    /\ a \in Rows
    /\ attempts[a].status \in Dispatched /\ attempts[a].lease = "live"
    /\ SetRow(a, [attempts[a] EXCEPT !.lease = "lapsed"])
    /\ UNCHANGED <<plans, steps, events>>

Start(a, i) ==
    /\ Holds(i, a) /\ attempts[a].status = "pending"
    /\ steps[attempts[a].step] = "pending"
    /\ SetRow(a, [attempts[a] EXCEPT !.status = "running"])
    /\ steps' = [steps EXCEPT ![attempts[a].step] = "in_progress"]
    /\ Log(a, "attempt_started")
    /\ UNCHANGED plans

AppendEvent(a, i, type) ==
    /\ Holds(i, a) /\ attempts[a].status = "running"
    /\ Len(events[a]) < MaxEvents
    /\ Log(a, type)
    /\ UNCHANGED <<plans, steps, attempts>>

\* plans' after step s of task t became completed: the last step of an active
\* plan completes it in the same transaction.
CompletePlanIfDone(t) ==
    plans' = IF AllDone(steps', t) /\ plans[t] = "active"
             THEN [plans EXCEPT ![t] = "completed"] ELSE plans

Finalize(a, i, success) ==
    LET s == attempts[a].step
    IN  /\ Holds(i, a) /\ attempts[a].status = "running"
        /\ steps[s] = "in_progress"
        /\ SetRow(a, [attempts[a] EXCEPT
                        !.status = IF success THEN "succeeded" ELSE "failed"])
        /\ steps' = [steps EXCEPT ![s] = IF success THEN "completed" ELSE "failed"]
        /\ IF success THEN CompletePlanIfDone(TaskOf[s]) ELSE UNCHANGED plans
        /\ Log(a, IF success THEN "attempt_succeeded" ELSE "attempt_failed")

Block(a, i, reason) ==
    LET s == attempts[a].step
    IN  /\ Holds(i, a) /\ attempts[a].status \in Dispatched
        /\ SetRow(a, [attempts[a] EXCEPT !.status = "blocked", !.reason = reason])
        /\ steps' = [steps EXCEPT ![s] = Reset(s)]
        /\ Log(a, "attempt_blocked")
        /\ UNCHANGED plans

\* Mutant: the step of a deferred attempt is left in progress.
DeferWithoutReset(a, i, asks) ==
    /\ Holds(i, a) /\ attempts[a].status \in Dispatched
    /\ SetRow(a, [attempts[a] EXCEPT !.status = "waiting_authorization", !.asks = asks])
    /\ Log(a, "authorization_deferred")
    /\ UNCHANGED <<plans, steps>>

Defer(a, i, asks) ==
    LET s == attempts[a].step
    IN  /\ Holds(i, a) /\ attempts[a].status \in Dispatched
        /\ SetRow(a, [attempts[a] EXCEPT !.status = "waiting_authorization",
                                         !.asks = asks])
        /\ steps' = [steps EXCEPT ![s] = Reset(s)]
        /\ Log(a, "authorization_deferred")
        /\ UNCHANGED plans

-------------------------------------------------------------------------------
(* Writes by anyone else: abort, an approved file change, recovery *)

\* Mutant: an attempt that is over may still be aborted.
AbortAny(a) ==
    /\ a \in Rows
    /\ SetRow(a, [attempts[a] EXCEPT !.status = "cancelled"])
    /\ steps' = [steps EXCEPT ![attempts[a].step] = Reset(attempts[a].step)]
    /\ Log(a, "attempt_cancelled")
    /\ UNCHANGED plans

\* Mutant: the cancellation is not logged.
AbortUnlogged(a) ==
    /\ a \in Rows /\ attempts[a].status \in Unsettled
    /\ SetRow(a, [attempts[a] EXCEPT !.status = "cancelled"])
    /\ steps' = [steps EXCEPT ![attempts[a].step] = Reset(attempts[a].step)]
    /\ UNCHANGED <<plans, events>>

\* No owner or lease condition: a user may abort what a dead process left.
Abort(a) ==
    LET s == attempts[a].step
    IN  /\ a \in Rows /\ attempts[a].status \in Unsettled
        /\ SetRow(a, [attempts[a] EXCEPT !.status = "cancelled"])
        /\ steps' = [steps EXCEPT ![s] = Reset(s)]
        /\ Log(a, "attempt_cancelled")
        /\ UNCHANGED plans

\* Mutant: an approval that comes after the abort still completes the attempt.
CompleteAuthorizedLate(a, i) ==
    /\ a \in Rows /\ attempts[a].status \in {"waiting_authorization", "cancelled"}
    /\ attempts[a].asks = "file"
    /\ SetRow(a, [attempts[a] EXCEPT !.status = "succeeded", !.owner = i])
    /\ steps' = [steps EXCEPT ![attempts[a].step] = "completed"]
    /\ CompletePlanIfDone(TaskOf[attempts[a].step])
    /\ events' = [events EXCEPT ![a] = @ \o <<"tool_event", "attempt_succeeded">>]

\* waiting_authorization -> running -> succeeded and pending -> in_progress ->
\* completed inside one transaction; instance i takes the attempt over.
CompleteAuthorized(a, i) ==
    LET s == attempts[a].step
    IN  /\ a \in Rows /\ attempts[a].status = "waiting_authorization"
        /\ attempts[a].asks = "file"
        /\ steps[s] = "pending"
        /\ SetRow(a, [attempts[a] EXCEPT !.status = "succeeded", !.owner = i,
                                         !.lease = "live"])
        /\ steps' = [steps EXCEPT ![s] = "completed"]
        /\ CompletePlanIfDone(TaskOf[s])
        /\ events' = [events EXCEPT ![a] = @ \o <<"tool_event", "attempt_succeeded">>]

\* Mutant: recovery also takes attempts that wait for permission.
StaleUnsettled(i, ks) ==
    {a \in Rows : /\ attempts[a].status \in Unsettled
                  /\ attempts[a].session \in ks
                  /\ attempts[a].owner # i \/ attempts[a].lease = "lapsed"}

\* Every dispatched attempt of the sessions ks that instance i does not own, or
\* owns with a lapsed lease, even when its owner is alive and its lease live.
Stale(i, ks) == {a \in Rows : /\ attempts[a].status \in Dispatched
                              /\ attempts[a].session \in ks
                              /\ attempts[a].owner # i \/ attempts[a].lease = "lapsed"}

\* ks is one session (before a turn) or all of them (at startup).
Reconcile(i, ks) ==
    LET stale == Stale(i, ks)
    IN  /\ attempts' = [a \in Rows |-> IF a \in stale
                          THEN [attempts[a] EXCEPT !.status = "blocked",
                                                    !.reason = "outcome_unknown"]
                          ELSE attempts[a]]
        /\ steps' = [s \in Steps |-> IF \E a \in stale : attempts[a].step = s
                                     THEN Reset(s) ELSE steps[s]]
        /\ events' = [a \in Rows |-> IF a \in stale
                          THEN Append(events[a], "recovery_reconciled")
                          ELSE events[a]]
        /\ UNCHANGED plans

-------------------------------------------------------------------------------
(* Specification *)

Init ==
    /\ plans = [t \in Tasks |-> "absent"]
    /\ steps = [s \in Steps |-> "pending"]
    /\ attempts = [a \in {} |-> {}]
    /\ events = [a \in {} |-> <<>>]

PlanWrite ==
    \/ \E t \in Tasks, replace \in BOOLEAN : CreatePlan(t, replace)
    \/ \E s \in Steps, status \in ManualStatuses : UpdateStep(s, status)
    \/ \E t \in Tasks, status \in {"completed", "cancelled"} : SetTaskStatus(t, status)

Claim ==
    \E a \in Attempts, s \in Steps, k \in Sessions, r \in Requests, i \in Instances :
        \/ ClaimFresh(a, s, k, r, i)
        \/ \E b \in Rows : ClaimRetry(a, b, s, k, r, i)

OwnerWrite ==
    \E a \in Rows, i \in Instances :
        \/ Start(a, i)
        \/ \E type \in ToolEvents : AppendEvent(a, i, type)
        \/ \E success \in BOOLEAN : Finalize(a, i, success)
        \/ \E reason \in BlockReasons : Block(a, i, reason)
        \/ \E asks \in {"file", "other"} : Defer(a, i, asks)

OtherWrite ==
    \/ \E a \in Rows : LeaseLapses(a)
    \/ \E a \in Rows : Abort(a)
    \/ \E a \in Rows, i \in Instances : CompleteAuthorized(a, i)
    \/ \E i \in Instances, ks \in {Sessions} \cup {{k} : k \in Sessions} : Reconcile(i, ks)

Next == PlanWrite \/ Claim \/ OwnerWrite \/ OtherWrite

Spec == Init /\ [][Next]_vars
-------------------------------------------------------------------------------
(* Safety *)

\* A session never has two active plans: create_plan relies on the partial
\* unique index ux_task_plans_one_active_per_session, and set_task_status never
\* makes a plan active again.
OneActivePlanPerSession ==
    \A t, u \in Tasks :
        (plans[t] = "active" /\ plans[u] = "active" /\ SessionOf[t] = SessionOf[u]) => t = u

\* At most one unsettled attempt per task, whichever of its steps it is on, so
\* ux_task_execution_one_active_per_task never rejects a write.
OneActiveAttemptPerTask ==
    \A a, b \in Rows :
        /\ attempts[a].status \in Unsettled /\ attempts[b].status \in Unsettled
        /\ TaskOf[attempts[a].step] = TaskOf[attempts[b].step]
        => a = b

\* No plan is completed, cancelled or replaced under an unsettled attempt.
ActiveAttemptNeedsActivePlan ==
    \A a \in Rows :
        attempts[a].status \in Unsettled => plans[TaskOf[attempts[a].step]] = "active"

\* The step of an unsettled attempt says what the attempt is doing: in progress
\* while it runs, pending while it is only claimed or waits for permission.  It
\* makes the "step start/finalize/resume conflict" branches unreachable.
StepMirrorsAttempt ==
    \A a \in Rows :
        /\ attempts[a].status = "running" => steps[attempts[a].step] = "in_progress"
        /\ attempts[a].status \in {"pending", "waiting_authorization"}
              => steps[attempts[a].step] = "pending"

\* A request is never given a second attempt in its session, not even after its
\* first attempt is over or its plan was replaced (UNIQUE(session_key, request_id)).
OneAttemptPerRequest ==
    \A a, b \in Rows :
        (attempts[a].session = attempts[b].session
            /\ attempts[a].request = attempts[b].request) => a = b

\* The attempts of a step are numbered 1, 2, 3, ... without a gap or a repeat
\* (UNIQUE(step_id, attempt_no)), so "latest attempt" is well defined.
AttemptsNumberedInOrder ==
    \A a \in Rows :
        /\ \A b \in OnStep(attempts[a].step) : attempts[a].no = attempts[b].no => a = b
        /\ \A n \in 1..attempts[a].no : \E b \in OnStep(attempts[a].step) : attempts[b].no = n

\* The status a lifecycle event leaves the attempt in.
StatusAfter ==
    [attempt_claimed |-> "pending", attempt_started |-> "running",
     authorization_deferred |-> "waiting_authorization",
     attempt_succeeded |-> "succeeded", attempt_failed |-> "failed",
     attempt_blocked |-> "blocked", recovery_reconciled |-> "blocked",
     attempt_cancelled |-> "cancelled"]

\* The log explains the row: it begins with the claim, its last lifecycle event gives
\* the status, and nothing is logged once the attempt is over.
Explains(log, status) ==
    /\ log # <<>> /\ log[1] = "attempt_claimed"
    /\ \E n \in 1..Len(log) :
          /\ log[n] \notin ToolEvents /\ StatusAfter[log[n]] = status
          /\ status \in Terminal => n = Len(log)
          /\ \A m \in 1..Len(log) :
                /\ m > n => log[m] \in ToolEvents
                /\ m < n /\ log[m] \notin ToolEvents => StatusAfter[log[m]] \notin Terminal

LogExplainsStatus == \A a \in Rows : Explains(events[a], attempts[a].status)

\* Once settled, an attempt is never changed, logged to or removed again: late
\* results, renewals, aborts and recovery passes all miss it.
SettledIsFinal ==
    [][\A a \in Rows : attempts[a].status \in Terminal =>
          /\ a \in DOMAIN attempts' /\ attempts'[a] = attempts[a]
          /\ events'[a] = events[a]]_vars

\* A lapsed lease is dead: its attempt can only be aborted or blocked by a
\* recovery pass, it never starts, succeeds, fails, waits or logs a tool result.
LapsedLeaseIsDead ==
    [][\A a \in Rows : (attempts[a].status \in Dispatched /\ attempts[a].lease = "lapsed") =>
          \/ attempts'[a] = attempts[a] /\ events'[a] = events[a]
          \/ attempts'[a].status \in {"blocked", "cancelled"}]_vars

\* Recovery never decides for the user: an attempt that waits for permission is
\* only ever settled by the approved file change or by an explicit abort.
WaitingSurvivesRecovery ==
    [][\A a \in Rows : attempts[a].status = "waiting_authorization" =>
          attempts'[a].status \in {"waiting_authorization", "succeeded", "cancelled"}]_vars

\* The rows and the log of a step tell one story: attempts numbered in the order they
\* were claimed, each with a log that explains its status.
HistoryIsSound == AttemptsNumberedInOrder /\ LogExplainsStatus

\* While an attempt stays unsettled its task is frozen: the plan keeps its status
\* and no other step of the task changes, whoever else writes.
TaskFrozenUnderAttempt ==
    [][\A a \in Rows :
          (attempts[a].status \in Unsettled /\ attempts'[a].status \in Unsettled) =>
             LET t == TaskOf[attempts[a].step]
             IN  /\ plans'[t] = plans[t]
                 /\ \A s \in StepsOf(t) \ {attempts[a].step} : steps'[s] = steps[s]]_vars

\* A step blocked for a reason that is not retryable is never attempted again,
\* by a fresh claim or by a retry; only the user can move it on by hand.
UnretryableBlockIsHeld ==
    [][\A s \in Steps :
          (\E b \in Latest(s) : attempts[b].status = "blocked"
                               /\ attempts[b].reason \notin RetryableBlockReasons) =>
             {a \in DOMAIN attempts' : attempts'[a].step = s} = OnStep(s)]_vars

\* The lock the tables implement.
Lock == INSTANCE TaskLock WITH
    Keys <- Sessions \X Requests,
    Outcomes <- Terminal,
    holders <- [t \in Tasks |-> ActiveOn(t)],
    granted <- {<<attempts[a].session, attempts[a].request>> : a \in Rows},
    outcome <- [a \in {b \in Rows : attempts[b].status \in Terminal} |->
                   attempts[a].status]

\* Every transaction of the store is a grant, a settlement or invisible to the
\* users of the lock.
ImplementsLock == Lock!LockSpec


===============================================================================
