---------------------------- MODULE TaskStoreProofs ----------------------------
(***************************************************************************)
(* Machine-checked proofs about TaskStore: its type invariant and the      *)
(* safety and action properties TLC checks on small instances, here for    *)
(* every number of sessions, tasks, steps, requests and attempts.          *)
(***************************************************************************)
EXTENDS TaskStore, SequenceTheorems, TLAPS

-------------------------------------------------------------------------------
(* Types *)

\* Rewriting the row of an attempt leaves the other rows alone.
LEMMA SetRowEffect ==
    ASSUME TypeOK, NEW a \in Rows, NEW row \in Row, SetRow(a, row)
    PROVE  /\ DOMAIN attempts' = Rows
           /\ attempts' \in [Rows -> Row]
           /\ attempts'[a] = row
           /\ \A b \in Rows : b # a => attempts'[b] = attempts[b]
BY DEF TypeOK, Rows, SetRow

\* Logging appends one event to the log of one attempt.
LEMMA LogEffect ==
    ASSUME TypeOK, NEW a \in Rows, NEW type \in EventType, Log(a, type)
    PROVE  events' \in [Rows -> Seq(EventType)]
BY DEF TypeOK, Rows, Log

\* Rows that Insert adds one attempt to, with the rest unchanged.
LEMMA InsertEffect ==
    ASSUME TypeOK, NEW a \in Attempts \ Rows, NEW row \in Row, Insert(a, row)
    PROVE  /\ DOMAIN attempts' = Rows \cup {a}
           /\ attempts' \in [Rows \cup {a} -> Row]
           /\ attempts'[a] = row
           /\ \A b \in Rows : attempts'[b] = attempts[b]
           /\ events' \in [Rows \cup {a} -> Seq(EventType)]
<1>1. <<"attempt_claimed">> \in Seq(EventType)
  BY DEF EventType
<1> QED
  BY <1>1 DEF TypeOK, Rows, Insert

\* A claimed attempt starts with a row of the schema's types.
LEMMA NewRowType ==
    ASSUME NEW s \in Steps, NEW k \in Sessions, NEW r \in Requests,
           NEW i \in Instances, NEW n \in 1..MaxAttemptNo
    PROVE  NewRow(s, k, r, i, n) \in Row
BY DEF NewRow, Row, Unsettled, Asks

LEMMA ClaimEffect ==
    ASSUME TypeOK, NEW a \in Attempts \ Rows, NEW s \in Steps, NEW k \in Sessions,
           NEW r \in Requests, NEW i \in Instances, NEW n \in 1..MaxAttemptNo,
           Insert(a, NewRow(s, k, r, i, n))
    PROVE  /\ DOMAIN attempts' = Rows \cup {a}
           /\ attempts' \in [Rows \cup {a} -> Row]
           /\ events' \in [Rows \cup {a} -> Seq(EventType)]
<1>1. NewRow(s, k, r, i, n) \in Row
  BY NewRowType
<1>2. PICK row \in Row : Insert(a, row)
  BY <1>1
<1> QED
  BY <1>2, InsertEffect

LEMMA ResetType == ASSUME TypeOK, NEW s \in Steps PROVE Reset(s) \in StepStatus
BY DEF TypeOK, Reset, StepStatus

\* The rest of a step that rewrites the row and the step of one attempt: every
\* write of the owner, an abort and a late completion has this shape.
LEMMA RowWriteType ==
    ASSUME TypeOK, StoreAssumption, NEW a \in Rows, NEW row \in Row, SetRow(a, row),
           plans' \in [Tasks -> PlanStatus \cup {"absent"}],
           steps' \in [Steps -> StepStatus],
           events' \in [Rows -> Seq(EventType)]
    PROVE  TypeOK'
<1>1. DOMAIN attempts' = Rows /\ attempts' \in [Rows -> Row]
  BY SetRowEffect
<1> QED
  BY <1>1 DEF TypeOK, Rows

\* Every step keeps the tables well typed.
LEMMA TypeStep == ASSUME TypeOK, StoreAssumption, [Next]_vars PROVE TypeOK'
<1> USE DEF Row, Rows
<1>1. CASE PlanWrite
  <2>1. ASSUME NEW t \in Tasks, NEW replace \in BOOLEAN, CreatePlan(t, replace)
        PROVE  TypeOK'
    BY <2>1 DEF TypeOK, CreatePlan, PlanStatus, StepStatus
  <2>2. ASSUME NEW s \in Steps, NEW status \in ManualStatuses, UpdateStep(s, status)
        PROVE  TypeOK'
    BY <2>2, StoreAssumption DEF TypeOK, UpdateStep, StepStatus, StoreAssumption
  <2>3. ASSUME NEW t \in Tasks, NEW status \in {"completed", "cancelled"},
               SetTaskStatus(t, status)
        PROVE  TypeOK'
    BY <2>3 DEF TypeOK, SetTaskStatus, PlanStatus
  <2> QED
    BY <1>1, <2>1, <2>2, <2>3 DEF PlanWrite
<1>2. CASE Claim
  <2> SUFFICES ASSUME NEW a \in Attempts, NEW s \in Steps, NEW k \in Sessions,
                      NEW r \in Requests, NEW i \in Instances,
                      ClaimFresh(a, s, k, r, i) \/ \E b \in Rows : ClaimRetry(a, b, s, k, r, i)
               PROVE  TypeOK'
    BY <1>2 DEF Claim
  <2> HIDE DEF Row
  <2>1. PICK n \in 1..MaxAttemptNo : Insert(a, NewRow(s, k, r, i, n))
    BY DEF ClaimFresh, ClaimRetry
  <2>2. a \in Attempts \ Rows
    BY DEF ClaimFresh, ClaimRetry
  <2>3. /\ DOMAIN attempts' = Rows \cup {a}
        /\ attempts' \in [Rows \cup {a} -> Row]
        /\ events' \in [Rows \cup {a} -> Seq(EventType)]
    BY <2>1, <2>2, ClaimEffect
  <2>4. plans' = plans /\ steps' \in [Steps -> StepStatus]
    <3>1. Reset(s) \in StepStatus
      BY ResetType
    <3>2. plans' = plans /\ (steps' = steps \/ steps' = [steps EXCEPT ![s] = Reset(s)])
      BY DEF ClaimFresh, ClaimRetry
    <3> QED
      BY <3>1, <3>2 DEF TypeOK
  <2> QED
    BY <2>2, <2>3, <2>4 DEF TypeOK
<1>3. CASE OwnerWrite
  <2> SUFFICES ASSUME NEW a \in Rows, NEW i \in Instances,
                      \/ Start(a, i)
                      \/ \E type \in ToolEvents : AppendEvent(a, i, type)
                      \/ \E success \in BOOLEAN : Finalize(a, i, success)
                      \/ \E reason \in BlockReasons : Block(a, i, reason)
                      \/ \E asks \in {"file", "other"} : Defer(a, i, asks)
               PROVE  TypeOK'
    BY <1>3 DEF OwnerWrite
  <2>0. attempts[a] \in Row /\ attempts[a].step \in Steps
    BY DEF TypeOK
  <2>1. CASE Start(a, i)
    <3>1. [attempts[a] EXCEPT !.status = "running"] \in Row
      BY <2>0 DEF Unsettled
    <3>2. steps' \in [Steps -> StepStatus]
      BY <2>0, <2>1 DEF Start, TypeOK, StepStatus
    <3>3. events' \in [Rows -> Seq(EventType)]
      BY <2>1, LogEffect DEF Start, EventType
    <3> QED
      BY <2>1, <3>1, <3>2, <3>3, RowWriteType DEF Start, TypeOK
  <2>2. CASE \E type \in ToolEvents : AppendEvent(a, i, type)
    <3>1. events' \in [Rows -> Seq(EventType)]
      BY <2>2, LogEffect DEF AppendEvent, EventType
    <3> QED
      BY <2>2, <3>1 DEF AppendEvent, TypeOK
  <2>3. ASSUME NEW success \in BOOLEAN, Finalize(a, i, success) PROVE TypeOK'
    <3> DEFINE row == [attempts[a] EXCEPT !.status = IF success THEN "succeeded" ELSE "failed"]
    <3>1. row \in Row
      BY <2>0 DEF Terminal
    <3>2. steps' \in [Steps -> StepStatus]
      BY <2>0, <2>3 DEF Finalize, TypeOK, StepStatus
    <3>3. events' \in [Rows -> Seq(EventType)]
      BY <2>3, LogEffect DEF Finalize, EventType
    <3>4. plans' \in [Tasks -> PlanStatus \cup {"absent"}]
      BY <2>3 DEF Finalize, CompletePlanIfDone, TypeOK, PlanStatus
    <3>5. SetRow(a, row)
      BY <2>3 DEF Finalize
    <3> QED
      BY <3>1, <3>2, <3>3, <3>4, <3>5, RowWriteType
  <2>4. ASSUME NEW reason \in BlockReasons, Block(a, i, reason) PROVE TypeOK'
    <3>1. [attempts[a] EXCEPT !.status = "blocked", !.reason = reason] \in Row
      BY <2>0 DEF Terminal
    <3>2. steps' \in [Steps -> StepStatus]
      BY <2>0, <2>4, ResetType DEF Block, TypeOK
    <3>3. events' \in [Rows -> Seq(EventType)]
      BY <2>4, LogEffect DEF Block, EventType
    <3> QED
      BY <2>4, <3>1, <3>2, <3>3, RowWriteType DEF Block, TypeOK
  <2>5. ASSUME NEW asks \in {"file", "other"}, Defer(a, i, asks) PROVE TypeOK'
    <3>1. [attempts[a] EXCEPT !.status = "waiting_authorization", !.asks = asks] \in Row
      BY <2>0 DEF Unsettled, Asks
    <3>2. steps' \in [Steps -> StepStatus]
      BY <2>0, <2>5, ResetType DEF Defer, TypeOK
    <3>3. events' \in [Rows -> Seq(EventType)]
      BY <2>5, LogEffect DEF Defer, EventType
    <3> QED
      BY <2>5, <3>1, <3>2, <3>3, RowWriteType DEF Defer, TypeOK
  <2> QED
    BY <2>1, <2>2, <2>3, <2>4, <2>5
<1>4. CASE OtherWrite
  <2>0. ASSUME NEW a \in Rows PROVE attempts[a] \in Row /\ attempts[a].step \in Steps
    BY DEF TypeOK
  <2>1. ASSUME NEW a \in Rows, LeaseLapses(a) PROVE TypeOK'
    <3>1. [attempts[a] EXCEPT !.lease = "lapsed"] \in Row
      BY <2>0
    <3> QED
      BY <2>1, <3>1, RowWriteType DEF LeaseLapses, TypeOK
  <2>2. ASSUME NEW a \in Rows, Abort(a) PROVE TypeOK'
    <3>1. [attempts[a] EXCEPT !.status = "cancelled"] \in Row
      BY <2>0 DEF Terminal
    <3>2. steps' \in [Steps -> StepStatus]
      BY <2>0, <2>2, ResetType DEF Abort, TypeOK
    <3>3. events' \in [Rows -> Seq(EventType)]
      BY <2>2, LogEffect DEF Abort, EventType
    <3> QED
      BY <2>2, <3>1, <3>2, <3>3, RowWriteType DEF Abort, TypeOK
  <2>3. ASSUME NEW a \in Rows, NEW i \in Instances, CompleteAuthorized(a, i) PROVE TypeOK'
    <3>1. [attempts[a] EXCEPT !.status = "succeeded", !.owner = i, !.lease = "live"] \in Row
      BY <2>0 DEF Terminal
    <3>2. steps' \in [Steps -> StepStatus]
      BY <2>0, <2>3 DEF CompleteAuthorized, TypeOK, StepStatus
    <3>3. <<"tool_event", "attempt_succeeded">> \in Seq(EventType)
      BY DEF EventType, ToolEvents
    <3>4. events' \in [Rows -> Seq(EventType)]
      <4>1. events[a] \o <<"tool_event", "attempt_succeeded">> \in Seq(EventType)
        BY <3>3, ConcatProperties DEF TypeOK
      <4> QED
        BY <2>3, <4>1 DEF CompleteAuthorized, TypeOK
    <3>5. plans' \in [Tasks -> PlanStatus \cup {"absent"}]
      BY <2>3 DEF CompleteAuthorized, CompletePlanIfDone, TypeOK, PlanStatus
    <3> QED
      BY <2>3, <3>1, <3>2, <3>4, <3>5, RowWriteType DEF CompleteAuthorized
  <2>4. ASSUME NEW i \in Instances, NEW ks, Reconcile(i, ks) PROVE TypeOK'
    <3>1. DOMAIN attempts' = Rows /\ DOMAIN events' = Rows /\ plans' = plans
      BY <2>4 DEF Reconcile
    <3>2. ASSUME NEW a \in Rows PROVE attempts'[a] \in Row
      <4>1. [attempts[a] EXCEPT !.status = "blocked", !.reason = "outcome_unknown"] \in Row
        BY <2>0 DEF Terminal, BlockReasons, RetryableBlockReasons
      <4> QED
        BY <2>4, <4>1, <2>0 DEF Reconcile
    <3>3. steps' \in [Steps -> StepStatus]
      BY <2>4, ResetType DEF Reconcile, TypeOK
    <3>4. ASSUME NEW a \in Rows PROVE events'[a] \in Seq(EventType)
      <4>1. events[a] \in Seq(EventType) /\ "recovery_reconciled" \in EventType
        BY DEF TypeOK, EventType
      <4>2. Append(events[a], "recovery_reconciled") \in Seq(EventType)
        BY <4>1, AppendProperties
      <4> QED
        BY <2>4, <4>1, <4>2 DEF Reconcile
    <3>5. attempts' \in [Rows -> Row] /\ events' \in [Rows -> Seq(EventType)]
      BY <2>4, <3>2, <3>4 DEF Reconcile
    <3> QED
      BY <3>1, <3>3, <3>5 DEF TypeOK
  <2> QED
    BY <1>4, <2>1, <2>2, <2>3, <2>4 DEF OtherWrite
<1>5. CASE UNCHANGED vars
  BY <1>5 DEF vars, TypeOK
<1> QED
  BY <1>1, <1>2, <1>3, <1>4, <1>5 DEF Next

\* The four tables only ever hold rows of the schema's types, whatever methods
\* of the store are called in whatever order.
THEOREM TypeCorrect == Spec => []TypeOK
<1>1. Init => TypeOK
  BY DEF Init, TypeOK, PlanStatus, StepStatus
<1>2. TypeOK /\ [Next]_vars => TypeOK'
  BY StoreAssumption, TypeStep
<1> QED
  BY <1>1, <1>2, PTL DEF Spec

-------------------------------------------------------------------------------
(* One active plan, one active attempt, one attempt per request *)

\* The inductive invariant.  The parts need each other: that the other steps of a
\* task keep still while an attempt moves its own step is only known because no
\* second attempt of the task is unsettled, and that a plan may be completed with
\* its last step because the attempt that completes it was the only one.
StoreInv ==
    /\ TypeOK
    /\ OneActivePlanPerSession
    /\ OneActiveAttemptPerTask
    /\ ActiveAttemptNeedsActivePlan
    /\ StepMirrorsAttempt
    /\ OneAttemptPerRequest

Mirrors(status, step) ==
    /\ status = "running" => step = "in_progress"
    /\ status \in {"pending", "waiting_authorization"} => step = "pending"

\* The shape of every write to one unsettled attempt: it keeps the attempt's
\* identity, it touches no step but its own, and it ends the plan only together
\* with the attempt.
RowWrite(a) ==
    LET s == attempts[a].step
    IN  /\ attempts[a].status \in Unsettled
        /\ DOMAIN attempts' = Rows
        /\ \A b \in Rows : b # a => attempts'[b] = attempts[b]
        /\ attempts'[a].session = attempts[a].session
        /\ attempts'[a].request = attempts[a].request
        /\ attempts'[a].step = s
        /\ \A x \in Steps : x # s => steps'[x] = steps[x]
        /\ Mirrors(attempts'[a].status, steps'[s])
        /\ \A t \in Tasks :
              \/ plans'[t] = plans[t]
              \/ /\ t = TaskOf[s] /\ plans'[t] = "completed"
                 /\ attempts'[a].status \notin Unsettled

LEMMA RowWriteKeepsInv ==
    ASSUME StoreInv, StoreAssumption, TypeOK', NEW a \in Rows, RowWrite(a)
    PROVE  StoreInv'
<1> DEFINE s == attempts[a].step
<1> USE DEF Rows
<1>0. /\ \A b \in Rows : attempts[b] \in Row /\ attempts[b].step \in Steps
      /\ \A x \in Steps : TaskOf[x] \in Tasks
      /\ DOMAIN attempts' = Rows
  BY DEF StoreInv, TypeOK, Row, StoreAssumption, RowWrite
<1>1. \A b \in Rows : /\ attempts'[b].step = attempts[b].step
                      /\ attempts'[b].session = attempts[b].session
                      /\ attempts'[b].request = attempts[b].request
                      /\ attempts'[b].status \in Unsettled => attempts[b].status \in Unsettled
  BY DEF RowWrite
<1>2. ASSUME NEW b \in Rows, attempts[b].status \in Unsettled, b # a
      PROVE  TaskOf[attempts[b].step] # TaskOf[s]
  BY <1>2 DEF StoreInv, OneActiveAttemptPerTask, RowWrite
<1>3. OneActivePlanPerSession'
  BY DEF StoreInv, OneActivePlanPerSession, RowWrite
<1>4. OneActiveAttemptPerTask'
  BY <1>0, <1>1 DEF StoreInv, OneActiveAttemptPerTask
<1>5. ActiveAttemptNeedsActivePlan'
  <2> SUFFICES ASSUME NEW b \in Rows, attempts'[b].status \in Unsettled
               PROVE  plans'[TaskOf[attempts[b].step]] = "active"
    BY <1>0, <1>1 DEF ActiveAttemptNeedsActivePlan
  <2>1. plans[TaskOf[attempts[b].step]] = "active" /\ TaskOf[attempts[b].step] \in Tasks
    BY <1>0, <1>1 DEF StoreInv, ActiveAttemptNeedsActivePlan
  <2>2. CASE b = a
    BY <2>1, <2>2 DEF RowWrite
  <2>3. CASE b # a
    BY <1>1, <1>2, <2>1, <2>3 DEF RowWrite
  <2> QED
    BY <2>2, <2>3
<1>6. StepMirrorsAttempt'
  <2> SUFFICES ASSUME NEW b \in Rows
               PROVE  Mirrors(attempts'[b].status, steps'[attempts[b].step])
    BY <1>0, <1>1 DEF StepMirrorsAttempt, Mirrors
  <2>1. CASE b = a
    BY <2>1 DEF RowWrite
  <2>2. CASE b # a /\ attempts[b].status \in Unsettled
    <3>1. attempts'[b] = attempts[b] /\ steps'[attempts[b].step] = steps[attempts[b].step]
      BY <1>0, <1>2, <2>2 DEF RowWrite
    <3> QED
      BY <3>1 DEF StoreInv, StepMirrorsAttempt, Mirrors
  <2>3. CASE b # a /\ attempts[b].status \notin Unsettled
    BY <2>3 DEF RowWrite, Mirrors, Unsettled
  <2> QED
    BY <2>1, <2>2, <2>3
<1>7. OneAttemptPerRequest'
  BY <1>0, <1>1 DEF StoreInv, OneAttemptPerRequest
<1> QED
  BY <1>3, <1>4, <1>5, <1>6, <1>7 DEF StoreInv

\* The step a write puts back is pending unless it was moved on by hand.
LEMMA ResetOfMirrored ==
    ASSUME StoreInv, StoreAssumption, NEW a \in Rows, attempts[a].status \in Unsettled
    PROVE  Reset(attempts[a].step) = "pending"
BY DEF StoreInv, StepMirrorsAttempt, Unsettled, Reset, Resettable, Rows

\* Every write of the owner of an attempt has that shape.
LEMMA OwnerWriteShape ==
    ASSUME StoreInv, StoreAssumption, NEW a \in Rows, NEW i \in Instances,
           \/ Start(a, i)
           \/ \E type \in ToolEvents : AppendEvent(a, i, type)
           \/ \E success \in BOOLEAN : Finalize(a, i, success)
           \/ \E reason \in BlockReasons : Block(a, i, reason)
           \/ \E asks \in {"file", "other"} : Defer(a, i, asks)
    PROVE  RowWrite(a)
<1> USE DEF Rows
<1> DEFINE s == attempts[a].step
<1>0. /\ attempts[a] \in Row /\ s \in Steps /\ TaskOf[s] \in Tasks
      /\ DOMAIN steps = Steps /\ DOMAIN plans = Tasks
  BY DEF StoreInv, TypeOK, Row, StoreAssumption
<1>1. CASE Start(a, i)
  BY <1>0, <1>1 DEF Start, SetRow, RowWrite, Mirrors, Row, Unsettled
<1>2. CASE \E type \in ToolEvents : AppendEvent(a, i, type)
  BY <1>0, <1>2 DEF AppendEvent, RowWrite, Mirrors, Unsettled, StoreInv, StepMirrorsAttempt
<1>3. ASSUME NEW success \in BOOLEAN, Finalize(a, i, success) PROVE RowWrite(a)
  <2>1. /\ attempts[a].status = "running" /\ SetRow(a, [attempts[a] EXCEPT
                !.status = IF success THEN "succeeded" ELSE "failed"])
        /\ steps' = [steps EXCEPT ![s] = IF success THEN "completed" ELSE "failed"]
        /\ (IF success THEN CompletePlanIfDone(TaskOf[s]) ELSE UNCHANGED plans)
    BY <1>3 DEF Finalize
  <2>2. \A t \in Tasks : plans'[t] = plans[t] \/ (t = TaskOf[s] /\ plans'[t] = "completed")
    BY <1>0, <2>1 DEF CompletePlanIfDone
  <2>3. attempts'[a].status \in {"succeeded", "failed"}
    BY <1>0, <2>1 DEF SetRow, Row
  <2> QED
    BY <1>0, <2>1, <2>2, <2>3 DEF SetRow, RowWrite, Mirrors, Row, Unsettled
<1>4. ASSUME NEW reason \in BlockReasons, Block(a, i, reason) PROVE RowWrite(a)
  BY <1>0, <1>4 DEF Block, SetRow, RowWrite, Mirrors, Row, Unsettled, Dispatched
<1>5. ASSUME NEW asks \in {"file", "other"}, Defer(a, i, asks) PROVE RowWrite(a)
  <2>1. Reset(s) = "pending"
    BY <1>5, ResetOfMirrored DEF Defer, Unsettled, Dispatched
  <2> QED
    BY <1>0, <1>5, <2>1 DEF Defer, SetRow, RowWrite, Mirrors, Row, Unsettled, Dispatched
<1> QED
  BY <1>1, <1>2, <1>3, <1>4, <1>5

\* So have a lapsing lease, an abort and the approved file change.
LEMMA OtherRowWriteShape ==
    ASSUME StoreInv, StoreAssumption, NEW a \in Rows,
           LeaseLapses(a) \/ Abort(a) \/ \E i \in Instances : CompleteAuthorized(a, i)
    PROVE  RowWrite(a)
<1> USE DEF Rows
<1> DEFINE s == attempts[a].step
<1>0. /\ attempts[a] \in Row /\ s \in Steps /\ TaskOf[s] \in Tasks
      /\ DOMAIN steps = Steps /\ DOMAIN plans = Tasks
  BY DEF StoreInv, TypeOK, Row, StoreAssumption
<1>1. CASE LeaseLapses(a)
  <2>1. Mirrors(attempts[a].status, steps[s])
    BY DEF StoreInv, StepMirrorsAttempt, Mirrors
  <2> QED
    BY <1>0, <1>1, <2>1 DEF LeaseLapses, SetRow, RowWrite, Row, Unsettled, Dispatched
<1>2. CASE Abort(a)
  BY <1>0, <1>2 DEF Abort, SetRow, RowWrite, Mirrors, Row
<1>3. ASSUME NEW i \in Instances, CompleteAuthorized(a, i) PROVE RowWrite(a)
  <2>1. /\ attempts[a].status = "waiting_authorization"
        /\ SetRow(a, [attempts[a] EXCEPT !.status = "succeeded", !.owner = i, !.lease = "live"])
        /\ steps' = [steps EXCEPT ![s] = "completed"]
        /\ CompletePlanIfDone(TaskOf[s])
    BY <1>3 DEF CompleteAuthorized
  <2>2. \A t \in Tasks : plans'[t] = plans[t] \/ (t = TaskOf[s] /\ plans'[t] = "completed")
    BY <1>0, <2>1 DEF CompletePlanIfDone
  <2>3. attempts'[a].status = "succeeded"
    BY <1>0, <2>1 DEF SetRow, Row
  <2> QED
    BY <1>0, <2>1, <2>2, <2>3 DEF SetRow, RowWrite, Mirrors, Row, Unsettled
<1> QED
  BY <1>1, <1>2, <1>3

\* A plan is created, replaced, completed or cancelled, or a step is set by hand,
\* only where no attempt is unsettled.
LEMMA PlanWriteKeepsInv ==
    ASSUME StoreInv, StoreAssumption, TypeOK', PlanWrite PROVE StoreInv'
<1> USE DEF Rows
<1>0. /\ \A a \in Rows : attempts[a].step \in Steps /\ TaskOf[attempts[a].step] \in Tasks
      /\ \A x \in Steps : TaskOf[x] \in Tasks
      /\ \A t \in Tasks : SessionOf[t] \in Sessions
      /\ attempts' = attempts
  BY DEF StoreInv, TypeOK, Row, StoreAssumption, PlanWrite, CreatePlan, UpdateStep, SetTaskStatus
<1>1. OneActiveAttemptPerTask' /\ OneAttemptPerRequest'
  BY <1>0 DEF StoreInv, OneActiveAttemptPerTask, OneAttemptPerRequest
<1>2. ASSUME NEW t \in Tasks, NEW replace \in BOOLEAN, CreatePlan(t, replace)
      PROVE  OneActivePlanPerSession' /\ ActiveAttemptNeedsActivePlan' /\ StepMirrorsAttempt'
  <2> DEFINE Replaced == {u \in Tasks : SessionOf[u] = SessionOf[t] /\ plans[u] = "active"}
  <2>1. /\ plans[t] = "absent"
        /\ IF replace THEN ~SessionHasActiveAttempt(SessionOf[t]) ELSE Replaced = {}
        /\ plans' = [u \in Tasks |-> IF u = t THEN "active"
                                     ELSE IF u \in Replaced THEN "cancelled" ELSE plans[u]]
        /\ steps' = [x \in Steps |-> IF TaskOf[x] = t THEN "pending" ELSE steps[x]]
    BY <1>2 DEF CreatePlan
  <2>2. OneActivePlanPerSession'
    BY <2>1 DEF StoreInv, OneActivePlanPerSession
  <2>3. ASSUME NEW a \in Rows, attempts[a].status \in Unsettled
        PROVE  TaskOf[attempts[a].step] # t /\ TaskOf[attempts[a].step] \notin Replaced
    <3> DEFINE u == TaskOf[attempts[a].step]
    <3>1. plans[u] = "active" /\ u \in Tasks
      BY <1>0, <2>3 DEF StoreInv, ActiveAttemptNeedsActivePlan
    <3>2. HasActiveAttempt(u)
      BY <2>3 DEF HasActiveAttempt, ActiveOn, OnTask
    <3> QED
      BY <2>1, <3>1, <3>2 DEF SessionHasActiveAttempt
  <2>4. ActiveAttemptNeedsActivePlan'
    BY <1>0, <2>1, <2>3 DEF StoreInv, ActiveAttemptNeedsActivePlan
  <2>5. StepMirrorsAttempt'
    BY <1>0, <2>1, <2>3 DEF StoreInv, StepMirrorsAttempt, Unsettled
  <2> QED
    BY <2>2, <2>4, <2>5
<1>3. ASSUME NEW s \in Steps, NEW status \in ManualStatuses, UpdateStep(s, status)
      PROVE  OneActivePlanPerSession' /\ ActiveAttemptNeedsActivePlan' /\ StepMirrorsAttempt'
  <2>1. plans' = plans /\ steps' = [steps EXCEPT ![s] = status] /\ ~HasActiveAttempt(TaskOf[s])
    BY <1>3 DEF UpdateStep
  <2>2. ASSUME NEW a \in Rows, attempts[a].status \in Unsettled PROVE attempts[a].step # s
    BY <2>1, <2>2 DEF HasActiveAttempt, ActiveOn, OnTask
  <2>3. StepMirrorsAttempt'
    BY <1>0, <2>1, <2>2 DEF StoreInv, TypeOK, StepMirrorsAttempt, Unsettled
  <2> QED
    BY <1>0, <2>1, <2>3 DEF StoreInv, OneActivePlanPerSession, ActiveAttemptNeedsActivePlan
<1>4. ASSUME NEW t \in Tasks, NEW status \in {"completed", "cancelled"}, SetTaskStatus(t, status)
      PROVE  OneActivePlanPerSession' /\ ActiveAttemptNeedsActivePlan' /\ StepMirrorsAttempt'
  <2>1. steps' = steps /\ plans' = [plans EXCEPT ![t] = status] /\ ~HasActiveAttempt(t)
    BY <1>4 DEF SetTaskStatus
  <2>2. ASSUME NEW a \in Rows, attempts[a].status \in Unsettled
        PROVE  TaskOf[attempts[a].step] # t
    BY <2>1, <2>2 DEF HasActiveAttempt, ActiveOn, OnTask
  <2> QED
    BY <1>0, <2>1, <2>2 DEF StoreInv, TypeOK, OneActivePlanPerSession,
                            ActiveAttemptNeedsActivePlan, StepMirrorsAttempt
<1> QED
  BY <1>1, <1>2, <1>3, <1>4 DEF StoreInv, PlanWrite

\* A claim adds an attempt with a new request to a task that has none unsettled.
LEMMA ClaimKeepsInv ==
    ASSUME StoreInv, StoreAssumption, TypeOK',
           NEW a \in Attempts, NEW s \in Steps, NEW k \in Sessions, NEW r \in Requests,
           NEW i \in Instances,
           ClaimFresh(a, s, k, r, i) \/ \E b \in Rows : ClaimRetry(a, b, s, k, r, i)
    PROVE  StoreInv'
<1> USE DEF Rows
<1>0. TypeOK /\ \A b \in Rows : attempts[b].step \in Steps
  BY DEF StoreInv, TypeOK, Row
<1>1. PICK n \in 1..MaxAttemptNo : Insert(a, NewRow(s, k, r, i, n))
  BY DEF ClaimFresh, ClaimRetry
<1>2. a \in Attempts \ Rows /\ MayClaim(s, k, r) /\ plans' = plans
  BY DEF ClaimFresh, ClaimRetry
<1>3. steps' = [steps EXCEPT ![s] = "pending"]
  <2>1. steps[s] \in {"failed", "pending"} => Reset(s) = "pending"
    BY DEF Reset, Resettable
  <2>2. CASE ClaimFresh(a, s, k, r, i)
    BY <1>0, <2>2 DEF ClaimFresh, TypeOK
  <2>3. CASE \E b \in Rows : ClaimRetry(a, b, s, k, r, i)
    BY <2>1, <2>3 DEF ClaimRetry
  <2> QED
    BY <2>2, <2>3
<1>4. /\ DOMAIN attempts' = Rows \cup {a}
      /\ attempts'[a] = NewRow(s, k, r, i, n)
      /\ \A b \in Rows : attempts'[b] = attempts[b]
  BY <1>0, <1>1, <1>2, NewRowType, InsertEffect
<1>5. /\ attempts'[a].step = s /\ attempts'[a].session = k /\ attempts'[a].request = r
      /\ attempts'[a].status = "pending"
  <2>1. /\ NewRow(s, k, r, i, n).step = s /\ NewRow(s, k, r, i, n).session = k
        /\ NewRow(s, k, r, i, n).request = r /\ NewRow(s, k, r, i, n).status = "pending"
    BY DEF NewRow
  <2> QED
    BY <1>4, <2>1
<1>6. ASSUME NEW b \in Rows, attempts[b].status \in Unsettled
      PROVE  TaskOf[attempts[b].step] # TaskOf[s]
  BY <1>2, <1>6 DEF MayClaim, HasActiveAttempt, ActiveOn, OnTask
<1>7. OneActivePlanPerSession'
  BY <1>2 DEF StoreInv, OneActivePlanPerSession
<1>8. OneActiveAttemptPerTask'
  BY <1>4, <1>5, <1>6 DEF StoreInv, OneActiveAttemptPerTask
<1>9. ActiveAttemptNeedsActivePlan'
  BY <1>2, <1>4, <1>5 DEF StoreInv, ActiveAttemptNeedsActivePlan, MayClaim
<1>10. StepMirrorsAttempt'
  BY <1>0, <1>3, <1>4, <1>5, <1>6 DEF StoreInv, TypeOK, StepMirrorsAttempt, Unsettled
<1>11. OneAttemptPerRequest'
  BY <1>2, <1>4, <1>5 DEF StoreInv, OneAttemptPerRequest, MayClaim, Replays
<1> QED
  BY <1>7, <1>8, <1>9, <1>10, <1>11 DEF StoreInv

\* A recovery pass only settles attempts and puts their own steps back.
LEMMA ReconcileKeepsInv ==
    ASSUME StoreInv, StoreAssumption, TypeOK', NEW i \in Instances, NEW ks, Reconcile(i, ks)
    PROVE  StoreInv'
<1> USE DEF Rows
<1> DEFINE stale == Stale(i, ks)
<1>0. /\ DOMAIN attempts' = Rows /\ plans' = plans
      /\ \A a \in Rows : attempts[a] \in Row /\ attempts[a].step \in Steps
  BY DEF Reconcile, StoreInv, TypeOK, Row
<1>1. ASSUME NEW a \in Rows
      PROVE  /\ a \in stale => attempts'[a].status = "blocked"
             /\ a \notin stale => attempts'[a] = attempts[a]
             /\ attempts'[a].step = attempts[a].step
             /\ attempts'[a].session = attempts[a].session
             /\ attempts'[a].request = attempts[a].request
  BY <1>0 DEF Reconcile, Row
<1>2. ASSUME NEW a \in Rows, attempts'[a].status \in Unsettled
      PROVE  a \notin stale /\ attempts'[a] = attempts[a]
  BY <1>1, <1>2 DEF Unsettled
<1>3. OneActivePlanPerSession'
  BY <1>0 DEF StoreInv, OneActivePlanPerSession
<1>4. OneActiveAttemptPerTask'
  BY <1>0, <1>2 DEF StoreInv, OneActiveAttemptPerTask
<1>5. ActiveAttemptNeedsActivePlan'
  BY <1>0, <1>2 DEF StoreInv, ActiveAttemptNeedsActivePlan
<1>6. ASSUME NEW a \in Rows, attempts'[a].status \in Unsettled
      PROVE  steps'[attempts[a].step] = steps[attempts[a].step]
  <2>1. attempts[a].status \in Unsettled
    BY <1>2, <1>6
  <2>2. ASSUME NEW b \in stale PROVE attempts[b].step # attempts[a].step
    <3>1. b \in Rows /\ attempts[b].status \in Unsettled /\ b # a
      BY <1>2, <1>6 DEF Stale, Dispatched, Unsettled
    <3> QED
      BY <2>1, <3>1 DEF StoreInv, OneActiveAttemptPerTask
  <2> QED
    BY <1>0, <2>2 DEF Reconcile
<1>7. StepMirrorsAttempt'
  BY <1>0, <1>2, <1>6 DEF StoreInv, StepMirrorsAttempt, Unsettled
<1>8. OneAttemptPerRequest'
  BY <1>0, <1>1 DEF StoreInv, OneAttemptPerRequest
<1> QED
  BY <1>3, <1>4, <1>5, <1>7, <1>8 DEF StoreInv

LEMMA InvStep == ASSUME StoreInv, StoreAssumption, [Next]_vars PROVE StoreInv'
<1>1. TypeOK'
  BY TypeStep DEF StoreInv
<1>2. CASE PlanWrite
  BY <1>1, <1>2, PlanWriteKeepsInv
<1>3. CASE Claim
  BY <1>1, <1>3, ClaimKeepsInv DEF Claim
<1>4. CASE OwnerWrite
  BY <1>1, <1>4, OwnerWriteShape, RowWriteKeepsInv DEF OwnerWrite
<1>5. CASE OtherWrite
  <2>1. ASSUME NEW a \in Rows,
               LeaseLapses(a) \/ Abort(a) \/ \E i \in Instances : CompleteAuthorized(a, i)
        PROVE  StoreInv'
    BY <1>1, <2>1, OtherRowWriteShape, RowWriteKeepsInv
  <2>2. ASSUME NEW i \in Instances, NEW ks, Reconcile(i, ks) PROVE StoreInv'
    BY <1>1, <2>2, ReconcileKeepsInv
  <2> QED
    BY <1>5, <2>1, <2>2 DEF OtherWrite
<1>6. CASE UNCHANGED vars
  BY <1>1, <1>6 DEF vars, StoreInv, Rows, OneActivePlanPerSession, OneActiveAttemptPerTask,
                    ActiveAttemptNeedsActivePlan, StepMirrorsAttempt, OneAttemptPerRequest
<1> QED
  BY <1>2, <1>3, <1>4, <1>5, <1>6 DEF Next

LEMMA StoreStarts == ASSUME Init PROVE StoreInv
BY DEF Init, StoreInv, TypeOK, PlanStatus, StepStatus, Rows, OneActivePlanPerSession,
       OneActiveAttemptPerTask, ActiveAttemptNeedsActivePlan, StepMirrorsAttempt,
       OneAttemptPerRequest

LEMMA Invariance == Spec => []StoreInv
<1>1. Init => StoreInv
  BY StoreStarts
<1>2. StoreInv /\ [Next]_vars => StoreInv'
  BY StoreAssumption, InvStep
<1> QED
  BY <1>1, <1>2, PTL DEF Spec

\* No session ever has two active plans, whatever create_plan calls race.
THEOREM OnePlan == Spec => []OneActivePlanPerSession
<1>1. StoreInv => OneActivePlanPerSession
  BY DEF StoreInv
<1> QED
  BY <1>1, Invariance, PTL

\* No task ever has two unsettled attempts, whatever claims race and whatever
\* recovery passes other instances run meanwhile.
THEOREM OneAttempt == Spec => []OneActiveAttemptPerTask
<1>1. StoreInv => OneActiveAttemptPerTask
  BY DEF StoreInv
<1> QED
  BY <1>1, Invariance, PTL

\* No plan is ended or replaced under an unsettled attempt.
THEOREM PlanOutlivesAttempt == Spec => []ActiveAttemptNeedsActivePlan
<1>1. StoreInv => ActiveAttemptNeedsActivePlan
  BY DEF StoreInv
<1> QED
  BY <1>1, Invariance, PTL

\* The step of an unsettled attempt always says what the attempt is doing, so
\* the conflict branches of start, finalize and resume are never taken.
THEOREM StepsMirror == Spec => []StepMirrorsAttempt
<1>1. StoreInv => StepMirrorsAttempt
  BY DEF StoreInv
<1> QED
  BY <1>1, Invariance, PTL

\* A request gets at most one attempt, however often and wherever it is delivered.
THEOREM OncePerRequest == Spec => []OneAttemptPerRequest
<1>1. StoreInv => OneAttemptPerRequest
  BY DEF StoreInv
<1> QED
  BY <1>1, Invariance, PTL

-------------------------------------------------------------------------------
(* What a step may do to an attempt *)

Untouched(a) == attempts'[a] = attempts[a] /\ events'[a] = events[a]

\* Every step leaves an attempt alone, or is a write of its owner under a live
\* lease, or cancels it, or blocks it, or completes it after it waited.
Fate(a) ==
    LET before == attempts[a].status
        after == attempts'[a].status
    IN  \/ Untouched(a)
        \/ before \in Dispatched /\ attempts[a].lease = "live"
        \/ before \in Unsettled /\ after = "cancelled"
        \/ before \in Dispatched /\ after = "blocked"
        \/ before = "waiting_authorization" /\ after = "succeeded"

LEMMA FateOfAttempt ==
    ASSUME TypeOK, StoreAssumption, [Next]_vars, NEW b \in Rows
    PROVE  b \in DOMAIN attempts' /\ Fate(b)
<1> USE DEF Rows
<1>0. attempts[b] \in Row /\ DOMAIN events = Rows
  BY DEF TypeOK
<1>1. CASE PlanWrite
  BY <1>1 DEF PlanWrite, CreatePlan, UpdateStep, SetTaskStatus, Fate, Untouched
<1>2. CASE Claim
  <2>1. PICK a \in Attempts \ Rows : \E row : Insert(a, row)
    BY <1>2 DEF Claim, ClaimFresh, ClaimRetry
  <2> QED
    BY <2>1 DEF Insert, Fate, Untouched
<1>3. CASE OwnerWrite
  <2> SUFFICES ASSUME NEW a \in Rows, NEW i \in Instances,
                      \/ Start(a, i)
                      \/ \E type \in ToolEvents : AppendEvent(a, i, type)
                      \/ \E success \in BOOLEAN : Finalize(a, i, success)
                      \/ \E reason \in BlockReasons : Block(a, i, reason)
                      \/ \E asks \in {"file", "other"} : Defer(a, i, asks)
               PROVE  b \in DOMAIN attempts' /\ Fate(b)
    BY <1>3 DEF OwnerWrite
  <2>1. attempts[a].status \in Dispatched /\ attempts[a].lease = "live"
    BY DEF Start, AppendEvent, Finalize, Block, Defer, Holds, Dispatched
  <2>2. DOMAIN attempts' = Rows
    BY DEF Start, AppendEvent, Finalize, Block, Defer, SetRow
  <2>3. CASE b = a
    BY <2>1, <2>2, <2>3 DEF Fate
  <2>4. CASE b # a
    <3>1. attempts'[b] = attempts[b]
      BY <2>4 DEF Start, AppendEvent, Finalize, Block, Defer, SetRow
    <3>2. events'[b] = events[b]
      BY <1>0, <2>4 DEF Start, AppendEvent, Finalize, Block, Defer, Log
    <3> QED
      BY <2>2, <3>1, <3>2 DEF Fate, Untouched
  <2> QED
    BY <2>3, <2>4
<1>4. CASE OtherWrite
  <2>1. ASSUME NEW a \in Rows, LeaseLapses(a) PROVE b \in DOMAIN attempts' /\ Fate(b)
    BY <2>1 DEF LeaseLapses, SetRow, Fate, Untouched
  <2>2. ASSUME NEW a \in Rows, Abort(a) PROVE b \in DOMAIN attempts' /\ Fate(b)
    <3>1. CASE b = a
      BY <1>0, <2>2, <3>1 DEF Abort, SetRow, Fate, Row
    <3>2. CASE b # a
      BY <1>0, <2>2, <3>2 DEF Abort, SetRow, Log, Fate, Untouched
    <3> QED
      BY <3>1, <3>2
  <2>3. ASSUME NEW a \in Rows, NEW i \in Instances, CompleteAuthorized(a, i)
        PROVE  b \in DOMAIN attempts' /\ Fate(b)
    <3>1. CASE b = a
      BY <1>0, <2>3, <3>1 DEF CompleteAuthorized, SetRow, Fate, Row
    <3>2. CASE b # a
      BY <1>0, <2>3, <3>2 DEF CompleteAuthorized, SetRow, Fate, Untouched
    <3> QED
      BY <3>1, <3>2
  <2>4. ASSUME NEW i \in Instances, NEW ks, Reconcile(i, ks)
        PROVE  b \in DOMAIN attempts' /\ Fate(b)
    <3>1. CASE b \in Stale(i, ks)
      BY <1>0, <2>4, <3>1 DEF Reconcile, Stale, Fate, Row
    <3>2. CASE b \notin Stale(i, ks)
      BY <2>4, <3>2 DEF Reconcile, Fate, Untouched
    <3> QED
      BY <3>1, <3>2
  <2> QED
    BY <1>4, <2>1, <2>2, <2>3, <2>4 DEF OtherWrite
<1>5. CASE UNCHANGED vars
  BY <1>5 DEF vars, Fate, Untouched
<1> QED
  BY <1>1, <1>2, <1>3, <1>4, <1>5 DEF Next

\* A settled attempt is never changed or logged to again: late results, renewals,
\* aborts and recovery passes all miss it.
THEOREM Finality == Spec => SettledIsFinal
<1>1. TypeOK /\ [Next]_vars =>
        [\A a \in Rows : attempts[a].status \in Terminal =>
            /\ a \in DOMAIN attempts' /\ attempts'[a] = attempts[a]
            /\ events'[a] = events[a]]_vars
  BY StoreAssumption, FateOfAttempt DEF Fate, Untouched, Terminal, Unsettled, Dispatched
<1> QED
  BY <1>1, TypeCorrect, PTL DEF Spec, SettledIsFinal

\* Only an abort or a recovery pass can settle an attempt whose lease lapsed.
THEOREM DeadLease == Spec => LapsedLeaseIsDead
<1>1. TypeOK /\ [Next]_vars =>
        [\A a \in Rows : (attempts[a].status \in Dispatched /\ attempts[a].lease = "lapsed") =>
            \/ attempts'[a] = attempts[a] /\ events'[a] = events[a]
            \/ attempts'[a].status \in {"blocked", "cancelled"}]_vars
  BY StoreAssumption, FateOfAttempt DEF Fate, Untouched, Unsettled, Dispatched
<1> QED
  BY <1>1, TypeCorrect, PTL DEF Spec, LapsedLeaseIsDead

\* No recovery pass, owner or timeout ever settles an attempt that waits for the
\* user's permission.
THEOREM WaitingIsTheUsers == Spec => WaitingSurvivesRecovery
<1>1. TypeOK /\ [Next]_vars =>
        [\A a \in Rows : attempts[a].status = "waiting_authorization" =>
            attempts'[a].status \in {"waiting_authorization", "succeeded", "cancelled"}]_vars
  BY StoreAssumption, FateOfAttempt DEF Fate, Untouched, Unsettled, Dispatched
<1> QED
  BY <1>1, TypeCorrect, PTL DEF Spec, WaitingSurvivesRecovery

\* While attempt a stays unsettled, its plan and the other steps of its task do
\* not change.
FrozenBy(a) ==
    (attempts[a].status \in Unsettled /\ attempts'[a].status \in Unsettled) =>
        LET t == TaskOf[attempts[a].step]
        IN  /\ plans'[t] = plans[t]
            /\ \A s \in StepsOf(t) \ {attempts[a].step} : steps'[s] = steps[s]

\* A write to one attempt respects every attempt that stays unsettled: on its
\* own task there is no other.
LEMMA RowWriteFreezes ==
    ASSUME StoreInv, StoreAssumption, NEW a \in Rows, RowWrite(a), NEW b \in Rows
    PROVE  FrozenBy(b)
<1> USE DEF Rows
<1>0. \A c \in Rows : attempts[c].step \in Steps /\ TaskOf[attempts[c].step] \in Tasks
  BY DEF StoreInv, TypeOK, Row, StoreAssumption
<1>1. CASE b = a
  BY <1>0, <1>1 DEF FrozenBy, RowWrite, StepsOf
<1>2. CASE b # a
  <2> SUFFICES ASSUME attempts[b].status \in Unsettled PROVE FrozenBy(b)
    BY DEF FrozenBy
  <2>1. TaskOf[attempts[b].step] # TaskOf[attempts[a].step]
    BY <1>2 DEF StoreInv, OneActiveAttemptPerTask, RowWrite
  <2> QED
    BY <1>0, <2>1 DEF FrozenBy, RowWrite, StepsOf
<1> QED
  BY <1>1, <1>2

\* Whoever writes, a task keeps still while one of its attempts is unsettled,
\* but for the step of that attempt.
THEOREM Frozen == Spec => TaskFrozenUnderAttempt
<1> USE DEF Rows
<1>1. ASSUME StoreInv, [Next]_vars, NEW b \in Rows PROVE FrozenBy(b)
  <2> USE StoreAssumption
  <2> DEFINE u == TaskOf[attempts[b].step]
  <2> SUFFICES ASSUME attempts[b].status \in Unsettled, attempts'[b].status \in Unsettled
               PROVE  FrozenBy(b)
    BY DEF FrozenBy
  <2>0. attempts[b].step \in Steps /\ u \in Tasks /\ HasActiveAttempt(u) /\ plans[u] = "active"
    BY <1>1 DEF StoreInv, TypeOK, Row, StoreAssumption, HasActiveAttempt, ActiveOn, OnTask,
                ActiveAttemptNeedsActivePlan
  <2>1. CASE PlanWrite
    <3>1. ASSUME NEW t \in Tasks, NEW replace \in BOOLEAN, CreatePlan(t, replace)
          PROVE  FrozenBy(b)
      <4> DEFINE Replaced == {v \in Tasks : SessionOf[v] = SessionOf[t] /\ plans[v] = "active"}
      <4>1. /\ plans[t] = "absent"
            /\ IF replace THEN ~SessionHasActiveAttempt(SessionOf[t]) ELSE Replaced = {}
            /\ plans' = [v \in Tasks |-> IF v = t THEN "active"
                                  ELSE IF v \in Replaced THEN "cancelled" ELSE plans[v]]
            /\ steps' = [x \in Steps |-> IF TaskOf[x] = t THEN "pending" ELSE steps[x]]
        BY <3>1 DEF CreatePlan
      <4>2. u # t /\ u \notin Replaced
        BY <2>0, <4>1 DEF SessionHasActiveAttempt
      <4> QED
        BY <2>0, <4>1, <4>2 DEF FrozenBy, StepsOf
    <3>2. ASSUME NEW s \in Steps, NEW status \in ManualStatuses, UpdateStep(s, status)
          PROVE  FrozenBy(b)
      BY <1>1, <2>0, <3>2 DEF UpdateStep, FrozenBy, StepsOf, StoreInv, TypeOK
    <3>3. ASSUME NEW t \in Tasks, NEW status \in {"completed", "cancelled"},
                 SetTaskStatus(t, status)
          PROVE  FrozenBy(b)
      BY <1>1, <2>0, <3>3 DEF SetTaskStatus, FrozenBy, StoreInv, TypeOK
    <3> QED
      BY <2>1, <3>1, <3>2, <3>3 DEF PlanWrite
  <2>2. CASE Claim
    <3> PICK a \in Attempts, s \in Steps, k \in Sessions, r \in Requests, i \in Instances :
            ClaimFresh(a, s, k, r, i) \/ \E c \in Rows : ClaimRetry(a, c, s, k, r, i)
      BY <2>2 DEF Claim
    <3>1. TaskOf[s] # u
      BY <2>0 DEF ClaimFresh, ClaimRetry, MayClaim
    <3>2. plans' = plans /\ (steps' = steps \/ steps' = [steps EXCEPT ![s] = Reset(s)])
      BY DEF ClaimFresh, ClaimRetry
    <3> QED
      BY <1>1, <3>1, <3>2 DEF FrozenBy, StepsOf, StoreInv, TypeOK
  <2>3. CASE OwnerWrite
    BY <1>1, <2>3, OwnerWriteShape, RowWriteFreezes DEF OwnerWrite
  <2>4. CASE OtherWrite
    <3>1. ASSUME NEW a \in Rows,
                 LeaseLapses(a) \/ Abort(a) \/ \E i \in Instances : CompleteAuthorized(a, i)
          PROVE  FrozenBy(b)
      BY <1>1, <3>1, OtherRowWriteShape, RowWriteFreezes
    <3>2. ASSUME NEW i \in Instances, NEW ks, Reconcile(i, ks) PROVE FrozenBy(b)
      <4>1. b \notin Stale(i, ks)
        <5>1. attempts[b] \in Row
          BY <1>1 DEF StoreInv, TypeOK, Rows
        <5>2. b \in Stale(i, ks) => attempts'[b].status = "blocked"
          BY <5>1, <3>2 DEF Reconcile, Row
        <5> QED
          BY <1>1, <5>2 DEF Unsettled
      <4>2. \A c \in Stale(i, ks) : TaskOf[attempts[c].step] # u
        BY <1>1, <4>1 DEF Stale, Dispatched, Unsettled, StoreInv, OneActiveAttemptPerTask
      <4> QED
        BY <2>0, <3>2, <4>2 DEF Reconcile, FrozenBy, StepsOf
    <3> QED
      BY <2>4, <3>1, <3>2 DEF OtherWrite
  <2>5. CASE UNCHANGED vars
    BY <2>5 DEF vars, FrozenBy
  <2> QED
    BY <1>1, <2>1, <2>2, <2>3, <2>4, <2>5 DEF Next
<1>2. StoreInv /\ [Next]_vars =>
        [\A a \in Rows :
          (attempts[a].status \in Unsettled /\ attempts'[a].status \in Unsettled) =>
             LET t == TaskOf[attempts[a].step]
             IN  /\ plans'[t] = plans[t]
                 /\ \A s \in StepsOf(t) \ {attempts[a].step} : steps'[s] = steps[s]]_vars
  BY <1>1 DEF FrozenBy
<1> QED
  BY <1>2, Invariance, PTL DEF Spec, TaskFrozenUnderAttempt

-------------------------------------------------------------------------------
(* The rows and the log of a step tell one story *)

\* A tool event leaves a log that explains an unsettled attempt as it was, and a
\* lifecycle event gives the attempt its new status.
LEMMA LogGoesOn ==
    ASSUME NEW log \in Seq(EventType), NEW status \in Unsettled, Explains(log, status),
           NEW e \in EventType
    PROVE  /\ e \in ToolEvents => Explains(Append(log, e), status)
           /\ e \notin ToolEvents => Explains(Append(log, e), StatusAfter[e])
<1> DEFINE longer == Append(log, e)
<1>0. /\ Len(log) \in Nat /\ Len(longer) = Len(log) + 1 /\ longer[Len(log) + 1] = e
      /\ \A m \in 1..Len(log) : longer[m] = log[m]
  OBVIOUS
<1>1. PICK n \in 1..Len(log) :
          /\ log[n] \notin ToolEvents /\ StatusAfter[log[n]] = status
          /\ \A m \in 1..Len(log) :
                /\ m > n => log[m] \in ToolEvents
                /\ m < n /\ log[m] \notin ToolEvents => StatusAfter[log[m]] \notin Terminal
  BY DEF Explains
<1>2. longer # <<>> /\ longer[1] = "attempt_claimed"
  <2>1. log[1] = "attempt_claimed" /\ 1 \in 1..Len(log)
    BY <1>0, <1>1 DEF Explains
  <2> QED
    BY <1>0, <2>1
<1>3. status \notin Terminal
  BY DEF Unsettled, Terminal
<1> HIDE DEF longer
<1>4. CASE e \in ToolEvents
  <2>1. n \in 1..Len(longer) /\ longer[n] \notin ToolEvents /\ StatusAfter[longer[n]] = status
    BY <1>0, <1>1
  <2>2. ASSUME NEW m \in 1..Len(longer)
        PROVE  /\ m > n => longer[m] \in ToolEvents
               /\ m < n /\ longer[m] \notin ToolEvents => StatusAfter[longer[m]] \notin Terminal
    <3>1. CASE m = Len(log) + 1
      BY <1>0, <1>4, <3>1
    <3>2. CASE m # Len(log) + 1
      <4>1. m \in 1..Len(log) /\ longer[m] = log[m]
        BY <1>0, <3>2
      <4> QED
        BY <1>1, <4>1
    <3> QED
      BY <3>1, <3>2
  <2>3. Explains(longer, status)
    BY <1>2, <1>3, <2>1, <2>2 DEF Explains
  <2> QED
    BY <1>4, <2>3 DEF longer
<1>5. CASE e \notin ToolEvents
  <2>1. Len(longer) \in 1..Len(longer) /\ longer[Len(longer)] = e
    BY <1>0
  <2>2. ASSUME NEW m \in 1..Len(longer), m < Len(longer), longer[m] \notin ToolEvents
        PROVE  StatusAfter[longer[m]] \notin Terminal
    <3>1. m \in 1..Len(log) /\ longer[m] = log[m]
      BY <1>0, <2>2
    <3>2. ~(m > n)
      BY <1>1, <2>2, <3>1
    <3>3. m = n \/ m < n
      BY <3>1, <3>2
    <3> QED
      BY <1>1, <1>3, <2>2, <3>1, <3>3
  <2>3. \A m \in 1..Len(longer) : ~(m > Len(longer))
    BY <1>0
  <2>4. Explains(longer, StatusAfter[e])
    BY <1>2, <1>5, <2>1, <2>2, <2>3 DEF Explains
  <2> QED
    BY <1>5, <2>4 DEF longer
<1> QED
  BY <1>4, <1>5

\* The log of attempt b explains its row after the step.
Told(b) == Explains(events'[b], attempts'[b].status)

\* What the lifecycle events say.
LEMMA Statuses ==
    /\ StatusAfter["attempt_claimed"] = "pending"
    /\ StatusAfter["attempt_started"] = "running"
    /\ StatusAfter["authorization_deferred"] = "waiting_authorization"
    /\ StatusAfter["attempt_succeeded"] = "succeeded"
    /\ StatusAfter["attempt_failed"] = "failed"
    /\ StatusAfter["attempt_blocked"] = "blocked"
    /\ StatusAfter["recovery_reconciled"] = "blocked"
    /\ StatusAfter["attempt_cancelled"] = "cancelled"
BY DEF StatusAfter

\* A write that logs the lifecycle event that gives the new status, or a tool event
\* under the old one, keeps the log in line.
LEMMA LoggedIsTold ==
    ASSUME TypeOK, LogExplainsStatus, NEW b \in Rows, attempts[b].status \in Unsettled,
           NEW e \in EventType, events'[b] = Append(events[b], e),
           attempts'[b].status = IF e \in ToolEvents THEN attempts[b].status
                                 ELSE StatusAfter[e]
    PROVE  Told(b)
<1>1. events[b] \in Seq(EventType) /\ Explains(events[b], attempts[b].status)
  BY DEF TypeOK, LogExplainsStatus, Rows
<1>2. PICK log \in Seq(EventType), status \in Unsettled :
          log = events[b] /\ status = attempts[b].status
  BY <1>1
<1>3. /\ e \in ToolEvents => Explains(Append(log, e), status)
      /\ e \notin ToolEvents => Explains(Append(log, e), StatusAfter[e])
  BY <1>1, <1>2, LogGoesOn
<1> QED
  BY <1>2, <1>3 DEF Told

\* One write to one attempt: Log and SetRow leave the others alone.
LEMMA OthersTold ==
    ASSUME TypeOK, LogExplainsStatus, NEW a \in Rows, Told(a), DOMAIN attempts' = Rows,
           \A b \in Rows : b # a => attempts'[b] = attempts[b] /\ events'[b] = events[b]
    PROVE  LogExplainsStatus'
<1>1. ASSUME NEW b \in Rows PROVE Explains(events'[b], attempts'[b].status)
  BY DEF LogExplainsStatus, Told
<1> QED
  BY <1>1 DEF LogExplainsStatus, Rows

LEMMA OwnerWriteIsTold ==
    ASSUME TypeOK, StoreAssumption, LogExplainsStatus, NEW a \in Rows, NEW i \in Instances,
           \/ Start(a, i)
           \/ \E type \in ToolEvents : AppendEvent(a, i, type)
           \/ \E success \in BOOLEAN : Finalize(a, i, success)
           \/ \E reason \in BlockReasons : Block(a, i, reason)
           \/ \E asks \in {"file", "other"} : Defer(a, i, asks)
    PROVE  LogExplainsStatus'
<1> USE DEF Rows
<1>0. attempts[a] \in Row /\ DOMAIN events = Rows /\ events[a] \in Seq(EventType)
  BY DEF TypeOK
<1>1. DOMAIN attempts' = Rows /\ attempts[a].status \in Unsettled
  BY DEF Start, AppendEvent, Finalize, Block, Defer, SetRow, Holds, Dispatched, Unsettled
<1>2. \A b \in Rows : b # a => attempts'[b] = attempts[b] /\ events'[b] = events[b]
  BY <1>0 DEF Start, AppendEvent, Finalize, Block, Defer, SetRow, Log
<1>3. PICK e \in EventType :
          /\ events'[a] = Append(events[a], e)
          /\ attempts'[a].status = IF e \in ToolEvents THEN attempts[a].status
                                   ELSE StatusAfter[e]
  <2>1. ASSUME NEW e, Log(a, e) PROVE events'[a] = Append(events[a], e)
    BY <1>0, <2>1 DEF Log
  <2>2. CASE Start(a, i)
    <3>1. Log(a, "attempt_started") /\ attempts'[a].status = "running"
      BY <1>0, <2>2 DEF Start, SetRow, Row
    <3> QED
      BY <2>1, <3>1, Statuses DEF EventType, ToolEvents
  <2>3. CASE \E type \in ToolEvents : AppendEvent(a, i, type)
    BY <2>1, <2>3 DEF AppendEvent, EventType
  <2>4. ASSUME NEW success \in BOOLEAN, Finalize(a, i, success)
        PROVE  \/ Log(a, "attempt_succeeded") /\ attempts'[a].status = "succeeded"
               \/ Log(a, "attempt_failed") /\ attempts'[a].status = "failed"
    <3>1. CASE success = TRUE
      BY <1>0, <2>4, <3>1 DEF Finalize, SetRow, Row
    <3>2. CASE success = FALSE
      BY <1>0, <2>4, <3>2 DEF Finalize, SetRow, Row
    <3> QED
      BY <3>1, <3>2
  <2>5. CASE \E success \in BOOLEAN : Finalize(a, i, success)
    BY <2>1, <2>4, <2>5, Statuses DEF EventType, ToolEvents
  <2>6. CASE \E reason \in BlockReasons : Block(a, i, reason)
    <3>0. PICK reason \in BlockReasons : Block(a, i, reason)
      BY <2>6
    <3>1. Log(a, "attempt_blocked") /\ attempts'[a].status = "blocked"
      BY <1>0, <3>0 DEF Block, SetRow, Row
    <3> QED
      BY <2>1, <3>1, Statuses DEF EventType, ToolEvents
  <2>7. CASE \E asks \in {"file", "other"} : Defer(a, i, asks)
    <3>0. PICK asks \in {"file", "other"} : Defer(a, i, asks)
      BY <2>7
    <3>1. Log(a, "authorization_deferred") /\ attempts'[a].status = "waiting_authorization"
      BY <1>0, <3>0 DEF Defer, SetRow, Row
    <3> QED
      BY <2>1, <3>1, Statuses DEF EventType, ToolEvents
  <2> QED
    BY <2>2, <2>3, <2>5, <2>6, <2>7
<1>4. Told(a)
  BY <1>1, <1>3, LoggedIsTold
<1> QED
  BY <1>1, <1>2, <1>4, OthersTold

LEMMA OtherWriteIsTold ==
    ASSUME TypeOK, StoreAssumption, LogExplainsStatus, OtherWrite
    PROVE  LogExplainsStatus'
<1> USE DEF Rows
<1>0. DOMAIN events = Rows /\ \A b \in Rows : attempts[b] \in Row /\ events[b] \in Seq(EventType)
  BY DEF TypeOK
<1>1. ASSUME NEW a \in Rows, LeaseLapses(a) PROVE LogExplainsStatus'
  <2>1. /\ DOMAIN attempts' = Rows /\ events' = events
        /\ \A b \in Rows : attempts'[b].status = attempts[b].status
    BY <1>0, <1>1 DEF LeaseLapses, SetRow, Row
  <2> QED
    BY <2>1 DEF LogExplainsStatus
<1>2. ASSUME NEW a \in Rows, Abort(a) PROVE LogExplainsStatus'
  <2>1. /\ DOMAIN attempts' = Rows /\ attempts[a].status \in Unsettled
        /\ attempts'[a].status = "cancelled"
        /\ events'[a] = Append(events[a], "attempt_cancelled")
        /\ \A b \in Rows : b # a => attempts'[b] = attempts[b] /\ events'[b] = events[b]
    BY <1>0, <1>2 DEF Abort, SetRow, Log, Row
  <2>2. Told(a)
    BY <2>1, LoggedIsTold, Statuses DEF EventType, ToolEvents
  <2> QED
    BY <2>1, <2>2, OthersTold
<1>3. ASSUME NEW a \in Rows, NEW i \in Instances, CompleteAuthorized(a, i)
      PROVE  LogExplainsStatus'
  <2>1. /\ DOMAIN attempts' = Rows /\ attempts[a].status = "waiting_authorization"
        /\ attempts'[a].status = "succeeded"
        /\ events'[a] = events[a] \o <<"tool_event", "attempt_succeeded">>
        /\ \A b \in Rows : b # a => attempts'[b] = attempts[b] /\ events'[b] = events[b]
    BY <1>0, <1>3 DEF CompleteAuthorized, SetRow, Row
  <2>2. PICK log \in Seq(EventType) : log = events[a]
    BY <1>0
  <2>3. log \o <<"tool_event", "attempt_succeeded">>
            = Append(Append(log, "tool_event"), "attempt_succeeded")
    OBVIOUS
  <2>4. Explains(log, "waiting_authorization")
    BY <2>1, <2>2 DEF LogExplainsStatus
  <2>5. Append(log, "tool_event") \in Seq(EventType)
    BY DEF EventType, ToolEvents
  <2>6. PICK longer \in Seq(EventType) : longer = Append(log, "tool_event")
    BY <2>5
  <2>7. Explains(longer, "waiting_authorization")
    <3>1. "tool_event" \in EventType /\ "tool_event" \in ToolEvents
      BY DEF EventType, ToolEvents
    <3>2. "waiting_authorization" \in Unsettled
      BY DEF Unsettled
    <3> QED
      BY <2>4, <2>6, <3>1, <3>2, LogGoesOn
  <2>8. Explains(Append(longer, "attempt_succeeded"), "succeeded")
    <3>1. "attempt_succeeded" \in EventType /\ "attempt_succeeded" \notin ToolEvents
      BY DEF EventType, ToolEvents
    <3>2. "waiting_authorization" \in Unsettled
      BY DEF Unsettled
    <3>3. Explains(Append(longer, "attempt_succeeded"), StatusAfter["attempt_succeeded"])
      BY <2>7, <3>1, <3>2, LogGoesOn
    <3> QED
      BY <3>3, Statuses
  <2>9. Told(a)
    BY <2>1, <2>2, <2>3, <2>6, <2>8 DEF Told
  <2> QED
    BY <2>1, <2>9, OthersTold
<1>4. ASSUME NEW i \in Instances, NEW ks, Reconcile(i, ks) PROVE LogExplainsStatus'
  <2>1. DOMAIN attempts' = Rows
    BY <1>4 DEF Reconcile
  <2>2. ASSUME NEW b \in Rows PROVE Told(b)
    <3>1. CASE b \in Stale(i, ks)
      <4>1. /\ attempts[b].status \in Unsettled /\ attempts'[b].status = "blocked"
            /\ events'[b] = Append(events[b], "recovery_reconciled")
        BY <1>0, <1>4, <3>1 DEF Reconcile, Stale, Dispatched, Unsettled, Row
      <4> QED
        BY <4>1, LoggedIsTold, Statuses DEF EventType, ToolEvents
    <3>2. CASE b \notin Stale(i, ks)
      <4>1. attempts'[b] = attempts[b] /\ events'[b] = events[b]
        BY <1>4, <3>2 DEF Reconcile
      <4> QED
        BY <4>1 DEF LogExplainsStatus, Told
    <3> QED
      BY <3>1, <3>2
  <2> QED
    BY <2>1, <2>2 DEF LogExplainsStatus, Told
<1> QED
  BY <1>1, <1>2, <1>3, <1>4 DEF OtherWrite

\* The claims: what they add, and to what.
ClaimAdds(a, s, n) ==
    /\ a \notin Rows /\ DOMAIN attempts' = Rows \cup {a} /\ IsNextNo(n, s)
    /\ attempts'[a].step = s /\ attempts'[a].no = n /\ attempts'[a].status = "pending"
    /\ events'[a] = <<"attempt_claimed">>
    /\ \A b \in Rows : attempts'[b] = attempts[b] /\ events'[b] = events[b]

LEMMA ClaimsAdd ==
    ASSUME TypeOK, NEW a \in Attempts, NEW s \in Steps, NEW k \in Sessions, NEW r \in Requests,
           NEW i \in Instances,
           ClaimFresh(a, s, k, r, i) \/ \E b \in Rows : ClaimRetry(a, b, s, k, r, i)
    PROVE  \E n \in 1..MaxAttemptNo : ClaimAdds(a, s, n)
<1>1. PICK n \in 1..MaxAttemptNo : IsNextNo(n, s) /\ Insert(a, NewRow(s, k, r, i, n))
  BY DEF ClaimFresh, ClaimRetry
<1>2. PICK row : row = NewRow(s, k, r, i, n) /\ Insert(a, row)
  BY <1>1
<1>3. row.step = s /\ row.no = n /\ row.status = "pending"
  BY <1>2 DEF NewRow
<1>4. a \notin Rows
  BY DEF ClaimFresh, ClaimRetry
<1> QED
  BY <1>1, <1>2, <1>3, <1>4 DEF Insert, ClaimAdds, Rows

LEMMA ClaimIsTold ==
    ASSUME TypeOK, LogExplainsStatus, NEW a, NEW s, NEW n, ClaimAdds(a, s, n)
    PROVE  LogExplainsStatus'
<1>1. Explains(<<"attempt_claimed">>, "pending")
  <2>1. PICK log : log = <<"attempt_claimed">>
    OBVIOUS
  <2>2. Len(log) = 1 /\ log # <<>> /\ log[1] = "attempt_claimed" /\ 1 \in 1..Len(log)
    BY <2>1
  <2>3. "attempt_claimed" \notin ToolEvents /\ "pending" \notin Terminal
    BY DEF ToolEvents, Terminal
  <2>4. \A m \in 1..Len(log) : ~(m > 1) /\ ~(m < 1)
    BY <2>2
  <2>5. Explains(log, "pending")
    BY <2>2, <2>3, <2>4, Statuses DEF Explains
  <2> QED
    BY <2>1, <2>5
<1>2. Told(a)
  BY <1>1 DEF ClaimAdds, Told
<1>3. \A b \in Rows : Told(b)
  BY DEF ClaimAdds, LogExplainsStatus, Told
<1> QED
  BY <1>2, <1>3 DEF ClaimAdds, LogExplainsStatus, Told, Rows

LEMMA RowNumbers ==
    ASSUME TypeOK, StoreAssumption PROVE \A b \in Rows : attempts[b].no \in Nat
<1>1. \A b \in Rows : attempts[b].no \in 1..MaxAttemptNo
  BY DEF TypeOK, Row, Rows
<1>2. MaxAttemptNo \in Nat
  BY DEF StoreAssumption
<1> QED
  BY <1>1, <1>2

LEMMA ClaimIsNumbered ==
    ASSUME TypeOK, AttemptsNumberedInOrder, NEW a, NEW s, NEW n \in 1..MaxAttemptNo,
           StoreAssumption, ClaimAdds(a, s, n)
    PROVE  AttemptsNumberedInOrder'
<1> USE DEF Rows
<1>0. /\ DOMAIN attempts' = Rows \cup {a} /\ a \notin Rows
      /\ attempts'[a].step = s /\ attempts'[a].no = n
      /\ \A b \in Rows : attempts'[b] = attempts[b]
      /\ \A b \in Rows : attempts[b].no \in Nat
      /\ n \in Nat
  <2>1. n \in Nat
    OBVIOUS
  <2>2. \A b \in Rows : attempts[b].no \in Nat
    BY RowNumbers
  <2> QED
    BY <2>1, <2>2 DEF ClaimAdds
<1>1. /\ \A b \in Rows : attempts[b].step = s => attempts[b].no < n
      /\ n = 1 \/ \E b \in Rows : attempts[b].step = s /\ attempts[b].no + 1 = n
  BY DEF ClaimAdds, IsNextNo, OnStep
<1>2. ASSUME NEW b \in DOMAIN attempts', NEW c \in DOMAIN attempts',
             attempts'[b].step = attempts'[c].step, attempts'[b].no = attempts'[c].no
      PROVE  b = c
  <2>1. CASE b \in Rows /\ c \in Rows
    BY <1>0, <1>2, <2>1 DEF AttemptsNumberedInOrder, OnStep
  <2>2. CASE b = a /\ c # a
    BY <1>0, <1>1, <1>2, <2>2
  <2>3. CASE b # a /\ c = a
    BY <1>0, <1>1, <1>2, <2>3
  <2> QED
    BY <1>0, <2>1, <2>2, <2>3
<1>3. ASSUME NEW b \in Rows, NEW m \in 1..attempts[b].no
      PROVE  \E c \in DOMAIN attempts' :
                attempts'[c].step = attempts[b].step /\ attempts'[c].no = m
  BY <1>0 DEF AttemptsNumberedInOrder, OnStep
<1>4. ASSUME NEW m \in 1..n
      PROVE  \E c \in DOMAIN attempts' : attempts'[c].step = s /\ attempts'[c].no = m
  <2>1. CASE m = n
    BY <1>0, <2>1
  <2>2. CASE m # n
    <3>1. PICK b \in Rows : attempts[b].step = s /\ attempts[b].no + 1 = n
      BY <1>0, <1>1, <2>2
    <3>2. m \in 1..attempts[b].no
      BY <1>0, <2>2, <3>1
    <3> QED
      BY <1>3, <3>1, <3>2
  <2> QED
    BY <2>1, <2>2
<1> QED
  BY <1>0, <1>2, <1>3, <1>4 DEF AttemptsNumberedInOrder, OnStep

LEMMA StaysNumbered ==
    ASSUME AttemptsNumberedInOrder, DOMAIN attempts' = Rows,
           \A b \in Rows : attempts'[b].step = attempts[b].step /\ attempts'[b].no = attempts[b].no
    PROVE  AttemptsNumberedInOrder'
BY DEF AttemptsNumberedInOrder, OnStep, Rows

\* Nobody renumbers an attempt or moves it to another step.
LEMMA MovesNone ==
    ASSUME TypeOK, PlanWrite \/ OwnerWrite \/ OtherWrite \/ UNCHANGED vars
    PROVE  /\ DOMAIN attempts' = Rows
           /\ \A b \in Rows : /\ attempts'[b].step = attempts[b].step
                             /\ attempts'[b].no = attempts[b].no
<1> USE DEF Rows
<1>0. \A b \in Rows : attempts[b] \in Row
  BY DEF TypeOK
<1>1. CASE PlanWrite \/ UNCHANGED vars
  <2>1. attempts' = attempts
    BY <1>1 DEF PlanWrite, CreatePlan, UpdateStep, SetTaskStatus, vars
  <2> QED
    BY <2>1
<1>2. CASE OwnerWrite
  <2>1. PICK a \in Rows, i \in Instances :
           \/ Start(a, i)
           \/ \E type \in ToolEvents : AppendEvent(a, i, type)
           \/ \E success \in BOOLEAN : Finalize(a, i, success)
           \/ \E reason \in BlockReasons : Block(a, i, reason)
           \/ \E asks \in {"file", "other"} : Defer(a, i, asks)
    BY <1>2 DEF OwnerWrite
  <2>2. /\ DOMAIN attempts' = Rows /\ \A b \in Rows : b # a => attempts'[b] = attempts[b]
    BY <2>1 DEF Start, AppendEvent, Finalize, Block, Defer, SetRow
  <2>3. attempts'[a].step = attempts[a].step /\ attempts'[a].no = attempts[a].no
    <3>1. CASE Start(a, i)
      BY <1>0, <3>1 DEF Start, SetRow, Row
    <3>2. CASE \E type \in ToolEvents : AppendEvent(a, i, type)
      BY <3>2 DEF AppendEvent
    <3>3. ASSUME NEW success \in BOOLEAN, Finalize(a, i, success)
          PROVE  attempts'[a].step = attempts[a].step /\ attempts'[a].no = attempts[a].no
      BY <1>0, <3>3 DEF Finalize, SetRow, Row
    <3>4. ASSUME NEW reason \in BlockReasons, Block(a, i, reason)
          PROVE  attempts'[a].step = attempts[a].step /\ attempts'[a].no = attempts[a].no
      BY <1>0, <3>4 DEF Block, SetRow, Row
    <3>5. ASSUME NEW asks \in {"file", "other"}, Defer(a, i, asks)
          PROVE  attempts'[a].step = attempts[a].step /\ attempts'[a].no = attempts[a].no
      BY <1>0, <3>5 DEF Defer, SetRow, Row
    <3> QED
      BY <2>1, <3>1, <3>2, <3>3, <3>4, <3>5
  <2> QED
    BY <2>2, <2>3
<1>3. CASE OtherWrite
  <2>1. ASSUME NEW a \in Rows,
               LeaseLapses(a) \/ Abort(a) \/ \E i \in Instances : CompleteAuthorized(a, i)
        PROVE  /\ DOMAIN attempts' = Rows
               /\ \A b \in Rows : /\ attempts'[b].step = attempts[b].step
                                 /\ attempts'[b].no = attempts[b].no
    <3>1. /\ DOMAIN attempts' = Rows /\ \A b \in Rows : b # a => attempts'[b] = attempts[b]
      BY <2>1 DEF LeaseLapses, Abort, CompleteAuthorized, SetRow
    <3>2. attempts'[a].step = attempts[a].step /\ attempts'[a].no = attempts[a].no
      <4>1. CASE LeaseLapses(a)
        BY <1>0, <4>1 DEF LeaseLapses, SetRow, Row
      <4>2. CASE Abort(a)
        BY <1>0, <4>2 DEF Abort, SetRow, Row
      <4>3. ASSUME NEW i \in Instances, CompleteAuthorized(a, i)
            PROVE  attempts'[a].step = attempts[a].step /\ attempts'[a].no = attempts[a].no
        BY <1>0, <4>3 DEF CompleteAuthorized, SetRow, Row
      <4> QED
        BY <2>1, <4>1, <4>2, <4>3
    <3> QED
      BY <3>1, <3>2
  <2>2. ASSUME NEW i \in Instances, NEW ks, Reconcile(i, ks)
        PROVE  /\ DOMAIN attempts' = Rows
               /\ \A b \in Rows : /\ attempts'[b].step = attempts[b].step
                                 /\ attempts'[b].no = attempts[b].no
    BY <1>0, <2>2 DEF Reconcile, Row
  <2> QED
    BY <1>3, <2>1, <2>2 DEF OtherWrite
<1> QED
  BY <1>1, <1>2, <1>3

HistoryInv == TypeOK /\ HistoryIsSound

LEMMA HistoryStep == ASSUME HistoryInv, StoreAssumption, [Next]_vars PROVE HistoryInv'
<1>0. TypeOK /\ AttemptsNumberedInOrder /\ LogExplainsStatus /\ TypeOK'
  BY TypeStep DEF HistoryInv, HistoryIsSound
<1>1. CASE Claim
  <2>1. PICK a \in Attempts, s \in Steps, n \in 1..MaxAttemptNo : ClaimAdds(a, s, n)
    BY <1>0, <1>1, ClaimsAdd DEF Claim
  <2> QED
    BY <1>0, <2>1, ClaimIsTold, ClaimIsNumbered DEF HistoryInv, HistoryIsSound
<1>2. CASE PlanWrite \/ OwnerWrite \/ OtherWrite \/ UNCHANGED vars
  <2>1. AttemptsNumberedInOrder'
    BY <1>0, <1>2, MovesNone, StaysNumbered
  <2>2. LogExplainsStatus'
    <3>1. CASE PlanWrite \/ UNCHANGED vars
      <4>1. UNCHANGED <<attempts, events>>
        BY <3>1 DEF PlanWrite, CreatePlan, UpdateStep, SetTaskStatus, vars
      <4> QED
        BY <1>0, <4>1 DEF LogExplainsStatus, Rows
    <3>2. CASE OwnerWrite
      BY <1>0, <3>2, OwnerWriteIsTold DEF OwnerWrite
    <3>3. CASE OtherWrite
      BY <1>0, <3>3, OtherWriteIsTold
    <3> QED
      BY <1>2, <3>1, <3>2, <3>3
  <2> QED
    BY <1>0, <2>1, <2>2 DEF HistoryInv, HistoryIsSound
<1> QED
  BY <1>1, <1>2 DEF Next

LEMMA HistoryInvariance == Spec => []HistoryInv
<1>1. Init => HistoryInv
  <2>1. Init => TypeOK
    BY StoreStarts DEF StoreInv
  <2> QED
    BY <2>1 DEF Init, HistoryInv, HistoryIsSound, AttemptsNumberedInOrder, LogExplainsStatus, Rows
<1>2. HistoryInv /\ [Next]_vars => HistoryInv'
  BY StoreAssumption, HistoryStep
<1> QED
  BY <1>1, <1>2, PTL DEF Spec

\* For any number of sessions, instances and attempts: the attempts of a step are numbered
\* 1, 2, 3, ... as they were claimed, and the log of each explains its status and ends with
\* its end (TaskPlanStore, task_execution_attempts and task_execution_events).
THEOREM HistorySound == Spec => []HistoryIsSound
<1>1. HistoryInv => HistoryIsSound
  BY DEF HistoryInv
<1> QED
  BY <1>1, HistoryInvariance, PTL

\* A step whose latest attempt is blocked for a reason that is not retryable gets no further
\* attempt, from no instance and by no kind of claim (claim_execution_attempt).
THEOREM BlockedIsHeld == Spec => UnretryableBlockIsHeld
<1> DEFINE Held(s) ==
        (\E b \in Latest(s) : attempts[b].status = "blocked"
                             /\ attempts[b].reason \notin RetryableBlockReasons) =>
           {a \in DOMAIN attempts' : attempts'[a].step = s} = OnStep(s)
<1>1. ASSUME HistoryInv, [Next]_vars, NEW s \in Steps, NEW b \in Latest(s),
             attempts[b].status = "blocked", attempts[b].reason \notin RetryableBlockReasons
      PROVE  {a \in DOMAIN attempts' : attempts'[a].step = s} = OnStep(s)
  <2>0. TypeOK /\ AttemptsNumberedInOrder /\ \A c \in Rows : attempts[c] \in Row
    BY <1>1 DEF HistoryInv, HistoryIsSound, TypeOK, Rows
  <2>1. CASE Claim
    <3>1. PICK a \in Attempts, x \in Steps, k \in Sessions, r \in Requests, i \in Instances :
             ClaimFresh(a, x, k, r, i) \/ \E c \in Rows : ClaimRetry(a, c, x, k, r, i)
      BY <2>1 DEF Claim
    <3>2. PICK n \in 1..MaxAttemptNo : ClaimAdds(a, x, n)
      BY <2>0, <3>1, ClaimsAdd
    <3>3. x # s
      <4>1. ASSUME x = s, ClaimFresh(a, x, k, r, i) PROVE FALSE
        BY <1>1, <4>1 DEF ClaimFresh
      <4>2. ASSUME x = s, NEW c \in Rows, ClaimRetry(a, c, x, k, r, i) PROVE FALSE
        <5>1. c \in Latest(s) /\ Retryable(c)
          BY <4>2 DEF ClaimRetry
        <5>2. /\ b \in Rows /\ c \in Rows /\ attempts[b].step = s /\ attempts[c].step = s
              /\ attempts[b].no <= attempts[c].no /\ attempts[c].no <= attempts[b].no
          BY <1>1, <5>1 DEF Latest, OnStep
        <5>3. attempts[b].no = attempts[c].no
          <6>1. attempts[b].no \in Nat /\ attempts[c].no \in Nat
            BY <2>0, <5>2, StoreAssumption, RowNumbers
          <6> QED
            BY <5>2, <6>1
        <5>4. b = c
          BY <2>0, <5>2, <5>3 DEF AttemptsNumberedInOrder, OnStep
        <5> QED
          BY <1>1, <5>1, <5>4 DEF Retryable
      <4> QED
        BY <3>1, <4>1, <4>2
    <3> QED
      BY <3>2, <3>3 DEF ClaimAdds, OnStep, Rows
  <2>2. CASE PlanWrite \/ UNCHANGED vars
    <3>1. attempts' = attempts
      BY <2>2 DEF PlanWrite, CreatePlan, UpdateStep, SetTaskStatus, vars
    <3> QED
      BY <3>1 DEF OnStep, Rows
  <2>3. CASE OwnerWrite \/ OtherWrite
    <3>1. DOMAIN attempts' = Rows /\ \A c \in Rows : attempts'[c].step = attempts[c].step
      BY <2>0, <2>3, MovesNone
    <3> QED
      BY <3>1 DEF OnStep, Rows
  <2> QED
    BY <1>1, <2>1, <2>2, <2>3 DEF Next
<1>2. HistoryInv /\ [Next]_vars => [\A s \in Steps : Held(s)]_vars
  BY <1>1
<1> QED
  BY <1>2, HistoryInvariance, PTL DEF Spec, UnretryableBlockIsHeld

-------------------------------------------------------------------------------
(***************************************************************************)
(* TaskStore implements TaskLock: the abstract lock is read off the tables *)
(* by the refinement mapping Lock of TaskStore, and every transaction is a *)
(* grant, a settlement or a stutter.  The inductive invariant StoreInv is  *)
(* what makes the mapping work: a settled attempt gives back a lock that   *)
(* it alone held.                                                          *)
(***************************************************************************)

LockKeys == {<<attempts[a].session, attempts[a].request>> : a \in Rows}
Over == {a \in Rows : attempts[a].status \in Terminal}

\* A step that leaves the status and the identity of every attempt alone is
\* invisible to the users of the lock.
LEMMA Stutters ==
    ASSUME DOMAIN attempts' = Rows,
           \A a \in Rows : /\ attempts'[a].step = attempts[a].step
                           /\ attempts'[a].session = attempts[a].session
                           /\ attempts'[a].request = attempts[a].request
                           /\ \/ attempts'[a].status = attempts[a].status
                              \/ /\ attempts[a].status \in Unsettled
                                 /\ attempts'[a].status \in Unsettled
    PROVE  UNCHANGED Lock!lockVars
<1> USE DEF Rows
<1>1. \A t \in Tasks : ActiveOn(t)' = ActiveOn(t)
  BY DEF ActiveOn, OnTask
<1>2. LockKeys' = LockKeys
  BY DEF LockKeys
<1>3. /\ Over' = Over
      /\ \A a \in Over : attempts'[a].status = attempts[a].status
  BY DEF Over, Terminal, Unsettled
<1>4. [a \in Over |-> attempts[a].status]' = [a \in Over |-> attempts[a].status]
  BY <1>3
<1> QED
  BY <1>1, <1>2, <1>4 DEF Lock!lockVars, LockKeys, Over

\* Attempts A, each the only one on its task, are settled with outcome o.
LEMMA Settles ==
    ASSUME StoreInv, StoreAssumption, NEW A \in SUBSET Rows, NEW o \in Terminal,
           DOMAIN attempts' = Rows,
           \A a \in Rows : /\ attempts'[a].step = attempts[a].step
                           /\ attempts'[a].session = attempts[a].session
                           /\ attempts'[a].request = attempts[a].request
                           /\ a \in A => /\ attempts[a].status \in Unsettled
                                         /\ attempts'[a].status = o
                           /\ a \notin A => attempts'[a].status = attempts[a].status
    PROVE  Lock!Settle({TaskOf[attempts[a].step] : a \in A}, o)
<1> USE DEF Rows
<1> DEFINE T == {TaskOf[attempts[a].step] : a \in A}
           holders == [t \in Tasks |-> ActiveOn(t)]
           over == UNION {holders[t] : t \in T}
<1>0. \A a \in Rows : attempts[a].step \in Steps /\ TaskOf[attempts[a].step] \in Tasks
  BY DEF StoreInv, TypeOK, Row, StoreAssumption
<1>1. \A a \in A : ActiveOn(TaskOf[attempts[a].step]) = {a}
  BY DEF StoreInv, OneActiveAttemptPerTask, ActiveOn, OnTask
<1>2. T \subseteq Tasks /\ over = A /\ \A t \in T : holders[t] # {}
  <2>1. T \subseteq Tasks
    BY <1>0
  <2>2. \A t \in T : \E a \in A : t = TaskOf[attempts[a].step] /\ holders[t] = {a}
    BY <1>1, <2>1
  <2>3. \A a \in A : holders[TaskOf[attempts[a].step]] = {a}
    BY <1>0, <1>1
  <2> HIDE DEF holders, T
  <2>4. over \subseteq A
    BY <2>2
  <2>5. A \subseteq over
    BY <2>3 DEF T
  <2> QED
    BY <2>1, <2>2, <2>4, <2>5
<1>3. \A t \in Tasks : ActiveOn(t)' = IF t \in T THEN {} ELSE ActiveOn(t)
  <2> SUFFICES ASSUME NEW t \in Tasks
               PROVE  ActiveOn(t)' = IF t \in T THEN {} ELSE ActiveOn(t)
    OBVIOUS
  <2>1. ActiveOn(t)' = {a \in Rows : /\ TaskOf[attempts[a].step] = t
                                     /\ a \notin A /\ attempts[a].status \in Unsettled}
    BY DEF ActiveOn, OnTask, Terminal, Unsettled
  <2>2. CASE t \in T
    BY <1>1, <2>1, <2>2 DEF ActiveOn, OnTask
  <2>3. CASE t \notin T
    BY <2>1, <2>3 DEF ActiveOn, OnTask
  <2> QED
    BY <2>2, <2>3
<1>4. LockKeys' = LockKeys
  BY DEF LockKeys
<1>5. /\ Over' = Over \cup A
      /\ \A a \in Over' : attempts'[a].status = IF a \in A THEN o ELSE attempts[a].status
  BY DEF Over, Terminal, Unsettled
<1>6. [t \in Tasks |-> ActiveOn(t)'] = [t \in Tasks |-> IF t \in T THEN {} ELSE holders[t]]
  BY <1>3
<1>7. [a \in Over' |-> attempts'[a].status]
        = [a \in Over \cup over |-> IF a \in over THEN o
                                    ELSE [b \in Over |-> attempts[b].status][a]]
  BY <1>2, <1>5
<1> QED
  BY <1>2, <1>4, <1>6, <1>7 DEF Lock!Settle, LockKeys, Over

LEMMA RowWriteRefines ==
    ASSUME StoreInv, StoreAssumption, TypeOK', NEW a \in Rows, RowWrite(a)
    PROVE  [Lock!LockNext]_(Lock!lockVars)
<1> USE DEF Rows
<1>1. attempts'[a].status \in Unsettled \cup Terminal /\ DOMAIN attempts' = Rows
  BY DEF TypeOK, Row, RowWrite
<1>2. CASE attempts'[a].status \in Unsettled
  BY <1>2, Stutters DEF RowWrite
<1>3. CASE attempts'[a].status \in Terminal
  <2>1. TaskOf[attempts[a].step] \in Tasks
    BY DEF StoreInv, TypeOK, Row, StoreAssumption
  <2> DEFINE A == {a}
             T == {TaskOf[attempts[b].step] : b \in A}
  <2>2. PICK o \in Terminal : attempts'[a].status = o
    BY <1>3
  <2>3. A \in SUBSET Rows /\ T \in SUBSET Tasks
    BY <2>1
  <2>4. \A b \in Rows : /\ attempts'[b].step = attempts[b].step
                        /\ attempts'[b].session = attempts[b].session
                        /\ attempts'[b].request = attempts[b].request
                        /\ b \in A => /\ attempts[b].status \in Unsettled
                                      /\ attempts'[b].status = o
                        /\ b \notin A => attempts'[b].status = attempts[b].status
    BY <2>2 DEF RowWrite
  <2> HIDE DEF A
  <2>5. Lock!Settle(T, o)
    BY <1>1, <2>3, <2>4, Settles
  <2> QED
    BY <2>3, <2>5 DEF Lock!LockNext
<1> QED
  BY <1>1, <1>2, <1>3

LEMMA ClaimRefines ==
    ASSUME StoreInv, StoreAssumption,
           NEW a \in Attempts, NEW s \in Steps, NEW k \in Sessions, NEW r \in Requests,
           NEW i \in Instances,
           ClaimFresh(a, s, k, r, i) \/ \E b \in Rows : ClaimRetry(a, b, s, k, r, i)
    PROVE  Lock!Grant(TaskOf[s], a, <<k, r>>)
<1> USE DEF Rows
<1>1. PICK n \in 1..MaxAttemptNo : Insert(a, NewRow(s, k, r, i, n))
  BY DEF ClaimFresh, ClaimRetry
<1>2. a \in Attempts \ Rows /\ MayClaim(s, k, r) /\ TypeOK /\ TaskOf[s] \in Tasks
  BY DEF ClaimFresh, ClaimRetry, StoreInv, StoreAssumption
<1>3. /\ DOMAIN attempts' = Rows \cup {a}
      /\ attempts'[a] = NewRow(s, k, r, i, n)
      /\ \A b \in Rows : attempts'[b] = attempts[b]
  BY <1>1, <1>2, NewRowType, InsertEffect
<1>4. /\ NewRow(s, k, r, i, n).step = s /\ NewRow(s, k, r, i, n).session = k
      /\ NewRow(s, k, r, i, n).request = r /\ NewRow(s, k, r, i, n).status = "pending"
  BY DEF NewRow
<1>5. \A t \in Tasks : ActiveOn(t)' = IF t = TaskOf[s] THEN {a} ELSE ActiveOn(t)
  <2>1. ActiveOn(TaskOf[s]) = {}
    BY <1>2 DEF MayClaim, HasActiveAttempt
  <2>2. \A t \in Tasks : ActiveOn(t)' = {b \in Rows \cup {a} :
            /\ TaskOf[attempts'[b].step] = t /\ attempts'[b].status \in Unsettled}
    BY <1>3 DEF ActiveOn, OnTask
  <2> QED
    BY <1>2, <1>3, <1>4, <2>1, <2>2 DEF ActiveOn, OnTask, Unsettled
<1>6. LockKeys' = LockKeys \cup {<<k, r>>} /\ <<k, r>> \notin LockKeys
  <2>1. LockKeys' = LockKeys \cup {<<k, r>>}
    BY <1>3, <1>4 DEF LockKeys
  <2>2. <<k, r>> \notin LockKeys
    BY <1>2 DEF LockKeys, MayClaim, Replays
  <2> QED
    BY <2>1, <2>2
<1>7. Over' = Over /\ \A b \in Over : attempts'[b].status = attempts[b].status
  BY <1>2, <1>3, <1>4 DEF Over, Terminal
<1>8. [b \in Over |-> attempts[b].status]' = [b \in Over |-> attempts[b].status]
  BY <1>7
<1>9. a \notin Over /\ \A t \in Tasks : a \notin ActiveOn(t)
  BY <1>2 DEF Over, ActiveOn, OnTask
<1>10. ActiveOn(TaskOf[s]) = {}
  BY <1>2 DEF MayClaim, HasActiveAttempt
<1>11. [t \in Tasks |-> ActiveOn(t)'] =
         [[t \in Tasks |-> ActiveOn(t)] EXCEPT ![TaskOf[s]] = {a}]
  BY <1>2, <1>5
<1> QED
  BY <1>2, <1>6, <1>8, <1>9, <1>10, <1>11 DEF Lock!Grant, LockKeys, Over

LEMMA ReconcileRefines ==
    ASSUME StoreInv, StoreAssumption, NEW i \in Instances, NEW ks, Reconcile(i, ks)
    PROVE  Lock!LockNext
<1> USE DEF Rows
<1>0. \A a \in Rows : attempts[a] \in Row /\ TaskOf[attempts[a].step] \in Tasks
  BY DEF StoreInv, TypeOK, Row, StoreAssumption
<1> DEFINE stale == Stale(i, ks)
<1>1. stale \subseteq Rows /\ DOMAIN attempts' = Rows
  BY DEF Stale, Reconcile
<1>2. \A a \in Rows : /\ attempts'[a].step = attempts[a].step
                      /\ attempts'[a].session = attempts[a].session
                      /\ attempts'[a].request = attempts[a].request
                      /\ a \in stale => /\ attempts[a].status \in Unsettled
                                        /\ attempts'[a].status = "blocked"
                      /\ a \notin stale => attempts'[a].status = attempts[a].status
  BY <1>0 DEF Reconcile, Stale, Row, Dispatched, Unsettled
<1>3. "blocked" \in Terminal
  BY DEF Terminal
<1> HIDE DEF stale
<1>4. Lock!Settle({TaskOf[attempts[a].step] : a \in stale}, "blocked")
  BY <1>1, <1>2, <1>3, Settles
<1>5. {TaskOf[attempts[a].step] : a \in stale} \in SUBSET Tasks
  BY <1>0, <1>1
<1> QED
  BY <1>3, <1>4, <1>5 DEF Lock!LockNext

\* The tables implement the lock: at most one attempt holds a task, a request is
\* granted an attempt once, and the outcome of an attempt is decided when it gives
\* the task back and never revised.
THEOREM Refinement == Spec => ImplementsLock
<1>1. Init => Lock!LockInit
  <2>1. ASSUME Init, NEW t \in Tasks PROVE ActiveOn(t) = {}
    BY <2>1 DEF Init, ActiveOn, OnTask, Rows
  <2>2. ASSUME Init PROVE LockKeys = {} /\ Over = {}
    BY <2>2 DEF Init, LockKeys, Over, Rows
  <2> QED
    BY <2>1, <2>2 DEF Lock!LockInit, LockKeys, Over
<1>2. StoreInv /\ StoreInv' /\ [Next]_vars => [Lock!LockNext]_(Lock!lockVars)
  <2> SUFFICES ASSUME StoreInv, TypeOK', [Next]_vars
               PROVE  [Lock!LockNext]_(Lock!lockVars)
    BY DEF StoreInv
  <2> USE StoreAssumption
  <2>1. CASE PlanWrite \/ UNCHANGED vars
    <3>1. attempts' = attempts
      BY <2>1 DEF PlanWrite, CreatePlan, UpdateStep, SetTaskStatus, vars
    <3> QED
      BY <3>1, Stutters DEF Rows
  <2>2. CASE Claim
    <3> PICK a \in Attempts, s \in Steps, k \in Sessions, r \in Requests, i \in Instances :
            ClaimFresh(a, s, k, r, i) \/ \E b \in Rows : ClaimRetry(a, b, s, k, r, i)
      BY <2>2 DEF Claim
    <3>1. Lock!Grant(TaskOf[s], a, <<k, r>>) /\ TaskOf[s] \in Tasks
      BY ClaimRefines DEF StoreAssumption
    <3> QED
      BY <3>1 DEF Lock!LockNext
  <2>3. CASE OwnerWrite
    BY <2>3, OwnerWriteShape, RowWriteRefines DEF OwnerWrite
  <2>4. CASE OtherWrite
    <3>1. ASSUME NEW a \in Rows,
                 LeaseLapses(a) \/ Abort(a) \/ \E i \in Instances : CompleteAuthorized(a, i)
          PROVE  [Lock!LockNext]_(Lock!lockVars)
      BY <3>1, OtherRowWriteShape, RowWriteRefines
    <3>2. ASSUME NEW i \in Instances, NEW ks, Reconcile(i, ks) PROVE Lock!LockNext
      BY <3>2, ReconcileRefines
    <3> QED
      BY <2>4, <3>1, <3>2 DEF OtherWrite
  <2> QED
    BY <2>1, <2>2, <2>3, <2>4 DEF Next
<1> QED
  BY <1>1, <1>2, Invariance, PTL DEF Spec, ImplementsLock, Lock!LockSpec
===============================================================================
