-------------------------------- MODULE Scheduler --------------------------------
(***************************************************************************)
(* The job scheduler of agent/scheduler.py: SchedulerService keeps its     *)
(* jobs in memory, writes all of them to one JSON file after every change  *)
(* and reads the file once, at startup.  A tick starts every job that is   *)
(* due, each as a task of its own; a job is rescheduled or dropped when    *)
(* its task ends, in the finally block of _execute_and_reschedule.         *)
(*                                                                         *)
(* An action is a stretch of the event loop between two awaits.  While a   *)
(* task awaits the model or the chat service, jobs are added and           *)
(* cancelled, other jobs tick, and the process may crash or be shut down:  *)
(* a shutdown cancels the running tasks, whose finally blocks still run.   *)
(*                                                                         *)
(* Time is counted in units longer than the microsecond that rescheduling  *)
(* adds, so that "later by a microsecond" is "later".                      *)
(***************************************************************************)
EXTENDS Integers, FiniteSets

CONSTANTS
    Jobs,           \* job ids; an id is used for one job only
    Period,         \* interval of a recurring job, 0 for "at" and "after"
    Cron,           \* recurring jobs that follow a cron expression
    Soft,           \* jobs that ask the model first and therefore start early
    MaxLead,        \* bound: how early (the P90 of LatencyTracker)
    Grace,          \* GRACE_SECONDS
    MaxTime,        \* bound: the clock stops here
    MaxCrashes      \* bound: crashes and shutdowns

ASSUME SchedulerAssumption ==
    /\ Period \in [Jobs -> Nat]
    /\ Soft \subseteq Jobs
    /\ Cron \subseteq {j \in Jobs : Period[j] > 0}
    /\ MaxLead \in Nat /\ Grace \in Nat /\ MaxTime \in Nat /\ MaxCrashes \in Nat

VARIABLES
    now,            \* the clock
    up,             \* does the process run?
    listed,         \* _jobs: the ids in memory
    fireAt,         \* fire_at of the job objects in memory
    phase,          \* the task of a job; "idle" when its id is not in _in_flight
    disk,           \* the JSON file: fire_at of the jobs in it
    crashes,        \* crashes and shutdowns so far
    fate,           \* history: what has become of a job
    notBefore       \* history: a start for an earlier occurrence repeats one

vars == <<now, up, listed, fireAt, phase, disk, crashes, fate, notBefore>>

Recurring == {j \in Jobs : Period[j] > 0}
OneShot == Jobs \ Recurring
Time == 0..MaxTime

\* The one type invariant: what runs, runs in a process that is up, and the file
\* never names a job that was not accepted.
SchedulerTypeOK ==
    /\ now \in Time /\ up \in BOOLEAN /\ crashes \in 0..MaxCrashes
    /\ listed \subseteq Jobs /\ DOMAIN disk \subseteq Jobs
    /\ fireAt \in [Jobs -> Nat] /\ disk \in [DOMAIN disk -> Nat]
    /\ phase \in [Jobs -> {"idle", "queued", "running", "delivered"}]
    /\ fate \in [Jobs -> {"new", "pending", "tried", "stopped", "expired",
                          "cancelled", "withdrawn"}]
    /\ notBefore \in [Jobs -> Nat]
    /\ \A j \in Jobs : ~up => j \notin listed /\ phase[j] = "idle"
    /\ \A j \in Jobs : fate[j] = "new" => j \notin listed /\ j \notin DOMAIN disk

-------------------------------------------------------------------------------
Later(a, b) == IF a >= b THEN a ELSE b
Upper(n, p) == ((n + p - 1) \div p) * p

\* The first occurrence after t: a point of the grid of the cron expression, or
\* fire_at plus at least one interval.
NextFire(j, t) ==
    IF j \in Cron THEN Upper(t + 1, Period[j])
    ELSE LET late == IF t < fireAt[j] THEN 0 ELSE (t - fireAt[j]) \div Period[j]
         IN  fireAt[j] + (late + 1) * Period[j]

Save(list, at) == disk' = [j \in list |-> at[j]]

\* add_job: "at" and "after" may lie in the past, an "every" starts after now.
Add(j, t) ==
    /\ up /\ fate[j] = "new"
    /\ j \in OneShot => t \in Time
    /\ j \in Recurring => t = IF j \in Cron THEN Upper(now, Period[j]) ELSE now + Period[j]
    /\ listed' = listed \cup {j}
    /\ fireAt' = [fireAt EXCEPT ![j] = t]
    /\ Save(listed', fireAt')
    /\ fate' = [fate EXCEPT ![j] = "pending"]
    /\ UNCHANGED <<now, up, phase, crashes, notBefore>>

\* cancel_job and cancel_job_by_name: the task of a job in flight goes on.
Cancel(S) ==
    /\ S # {} /\ S \subseteq listed
    /\ listed' = listed \ S
    /\ Save(listed', fireAt)
    /\ fate' = [j \in Jobs |-> IF j \in S
                    THEN IF phase[j] = "idle" THEN "cancelled" ELSE "withdrawn" ELSE fate[j]]
    /\ UNCHANGED <<now, up, fireAt, phase, crashes, notBefore>>

\* _tick: a task for every job that is due and not in flight.
Tick(lead) ==
    LET due == {j \in listed : phase[j] = "idle"
                    /\ fireAt[j] - (IF j \in Soft THEN lead ELSE 0) <= now}
    IN  /\ up
        /\ phase' = [j \in Jobs |-> IF j \in due THEN "queued" ELSE phase[j]]
        /\ notBefore' = [j \in Jobs |-> IF j \in due THEN fireAt[j] + 1 ELSE notBefore[j]]
        /\ UNCHANGED <<now, up, listed, fireAt, disk, crashes, fate>>

\* The task runs up to its first await.
Begin(j) ==
    /\ phase[j] = "queued"
    /\ phase' = [phase EXCEPT ![j] = "running"]
    /\ UNCHANGED <<now, up, listed, fireAt, disk, crashes, fate, notBefore>>

\* The message is in the chat; the task does not know yet.
Deliver(j) ==
    /\ phase[j] = "running"
    /\ phase' = [phase EXCEPT ![j] = "delivered"]
    /\ UNCHANGED <<now, up, listed, fireAt, disk, crashes, fate, notBefore>>

\* Mutant: rescheduled after now, though the occurrence may still be to come.
RescheduledAfterNow(S) ==
    [j \in Jobs |-> IF j \in S \cap Recurring THEN NextFire(j, now) ELSE fireAt[j]]

\* Every job that recurs moves on; what is not in S keeps its time.
Rescheduled(S) ==
    [j \in Jobs |-> IF j \in S \cap Recurring
                    THEN NextFire(j, Later(now, fireAt[j])) ELSE fireAt[j]]

\* Mutant: the end of a task is not written.
LeaveUnsaved(S) == UNCHANGED disk

\* The finally blocks of the tasks of S, and the file they leave behind.
Relisted(S) == (listed \ (S \cap OneShot)) \cup (S \cap Recurring)
Leave(S) == IF S = {} THEN UNCHANGED disk ELSE Save(Relisted(S), Rescheduled(S))

\* A task ends: pushed, refused, nothing to say, or an exception.
Finish(j) ==
    /\ phase[j] \in {"running", "delivered"}
    /\ phase' = [phase EXCEPT ![j] = "idle"]
    /\ listed' = Relisted({j})
    /\ fireAt' = Rescheduled({j})
    /\ Leave({j})
    /\ fate' = [fate EXCEPT ![j] = IF j \in OneShot /\ @ = "pending" THEN "tried" ELSE @]
    /\ notBefore' = [notBefore EXCEPT ![j] = Later(now, fireAt[j]) + 1]
    /\ UNCHANGED <<now, up, crashes>>

\* The process is gone, and with it everything in memory.
Gone ==
    /\ up' = FALSE /\ listed' = {}
    /\ fireAt' = [j \in Jobs |-> 0] /\ phase' = [j \in Jobs |-> "idle"]
    /\ crashes' = crashes + 1

Crash ==
    /\ up /\ crashes < MaxCrashes
    /\ Gone
    /\ UNCHANGED <<now, disk, fate, notBefore>>

\* An orderly exit: asyncio cancels every task, and those that have begun still
\* run their finally blocks.
Shutdown ==
    LET begun == {j \in Jobs : phase[j] \in {"running", "delivered"}}
    IN  /\ up /\ crashes < MaxCrashes
        /\ Gone
        /\ Leave(begun)
        /\ fate' = [j \in Jobs |-> IF j \in begun \cap OneShot /\ fate[j] = "pending"
                        THEN IF phase[j] = "running" THEN "stopped" ELSE "tried"
                        ELSE fate[j]]
        /\ UNCHANGED <<now, notBefore>>

Missed(j) == disk[j] <= now

\* load_and_recover: a missed recurring job moves on to its next occurrence, a
\* missed one-shot is kept for the next tick within the grace period.
\* A cron occurrence that is due right now counts as the next one.
Recovered(j) ==
    IF j \in Recurring /\ Missed(j)
    THEN IF j \in Cron THEN Upper(now, Period[j])
         ELSE disk[j] + ((now - disk[j]) \div Period[j] + 1) * Period[j]
    ELSE disk[j]

\* Mutant: what is due at startup is dropped, within the grace period or not.
KeptIfNotMissed(j) == j \in Recurring \/ ~Missed(j)

Kept(j) == j \in Recurring \/ now - disk[j] <= Grace

Start ==
    LET kept == {j \in DOMAIN disk : Kept(j)}
    IN  /\ ~up /\ up' = TRUE
        /\ listed' = kept
        /\ fireAt' = [j \in Jobs |-> IF j \in kept THEN Recovered(j) ELSE 0]
        /\ fate' = [j \in Jobs |-> IF j \in DOMAIN disk /\ now - disk[j] > Grace
                        /\ j \in OneShot /\ fate[j] = "pending" THEN "expired" ELSE fate[j]]
        /\ notBefore' = [j \in Jobs |-> IF j \in Recurring THEN now ELSE 0]
        /\ UNCHANGED <<now, phase, disk, crashes>>

Clock == now < MaxTime /\ now' = now + 1
         /\ UNCHANGED <<up, listed, fireAt, phase, disk, crashes, fate, notBefore>>

Init ==
    /\ now = 0 /\ up = TRUE /\ listed = {} /\ disk = [j \in {} |-> 0]
    /\ fireAt = [j \in Jobs |-> 0] /\ phase = [j \in Jobs |-> "idle"]
    /\ crashes = 0 /\ fate = [j \in Jobs |-> "new"]
    /\ notBefore = [j \in Jobs |-> 0]

AnyTick == \E lead \in 0..MaxLead : Tick(lead)

Next ==
    \/ \E j \in Jobs : \E t \in 0..(MaxTime + Period[j]) : Add(j, t)
    \/ \E S \in SUBSET Jobs : Cancel(S)
    \/ AnyTick
    \/ \E j \in Jobs : Begin(j) \/ Deliver(j) \/ Finish(j)
    \/ Crash \/ Shutdown \/ Start \/ Clock

Spec == Init /\ [][Next]_vars

\* Ticks come every second, a task that has been created runs and ends (the model
\* and the chat service answer or time out), a dead process is restarted, and
\* crashes do not go on for ever (MaxCrashes).
FairSpec ==
    /\ Spec
    /\ WF_vars(AnyTick) /\ WF_vars(Start) /\ WF_vars(Clock)
    /\ \A j \in Jobs : WF_vars(Begin(j)) /\ WF_vars(Finish(j))
-------------------------------------------------------------------------------
(* Properties *)

Starts(j) == phase[j] = "idle" /\ phase'[j] = "queued"

\* One start per occurrence: in one life of the process a job never starts twice
\* for the same occurrence, not even a soft one that ends before its nominal time,
\* and a recurring job never catches up on occurrences it slept through.
OccurrencesAdvance ==
    [][\A j \in Jobs : Starts(j) => fireAt[j] >= notBefore[j]]_vars

\* A job is known until its fate is sealed: through ticks, crashes and the saves
\* of other jobs it is in the file, and in memory while the process is up.
PendingIsKept ==
    \A j \in Jobs : fate[j] = "pending" =>
        j \in DOMAIN disk /\ (up => j \in listed)

SchedulerInvariant == SchedulerTypeOK /\ PendingIsKept

\* What is over stays over: a job that was cancelled while idle, or a one-shot
\* that was tried, cancelled, stopped or found expired, never starts again, in
\* this life of the process or in a later one that reads the file.
OverIsOver ==
    [][\A j \in Jobs : Starts(j) =>
        fate[j] = "pending" \/ (fate[j] = "withdrawn" /\ j \in Recurring)]_vars

\* cancel_schedule tells the user that the job is cancelled (agent/tools/schedule.py):
\* no cancelled job starts again.
CancelIsFinal ==
    [][\A j \in Jobs : Starts(j) => fate[j] \notin {"cancelled", "withdrawn"}]_vars

\* A one-shot does not stay pending for ever: it is tried in the end, unless the
\* user cancels it, the process is stopped on it, or it is down for too long.
OneShotEnds ==
    \A j \in OneShot : fate[j] = "pending" ~> fate[j] # "pending"
===============================================================================
