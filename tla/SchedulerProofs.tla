----------------------------- MODULE SchedulerProofs -----------------------------
(***************************************************************************)
(* Machine-checked proofs about Scheduler, for any jobs, intervals, grace  *)
(* period and number of crashes: no accepted job is forgotten, no          *)
(* occurrence starts twice in one life of the process, and what is over    *)
(* does not start again.                                                   *)
(***************************************************************************)
EXTENDS Scheduler, TLAPS

\* A job that may go on: it is pending, or it recurs and was cancelled in flight.
Alive(j) == fate[j] = "pending" \/ (fate[j] = "withdrawn" /\ j \in Recurring)

\* A one-shot that every later start drops as well.
Outdated(j) == j \in OneShot /\ fate[j] = "expired" /\ now - disk[j] > Grace

\* What is in memory may go on, and an idle job is listed for an occurrence that has
\* not been started in this life.
ListedInv ==
    \A j \in listed : Alive(j) /\ (phase[j] = "idle" => fireAt[j] >= notBefore[j])

\* A task belongs to a job that was not over when it started.
InFlightInv == \A j \in Jobs : phase[j] # "idle" => fate[j] \in {"pending", "withdrawn"}

\* What is in the file may go on, or is dropped by the start that reads it.
DiskInv == \A j \in DOMAIN disk : Alive(j) \/ Outdated(j)

\* A job that is still to be added has no occurrence behind it.
NewInv ==
    \A j \in Jobs : fate[j] = "new" =>
        notBefore[j] <= now /\ (j \in OneShot => notBefore[j] = 0)

SchedInv == SchedulerTypeOK /\ PendingIsKept /\ ListedInv /\ InFlightInv /\ DiskInv /\ NewInv

-------------------------------------------------------------------------------
(* Arithmetic of occurrences *)

\* Division rounds down.
LEMMA DivisionBounds ==
    ASSUME NEW n \in Nat, NEW p \in Nat \ {0}
    PROVE  n \div p \in Nat /\ (n \div p) * p <= n /\ n < (n \div p + 1) * p
BY SMT

\* The next point of the grid is not in the past.
LEMMA UpperIsNext ==
    ASSUME NEW n \in Nat, NEW p \in Nat \ {0}
    PROVE  Upper(n, p) \in Nat /\ n <= Upper(n, p)
<1>1. n + p - 1 \in Nat
  OBVIOUS
<1> DEFINE q == (n + p - 1) \div p
<1>2. q \in Nat /\ n + p - 1 < (q + 1) * p
  BY <1>1, DivisionBounds
<1>3. q * p \in Nat /\ (q + 1) * p = q * p + p
  BY <1>2
<1> HIDE DEF q
<1>4. n <= q * p
  BY <1>2, <1>3
<1> QED
  BY <1>3, <1>4 DEF Upper, q

\* A job on an interval moves by whole intervals, past t.
LEMMA IntervalIsLater ==
    ASSUME NEW at \in Nat, NEW t \in Nat, NEW p \in Nat \ {0}, at <= t
    PROVE  /\ at + ((t - at) \div p + 1) * p \in Nat
           /\ t < at + ((t - at) \div p + 1) * p
<1>1. t - at \in Nat
  OBVIOUS
<1> DEFINE q == (t - at) \div p
<1>2. q \in Nat /\ t - at < (q + 1) * p
  BY <1>1, DivisionBounds
<1>3. (q + 1) * p \in Nat
  BY <1>2
<1> HIDE DEF q
<1> QED
  BY <1>2, <1>3 DEF q

LEMMA PeriodOfRecurring ==
    ASSUME SchedulerAssumption, NEW j \in Recurring PROVE Period[j] \in Nat \ {0} /\ j \in Jobs
BY DEF SchedulerAssumption, Recurring

\* A rescheduled job is due after the occurrence it was started for, and after now.
LEMMA NextFireIsLater ==
    ASSUME SchedulerAssumption, NEW j \in Recurring, fireAt \in [Jobs -> Nat],
           NEW t \in Nat, fireAt[j] <= t
    PROVE  NextFire(j, t) \in Nat /\ t < NextFire(j, t)
<1>1. Period[j] \in Nat \ {0} /\ fireAt[j] \in Nat
  BY PeriodOfRecurring
<1>2. CASE j \in Cron
  <2>1. Upper(t + 1, Period[j]) \in Nat /\ t + 1 <= Upper(t + 1, Period[j])
    BY <1>1, UpperIsNext
  <2> QED
    BY <1>2, <2>1 DEF NextFire
<1>3. CASE j \notin Cron
  <2>1. NextFire(j, t) = fireAt[j] + ((t - fireAt[j]) \div Period[j] + 1) * Period[j]
    BY <1>1, <1>3 DEF NextFire
  <2> QED
    BY <1>1, <2>1, IntervalIsLater
<1> QED
  BY <1>2, <1>3

LEMMA RescheduledType ==
    ASSUME SchedulerAssumption, SchedulerTypeOK, NEW S \in SUBSET Jobs
    PROVE  /\ Rescheduled(S) \in [Jobs -> Nat]
           /\ \A j \in S \cap Recurring : Later(now, fireAt[j]) < Rescheduled(S)[j]
           /\ \A j \in Jobs \ (S \cap Recurring) : Rescheduled(S)[j] = fireAt[j]
<1>1. ASSUME NEW j \in S \cap Recurring
      PROVE  /\ NextFire(j, Later(now, fireAt[j])) \in Nat
             /\ Later(now, fireAt[j]) < NextFire(j, Later(now, fireAt[j]))
  <2>1. now \in Nat /\ fireAt[j] \in Nat
    BY PeriodOfRecurring DEF SchedulerTypeOK, Time, SchedulerAssumption
  <2>2. Later(now, fireAt[j]) \in Nat /\ fireAt[j] <= Later(now, fireAt[j])
    BY <2>1 DEF Later
  <2> QED
    BY <2>2, NextFireIsLater DEF SchedulerTypeOK
<1> QED
  BY <1>1 DEF Rescheduled, SchedulerTypeOK

\* What a start makes of a job in the file lies at or after now, if it recurs.
LEMMA RecoveredType ==
    ASSUME SchedulerAssumption, SchedulerTypeOK, NEW j \in DOMAIN disk
    PROVE  Recovered(j) \in Nat /\ (j \in Recurring => now <= Recovered(j))
<1>1. now \in Nat /\ disk[j] \in Nat /\ j \in Jobs
  BY DEF SchedulerTypeOK, Time, SchedulerAssumption
<1>2. CASE j \in Recurring /\ Missed(j) /\ j \in Cron
  <2>1. Upper(now, Period[j]) \in Nat /\ now <= Upper(now, Period[j])
    BY <1>1, <1>2, PeriodOfRecurring, UpperIsNext
  <2> QED
    BY <1>2, <2>1 DEF Recovered
<1>3. CASE j \in Recurring /\ Missed(j) /\ j \notin Cron
  <2>1. disk[j] <= now /\ Period[j] \in Nat \ {0}
    BY <1>3, PeriodOfRecurring DEF Missed
  <2>2. Recovered(j) = disk[j] + ((now - disk[j]) \div Period[j] + 1) * Period[j]
    BY <1>3 DEF Recovered
  <2>3. Recovered(j) \in Nat /\ now < Recovered(j)
    BY <1>1, <2>1, <2>2, IntervalIsLater
  <2> QED
    BY <1>1, <2>3
<1>4. CASE ~(j \in Recurring /\ Missed(j))
  BY <1>1, <1>4 DEF Recovered, Missed
<1> QED
  BY <1>2, <1>3, <1>4

-------------------------------------------------------------------------------
(* The invariant is inductive *)

USE DEF SchedInv

LEMMA InitSchedInv == ASSUME SchedulerAssumption, Init PROVE SchedInv
BY DEF Init, SchedulerAssumption, SchedulerTypeOK, PendingIsKept, ListedInv, InFlightInv,
       DiskInv, NewInv, Time

LEMMA AddKeepsInv ==
    ASSUME SchedulerAssumption, SchedInv, NEW j \in Jobs,
           NEW t \in 0..(MaxTime + Period[j]), Add(j, t)
    PROVE  SchedInv'
<1>1. now \in Nat /\ t \in Nat /\ fate[j] = "new" /\ j \notin listed /\ j \notin DOMAIN disk
  BY DEF Add, SchedulerTypeOK, Time, SchedulerAssumption
<1>2. t >= notBefore[j]
  <2>1. CASE j \in OneShot
    BY <1>1, <2>1 DEF NewInv
  <2>2. CASE j \in Recurring
    <3>1. t >= now
      BY <1>1, <2>2, PeriodOfRecurring, UpperIsNext DEF Add
    <3> QED
      BY <1>1, <3>1 DEF NewInv, SchedulerTypeOK
  <2> QED
    BY <2>1, <2>2 DEF OneShot
<1>3. phase[j] = "idle"
  BY <1>1 DEF InFlightInv, SchedulerTypeOK
<1>4. fireAt' \in [Jobs -> Nat] /\ fireAt'[j] = t /\ \A k \in Jobs \ {j} : fireAt'[k] = fireAt[k]
  BY <1>1 DEF Add, SchedulerTypeOK
<1>5. /\ listed' = listed \cup {j} /\ DOMAIN disk' = listed' /\ listed' \subseteq Jobs
      /\ disk' \in [listed' -> Nat]
  BY <1>4 DEF Add, Save, SchedulerTypeOK
<1>6. fate'[j] = "pending" /\ \A k \in Jobs \ {j} : fate'[k] = fate[k]
  BY DEF Add, SchedulerTypeOK
<1>7. UNCHANGED <<now, up, phase, crashes, notBefore>> /\ up
  BY DEF Add
<1>8. SchedulerTypeOK'
  <2>1. fate' \in [Jobs -> {"new", "pending", "tried", "stopped", "expired",
                          "cancelled", "withdrawn"}]
    BY DEF Add, SchedulerTypeOK
  <2> QED
    BY <1>4, <1>5, <1>6, <1>7, <2>1 DEF SchedulerTypeOK
<1>9. PendingIsKept'
  BY <1>5, <1>6, <1>7 DEF PendingIsKept
<1>10. ListedInv'
  BY <1>2, <1>4, <1>5, <1>6, <1>7 DEF ListedInv, Alive, SchedulerTypeOK
<1>11. InFlightInv'
  BY <1>3, <1>6, <1>7 DEF InFlightInv
<1>12. DiskInv'
  BY <1>5, <1>10 DEF DiskInv, ListedInv
<1>13. NewInv'
  BY <1>6, <1>7 DEF NewInv
<1> QED
  BY <1>8, <1>9, <1>10, <1>11, <1>12, <1>13

LEMMA CancelKeepsInv ==
    ASSUME SchedulerAssumption, SchedInv, NEW S \in SUBSET Jobs, Cancel(S)
    PROVE  SchedInv'
<1>1. /\ S \subseteq listed /\ listed' = listed \ S /\ DOMAIN disk' = listed'
      /\ UNCHANGED <<now, up, fireAt, phase, crashes, notBefore>>
  BY DEF Cancel, Save
<1>2. /\ \A j \in S : fate'[j] = IF phase[j] = "idle" THEN "cancelled" ELSE "withdrawn"
      /\ \A j \in Jobs \ S : fate'[j] = fate[j]
  BY DEF Cancel
<1>3. SchedulerTypeOK'
  <2>1. fate' \in [Jobs -> {"new", "pending", "tried", "stopped", "expired",
                          "cancelled", "withdrawn"}]
    BY DEF Cancel, SchedulerTypeOK
  <2>2. disk' \in [listed' -> Nat]
    BY <1>1 DEF Cancel, Save, SchedulerTypeOK
  <2> QED
    BY <1>1, <1>2, <2>1, <2>2 DEF SchedulerTypeOK
<1>4. PendingIsKept'
  <2>1. up
    BY <1>1 DEF Cancel, SchedulerTypeOK
  <2> QED
    BY <1>1, <1>2, <2>1 DEF PendingIsKept
<1>5. ListedInv'
  BY <1>1, <1>2 DEF ListedInv, Alive, SchedulerTypeOK
<1>6. InFlightInv'
  BY <1>1, <1>2 DEF InFlightInv
<1>7. DiskInv'
  BY <1>1, <1>5 DEF DiskInv, ListedInv
<1>8. NewInv'
  BY <1>1, <1>2 DEF NewInv
<1> QED
  BY <1>3, <1>4, <1>5, <1>6, <1>7, <1>8

LEMMA TickKeepsInv ==
    ASSUME SchedulerAssumption, SchedInv, NEW lead \in 0..MaxLead, Tick(lead)
    PROVE  SchedInv'
<1> DEFINE due == {j \in listed : phase[j] = "idle"
                      /\ fireAt[j] - (IF j \in Soft THEN lead ELSE 0) <= now}
<1>1. /\ up /\ UNCHANGED <<now, up, listed, fireAt, disk, crashes, fate>>
      /\ phase' = [j \in Jobs |-> IF j \in due THEN "queued" ELSE phase[j]]
      /\ notBefore' = [j \in Jobs |-> IF j \in due THEN fireAt[j] + 1 ELSE notBefore[j]]
  BY DEF Tick
<1>2. due \subseteq listed /\ listed \subseteq Jobs
  BY DEF SchedulerTypeOK
<1> HIDE DEF due
<1>3. /\ \A j \in due : phase'[j] = "queued" /\ Alive(j) /\ notBefore'[j] \in Nat
      /\ \A j \in Jobs \ due : phase'[j] = phase[j] /\ notBefore'[j] = notBefore[j]
  BY <1>1, <1>2 DEF ListedInv, SchedulerTypeOK
<1>4. SchedulerTypeOK'
  BY <1>1, <1>2 DEF SchedulerTypeOK
<1>5. PendingIsKept'
  BY <1>1 DEF PendingIsKept
<1>6. ListedInv'
  BY <1>1, <1>2, <1>3 DEF ListedInv, Alive, SchedulerTypeOK
<1>7. InFlightInv'
  BY <1>1, <1>2, <1>3 DEF InFlightInv, Alive
<1>8. DiskInv'
  BY <1>1 DEF DiskInv, Alive, Outdated
<1>9. NewInv'
  BY <1>1, <1>2, <1>3 DEF NewInv, Alive
<1> QED
  BY <1>4, <1>5, <1>6, <1>7, <1>8, <1>9

LEMMA RunKeepsInv ==
    ASSUME SchedulerAssumption, SchedInv, NEW j \in Jobs, Begin(j) \/ Deliver(j)
    PROVE  SchedInv'
<1>1. /\ UNCHANGED <<now, up, listed, fireAt, disk, crashes, fate, notBefore>>
      /\ phase[j] # "idle" /\ phase'[j] # "idle"
      /\ phase' \in [Jobs -> {"idle", "queued", "running", "delivered"}]
      /\ \A k \in Jobs \ {j} : phase'[k] = phase[k]
  BY DEF Begin, Deliver, SchedulerTypeOK
<1>2. SchedulerTypeOK'
  BY <1>1 DEF SchedulerTypeOK
<1>3. PendingIsKept' /\ DiskInv' /\ NewInv'
  BY <1>1 DEF PendingIsKept, DiskInv, NewInv, Alive, Outdated
<1>4. ListedInv' /\ InFlightInv'
  BY <1>1 DEF ListedInv, InFlightInv, Alive, SchedulerTypeOK
<1> QED
  BY <1>2, <1>3, <1>4

LEMMA FinishKeepsInv ==
    ASSUME SchedulerAssumption, SchedInv, NEW j \in Jobs, Finish(j)
    PROVE  SchedInv'
<1>1. /\ phase[j] # "idle" /\ phase'[j] = "idle"
      /\ phase' \in [Jobs -> {"idle", "queued", "running", "delivered"}]
      /\ \A k \in Jobs \ {j} : phase'[k] = phase[k]
      /\ UNCHANGED <<now, up, crashes>> /\ up /\ fate[j] \in {"pending", "withdrawn"}
  BY DEF Finish, SchedulerTypeOK, InFlightInv
<1>2. /\ listed' = (listed \ ({j} \cap OneShot)) \cup ({j} \cap Recurring)
      /\ listed' \subseteq Jobs
  BY DEF Finish, Relisted, SchedulerTypeOK
<1>3. /\ fireAt' = Rescheduled({j}) /\ fireAt' \in [Jobs -> Nat]
      /\ j \in Recurring => Later(now, fireAt[j]) < fireAt'[j]
      /\ \A k \in Jobs \ {j} : fireAt'[k] = fireAt[k]
  BY RescheduledType DEF Finish
<1>4. DOMAIN disk' = listed' /\ disk' \in [listed' -> Nat]
  <2>1. disk' = [k \in listed' |-> fireAt'[k]]
    BY DEF Finish, Leave, Save
  <2> QED
    BY <1>2, <1>3, <2>1
<1>5. /\ fate' \in [Jobs -> {"new", "pending", "tried", "stopped", "expired",
                           "cancelled", "withdrawn"}]
      /\ j \in Recurring => fate'[j] = fate[j]
      /\ j \in OneShot => fate'[j] \in {"tried", "withdrawn"}
      /\ \A k \in Jobs \ {j} : fate'[k] = fate[k]
  BY <1>1 DEF Finish, SchedulerTypeOK, OneShot
<1>6. /\ Later(now, fireAt[j]) \in Nat /\ notBefore'[j] = Later(now, fireAt[j]) + 1
      /\ notBefore' \in [Jobs -> Nat]
      /\ \A k \in Jobs \ {j} : notBefore'[k] = notBefore[k]
  <2>1. Later(now, fireAt[j]) \in Nat
    BY DEF Later, SchedulerTypeOK, Time, SchedulerAssumption
  <2> QED
    BY <2>1 DEF Finish, SchedulerTypeOK
<1>7. \/ j \in Recurring /\ j \notin OneShot
      \/ j \in OneShot /\ j \notin Recurring /\ j \notin listed'
  BY <1>2 DEF OneShot
<1>8. \A k \in listed' : k # j => k \in listed
  BY <1>2
<1>9. SchedulerTypeOK'
  BY <1>1, <1>2, <1>3, <1>4, <1>5, <1>6, <1>7, <1>8 DEF SchedulerTypeOK
<1>10. PendingIsKept'
  BY <1>1, <1>2, <1>4, <1>5, <1>7 DEF PendingIsKept
<1>11. ListedInv'
  <2>1. ASSUME NEW k \in listed', k # j
        PROVE  Alive(k)' /\ (phase'[k] = "idle" => fireAt'[k] >= notBefore'[k])
    BY <1>1, <1>2, <1>3, <1>5, <1>6, <1>8, <2>1 DEF ListedInv, Alive
  <2>2. ASSUME j \in listed'
        PROVE  Alive(j)' /\ fireAt'[j] >= notBefore'[j]
    <3>1. j \in Recurring /\ fate'[j] = fate[j] /\ Later(now, fireAt[j]) < fireAt'[j]
      BY <1>3, <1>5, <1>7, <2>2
    <3>2. fireAt'[j] \in Nat
      BY <1>3
    <3>3. fireAt'[j] >= notBefore'[j]
      BY <1>6, <3>1, <3>2
    <3> QED
      BY <1>1, <3>1, <3>3 DEF Alive
  <2> QED
    BY <2>1, <2>2 DEF ListedInv
<1>12. InFlightInv'
  BY <1>1, <1>5 DEF InFlightInv
<1>13. DiskInv'
  BY <1>4, <1>11 DEF DiskInv, ListedInv
<1>14. NewInv'
  <2>1. fate'[j] # "new"
    BY <1>1, <1>5, <1>7
  <2>2. \A k \in Jobs \ {j} : fate'[k] = fate[k] /\ notBefore'[k] = notBefore[k]
    BY <1>5, <1>6
  <2> QED
    BY <1>1, <2>1, <2>2 DEF NewInv
<1> QED
  BY <1>9, <1>10, <1>11, <1>12, <1>13, <1>14

LEMMA CrashKeepsInv == ASSUME SchedulerAssumption, SchedInv, Crash PROVE SchedInv'
<1>1. /\ up' = FALSE /\ listed' = {} /\ crashes' = crashes + 1 /\ crashes < MaxCrashes
      /\ fireAt' = [j \in Jobs |-> 0] /\ phase' = [j \in Jobs |-> "idle"]
      /\ UNCHANGED <<now, disk, fate, notBefore>>
  BY DEF Crash, Gone
<1>2. crashes' \in 0..MaxCrashes
  BY <1>1 DEF SchedulerTypeOK, SchedulerAssumption
<1>3. SchedulerTypeOK'
  BY <1>1, <1>2 DEF SchedulerTypeOK
<1> QED
  BY <1>1, <1>3 DEF PendingIsKept, ListedInv, InFlightInv, DiskInv, NewInv, Alive, Outdated

LEMMA ShutdownKeepsInv == ASSUME SchedulerAssumption, SchedInv, Shutdown PROVE SchedInv'
<1> DEFINE begun == {j \in Jobs : phase[j] \in {"running", "delivered"}}
<1>1. /\ up /\ up' = FALSE /\ listed' = {}
      /\ crashes' = crashes + 1 /\ crashes < MaxCrashes
      /\ fireAt' = [j \in Jobs |-> 0] /\ phase' = [j \in Jobs |-> "idle"]
      /\ UNCHANGED <<now, notBefore>>
  BY DEF Shutdown, Gone
<1>2. crashes' \in 0..MaxCrashes
  BY <1>1 DEF SchedulerTypeOK, SchedulerAssumption
<1>3. \A j \in begun : fate[j] \in {"pending", "withdrawn"}
  BY DEF InFlightInv
<1>4. begun \subseteq Jobs
  OBVIOUS
<1>5. /\ fate' \in [Jobs -> {"new", "pending", "tried", "stopped", "expired",
                           "cancelled", "withdrawn"}]
      /\ \A j \in begun \cap OneShot : fate'[j] \in {"stopped", "tried", "withdrawn"}
      /\ \A j \in Jobs \ (begun \cap OneShot) : fate'[j] = fate[j]
  BY <1>3 DEF Shutdown, SchedulerTypeOK
<1>6. Leave(begun)
  BY DEF Shutdown
<1> HIDE DEF begun
<1>7. CASE begun = {}
  <2>1. fate' = fate /\ disk' = disk
    BY <1>5, <1>6, <1>7 DEF Leave, SchedulerTypeOK
  <2>2. SchedulerTypeOK'
    BY <1>1, <1>2, <1>5, <2>1 DEF SchedulerTypeOK
  <2> QED
    BY <1>1, <2>1, <2>2 DEF PendingIsKept, ListedInv, InFlightInv, DiskInv, NewInv, Alive,
                            Outdated
<1>8. CASE begun # {}
  <2>1. /\ DOMAIN disk' = (listed \ (begun \cap OneShot)) \cup (begun \cap Recurring)
        /\ DOMAIN disk' \subseteq Jobs /\ disk' \in [DOMAIN disk' -> Nat]
    BY <1>4, <1>6, <1>8, RescheduledType DEF Leave, Save, Relisted, SchedulerTypeOK
  <2>2. \A j \in DOMAIN disk' : Alive(j)'
    <3>1. ASSUME NEW j \in listed \ (begun \cap OneShot) PROVE Alive(j)'
      BY <1>5, <3>1 DEF ListedInv, Alive, SchedulerTypeOK
    <3>2. ASSUME NEW j \in begun \cap Recurring PROVE Alive(j)'
      BY <1>3, <1>4, <1>5, <3>2 DEF Alive, OneShot
    <3> QED
      BY <2>1, <3>1, <3>2
  <2>3. SchedulerTypeOK'
    <3>1. \A j \in Jobs : fate'[j] = "new" => j \notin DOMAIN disk'
      BY <2>2 DEF Alive
    <3> QED
      BY <1>1, <1>2, <1>5, <2>1, <3>1 DEF SchedulerTypeOK
  <2>4. PendingIsKept'
    BY <1>1, <1>5, <2>1 DEF PendingIsKept
  <2>5. ListedInv' /\ InFlightInv' /\ DiskInv'
    BY <1>1, <2>2 DEF ListedInv, InFlightInv, DiskInv
  <2>6. NewInv'
    BY <1>1, <1>5 DEF NewInv
  <2> QED
    BY <2>3, <2>4, <2>5, <2>6
<1> QED
  BY <1>7, <1>8

LEMMA StartKeepsInv == ASSUME SchedulerAssumption, SchedInv, Start PROVE SchedInv'
<1> DEFINE kept == {j \in DOMAIN disk : Kept(j)}
<1>1. /\ up' = TRUE /\ listed' = kept /\ UNCHANGED <<now, phase, disk, crashes>>
      /\ fireAt' = [j \in Jobs |-> IF j \in kept THEN Recovered(j) ELSE 0]
      /\ notBefore' = [j \in Jobs |-> IF j \in Recurring THEN now ELSE 0]
      /\ \A j \in Jobs : phase[j] = "idle"
  BY DEF Start, SchedulerTypeOK
<1>2. kept \subseteq DOMAIN disk /\ DOMAIN disk \subseteq Jobs /\ now \in Nat /\ Grace \in Nat
  BY DEF SchedulerTypeOK, Time, SchedulerAssumption
<1>3. /\ fate' \in [Jobs -> {"new", "pending", "tried", "stopped", "expired",
                           "cancelled", "withdrawn"}]
      /\ \A j \in Jobs : fate'[j] = fate[j] \/ (fate[j] = "pending" /\ fate'[j] = "expired")
      /\ \A j \in DOMAIN disk : fate'[j] # fate[j] =>
            j \in OneShot /\ now - disk[j] > Grace
      /\ \A j \in DOMAIN disk : fate'[j] = "pending" => j \in kept
  <2>1. fate' = [j \in Jobs |-> IF j \in DOMAIN disk /\ now - disk[j] > Grace
                     /\ j \in OneShot /\ fate[j] = "pending" THEN "expired" ELSE fate[j]]
    BY DEF Start
  <2>2. \A j \in DOMAIN disk : disk[j] \in Nat
    BY DEF SchedulerTypeOK
  <2> QED
    BY <1>2, <2>1, <2>2 DEF SchedulerTypeOK, Kept, OneShot
<1>4. \A j \in kept : Recovered(j) \in Nat /\ (j \in Recurring => now <= Recovered(j))
  BY RecoveredType
<1>5. ASSUME NEW j \in kept PROVE Alive(j) /\ fate'[j] = fate[j]
  <2>1. disk[j] \in Nat /\ Kept(j)
    BY DEF SchedulerTypeOK
  <2>2. ~(j \in OneShot /\ now - disk[j] > Grace)
    BY <1>2, <2>1 DEF Kept, OneShot
  <2> QED
    BY <1>2, <1>3, <2>2 DEF DiskInv, Outdated
<1> HIDE DEF kept
<1>6. fireAt' \in [Jobs -> Nat] /\ notBefore' \in [Jobs -> Nat]
  BY <1>1, <1>2, <1>4
<1>7. SchedulerTypeOK'
  BY <1>1, <1>2, <1>3, <1>5, <1>6 DEF SchedulerTypeOK, Alive
<1>8. PendingIsKept'
  BY <1>1, <1>2, <1>3 DEF PendingIsKept
<1>9. ListedInv'
  BY <1>1, <1>2, <1>4, <1>5 DEF ListedInv, Alive
<1>10. InFlightInv'
  BY <1>1 DEF InFlightInv
<1>11. DiskInv'
  BY <1>1, <1>2, <1>3 DEF DiskInv, Alive, Outdated
<1>12. NewInv'
  BY <1>1, <1>2, <1>3 DEF NewInv, OneShot
<1> QED
  BY <1>7, <1>8, <1>9, <1>10, <1>11, <1>12

LEMMA ClockKeepsInv == ASSUME SchedulerAssumption, SchedInv, Clock PROVE SchedInv'
<1>1. /\ now' = now + 1 /\ now \in Nat /\ now' \in Time /\ Grace \in Nat
      /\ UNCHANGED <<up, listed, fireAt, phase, disk, crashes, fate, notBefore>>
  BY DEF Clock, SchedulerTypeOK, Time, SchedulerAssumption
<1>2. SchedulerTypeOK'
  BY <1>1 DEF SchedulerTypeOK
<1>3. PendingIsKept' /\ ListedInv' /\ InFlightInv'
  BY <1>1 DEF PendingIsKept, ListedInv, InFlightInv, Alive
<1>4. DiskInv'
  BY <1>1 DEF DiskInv, Alive, Outdated, SchedulerTypeOK
<1>5. NewInv'
  BY <1>1 DEF NewInv, SchedulerTypeOK
<1> QED
  BY <1>2, <1>3, <1>4, <1>5

LEMMA NextKeepsInv ==
    ASSUME SchedulerAssumption, SchedInv, [Next]_vars PROVE SchedInv'
<1>1. CASE UNCHANGED vars
  BY <1>1 DEF vars, SchedulerTypeOK, PendingIsKept, ListedInv, InFlightInv, DiskInv, NewInv,
              Alive, Outdated
<1>2. ASSUME NEW j \in Jobs, NEW t \in 0..(MaxTime + Period[j]), Add(j, t) PROVE SchedInv'
  BY <1>2, AddKeepsInv
<1>3. ASSUME NEW S \in SUBSET Jobs, Cancel(S) PROVE SchedInv'
  BY <1>3, CancelKeepsInv
<1>4. CASE AnyTick
  BY <1>4, TickKeepsInv DEF AnyTick
<1>5. ASSUME NEW j \in Jobs, Begin(j) \/ Deliver(j) PROVE SchedInv'
  BY <1>5, RunKeepsInv
<1>6. ASSUME NEW j \in Jobs, Finish(j) PROVE SchedInv'
  BY <1>6, FinishKeepsInv
<1>7. CASE Crash \/ Shutdown \/ Start \/ Clock
  BY <1>7, CrashKeepsInv, ShutdownKeepsInv, StartKeepsInv, ClockKeepsInv
<1> QED
  BY <1>1, <1>2, <1>3, <1>4, <1>5, <1>6, <1>7 DEF Next

-------------------------------------------------------------------------------
(* Theorems *)

\* Whatever is added, cancelled, run, saved, crashed and read back, what is listed or in
\* the file may go on or is dropped by the next start, and what is over is not in flight.
THEOREM SchedulerInvariance == Spec => []SchedInv
<1>1. Init => SchedInv
  BY InitSchedInv, SchedulerAssumption
<1>2. SchedInv /\ [Next]_vars => SchedInv'
  BY NextKeepsInv, SchedulerAssumption
<1> QED
  BY <1>1, <1>2, PTL DEF Spec

\* No accepted job is forgotten: until its fate is sealed it is in the file, and in memory
\* while the process is up, through crashes, shutdowns and the saves of other jobs.
THEOREM NoJobIsForgotten == Spec => []SchedulerInvariant
<1>1. SchedInv => SchedulerInvariant
  BY DEF SchedulerInvariant
<1> QED
  BY <1>1, SchedulerInvariance, PTL

\* A step that starts a job starts one that is listed and idle.
LEMMA StartsAreListed ==
    ASSUME SchedulerAssumption, SchedInv, [Next]_vars, NEW j \in Jobs, Starts(j)
    PROVE  j \in listed /\ phase[j] = "idle"
<1>1. AnyTick
  <2>1. phase[j] = "idle" /\ phase'[j] = "queued"
    BY DEF Starts
  <2>2. ~UNCHANGED vars
    BY <2>1 DEF vars
  <2>3. ASSUME NEW k \in Jobs, Begin(k) \/ Deliver(k) \/ Finish(k) PROVE FALSE
    BY <2>1, <2>3 DEF Begin, Deliver, Finish, SchedulerTypeOK
  <2>4. ~(Crash \/ Shutdown \/ Start \/ Clock)
    BY <2>1 DEF Crash, Shutdown, Gone, Start, Clock
  <2>5. ASSUME NEW k \in Jobs, NEW t \in 0..(MaxTime + Period[k]), Add(k, t) PROVE FALSE
    BY <2>1, <2>5 DEF Add
  <2>6. ASSUME NEW S \in SUBSET Jobs, Cancel(S) PROVE FALSE
    BY <2>1, <2>6 DEF Cancel
  <2> QED
    BY <2>2, <2>3, <2>4, <2>5, <2>6 DEF Next
<1> QED
  BY <1>1 DEF AnyTick, Tick, Starts

\* No job starts twice for one occurrence in one life of the process, early or late.
THEOREM OneStartPerOccurrence == Spec => OccurrencesAdvance
<1>1. SchedInv /\ [Next]_vars => [\A j \in Jobs : Starts(j) => fireAt[j] >= notBefore[j]]_vars
  BY StartsAreListed, SchedulerAssumption DEF ListedInv
<1> QED
  BY <1>1, SchedulerInvariance, PTL DEF Spec, OccurrencesAdvance

\* What was cancelled while idle, tried, stopped or found expired never starts again, in
\* this life of the process or in another that reads the file.
THEOREM WhatIsOverStaysOver == Spec => OverIsOver
<1>1. SchedInv /\ [Next]_vars =>
        [\A j \in Jobs : Starts(j) =>
            fate[j] = "pending" \/ (fate[j] = "withdrawn" /\ j \in Recurring)]_vars
  BY StartsAreListed, SchedulerAssumption DEF ListedInv, Alive
<1> QED
  BY <1>1, SchedulerInvariance, PTL DEF Spec, OverIsOver
===============================================================================
