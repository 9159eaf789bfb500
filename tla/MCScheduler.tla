------------------------------- MODULE MCScheduler -------------------------------
(* Instances of Scheduler for TLC: a one-shot, a job on a cron grid and one on  *)
(* an interval.  The two that ask the model may start one unit early.           *)
EXTENDS Scheduler

CONSTANTS once, cron, every

JobsAll == {once, cron, every}
JobsSoft == {once, cron}
JobsCron == {cron}
PeriodOf == [j \in JobsAll |-> CASE j = once -> 0 [] j = cron -> 2 [] j = every -> 1]
===============================================================================
