------------------------------ MODULE Subagents ------------------------------
(***************************************************************************)
(* Background subagents (agent/background/subagent_manager.py,             *)
(* agent/tools/spawn.py, agent/policies/delegation.py): a job is an        *)
(* asyncio task the spawn tool creates when fewer than the limit are       *)
(* running; it ends by itself, with an exception, or because spawn_manage  *)
(* cancels it, and every end is announced to the chat that asked for it    *)
(* as an item of the inbound queue.                                        *)
(***************************************************************************)
EXTENDS Naturals, FiniteSets, Sequences

CONSTANTS
    Subs,       \* jobs
    Limit,      \* _MAX_CONCURRENT_SPAWNS
    MaxCancels  \* calls of spawn_manage cancel for a job

ASSUME SubagentsAssumption == Limit \in Nat /\ MaxCancels \in Nat

VARIABLES
    sub,        \* the asyncio task of each job
    jobs,       \* _running_tasks and _running_jobs
    saidBefore, \* _cancel_announced
    announced,  \* what the completion items of each job say
    cancels     \* calls of cancel that found the job running

suVars == <<sub, jobs, saidBefore, announced, cancels>>

Ends == {"completed", "incomplete", "error"}

\* _announce_result
Say(j, what) == announced' = [announced EXCEPT ![j] = Append(@, what)]

Room == Cardinality(jobs) < Limit

\* The policy is asked, the task created and the job entered in one step.
Spawn(j) ==
    /\ sub[j] = "none" /\ Room
    /\ sub' = [sub EXCEPT ![j] = "created"]
    /\ jobs' = jobs \union {j}
    /\ UNCHANGED <<saidBefore, announced, cancels>>

Begin(j) ==
    /\ sub[j] = "created"
    /\ sub' = [sub EXCEPT ![j] = "working"]
    /\ UNCHANGED <<jobs, saidBefore, announced, cancels>>

\* The subagent returns, runs out of rounds or raises.
Finish(j, what) ==
    /\ sub[j] = "working"
    /\ sub' = [sub EXCEPT ![j] = "done"]
    /\ Say(j, what)
    /\ UNCHANGED <<jobs, saidBefore, cancels>>

\* The user is told at once; the task is told to stop.
Cancel(j) ==
    /\ j \in jobs /\ sub[j] # "done" /\ cancels[j] < MaxCancels
    /\ cancels' = [cancels EXCEPT ![j] = @ + 1]
    /\ saidBefore' = saidBefore \union {j}
    /\ Say(j, "cancelled")
    /\ sub' = [sub EXCEPT ![j] = IF @ = "created" THEN "stillborn"
                                 ELSE IF @ = "working" THEN "stopping" ELSE @]
    /\ UNCHANGED jobs

\* A task that had begun announces its end unless cancel has; one that had not
\* runs no code at all.
MustSay(j) == sub[j] = "stopping" /\ j \notin saidBefore

Unwind(j) ==
    /\ sub[j] \in {"stopping", "stillborn"}
    /\ sub' = [sub EXCEPT ![j] = "done"]
    /\ IF MustSay(j) THEN Say(j, "cancelled") ELSE UNCHANGED announced
    /\ UNCHANGED <<jobs, saidBefore, cancels>>

\* The done callback.
Forget(j) ==
    /\ sub[j] = "done" /\ j \in jobs
    /\ jobs' = jobs \ {j}
    /\ saidBefore' = saidBefore \ {j}
    /\ UNCHANGED <<sub, announced, cancels>>

Init ==
    /\ sub = [j \in Subs |-> "none"]
    /\ jobs = {} /\ saidBefore = {}
    /\ announced = [j \in Subs |-> <<>>]
    /\ cancels = [j \in Subs |-> 0]

Works(j) == Begin(j) \/ (\E what \in Ends : Finish(j, what)) \/ Unwind(j) \/ Forget(j)

Next == \E j \in Subs : Works(j) \/ Spawn(j) \/ Cancel(j)

Spec == Init /\ [][Next]_suVars

SubagentsTypeOK ==
    /\ sub \in [Subs -> {"none", "created", "working", "stopping", "stillborn", "done"}]
    /\ jobs \subseteq Subs /\ saidBefore \subseteq jobs
    /\ announced \in [Subs -> Seq(Ends \union {"cancelled"})]
    /\ cancels \in [Subs -> 0..MaxCancels]

\* The jobs in flight never exceed the limit, those that are created and have
\* not begun and those that are being cancelled included
\* (agent/policies/delegation.py decide).
LimitHolds == Cardinality({j \in Subs : sub[j] \notin {"none", "done"}}) <= Limit

\* The chat hears of the end of a job once, and one end only, as long as the
\* job is cancelled once: the end that cancel announces is neither repeated nor
\* contradicted by the task it cancels
\* (agent/background/subagent_manager.py cancel, _run_subagent).
EndSaidOnce ==
    \A j \in Subs :
        /\ cancels[j] <= 1 => Len(announced[j]) <= 1
        /\ \A a, b \in DOMAIN announced[j] : announced[j][a] = announced[j][b]

\* A job that was created is heard of, cancelled before its first step or not.
EveryJobIsHeardOf == \A j \in Subs : (j \in jobs) ~> (announced[j] # <<>>)
=============================================================================
