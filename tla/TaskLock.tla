-------------------------------- MODULE TaskLock --------------------------------
(***************************************************************************)
(* What the execution tables promise to the rest of the agent, whatever    *)
(* processes come and go: each task is a lock that at most one attempt     *)
(* holds; a request is granted an attempt once in its life, even after the *)
(* attempt is over; the outcome of an attempt is decided when it gives the *)
(* lock back, and is never revised.  Module TaskStore implements it.       *)
(***************************************************************************)
CONSTANTS Tasks, Attempts, Keys, Outcomes

VARIABLES
    holders,    \* the attempts that hold each task
    granted,    \* the request keys that were ever granted an attempt
    outcome     \* the outcome of every attempt that is over

lockVars == <<holders, granted, outcome>>

LockInit ==
    /\ holders = [t \in Tasks |-> {}]
    /\ granted = {}
    /\ outcome = [a \in {} |-> {}]

Grant(t, a, key) ==
    /\ holders[t] = {}
    /\ key \notin granted
    /\ a \notin DOMAIN outcome /\ \A u \in Tasks : a \notin holders[u]
    /\ holders' = [holders EXCEPT ![t] = {a}]
    /\ granted' = granted \cup {key}
    /\ UNCHANGED outcome

\* The holders of the tasks in T give them back with the outcome o: one task
\* for a write of the owner or the user, several for a recovery pass.
Settle(T, o) ==
    LET over == UNION {holders[t] : t \in T}
    IN  /\ \A t \in T : holders[t] # {}
        /\ holders' = [t \in Tasks |-> IF t \in T THEN {} ELSE holders[t]]
        /\ outcome' = [a \in DOMAIN outcome \cup over |->
                          IF a \in over THEN o ELSE outcome[a]]
        /\ UNCHANGED granted

LockNext ==
    \/ \E t \in Tasks, a \in Attempts, key \in Keys : Grant(t, a, key)
    \/ \E T \in SUBSET Tasks, o \in Outcomes : Settle(T, o)

LockSpec == LockInit /\ [][LockNext]_lockVars
===============================================================================
