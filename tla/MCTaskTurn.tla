------------------------------- MODULE MCTaskTurn -------------------------------
(***************************************************************************)
(* Instances of TaskTurn for TLC: one session, one plan.                   *)
(***************************************************************************)
EXTENDS TaskTurn

CONSTANTS k1, t1, s1, s2, r1, r2, u1, u2, u3

OneSession == [t \in Tasks |-> k1]
OneTask == [s \in Steps |-> t1]
SessionOfTurn == [u \in Turns |-> k1]
\* Two messages.
TwoMessages == [u \in Turns |-> IF u = u2 THEN r2 ELSE r1]
InOrder == [s \in Steps |-> IF s = s1 THEN 1 ELSE 2]
===============================================================================
