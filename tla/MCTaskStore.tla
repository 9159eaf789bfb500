----------------------------- MODULE MCTaskStore -----------------------------
(***************************************************************************)
(* Instances of TaskStore for TLC.                                         *)
(***************************************************************************)
EXTENDS TaskStore, FiniteSets, TLC

CONSTANTS s1, t1, t2, x1, x2

\* Two plans of one session, a step each.
OneSession == [t \in Tasks |-> s1]
StepEach == (x1 :> t1) @@ (x2 :> t2)

\* One plan, all the steps.
OneTask == [s \in Steps |-> t1]

\* Three attempts of a step of one plan, with every way each of them can end, or two
\* attempts around two plans that replace each other, without the longest logs.
ThreeOrTwoPlans ==
    \/ plans[t2] = "absent"
    \/ Cardinality(Rows) <= 2 /\ \A a \in Rows : Len(events[a]) <= 3

Symmetry == Permutations(Attempts) \cup Permutations(Requests) \cup Permutations(Instances)
=============================================================================
