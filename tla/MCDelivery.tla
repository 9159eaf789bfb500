----------------------------- MODULE MCDelivery -----------------------------
(***************************************************************************)
(* Small instances of Delivery.  One budget is for a process that lives,   *)
(* with a channel that raises, a stopped turn, a proactive message and a   *)
(* completion; one for a process that dies and starts again, twice; one    *)
(* for a turn that takes up stopped work and is followed by another.       *)
(***************************************************************************)
EXTENDS Delivery

Budget(says, done, pushes, stops, raises, crashes) ==
    [b \in Budgeted |-> CASE b = "says" -> says
                           [] b = "done" -> done
                           [] b = "pushes" -> pushes
                           [] b = "stops" -> stops
                           [] b = "raises" -> raises
                           [] b = "crashes" -> crashes]

ThreeBudgets ==
    {Budget(2, 1, 1, 1, 2, 0), Budget(2, 0, 1, 0, 1, 2), Budget(3, 0, 0, 2, 0, 0)}

=============================================================================
