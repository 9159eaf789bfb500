----------------------------- MODULE MCToolContext -----------------------------
(* Instances of ToolContext for TLC: two chats write to the agent, a soft job of *)
(* the first is due, and a background task of the second ends.                   *)
EXTENDS ToolContext

Kinds == [t \in Turns |-> CASE t = "job" -> "job" [] t = "done" -> "completion"
                            [] OTHER -> "message"]
Chats == [t \in Turns |-> IF t \in {"m1", "job"} THEN "chat1" ELSE "chat2"]

===============================================================================
