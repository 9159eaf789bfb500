------------------------------ MODULE ToolContext ------------------------------
(***************************************************************************)
(* Whose turn a tool is run for.  ToolRegistry keeps one context for the    *)
(* whole process (agent/tools/registry.py): the chat, the session and the   *)
(* user message that a turn is about.  A turn writes it before it reasons,  *)
(* and every tool reads it when it is called, many awaits later.  The loop  *)
(* runs one turn at a time, but the scheduler's soft jobs are turns beside  *)
(* it (SchedulerService._execute, AgentLoop.process_direct).  A turn of the *)
(* Reasoner also passes its session with every call, outside the context;   *)
(* the turn that tells of a background task passes none.                    *)
(***************************************************************************)
CONSTANTS
    Turns,      \* turns of a process
    KindOf,     \* "message" of a user, "completion" of a background task, soft "job"
    ChatOf      \* the chat a turn belongs to

ToolContextAssumption ==
    /\ KindOf \in [Turns -> {"message", "completion", "job"}]
    /\ DOMAIN ChatOf = Turns

VARIABLES
    context,    \* _context: chat, and the turn whose message is current_user_source_ref
    at,         \* where a turn is
    calls,      \* history: what tools were called with
    disturbed   \* history: turns during whose reasoning another one wrote the context

contextVars == <<context, at, calls, disturbed>>

None == "-"
Identity == Turns \cup {None}
Context == [chat : {ChatOf[t] : t \in Turns} \cup {None}, source : Identity]

ToolContextTypeOK ==
    /\ context \in Context
    /\ at \in [Turns -> {"waiting", "begun", "reasoning", "over"}]
    /\ calls \subseteq [turn : Turns, identity : Identity, context : Context]
    /\ disturbed \subseteq Turns

\* The loop takes the next item when it has no turn; a soft job is a task of its own.
BeginTurn(t) ==
    /\ at[t] = "waiting"
    /\ KindOf[t] = "job" \/ \A u \in Turns : at[u] \in {"begun", "reasoning"} => KindOf[u] = "job"
    /\ at' = [at EXCEPT ![t] = "begun"]
    /\ UNCHANGED <<context, calls, disturbed>>

\* Mutant: the chat stays what it was.
SourceOnly(t) == [context EXCEPT !.source = t]

\* set_context updates what it is given: a completion has no message of the user.
Updated(t) ==
    [chat |-> ChatOf[t], source |-> IF KindOf[t] = "completion" THEN context.source ELSE t]

SetContext(t) ==
    /\ at[t] = "begun" /\ at' = [at EXCEPT ![t] = "reasoning"]
    /\ context' = Updated(t)
    /\ disturbed' = disturbed \cup {u \in Turns : at[u] = "reasoning"}
    /\ UNCHANGED calls

\* ToolRegistry.execute: what the model says goes before the context, and the identity
\* the Reasoner gives goes before both.
CallTool(t) ==
    /\ at[t] = "reasoning"
    /\ calls' = calls \cup
         {[turn |-> t, identity |-> IF KindOf[t] = "completion" THEN None ELSE t,
           context |-> context]}
    /\ UNCHANGED <<context, at, disturbed>>

\* It replies, fails or is stopped; the context stays.
EndTurn(t) ==
    /\ at[t] \in {"begun", "reasoning"} /\ at' = [at EXCEPT ![t] = "over"]
    /\ UNCHANGED <<context, calls, disturbed>>

ContextInit ==
    /\ context = [chat |-> None, source |-> None] /\ at = [t \in Turns |-> "waiting"]
    /\ calls = {} /\ disturbed = {}

ContextNext == \E t \in Turns : BeginTurn(t) \/ SetContext(t) \/ CallTool(t) \/ EndTurn(t)

ContextSpec == ContextInit /\ [][ContextNext]_contextVars

-------------------------------------------------------------------------------
(* Properties *)

\* Tools know the message and the chat they are called for
\* (my_md/interview/08-architecture-diagram.md, "this is why the memory tools know the
\* source of the current user message").
ToolsKnowTheirTurn ==
    \A c \in calls : KindOf[c.turn] = "message" =>
        c.context = [chat |-> ChatOf[c.turn], source |-> c.turn]

\* Nobody but a turn that overlaps misleads a tool: what a finished turn left behind is
\* never used, and what is passed with the call is never another turn's.
OnlyOverlapsMislead ==
    \A c \in calls :
        /\ c.turn \notin disturbed => /\ c.context.chat = ChatOf[c.turn]
                                      /\ KindOf[c.turn] # "completion" => c.context.source = c.turn
        /\ c.identity \in {c.turn, None}
===============================================================================
