------------------------------- MODULE TurnLoop -------------------------------
(***************************************************************************)
(* The loop of model and tools inside a user's turn: run_turn and run of    *)
(* DefaultReasoner (agent/core/passive_turn.py), the policies that decide   *)
(* which of the model's calls run (agent/policies), the executor with its   *)
(* hooks, and the guard against repeated calls (plugins/tool_loop_guard).   *)
(*                                                                         *)
(* A turn tries several plans: when the provider refuses the prompt, the    *)
(* conversation is built again with less in it.  What the first plan did    *)
(* is then gone from the conversation, but not from the ledger and the      *)
(* access plan, which belong to the turn.                                   *)
(*                                                                         *)
(* One session, whose guard and tool memory outlive a turn.  The turn of a  *)
(* task attempt is TaskTurn's: here the coordinator, if there is one, has   *)
(* no attempt to look after, and only rebuilds the boundary's context after *)
(* every result.  Requests that ask for a plan's state or for the session's *)
(* own history are left out, and so is the path without tools for short     *)
(* questions.                                                              *)
(***************************************************************************)
EXTENDS Integers, SequencesExt

CONSTANTS
    Modes,          \* what a turn is: records with the fields of ModeFields
    Batches,        \* bound: the tool calls a model may ask for in one answer
    AlwaysOn,       \* the tools that are always offered
    Capacity,       \* capacity of ToolDiscoveryState
    IterationLimit,  \* max_iterations
    Plans,          \* number of attempt plans
    RepeatLimit     \* repeat_limit of the guard

Docs  == {"search_docs", "fetch_doc_chunk"}
Local == {"shell"}                    \* stands for read_file and list_dir too
Tools == Docs \cup Local \cup {"tool_search", "other"}
NonLru == AlwaysOn \cup {"tool_search"}

\* docs: does the text ask for documents, for their evidence, for the original text?
ModeFields == [search : BOOLEAN, coordinated : BOOLEAN, localOk : BOOLEAN,
               docs : {"none", "simple", "evidence", "original"}, disabled : SUBSET Tools]

\* The argument: the chunk that is read or looked for, the tools a search finds.
Calls == [tool : Tools, arg : SUBSET (Tools \cup {"c1", "c2"})]

TurnLoopAssumption ==
    /\ Modes \subseteq ModeFields /\ AlwaysOn \subseteq Tools
    /\ \A b \in Batches :
          /\ b \in Seq(Calls)
          /\ \A i \in DOMAIN b : b[i].tool = "tool_search" => b[i].arg \subseteq Tools
    /\ {Capacity, IterationLimit, Plans, RepeatLimit} \subseteq Nat \ {0}

VARIABLES
    pc,             \* where the turn is; "idle" between turns
    mode, plan, iter,
    batch, at,      \* the calls of the model's last answer and the one that is next
    answers,        \* how many results each of them has in the conversation
    visible,        \* visible_names
    finalOnly,      \* final_only_next_call
    enough,         \* is there an assessment, and does it allow to stop?
    ledger,         \* of the turn
    closed,         \* has TerminalResultAccessPolicy changed the access plan?
    lru, recent,    \* the tool memory, and what it becomes when the turn ends well
    guard,          \* the state of ToolLoopGuard
    held,           \* history: this conversation holds a document result
    misled,         \* history: told to answer from evidence it does not hold
    terminal,       \* history: a document tool has said that documents are off
    fellBack,       \* history: a local tool ran after that
    runs            \* history: how often each document tool ran in this turn

inCalls == <<batch, at, answers>>
inRun   == <<plan, iter, visible, finalOnly, enough, recent, held>>
inTurn  == <<mode, ledger, closed, misled, terminal, fellBack, runs>>
outside == <<lru, guard>>
loopVars == <<pc, inCalls, inRun, inTurn, outside>>

EmptyLedger == [retrievals |-> 0, expands |-> 0, seen |-> {}, hit |-> FALSE,
                chunk |-> FALSE, signal |-> FALSE]
EmptyGuard == [signature |-> <<>>, count |-> 0]

-----------------------------------------------------------------------------
(* The policies.                                                           *)

Evidence == mode.docs \in {"evidence", "original"}

\* execution_block, visible_suppress and tool_search_block are one set.
Blocked(m, off) == IF off \/ (m.docs # "none" /\ ~m.localOk) THEN Local ELSE {}

VisibleAdd(m) == CASE m.docs = "none" -> {}
                   [] m.docs = "simple" -> {"search_docs"}
                   [] OTHER -> Docs

\* Without tool search every tool is offered and there is no boundary.
VisibleNames(m, off) ==
    IF ~m.search THEN Tools
    ELSE (AlwaysOn \cup ToSet(lru) \cup VisibleAdd(m)) \ (m.disabled \cup Blocked(m, off))

\* evaluate_sufficiency: hits and chunks of the document tools carry citations.
Sufficient(m, l) == l.hit /\ (m.docs = "original" => l.chunk)

\* evaluate_batch_tool_call.
SkipsInBatch(c) ==
    /\ ~mode.localOk /\ c.tool \in Docs /\ at > 1 /\ enough
    /\ \/ Evidence /\ c.tool = "fetch_doc_chunk" /\ ledger.chunk
       \/ mode.docs = "simple" /\ ledger.hit

\* EvidenceCompletionPolicy.
EvidenceComplete(c) == Evidence /\ c.tool \in Docs /\ ledger.hit /\ ledger.chunk

ExpandBudget == IF Evidence THEN 2 ELSE 1

\* ToolBudgetPolicy.
OverBudget(c) ==
    \/ c.tool = "tool_search" /\ c.arg # {} /\ c.arg \subseteq visible
    \/ /\ mode.docs # "none"
       /\ \/ c.tool = "search_docs" /\ ledger.retrievals >= 1
          \/ c.tool = "fetch_doc_chunk" /\ (ledger.expands >= ExpandBudget \/ c \in ledger.seen)

\* What becomes of a call, in the order in which run asks.
Gate(c) ==
    CASE c.tool \in mode.disabled -> "disabled"
      [] mode.search /\ SkipsInBatch(c) -> "skip"
      [] mode.search /\ c.tool \in Blocked(mode, closed) -> "block"
      [] mode.search /\ (EvidenceComplete(c) \/ OverBudget(c)) -> "soft_stop"
      [] c.tool \notin visible -> "not_loaded"
      [] OTHER -> "run"

\* detect_repeated_tool_call: only the first call of a batch is counted, and the batch
\* is what it is compared with.  It counts on, which makes no difference at the limit.
Counted == IF at > 1 THEN guard
           ELSE [signature |-> batch,
                 count |-> IF guard.signature # batch THEN 1
                           ELSE IF guard.count < RepeatLimit THEN guard.count + 1
                           ELSE RepeatLimit]
Repeats == at = 1 /\ Counted.count >= RepeatLimit

-----------------------------------------------------------------------------
(* The turn and its plans.                                                 *)

StartRunAfresh(m, n, off) ==
    /\ plan' = n /\ iter' = 0 /\ visible' = VisibleNames(m, FALSE)
    /\ finalOnly' = FALSE /\ enough' = FALSE /\ recent' = lru /\ held' = FALSE
    /\ batch' = <<>> /\ at' = 1 /\ answers' = <<>>
    /\ closed' = FALSE
    /\ pc' = "step"

\* run starts with a conversation of its own.  The coordinator's contexts were local to
\* the last run, so with it the access plan starts again as well.
StartRun(m, n, off) ==
    /\ plan' = n /\ iter' = 0 /\ visible' = VisibleNames(m, FALSE)
    /\ finalOnly' = FALSE /\ enough' = FALSE /\ recent' = lru /\ held' = FALSE
    /\ batch' = <<>> /\ at' = 1 /\ answers' = <<>>
    /\ closed' = (off /\ ~m.coordinated)
    /\ pc' = "step"

Begin(m) ==
    /\ pc = "idle" /\ mode' = m
    /\ StartRun(m, 1, FALSE)
    /\ UNCHANGED <<ledger, misled, terminal, fellBack, runs, outside>>

\* What belongs to a turn goes with it.
TurnOver ==
    /\ pc' = "idle" /\ plan' = 1 /\ iter' = 0 /\ batch' = <<>> /\ at' = 1 /\ answers' = <<>>
    /\ visible' = {} /\ finalOnly' = FALSE /\ enough' = FALSE /\ recent' = <<>>
    /\ ledger' = EmptyLedger /\ closed' = FALSE /\ held' = FALSE /\ misled' = FALSE
    /\ terminal' = FALSE /\ fellBack' = FALSE /\ runs' = [t \in Docs |-> 0]
    /\ UNCHANGED <<mode, guard>>

\* The next round, unless the rounds are used up.
Step ==
    /\ pc = "step"
    /\ pc' = IF iter >= IterationLimit THEN "end" ELSE "model"
    /\ UNCHANGED <<inCalls, inRun, inTurn, outside>>

\* BeforeStep or AfterStep stops the loop.
StopsEarly ==
    /\ pc = "step" \/ (pc = "calls" /\ at > Len(batch))
    /\ pc' = "end"
    /\ UNCHANGED <<inCalls, inRun, inTurn, outside>>

\* The model asks for tools.  When it was to answer only, they are ignored.
ModelCalls(b) ==
    /\ pc = "model"
    /\ IF finalOnly THEN pc' = "end" /\ UNCHANGED inCalls
       ELSE /\ pc' = "calls" /\ batch' = b /\ at' = 1
            /\ answers' = [i \in DOMAIN b |-> 0]
    /\ UNCHANGED <<inRun, inTurn, outside>>

ModelAnswers ==
    /\ pc = "model" /\ pc' = "end"
    /\ UNCHANGED <<inCalls, inRun, inTurn, outside>>

\* ContentSafetyError or ContextLengthError, and a plan is left.
Retry ==
    /\ pc = "model" /\ plan < Plans
    /\ StartRun(mode, plan + 1, closed)
    /\ UNCHANGED <<mode, ledger, misled, terminal, fellBack, runs, outside>>

-----------------------------------------------------------------------------
(* The calls of a batch, one after the other.                              *)

Call == batch[at]
Asked(gates) == pc = "calls" /\ at <= Len(batch) /\ Gate(Call) \in gates

Answered == /\ answers' = [answers EXCEPT ![at] = @ + 1] /\ at' = at + 1
            /\ UNCHANGED <<pc, batch>>

CutOffTheRest ==
    /\ answers' = [i \in DOMAIN answers |-> answers[i] + IF i > at THEN 1 ELSE 0]
    /\ at' = Len(batch) + 1 /\ pc' = "end"
    /\ UNCHANGED batch

\* A repeated call: the rest of the batch is answered unrun, and the turn is summed up.
CutOff == /\ answers' = [i \in DOMAIN answers |-> answers[i] + IF i >= at THEN 1 ELSE 0]
          /\ at' = Len(batch) + 1 /\ pc' = "end"
          /\ UNCHANGED batch

Refuse ==
    /\ Asked({"disabled", "skip", "block"}) /\ Answered
    /\ UNCHANGED <<inRun, inTurn, outside>>

\* TurnCompletionController after a soft stop looks for the signal of a complete search.
SoftStop ==
    /\ Asked({"soft_stop"}) /\ Answered
    /\ ledger' = [ledger EXCEPT !.signal = @ \/ EvidenceComplete(Call)]
    /\ enough' = Sufficient(mode, ledger)
    /\ finalOnly' = (finalOnly \/ (~mode.localOk /\ Evidence /\ ledger'.signal))
    /\ misled' = (misled \/ (EvidenceComplete(Call) /\ ~held))
    /\ UNCHANGED <<plan, iter, visible, recent, held, mode, closed, terminal, fellBack, runs,
                   outside>>

\* The hooks see a call of a tool that is not offered; one before the guard may refuse it.
NotLoaded ==
    /\ Asked({"not_loaded"})
    /\ \/ guard' = Counted /\ IF Repeats THEN CutOff ELSE Answered
       \/ guard' = guard /\ Answered
    /\ UNCHANGED <<inRun, inTurn, lru>>

\* What the executor returns.  "refused": by a hook, or deferred or denied by a policy.
Outcomes(c) ==
    {"repeats", "refused", "failed"} \cup
    CASE c.tool = "search_docs" -> {"hits", "nothing", "off"}
      [] c.tool = "fetch_doc_chunk" -> {"chunk", "nothing", "off"}
      [] OTHER -> {"done"}

\* record_tool_result: whatever came of it, a call is in the ledger.
Recorded(c, o) ==
    [ledger EXCEPT !.retrievals = @ + IF c.tool = "search_docs" THEN 1 ELSE 0,
                   !.expands = @ + IF c.tool = "fetch_doc_chunk" THEN 1 ELSE 0,
                   !.seen = @ \cup {d \in {c} : d.tool \in Docs},
                   !.hit = @ \/ o = "hits",
                   !.chunk = @ \/ o = "chunk"]

\* refresh_task_execution_contract builds a new access plan: what the last one had
\* learned from results is not in it.
Refreshed == IF mode.coordinated THEN FALSE ELSE closed

\* compute_visible_names after a refresh and after a plan that has changed; then what a
\* search has found is added.
ShownAfter(c, o) ==
    LET changed == o = "off" /\ ~Refreshed
        base == IF mode.coordinated \/ changed
                THEN VisibleNames(mode, Refreshed \/ o = "off") ELSE visible
        matched == c.arg \ (AlwaysOn \cup visible \cup mode.disabled
                            \cup Blocked(mode, closed))
    IN  IF ~mode.search THEN visible
        ELSE IF c.tool = "tool_search" /\ o = "done" THEN base \cup matched ELSE base

Touch(l, t) ==
    IF t \in NonLru THEN l
    ELSE LET others == IF t \in ToSet(l) THEN RemoveAt(l, CHOOSE i \in DOMAIN l : l[i] = t)
                       ELSE l
             s == Append(others, t)
         IN  IF Len(s) > Capacity THEN Tail(s) ELSE s

RunTool(o) ==
    LET c == Call
        reached == o \notin {"repeats", "refused"}
        used == reached /\ o # "failed"
    IN
    /\ Asked({"run"}) /\ o \in Outcomes(c)
    /\ \/ guard' = Counted /\ (Repeats <=> o = "repeats")
       \/ guard' = guard /\ o = "refused"
    /\ IF o = "repeats" THEN CutOff ELSE Answered
    /\ recent' = IF used THEN Touch(recent, c.tool) ELSE recent
    /\ ledger' = IF mode.search THEN Recorded(c, o) ELSE ledger
    /\ visible' = ShownAfter(c, o)
    /\ closed' = (mode.search /\ (Refreshed \/ o = "off"))
    /\ enough' = (mode.search /\ Sufficient(mode, ledger'))
    /\ held' = (held \/ o \in {"hits", "chunk"})
    /\ LET stop == enough' /\ mode.docs # "none" /\ ~mode.localOk
       IN  /\ finalOnly' = (finalOnly \/ stop)
           /\ misled' = (misled \/ (stop /\ ~held'))
    /\ terminal' = (terminal \/ o = "off")
    /\ fellBack' = (fellBack \/ (terminal /\ reached /\ c.tool \in Local))
    /\ runs' = [t \in Docs |-> runs[t] + IF reached /\ t = c.tool THEN 1 ELSE 0]
    /\ UNCHANGED <<plan, iter, mode, lru>>

BatchDone ==
    /\ pc = "calls" /\ at > Len(batch)
    /\ pc' = "step" /\ iter' = iter + 1
    /\ UNCHANGED <<inCalls, plan, visible, finalOnly, enough, recent, held, inTurn, outside>>

\* A loop that was cut short is summed up by the model, and if that fails by a fixed text
\* (_summarize_incomplete_progress); either way the turn ends well.
\* The shortening of the session after a second plan is Consolidation's Trim.
EndTurn ==
    /\ pc = "end" /\ TurnOver
    /\ lru' = IF mode.search THEN recent ELSE lru

\* A timeout, an error, the last plan refused, or the user stops the turn.
Abort ==
    /\ pc # "idle" /\ TurnOver /\ lru' = lru

LoopInit ==
    /\ pc = "idle" /\ mode \in Modes /\ plan = 1 /\ iter = 0
    /\ batch = <<>> /\ at = 1 /\ answers = <<>> /\ visible = {}
    /\ finalOnly = FALSE /\ enough = FALSE /\ ledger = EmptyLedger /\ closed = FALSE
    /\ lru = <<>> /\ recent = <<>> /\ guard = EmptyGuard
    /\ held = FALSE /\ misled = FALSE /\ terminal = FALSE /\ fellBack = FALSE
    /\ runs = [t \in Docs |-> 0]

LoopNext ==
    \/ \E m \in Modes : Begin(m)
    \/ Step \/ StopsEarly \/ ModelAnswers \/ Retry \/ Refuse \/ SoftStop \/ NotLoaded
    \/ \E b \in Batches : ModelCalls(b)
    \/ \E o \in {"repeats", "refused", "failed", "hits", "nothing", "off", "chunk", "done"} :
           RunTool(o)
    \/ BatchDone \/ EndTurn \/ Abort

LoopSpec == LoopInit /\ [][LoopNext]_loopVars

-----------------------------------------------------------------------------

LoopTypeOK ==
    /\ pc \in {"idle", "step", "model", "calls", "end"}
    /\ mode \in Modes /\ plan \in 1..Plans
    /\ iter \in 0..IterationLimit
    /\ batch \in Batches \cup {<<>>} /\ at \in 1..(Len(batch) + 1)
    /\ answers \in [DOMAIN batch -> Nat]
    /\ visible \subseteq Tools /\ Len(lru) <= Capacity /\ Len(recent) <= Capacity

\* Every call of an answer has exactly one result in the conversation when the model or
\* the summary sees it next, whichever of the gates, or the guard's cut, dealt with it
\* (_assert_no_unresolved_tool_calls of tests/test_tool_loop_guard.py).
OneResultPerCall ==
    pc # "idle" =>
        \A i \in DOMAIN batch : answers[i] = IF pc = "calls" /\ i >= at THEN 0 ELSE 1

CallsAreAnswered == LoopTypeOK /\ OneResultPerCall

\* When a document tool has said that documents are off, no local tool stands in for it
\* in this turn, in a later plan neither; but the coordinator's refresh forgets it.
FallbackStaysClosed == fellBack => ~mode.search \/ mode.coordinated

\* The budget of a turn about documents counts what ran in all of its plans, and a
\* refresh of the context keeps it.
WithinBudget ==
    (mode.search /\ mode.docs # "none") =>
        runs["search_docs"] <= 1 /\ runs["fetch_doc_chunk"] <= ExpandBudget

\* Told that the evidence is there and to answer from it, the model has it before it, in
\* the first plan; in a later one it may not: the ledger outlives the conversation that a
\* retry has thrown away.
OnlyRetryMisleads == misled => plan > 1

ToolsStayWithinPolicy == FallbackStaysClosed /\ WithinBudget /\ OnlyRetryMisleads
=============================================================================
