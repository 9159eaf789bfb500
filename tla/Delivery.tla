------------------------------ MODULE Delivery ------------------------------
(***************************************************************************)
(* How what one chat says reaches the agent and how the answers reach the  *)
(* chat: the inbound queue, the loop that runs one turn at a time, the     *)
(* /stop that cancels it and keeps its work for the next message, the      *)
(* session's log, the outbox in SQLite, the outbound queue in memory and   *)
(* the task that calls the channel                                         *)
(* (agent/looping/core.py, agent/turns/outbound.py, bus/queue.py).         *)
(*                                                                         *)
(* An item of the inbound queue is a number.  The first MaxSays numbers    *)
(* are messages of the user, the others the ends of background work.  A    *)
(* turn has the number of its item.  What is shown or logged is the reply  *)
(* of a turn, a proactive message, the one error text of the pipeline, or  *)
(* the notice the dispatcher sends when the channel fails twice.           *)
(***************************************************************************)
EXTENDS Naturals, Sequences, FiniteSets, SequencesExt

CONSTANTS
    MaxSays,     \* messages of the user
    MaxDone,     \* completions of background work
    MaxPushes,   \* proactive messages
    Budgets      \* how often each of these and of /stop, an exception of the
                 \* channel and the death of the process may happen

Budgeted == {"says", "done", "pushes", "stops", "raises", "crashes"}

ASSUME DeliveryAssumption ==
    /\ {MaxSays, MaxDone, MaxPushes} \subseteq Nat
    /\ Budgets \subseteq [Budgeted -> Nat]
    /\ \A b \in Budgets :
          b["says"] <= MaxSays /\ b["done"] <= MaxDone /\ b["pushes"] <= MaxPushes

VARIABLES
    up,           \* the process is running
    inLoop,       \* build_core_runtime is called from a running event loop
    inbound,      \* MessageBus._inbound
    turn,         \* the task AgentLoop.run awaits
    active,       \* _active_turn_states: the messages whose text the turn holds
    interrupted,  \* _interrupt_states: the messages a later turn takes up
    log,          \* session.messages, with the messages each row answers
    outbox,       \* status of the outbox row of each row of the log
    bus,          \* MessageBus._outbound
    sending,      \* what dispatch_outbound is giving to the channel
    pushing,      \* proactive messages that are logged and not yet sent
    shown,        \* how often the chat has shown each text
    raised,       \* how often the channel has raised for each text
    lost,         \* history: texts that were queued in a process that died
    left          \* what is left of the budget

memory  == <<inbound, turn, active, interrupted, bus, sending, pushing>>
chat    == <<shown, raised, lost>>
storage == <<log, outbox>>
vars    == <<up, inLoop, memory, chat, storage, left>>

Says  == 1..MaxSays
Items == 1..(MaxSays + MaxDone)

Reply(n)  == <<"reply", n>>
Pushed(n) == <<"push", n>>
Error     == <<"error", 0>>
Notice    == <<"notice", 0>>
Texts     == {Reply(n) : n \in Items} \union {Pushed(n) : n \in 1..MaxPushes}
                \union {Error, Notice}

Idle    == [phase |-> "idle", item |-> 0, resumed |-> FALSE]
Nothing == [of |-> {}, some |-> FALSE]
Quiet   == [text |-> Notice, left |-> 0]

Running == up /\ turn.phase # "idle"
Spend(what) == left[what] > 0 /\ left' = [left EXCEPT ![what] = @ - 1]

-----------------------------------------------------------------------------
(* What comes in *)

Say ==
    /\ up
    /\ Spend("says")
    /\ inbound' = Append(inbound, MaxSays - left'["says"])
    /\ UNCHANGED <<up, inLoop, turn, active, interrupted, bus, sending, pushing,
                   chat, storage>>

BackgroundEnds ==
    /\ up
    /\ Spend("done")
    /\ inbound' = Append(inbound, MaxSays + MaxDone - left'["done"])
    /\ UNCHANGED <<up, inLoop, turn, active, interrupted, bus, sending, pushing,
                   chat, storage>>

\* The loop takes the next item and creates the task; _process has not begun.
Take ==
    /\ up /\ turn = Idle /\ inbound # <<>>
    /\ inbound' = Tail(inbound)
    /\ turn' = [phase |-> "created", item |-> Head(inbound), resumed |-> FALSE]
    /\ active' = {Head(inbound)} \cap Says
    /\ UNCHANGED <<up, inLoop, interrupted, bus, sending, pushing, chat, storage,
                   left>>

\* A message of the user takes up what was stopped, which stays there until the
\* turn has answered; _get_interrupt_state drops it when it is found more than
\* thirty minutes old.
Enter(old) ==
    /\ up /\ turn.phase = "created"
    /\ LET found == turn.item \in Says /\ interrupted.some
       IN  /\ old => found
           /\ interrupted' = IF old THEN Nothing ELSE interrupted
           /\ active' = IF found /\ ~old THEN active \union interrupted.of ELSE active
           /\ turn' = [turn EXCEPT !.phase = "reasoning", !.resumed = found /\ ~old]
    /\ UNCHANGED <<up, inLoop, inbound, bus, sending, pushing, chat, storage, left>>

-----------------------------------------------------------------------------
(* The turn *)

\* The end of the task as run() sees it.
TurnEnds == turn' = Idle /\ active' = {}

\* With the work left where it was.
Unconsumed == interrupted

\* _process returned: the work a turn took up is no longer waiting.
Consumed == IF turn.resumed THEN Nothing ELSE interrupted

\* AfterReasoning writes the message and its reply before anyone is told.
Persist ==
    /\ up /\ turn.phase = "reasoning"
    /\ log' = Append(log, [text |-> Reply(turn.item), of |-> active])
    /\ outbox' = Append(outbox, "none")
    /\ turn' = [turn EXCEPT !.phase = "persisted"]
    /\ UNCHANGED <<up, inLoop, inbound, active, interrupted, bus, sending, pushing,
                   chat, left>>

\* PersistentOutboundPort.dispatch writes the text again unless it is the last
\* row, and the outbox row is the one of the last row.
LoggedFor(text) ==
    IF log # <<>> /\ Last(log).text = text THEN log
    ELSE Append(log, [text |-> text, of |-> {}])

\* enqueue_outbox: a row that exists keeps its status.
Enqueued(rows) ==
    LET at == Len(rows)
    IN  IF at > Len(outbox) THEN Append(outbox, "pending")
        ELSE [outbox EXCEPT ![at] = IF @ = "none" THEN "pending" ELSE @]

\* With the mark forgotten.
MarkedNot(rows) == Enqueued(rows)

Marked(rows) == [Enqueued(rows) EXCEPT ![Len(rows)] = "sent"]

\* Nothing suspends between the write, the queue and the mark.
Dispatch(text) ==
    /\ log' = LoggedFor(text)
    /\ outbox' = Marked(log')
    /\ bus' = Append(bus, text)

Answer ==
    /\ up /\ turn.phase = "persisted"
    /\ Dispatch(Reply(turn.item))
    /\ interrupted' = Consumed
    /\ TurnEnds
    /\ UNCHANGED <<up, inLoop, inbound, sending, pushing, chat, left>>

\* A phase before the reply aborts or raises: the pipeline answers with a text
\* of its own and returns, so that the turn counts as done.
Apologise ==
    /\ up /\ turn.phase = "reasoning" /\ turn.item \in Says
    /\ Dispatch(Error)
    /\ interrupted' = Consumed
    /\ TurnEnds
    /\ UNCHANGED <<up, inLoop, inbound, sending, pushing, chat, left>>

\* A phase after it raises: the loop tells the user on the bus alone.
Fail ==
    /\ up /\ turn.phase \in {"reasoning", "persisted"}
    /\ bus' = Append(bus, Error)
    /\ TurnEnds
    /\ UNCHANGED <<up, inLoop, inbound, interrupted, sending, pushing, chat,
                   storage, left>>

\* The end of a command the agent has already read needs no turn.
AlreadyTold ==
    /\ up /\ turn.phase = "reasoning" /\ turn.item \notin Says
    /\ TurnEnds
    /\ UNCHANGED <<up, inLoop, inbound, interrupted, bus, sending, pushing, chat,
                   storage, left>>

\* request_interrupt: what the turn holds replaces what was waiting.
Stop ==
    /\ Running
    /\ Spend("stops")
    /\ interrupted' = [of |-> active, some |-> TRUE]
    /\ TurnEnds
    /\ UNCHANGED <<up, inLoop, inbound, bus, sending, pushing, chat, storage>>

-----------------------------------------------------------------------------
(* Proactive messages: logged first, then given to the channel directly *)

Push ==
    /\ up
    /\ Spend("pushes")
    /\ LET text == Pushed(MaxPushes - left'["pushes"])
       IN  /\ log' = Append(log, [text |-> text, of |-> {}])
           /\ outbox' = Append(outbox, "none")
           /\ pushing' = pushing \union {text}
    /\ UNCHANGED <<up, inLoop, inbound, turn, active, interrupted, bus, sending, chat>>

PushEnds(text, ok) ==
    /\ up /\ text \in pushing
    /\ pushing' = pushing \ {text}
    /\ shown' = IF ok THEN [shown EXCEPT ![text] = @ + 1] ELSE shown
    /\ UNCHANGED <<up, inLoop, inbound, turn, active, interrupted, bus, sending,
                   raised, lost, storage, left>>

-----------------------------------------------------------------------------
(* MessageBus.dispatch_outbound *)

SendNext ==
    /\ up /\ sending = Quiet /\ bus # <<>>
    /\ bus' = Tail(bus)
    /\ sending' = [text |-> Head(bus), left |-> 2]
    /\ UNCHANGED <<up, inLoop, inbound, turn, active, interrupted, pushing, chat,
                   storage, left>>

Sent ==
    /\ up /\ sending # Quiet
    /\ shown' = [shown EXCEPT ![sending.text] = @ + 1]
    /\ sending' = Quiet
    /\ UNCHANGED <<up, inLoop, inbound, turn, active, interrupted, bus, pushing,
                   raised, lost, storage, left>>

\* Without the second try.
AfterRaiseOnce ==
    IF sending.text = Notice THEN Quiet ELSE [text |-> Notice, left |-> 1]

\* What follows an exception: a second try after two seconds, then the notice.
AfterRaise ==
    CASE sending.left = 2 -> [sending EXCEPT !.left = 1]
      [] sending.left = 1 /\ sending.text # Notice -> [text |-> Notice, left |-> 1]
      [] OTHER -> Quiet

\* The channel may have shown the text before it raised.
Raises(seen) ==
    /\ up /\ sending # Quiet
    /\ Spend("raises")
    /\ raised' = [raised EXCEPT ![sending.text] = @ + 1]
    /\ shown' = IF seen THEN [shown EXCEPT ![sending.text] = @ + 1] ELSE shown
    /\ sending' = AfterRaise
    /\ UNCHANGED <<up, inLoop, inbound, turn, active, interrupted, bus, pushing,
                   lost, storage>>

-----------------------------------------------------------------------------
(* Death and start *)

Die ==
    /\ up /\ up' = FALSE
    /\ Spend("crashes")
    /\ inbound' = <<>> /\ bus' = <<>> /\ pushing' = {}
    /\ TurnEnds
    /\ interrupted' = Nothing
    /\ sending' = Quiet
    /\ lost' = lost \union (ToSet(bus) \union {sending.text})
    /\ UNCHANGED <<inLoop, shown, raised>>

Crash == Die /\ UNCHANGED storage

\* Inside dispatch: the row is written, or it is written and enqueued.
CrashInDispatch(enqueued) ==
    /\ turn.phase = "persisted" \/ (turn.phase = "reasoning" /\ turn.item \in Says)
    /\ Die
    /\ log' = LoggedFor(IF turn.phase = "persisted" THEN Reply(turn.item) ELSE Error)
    /\ outbox' = IF enqueued THEN Enqueued(log')
                 ELSE IF Len(log') > Len(outbox) THEN Append(outbox, "none") ELSE outbox

Pending(i) == outbox[i] = "pending"

\* list_pending_outbox: the rows in the order of the log.
Ascending(rows) == \A i, j \in DOMAIN rows : i < j => rows[i] < rows[j]
FlushOrders ==
    LET found == {i \in DOMAIN outbox : Pending(i)}
    IN  {rows \in [1..Cardinality(found) -> found] : Ascending(rows)}

\* build_core_runtime: asyncio.run refuses a running loop and the exception is
\* logged, so the rows are flushed only where no loop is running yet.
Start ==
    /\ ~up /\ up' = TRUE
    /\ \E rows \in IF inLoop THEN {<<>>} ELSE FlushOrders :
           /\ outbox' = [i \in DOMAIN outbox |->
                           IF i \in ToSet(rows) THEN "sent" ELSE outbox[i]]
           /\ bus' = [k \in DOMAIN rows |-> log[rows[k]].text]
    /\ UNCHANGED <<inLoop, inbound, turn, active, interrupted, sending, pushing,
                   chat, log, left>>

\* Death in the flush: the row that was claimed stays "sending".
CrashInFlush(i) ==
    /\ ~up /\ ~inLoop /\ Pending(i)
    /\ Spend("crashes")
    /\ outbox' = [j \in DOMAIN outbox |->
                    IF j = i THEN "sending"
                    ELSE IF j < i /\ Pending(j) THEN "sent" ELSE outbox[j]]
    /\ UNCHANGED <<up, inLoop, memory, chat, log>>

-----------------------------------------------------------------------------
Init ==
    /\ up = TRUE /\ inLoop \in BOOLEAN
    /\ inbound = <<>> /\ turn = Idle /\ active = {} /\ interrupted = Nothing
    /\ log = <<>> /\ outbox = <<>>
    /\ bus = <<>> /\ sending = Quiet /\ pushing = {}
    /\ shown = [t \in Texts |-> 0] /\ raised = [t \in Texts |-> 0]
    /\ lost = {}
    /\ left \in Budgets

TurnStep == Take \/ (\E old \in BOOLEAN : Enter(old)) \/ Persist \/ Answer \/ Apologise \/ Fail \/ AlreadyTold

SendStep == SendNext \/ Sent \/ (\E seen \in BOOLEAN : Raises(seen))

Next ==
    \/ Say \/ BackgroundEnds \/ Stop
    \/ TurnStep
    \/ Push \/ (\E t \in pushing, ok \in BOOLEAN : PushEnds(t, ok))
    \/ SendStep
    \/ Crash \/ (\E e \in BOOLEAN : CrashInDispatch(e))
    \/ Start \/ (\E i \in DOMAIN outbox : CrashInFlush(i))

Spec == Init /\ [][Next]_vars

\* The loop and the dispatcher are tasks of one event loop that never blocks
\* for ever, and whoever runs the service starts it again.
FairSpec == Spec /\ WF_vars(TurnStep) /\ WF_vars(SendStep) /\ WF_vars(Start)

-----------------------------------------------------------------------------
DeliveryTypeOK ==
    /\ up \in BOOLEAN /\ inLoop \in BOOLEAN
    /\ inbound \in Seq(Items)
    /\ turn \in [phase : {"idle", "created", "reasoning", "persisted"},
                 item : Items \union {0}, resumed : BOOLEAN]
    /\ active \subseteq Says
    /\ interrupted \in [of : SUBSET Says, some : BOOLEAN]
    /\ log \in Seq([text : Texts, of : SUBSET Says])
    /\ outbox \in Seq({"none", "pending", "sending", "sent"})
    /\ Len(outbox) = Len(log)
    /\ bus \in Seq(Texts)
    /\ sending \in [text : Texts, left : 0..2]
    /\ pushing \subseteq Texts
    /\ shown \in [Texts -> Nat] /\ raised \in [Texts -> Nat]
    /\ lost \subseteq Texts
    /\ left \in [Budgeted -> Nat]

\* A reply or a proactive message is shown to the user at most once more than
\* the channel has raised for it: neither a crash between the queue and the
\* mark, nor the flush of a later start, nor the dispatcher shows it again
\* (agent/turns/outbound.py dispatch, flush_pending).
ShownOnce ==
    \A t \in Texts \ {Error, Notice} : shown[t] <= 1 + raised[t]

\* A reply that the log holds twice has a message of another origin between:
\* the port writes a reply again only when it is no longer the last row, which
\* takes a proactive message between the end of the turn and its dispatch
\* (agent/turns/outbound.py:45).
LoggedTwiceOnlyAcross ==
    \A i, j \in DOMAIN log :
        (i < j /\ log[i].text = log[j].text /\ log[i].text # Error)
            => \E k \in i..j : log[k].text # log[i].text

\* A message of the user is answered by one turn only: if the log holds the
\* replies of two turns to it, the first of the two was never handed to the
\* outbox, because the turn was stopped, failed or died after it wrote its
\* reply (agent/looping/core.py _resume_interrupted_message, _process).
AnsweredOnce ==
    \A i, j \in DOMAIN log :
        (i < j /\ log[i].of \cap log[j].of # {} /\ log[i].text # log[j].text)
            => \A k \in DOMAIN log : log[k].text = log[i].text => outbox[k] = "none"

\* Every text that is handed to the outbound queue is shown, unless the channel
\* raised for it twice or the process died: the dispatcher tries again
\* (bus/queue.py dispatch_outbound).
Settled ==
    \A i \in DOMAIN outbox :
        LET t == log[i].text
        IN  outbox[i] = "sent" => shown[t] > 0 \/ raised[t] >= 2 \/ t \in lost

RepliesArrive == ~Settled ~> Settled

\* A reply that was still pending when the process died is handed on by a later
\* start, where the runtime is built outside an event loop
\* (agent/turns/outbound.py flush_pending).
SomePending == \E i \in DOMAIN outbox : Pending(i)

PendingIsFlushed == (~inLoop /\ SomePending) ~> ~SomePending

\* The same, wherever the runtime is built.
PendingIsRecovered == SomePending ~> ~SomePending

\* The two halves of "once": what the chat sees and what the log says.
ReachesOnce == DeliveryTypeOK /\ ShownOnce /\ LoggedTwiceOnlyAcross

\* Everything that is owed to the chat gets there in the end, at once or after a start.
EverythingArrives == RepliesArrive /\ PendingIsFlushed
=============================================================================
