----------------------------- MODULE ShellTasks -----------------------------
(***************************************************************************)
(* The shell tool's commands that outlive the call that started them       *)
(* (agent/tools/shell.py): a command asked for in the background, or one   *)
(* that was waited for and is promoted after fifteen seconds, is a task of *)
(* a registry of the process, with a pump that copies its output to a log, *)
(* a timer for its timeout, and a completion item on the bus when the pump *)
(* ends.  The agent can read a task, wait for it, and stop it; the outcome *)
(* must reach the user once: by such a read, or by the turn of the         *)
(* completion item (agent/looping/handlers.py).                            *)
(***************************************************************************)
EXTENDS Naturals, Sequences, SequencesExt

CONSTANTS
    Tasks,      \* commands
    Routed,     \* those started where a bus and a chat are known; a subagent's are not
    Timed,      \* those with a timeout
    MaxReads    \* calls of task_output

ShellAssumption == Routed \subseteq Tasks /\ Timed \subseteq Tasks /\ MaxReads \in Nat

VARIABLES
    task,       \* _BackgroundTask of each command, and what the system does with it
    registry,   \* _BG_REGISTRY
    consumed,   \* _CONSUMED_COMPLETIONS
    items,      \* completion items on the inbound queue
    waiting,    \* tasks an agent waits for in a blocking read
    told,       \* history: how often a completion turn has told the outcome
    known,      \* history: tasks whose end the agent has read or asked for
    reads       \* calls of task_output so far

shVars == <<task, registry, consumed, items, waiting, told, known, reads>>

\* late: the timeout has passed; hooked: the done callback is registered.
Unborn ==
    [call |-> "none", proc |-> "none", pump |-> "none", late |-> FALSE,
     armed |-> FALSE, hooked |-> FALSE, called |-> FALSE, evict |-> FALSE,
     sent |-> FALSE, reason |-> "natural"]

Started(call) ==
    [Unborn EXCEPT !.call = call, !.proc = "running", !.pump = "running"]

Ended(t)  == task[t].pump \in {"done", "cancelled"}
Gone(t)   == task[t].proc \in {"exited", "killed"}
Killed(p) == IF p = "running" THEN "killed" ELSE p
Over(t)   == t \in Timed /\ task[t].late

-----------------------------------------------------------------------------
(* Starting *)

StartInBackground(t) ==
    /\ task[t].call = "none"
    /\ task' = [task EXCEPT ![t] =
                  [Started("back") EXCEPT !.armed = (t \in Timed), !.hooked = TRUE]]
    /\ registry' = registry \union {t}
    /\ UNCHANGED <<consumed, items, waiting, told, known, reads>>

StartInForeground(t) ==
    /\ task[t].call = "none"
    /\ task' = [task EXCEPT ![t] = Started("fore")]
    /\ UNCHANGED <<registry, consumed, items, waiting, told, known, reads>>

\* The pump ended while the call waited: the call returns the output.
ReturnInForeground(t) ==
    /\ task[t].call = "fore" /\ Ended(t)
    /\ task' = [task EXCEPT ![t].call = "returned"]
    /\ UNCHANGED <<registry, consumed, items, waiting, told, known, reads>>

\* The timeout passed, or the turn was cancelled: the command is killed.
KillInForeground(t) ==
    /\ task[t].call = "fore"
    /\ task' = [task EXCEPT ![t].call = "returned", ![t].proc = Killed(@),
                            ![t].pump = IF @ = "done" THEN "done" ELSE "cancelled"]
    /\ UNCHANGED <<registry, consumed, items, waiting, told, known, reads>>

\* With the callback forgotten.
PromotedUnhooked(t) == [task[t] EXCEPT !.call = "back", !.armed = (t \in Timed)]

Promoted(t) ==
    [task[t] EXCEPT !.call = "back", !.hooked = TRUE, !.armed = (t \in Timed)]

\* Fifteen seconds passed; the pump may have ended in the same moment.
Promote(t) ==
    /\ task[t].call = "fore" /\ ~Over(t)
    /\ task' = [task EXCEPT ![t] = Promoted(t)]
    /\ registry' = registry \union {t}
    /\ UNCHANGED <<consumed, items, waiting, told, known, reads>>

-----------------------------------------------------------------------------
(* The command, its pump and the callback of the pump *)

Exit(t) ==
    /\ task[t].proc = "running"
    /\ task' = [task EXCEPT ![t].proc = "exited"]
    /\ UNCHANGED <<registry, consumed, items, waiting, told, known, reads>>

PumpEnds(t) ==
    /\ Gone(t) /\ task[t].pump = "running"
    /\ task' = [task EXCEPT ![t].pump = "done"]
    /\ UNCHANGED <<registry, consumed, items, waiting, told, known, reads>>

GetsLate(t) ==
    /\ t \in Timed /\ task[t].call \in {"fore", "back"} /\ ~task[t].late
    /\ task' = [task EXCEPT ![t].late = TRUE]
    /\ UNCHANGED <<registry, consumed, items, waiting, told, known, reads>>

\* With the flag of the task, which goes with its entry in the registry.
ConsumedWhileHeld(t) == t \in consumed /\ t \in registry

IsConsumed(t) == t \in consumed

Publishes(t) == ~IsConsumed(t) /\ ~task[t].sent /\ t \in Routed

\* _on_background_task_done: publish, and clear the entry five minutes later.
PumpCallback(t) ==
    /\ task[t].hooked /\ Ended(t) /\ ~task[t].called
    /\ task' = [task EXCEPT ![t].called = TRUE, ![t].evict = TRUE,
                            ![t].sent = @ \/ Publishes(t)]
    /\ items' = IF Publishes(t) THEN Append(items, t) ELSE items
    /\ UNCHANGED <<registry, consumed, waiting, told, known, reads>>

Evict(t) ==
    /\ task[t].evict
    /\ task' = [task EXCEPT ![t].evict = FALSE,
                            ![t].armed = IF t \in registry THEN FALSE ELSE @]
    /\ registry' = registry \ {t}
    /\ UNCHANGED <<consumed, items, waiting, told, known, reads>>

-----------------------------------------------------------------------------
(* Timeouts *)

\* _bg_kill: whoever waits for the pump is cancelled with it.
Drop(t, why) ==
    /\ task' = [task EXCEPT ![t].proc = Killed(@), ![t].armed = FALSE,
                            ![t].reason = why,
                            ![t].pump = IF @ = "running" THEN "cancelled" ELSE @]
    /\ registry' = registry \ {t}
    /\ consumed' = consumed \union {t}
    /\ waiting' = IF task[t].pump = "running" THEN waiting \ {t} ELSE waiting

\* _bg_timeout: with a chat to tell, the pump ends by itself and tells it.
TimesOut(t) ==
    IF t \in Routed
    THEN /\ task' = [task EXCEPT ![t].reason = "timeout", ![t].armed = FALSE,
                                 ![t].proc = Killed(@)]
         /\ UNCHANGED <<registry, consumed, waiting>>
    ELSE Drop(t, "timeout")

Timer(t) ==
    /\ task[t].armed /\ task[t].late
    /\ IF t \in registry THEN TimesOut(t)
       ELSE /\ task' = [task EXCEPT ![t].armed = FALSE]
            /\ UNCHANGED <<registry, consumed, waiting>>
    /\ UNCHANGED <<items, told, known, reads>>

-----------------------------------------------------------------------------
(* The agent's tools *)

\* The agent learns the end of a task; nobody will tell it again.
Finds(t) ==
    IF Ended(t)
    THEN consumed' = consumed \union {t} /\ known' = known \union {t}
    ELSE UNCHANGED <<consumed, known>>

\* task_output, without waiting or at its start.
Read(t, block) ==
    /\ t \in registry \cap Routed /\ reads < MaxReads /\ t \notin waiting
    /\ reads' = reads + 1
    /\ IF Over(t) THEN TimesOut(t) /\ UNCHANGED known
       ELSE IF block /\ ~Ended(t)
            THEN waiting' = waiting \union {t} /\ UNCHANGED <<task, registry, consumed, known>>
            ELSE Finds(t) /\ UNCHANGED <<task, registry, waiting>>
    /\ UNCHANGED <<items, told>>

\* The wait ends with the pump or after its own time.
ReadReturns(t) ==
    /\ t \in waiting
    /\ waiting' = waiting \ {t}
    /\ Finds(t)
    /\ UNCHANGED <<task, registry, items, told, reads>>

\* task_stop
StopTask(t) ==
    /\ t \in registry \cap Routed
    /\ Drop(t, "stopped")
    /\ known' = known \union {t}
    /\ UNCHANGED <<items, told, reads>>

\* process_shell_completion_event: nothing is said of what was already read.
CompletionTurn ==
    /\ items # <<>>
    /\ items' = Tail(items)
    /\ told' = IF IsConsumed(Head(items)) THEN told
               ELSE [told EXCEPT ![Head(items)] = @ + 1]
    /\ UNCHANGED <<task, registry, consumed, waiting, known, reads>>

-----------------------------------------------------------------------------
Init ==
    /\ task = [t \in Tasks |-> Unborn]
    /\ registry = {} /\ consumed = {} /\ items = <<>> /\ waiting = {}
    /\ told = [t \in Tasks |-> 0] /\ known = {} /\ reads = 0

\* What the event loop and the system do with a task by themselves.
Runs(t) == PumpEnds(t) \/ PumpCallback(t) \/ Timer(t) \/ ReadReturns(t)

Calls(t) ==
    \/ StartInBackground(t) \/ StartInForeground(t)
    \/ ReturnInForeground(t) \/ KillInForeground(t) \/ Promote(t)
    \/ (\E block \in BOOLEAN : Read(t, block)) \/ StopTask(t)

Next ==
    \/ CompletionTurn
    \/ \E t \in Tasks : Runs(t) \/ Calls(t) \/ Exit(t) \/ GetsLate(t) \/ Evict(t)

Spec == Init /\ [][Next]_shVars

-----------------------------------------------------------------------------
ShellTypeOK ==
    /\ task \in [Tasks -> [call : {"none", "fore", "returned", "back"},
                           proc : {"none", "running", "exited", "killed"},
                           pump : {"none", "running", "done", "cancelled"},
                           late : BOOLEAN, armed : BOOLEAN, hooked : BOOLEAN,
                           called : BOOLEAN, evict : BOOLEAN, sent : BOOLEAN,
                           reason : {"natural", "timeout", "stopped"}]]
    /\ registry \subseteq Tasks /\ consumed \subseteq Tasks
    /\ items \in Seq(Tasks) /\ waiting \subseteq Tasks
    /\ told \in [Tasks -> Nat] /\ known \subseteq Tasks /\ reads \in 0..MaxReads

\* The outcome of a command is told once: a completion turn speaks at most once
\* of a task, and never of one whose end the agent has read or that it stopped,
\* however long the item waits in the queue
\* (agent/tools/shell.py _mark_shell_completion_consumed, _publish_shell_completion).
ToldOnce ==
    [][ \A t \in Tasks : told'[t] # told[t] => told[t] = 0 /\ t \notin known ]_told

\* A command of a chat that was left to run is heard of in the end: once it is
\* over, a completion turn tells it, or the agent reads or has stopped it
\* (agent/tools/shell.py _on_background_task_done).
EndsAreTold ==
    \A t \in Routed :
        (task[t].call = "back" /\ Gone(t)) ~> (told[t] > 0 \/ t \in known)

\* A command that runs past its timeout is killed, promoted or not
\* (agent/tools/shell.py _arm_background_timeout).
TimeoutsKill ==
    \A t \in Timed : (task[t].call = "back" /\ task[t].late) ~> Gone(t)
=============================================================================
