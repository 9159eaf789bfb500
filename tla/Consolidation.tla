----------------------------- MODULE Consolidation -----------------------------
(***************************************************************************)
(* The conversation log of one session and the consolidation that follows  *)
(* it: session/manager.py and session/store.py keep the messages, in the   *)
(* database and in a cached Session; MarkdownMemoryMaintenance             *)
(* (core/memory/markdown.py) summarises a window of them with the model,   *)
(* appends the result to HISTORY.md and PENDING.md and moves the cursor    *)
(* last_consolidated past the window; plugins/plugin_undo deletes the last *)
(* turn and moves the cursor back.                                         *)
(*                                                                         *)
(* An action is a stretch of the event loop between two awaits: the store  *)
(* and the file operations are synchronous, the model and the subscribers  *)
(* of ConsolidationCommitted are awaited.  While they are, turns end,      *)
(* pushes arrive, the user undoes a turn, and the process may crash.       *)
(*                                                                         *)
(* A message is known by the sequence number in its id.  HISTORY.md is the *)
(* set of windows it has entries for (append_history_once skips a window   *)
(* it has an index row for); what the model finds in a window is left out. *)
(***************************************************************************)
EXTENDS Naturals, Sequences, FiniteSets, SequencesExt

CONSTANTS
    Keep,           \* keep_count: messages a plain consolidation leaves alone
    MinNew,         \* _consolidation_min_new_messages (the code: at least 5)
    MaxId,          \* bound: messages ever written
    MaxQueue,       \* bound: maintenance requests waiting
    MaxCrashes,     \* bound: crashes
    MaxManual       \* bound: consolidations asked for in the dashboard and turns that
                    \* shorten the log, together

ConsolidationAssumption ==
    /\ MinNew \in Nat \ {0}
    /\ Keep \in Nat /\ MaxId \in Nat /\ MaxQueue \in Nat /\ MaxCrashes \in Nat
    /\ MaxManual \in Nat

VARIABLES
    alive,          \* does the process run?
    rows,           \* the table messages, by seq
    savedCursor,    \* sessions.last_consolidated
    nextSeq,        \* sessions.next_seq
    msgs,           \* Session.messages of the cached session
    cursor,         \* Session.last_consolidated
    stream,         \* rows of a reply that is being streamed, not in the cache
    queue,          \* _maintenance_queues: requests of the session
    phase,          \* where the maintenance task and the dashboard's call are
    draft,          \* the window each of them has sent to the model
    holder,         \* owner of the session's maintenance lock
    history,        \* HISTORY.md: windows that have been written
    asked,          \* dashboard calls so far
    losses,         \* crashes so far
    ghosts,         \* history: rows of turns that never ended
    undone,         \* history: messages the user took back
    trims,          \* trims so far
    movedMidway,    \* history: an undo or a trim fell into an extraction
    misread,        \* history: a restart found another log than the cache had
    reopened        \* history: summarised messages the cursor was moved back over

vars == <<alive, rows, savedCursor, nextSeq, msgs, cursor, stream, queue, phase, draft,
          holder, history, asked, losses, ghosts, undone, trims, movedMidway,
          misread, reopened>>

log == <<rows, nextSeq, msgs, stream, ghosts, undone>>
notes == <<trims, movedMidway, misread>>

Callers == {"worker", "manual"}
NoDraft == [ids |-> {}, upTo |-> 0]
Ids(s) == {s[i].id : i \in DOMAIN s}
Summarised == UNION history
Busy(a) == phase[a] \in {"extracting", "emitting"}

\* The one type invariant: whoever extracts or emits holds the lock, nothing runs in
\* a dead process, and rows are numbered below next_seq in ascending order.
ConsolidationTypeOK ==
    /\ alive \in BOOLEAN /\ cursor \in 0..MaxId /\ savedCursor \in 0..MaxId
    /\ Ids(rows) \subseteq 0..(nextSeq - 1) /\ Ids(msgs) \subseteq Ids(rows)
    /\ \A i, j \in DOMAIN rows : i < j => rows[i].id < rows[j].id
    /\ stream \subseteq Ids(rows) /\ queue \in 0..MaxQueue
    /\ phase["worker"] \in {"none", "waiting", "extracting", "emitting", "ending"}
    /\ phase["manual"] \in {"none", "waiting", "extracting", "emitting", "saving"}
    /\ \A a \in Callers : Busy(a) <=> holder = {a}
    /\ history \subseteq SUBSET (0..(nextSeq - 1))
    /\ ~alive => \A a \in Callers : phase[a] = "none"
    /\ queue > 0 => phase["worker"] # "none"
-------------------------------------------------------------------------------
(* The log *)

Message(n, role) == [id |-> n, role |-> role]
Turn(n) == <<Message(n, "user"), Message(n + 1, "reply")>>

\* on_turn_committed: a request, and the task that serves it unless there is one.
Request ==
    /\ queue < MaxQueue
    /\ queue' = queue + 1
    /\ phase' = [phase EXCEPT !["worker"] = IF @ = "none" THEN "waiting" ELSE @]

\* Every write of messages writes the cursor of the cached session as well.
\* A turn whose reply was not streamed: both messages, then the request, unless the
\* turn says skip_post_memory.
EndTurn(requests) ==
    /\ alive /\ stream = {} /\ nextSeq + 2 <= MaxId
    /\ rows' = rows \o Turn(nextSeq) /\ msgs' = msgs \o Turn(nextSeq)
    /\ nextSeq' = nextSeq + 2
    /\ savedCursor' = cursor
    /\ IF requests THEN Request ELSE UNCHANGED <<queue, phase>>
    /\ UNCHANGED <<alive, cursor, stream, draft, holder, history, asked, losses,
                   ghosts, undone, notes, reopened>>

\* _sync_streaming_generation: the first delta writes both rows, past the cache.
StreamStart ==
    /\ alive /\ stream = {} /\ nextSeq + 2 <= MaxId
    /\ rows' = rows \o Turn(nextSeq)
    /\ stream' = {nextSeq, nextSeq + 1}
    /\ nextSeq' = nextSeq + 2
    /\ savedCursor' = cursor
    /\ UNCHANGED <<alive, msgs, cursor, queue, phase, draft, holder, history, asked,
                   losses, ghosts, undone, notes, reopened>>

\* The persist modules of after_reasoning: the cached messages take the ids of the
\* streamed rows, and come after whatever was pushed meanwhile.
StreamEnd ==
    /\ alive /\ stream # {}
    /\ msgs' = msgs \o Turn(CHOOSE n \in stream : n + 1 \in stream)
    /\ stream' = {}
    /\ savedCursor' = cursor
    /\ Request
    /\ UNCHANGED <<alive, rows, nextSeq, cursor, draft, holder, history, asked, losses,
                   ghosts, undone, notes, reopened>>

\* /stop or an error: the rows stay.
StreamStop ==
    /\ alive /\ stream # {}
    /\ stream' = {} /\ ghosts' = ghosts \cup stream
    /\ UNCHANGED <<alive, rows, savedCursor, nextSeq, msgs, cursor, queue, phase, draft,
                   holder, history, asked, losses, undone, notes, reopened>>

\* A proactive message, or the answer to a completed job, which has no user message.
Push ==
    /\ alive /\ nextSeq + 1 <= MaxId
    /\ rows' = Append(rows, Message(nextSeq, "push"))
    /\ msgs' = Append(msgs, Message(nextSeq, "push"))
    /\ nextSeq' = nextSeq + 1
    /\ savedCursor' = cursor
    /\ UNCHANGED <<alive, cursor, stream, queue, phase, draft, holder, history, asked,
                   losses, ghosts, undone, notes, reopened>>

\* _find_last_passive_turn: the last reply that follows a user message.
TurnEnds(s) == {i \in 2..Len(s) : s[i].role = "reply" /\ s[i - 1].role = "user"}

\* _compute_rollback_index and what follows: a turn in the consolidated prefix takes
\* the cursor back to itself, or to the first message its memories came from.
CursorAfterUndo(at, sources) ==
    LET first == {i \in DOMAIN msgs : msgs[i].id \in sources \/ i = at}
        back  == CHOOSE i \in first : \A j \in first : i <= j
    IN  IF at - 1 >= cursor THEN IF cursor < Len(msgs) - 2 THEN cursor ELSE Len(msgs) - 2
        ELSE back - 1

\* The messages but for the one with an id.
Without(s, n) ==
    IF n \in Ids(s) THEN RemoveAt(s, CHOOSE i \in DOMAIN s : s[i].id = n) ELSE s

Midway == \E a \in Callers : phase[a] = "extracting"

Beyond(s, c) == {s[i].id : i \in (c + 1)..Len(s)}

\* _undo_last_turn: the messages go from the cache by their place and from the database by
\* their ids.  sources: the memories the engine would retract were extracted
\* from these windows; it knows all of them or, when it is not there, none.
Undo(sources) ==
    LET at   == CHOOSE i \in TurnEnds(msgs) : \A j \in TurnEnds(msgs) : j <= i
        gone == {msgs[at - 1].id, msgs[at].id}
    IN  /\ alive /\ stream = {} /\ TurnEnds(msgs) # {}
        /\ sources \in {{}, UNION {w \in history : w \cap gone # {}}}
        /\ cursor' = CursorAfterUndo(at - 1, sources) /\ savedCursor' = cursor'
        /\ msgs' = SubSeq(msgs, 1, at - 2) \o SubSeq(msgs, at + 1, Len(msgs))
        /\ rows' = Without(Without(rows, msgs[at - 1].id), msgs[at].id)
        /\ undone' = undone \cup gone
        /\ movedMidway' = (movedMidway \/ Midway)
        /\ reopened' = reopened \cup (Beyond(msgs', cursor') \cap Summarised)
        /\ UNCHANGED <<alive, nextSeq, stream, queue, phase, draft, holder, history, asked,
                       losses, ghosts, trims, misread>>

\* run_turn: the model refused the prompt and took a shorter one.  The cached log is
\* cut to as many messages as that prompt had (all that is not summarised, about half
\* of it, or none) and the cursor starts again, in the database as well, where the
\* messages stay.
Trim(w) ==
    /\ alive /\ asked + trims < MaxManual
    /\ w = 0 \/ 2 * w + 1 >= Len(msgs) - cursor
    /\ msgs' = SubSeq(msgs, Len(msgs) - w + 1, Len(msgs))
    /\ cursor' = 0 /\ savedCursor' = 0
    /\ trims' = trims + 1
    /\ movedMidway' = (movedMidway \/ Midway)
    /\ reopened' = reopened \cup (Ids(msgs') \cap Summarised)
    /\ UNCHANGED <<alive, rows, nextSeq, stream, queue, phase, draft, holder, history,
                   asked, losses, ghosts, undone, misread>>
-------------------------------------------------------------------------------
(* Consolidation *)

UpTo(kind) == IF kind = "plain" THEN Len(msgs) - Keep ELSE Len(msgs)

\* _select_consolidation_window: is there one?
HasWindow(kind) ==
    \/ kind = "archive"
    \/ Len(msgs) > cursor /\ kind = "force"
    \/ Len(msgs) > cursor /\ Len(msgs) > Keep /\ UpTo("plain") >= cursor + MinNew

Window(kind) ==
    [ids  |-> {msgs[i].id : i \in (IF kind = "archive" THEN 1 ELSE cursor + 1)..UpTo(kind)},
     upTo |-> IF kind = "archive" THEN 0 ELSE UpTo(kind)]

Unlocked(a) == holder = {}

\* The loop of _run_maintenance_queue up to its next await: the first request that
\* finds a window starts an extraction, requests that find none are served at once.
Serve(p) ==
    IF queue > 0 /\ HasWindow("plain")
    THEN /\ queue' = queue - 1
         /\ phase' = [p EXCEPT !["worker"] = "extracting"]
         /\ draft' = [draft EXCEPT !["worker"] = Window("plain")]
         /\ holder' = {"worker"}
    ELSE /\ queue' = 0
         /\ phase' = [p EXCEPT !["worker"] = "ending"]
         /\ draft' = [draft EXCEPT !["worker"] = NoDraft]
         /\ holder' = {}

Leave(a, to) ==
    /\ phase' = [phase EXCEPT ![a] = to]
    /\ draft' = [draft EXCEPT ![a] = NoDraft]
    /\ holder' = holder \ {a}

WorkerRun ==
    /\ phase["worker"] = "waiting" /\ Unlocked("worker")
    /\ Serve(phase)
    /\ UNCHANGED <<alive, log, savedCursor, cursor, history, asked, losses, notes, reopened>>

\* Mutant: the done callback forgets requests that came while the task ended.
WorkerEndAlone ==
    /\ phase["worker"] = "ending"
    /\ phase' = [phase EXCEPT !["worker"] = "none"]
    /\ UNCHANGED <<alive, log, savedCursor, cursor, queue, draft, holder, history, asked,
                   losses, notes, reopened>>

\* _on_maintenance_done: the callback of the finished task.
WorkerEnd ==
    /\ phase["worker"] = "ending"
    /\ phase' = [phase EXCEPT !["worker"] = IF queue > 0 THEN "waiting" ELSE "none"]
    /\ UNCHANGED <<alive, log, savedCursor, cursor, queue, draft, holder, history, asked,
                   losses, notes, reopened>>

\* trigger_memory_consolidation, and consolidate when the lock is free.
ManualAsk ==
    /\ alive /\ phase["manual"] = "none" /\ asked + trims < MaxManual
    /\ asked' = asked + 1
    /\ phase' = [phase EXCEPT !["manual"] = "waiting"]
    /\ UNCHANGED <<alive, log, savedCursor, cursor, queue, draft, holder, history,
                   losses, notes, reopened>>

ManualRun(kind) ==
    /\ phase["manual"] = "waiting" /\ Unlocked("manual")
    /\ IF HasWindow(kind)
       THEN /\ phase' = [phase EXCEPT !["manual"] = "extracting"]
            /\ draft' = [draft EXCEPT !["manual"] = Window(kind)]
            /\ holder' = holder \cup {"manual"}
       ELSE Leave("manual", "none")
    /\ reopened' = IF kind = "archive" THEN reopened \cup (Ids(msgs) \cap Summarised)
                   ELSE reopened
    /\ UNCHANGED <<alive, log, savedCursor, cursor, queue, history, asked, losses, notes>>

\* The model fails or answers nothing usable: mode "skipped".
Skip(a) ==
    /\ phase[a] = "extracting"
    /\ IF a = "worker" THEN Serve(phase) ELSE Leave(a, "none") /\ UNCHANGED queue
    /\ UNCHANGED <<alive, log, savedCursor, cursor, history, asked, losses, notes, reopened>>

\* Mutant: the cursor moves to the end of the log, not of the window.
CursorOfAll(a) == IF draft[a].upTo = 0 THEN 0 ELSE Len(msgs)

CursorOf(a) == draft[a].upTo

\* _commit_markdown_draft up to the event.
Commit(a) ==
    /\ phase[a] = "extracting"
    /\ history' = history \cup {draft[a].ids}
    /\ cursor' = CursorOf(a)
    /\ phase' = [phase EXCEPT ![a] = "emitting"]
    /\ reopened' = IF draft[a].upTo = 0
                   THEN reopened \cup (Beyond(msgs, 0) \cap UNION history') ELSE reopened
    /\ UNCHANGED <<alive, log, savedCursor, queue, draft, holder, asked, losses, notes>>

\* The subscribers are done; the maintenance task saves before it goes on.
Emitted(a) ==
    /\ phase[a] = "emitting"
    /\ IF a = "worker" THEN Serve(phase) /\ savedCursor' = cursor
       ELSE Leave(a, "saving") /\ UNCHANGED <<queue, savedCursor>>
    /\ UNCHANGED <<alive, log, cursor, history, asked, losses, notes, reopened>>

\* A subscriber raises: the files are written and the cursor has moved in memory.
EmitFails(a) ==
    /\ phase[a] = "emitting"
    /\ Leave(a, IF a = "worker" THEN "ending" ELSE "none")
    /\ UNCHANGED <<alive, log, savedCursor, cursor, queue, history, asked, losses, notes,
                   reopened>>

ManualSave ==
    /\ phase["manual"] = "saving"
    /\ savedCursor' = cursor
    /\ phase' = [phase EXCEPT !["manual"] = "none"]
    /\ UNCHANGED <<alive, log, cursor, queue, draft, holder, history, asked, losses,
                   notes, reopened>>

\* wait_for gives up and cancels the call wherever it waits.
ManualTimeout ==
    /\ phase["manual"] \in {"waiting", "extracting", "emitting"}
    /\ Leave("manual", "none")
    /\ UNCHANGED <<alive, log, savedCursor, cursor, queue, history, asked, losses, notes,
                   reopened>>
-------------------------------------------------------------------------------
(* Crash and restart *)

\* The cache and the database hold the same of the turns that ended, in the same order:
\* the rows come in the order of their ids.
Settled(s) == {i \in DOMAIN s : s[i].id \notin ghosts \cup stream}

CacheIsRight ==
    /\ {msgs[i].id : i \in Settled(msgs)} = {rows[i].id : i \in Settled(rows)}
    /\ \A i, j \in Settled(msgs) : i < j => msgs[i].id < msgs[j].id

\* written: the files of a draft that the crash let through, without its cursor.
Crash(written) ==
    /\ alive /\ losses < MaxCrashes
    /\ written \subseteq {draft[a].ids : a \in {b \in Callers : phase[b] = "extracting"}}
    /\ alive' = FALSE /\ losses' = losses + 1
    /\ history' = history \cup written
    /\ msgs' = <<>> /\ cursor' = 0 /\ queue' = 0 /\ stream' = {}
    /\ ghosts' = ghosts \cup stream
    /\ phase' = [a \in Callers |-> "none"] /\ draft' = [a \in Callers |-> NoDraft]
    /\ holder' = {}
    /\ misread' = (misread \/ ~CacheIsRight)
    /\ UNCHANGED <<rows, savedCursor, nextSeq, asked, undone, trims, movedMidway, reopened>>

\* _load: the rows in order, and the cursor as it was last saved.
Restart ==
    /\ ~alive /\ alive' = TRUE
    /\ msgs' = rows /\ cursor' = savedCursor
    /\ reopened' = reopened \cup (Beyond(rows, savedCursor) \cap Summarised)
    /\ UNCHANGED <<rows, savedCursor, nextSeq, stream, queue, phase, draft, holder, history,
                   asked, losses, ghosts, undone, notes>>

Init ==
    /\ alive = TRUE /\ rows = <<>> /\ savedCursor = 0 /\ nextSeq = 0
    /\ msgs = <<>> /\ cursor = 0 /\ stream = {} /\ queue = 0
    /\ phase = [a \in Callers |-> "none"] /\ draft = [a \in Callers |-> NoDraft]
    /\ holder = {} /\ history = {} /\ asked = 0 /\ losses = 0 /\ ghosts = {}
    /\ undone = {} /\ trims = 0 /\ movedMidway = FALSE /\ misread = FALSE /\ reopened = {}

Finish(a) == Skip(a) \/ Commit(a) \/ Emitted(a) \/ EmitFails(a)

Next ==
    \/ \E requests \in BOOLEAN : EndTurn(requests)
    \/ StreamStart \/ StreamEnd \/ StreamStop \/ Push
    \/ \E sources \in SUBSET (0..(nextSeq - 1)) : Undo(sources)
    \/ \E w \in 0..Len(msgs) : Trim(w)
    \/ WorkerRun \/ WorkerEnd
    \/ ManualAsk \/ \E kind \in {"plain", "force", "archive"} : ManualRun(kind)
    \/ \E a \in Callers : Skip(a) \/ Commit(a) \/ Emitted(a) \/ EmitFails(a)
    \/ ManualSave \/ ManualTimeout
    \/ \E written \in SUBSET {draft[a].ids : a \in Callers} : Crash(written)
    \/ Restart

Spec == Init /\ [][Next]_vars

\* Tasks that can run do; the model, the subscribers and the dashboard's call come to
\* an end (all have timeouts).
Fairness ==
    /\ WF_vars(WorkerRun) /\ WF_vars(WorkerEnd) /\ WF_vars(Restart)
    /\ \A a \in Callers : WF_vars(Finish(a))

FairSpec == Spec /\ Fairness
-------------------------------------------------------------------------------
(* Properties *)

\* The cursor never passes a message that was not summarised: what lies below it will
\* never be looked at again.  (Not after an undo or a trim during an extraction, whose
\* window is then out of place, or a restart that finds another log than the cursor was
\* moved in: a streamed turn before a push, or what a trim had cut.)
NothingSkipped ==
    ~movedMidway /\ ~misread =>
        /\ cursor <= Len(msgs)
        /\ \A i \in 1..cursor : msgs[i].id \in Summarised \cup ghosts

\* No message is summarised twice, by the two callers, by requests that pile up or by a
\* cursor saved late, unless the cursor was moved back over it: by an undo, a trim, an
\* archive of the whole log, or by a crash before the cursor was saved.
SummarisedOnce ==
    ~movedMidway => \A v, w \in history : v # w => v \cap w \subseteq reopened

\* The same after every undo and every trim.
CursorStaysInPlace == ~misread => cursor <= Len(msgs)

\* Every maintenance request is served in the end: also one that arrives between the
\* end of a task and its callback.
RequestsServed == queue > 0 ~> queue = 0
===============================================================================
