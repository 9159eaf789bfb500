-------------------------------- MODULE SideEffect --------------------------------
(***************************************************************************)
(* Approved file changes: ToolApprovalStore keeps what the model asks for  *)
(* and what the user decides, ApprovedSideEffectStore what has become of   *)
(* an approved change, and ApprovedSideEffectRuntime prepares, applies and *)
(* rolls back.  The two stores are two databases, the file is a third      *)
(* place, and the waiting attempt of a task step a fourth: a command is a  *)
(* sequence of steps on them, none of which undoes an earlier one.         *)
(*                                                                         *)
(* A command runs without an await, so one process runs one command at a   *)
(* time; between two of its steps the process may die or a step may raise, *)
(* and other programs (an editor, a background shell) may edit the file.   *)
(*                                                                         *)
(* A file's contents are the set of the edits that are in it, {} when the  *)
(* file does not exist.  An approval stands for one binding (request,      *)
(* session, tool, scope, arguments); one whose payload was never stored    *)
(* behaves like one that is never run.                                     *)
(***************************************************************************)
EXTENDS Integers

CONSTANTS
    Approvals,      \* approval request ids
    Files,
    Target,         \* the file an approval changes
    EditTool,       \* approvals of edit_file; the others are of write_file
    ForStep,        \* approvals in the scope of a task step
    Procs,          \* processes that serve commands
    Others,         \* edits made by other programs
    Lifetime,       \* the time to live of a request
    MaxTime,        \* bound: the clock stops here
    MaxCrashes      \* bound: commands that die half way

ASSUME SideEffectAssumption ==
    /\ Target \in [Approvals -> Files]
    /\ EditTool \subseteq Approvals /\ ForStep \subseteq Approvals
    /\ Approvals \cap Others = {} /\ Procs \cap Others = {}
    /\ Lifetime \in Nat /\ MaxTime \in Nat /\ MaxCrashes \in Nat

VARIABLES
    now,
    approval,       \* tool_approval_requests.status
    expires,        \* ... .expires_at
    effect,         \* approved_side_effects: status and preview
    attempt,        \* the attempt that waits for the approval
    file,
    step,           \* what each process is doing
    crashes,
    writes,         \* history: how often an approval has changed its file
    replaced,       \* history: what the change of an approval replaced
    raced,          \* history: the file changed between the check and the write
    shown,          \* history: the preview the user has seen last
    unused          \* edits that other programs have not made yet

stores == <<approval, expires, effect, attempt>>
history == <<writes, replaced, raced, shown>>
vars == <<now, stores, file, step, crashes, history, unused>>

Contents == SUBSET (Approvals \cup Others)
Preview == [before : Contents, after : Contents]
NoPreview == [before |-> {}, after |-> {}]     \* preview_id = ''
Decided == {"denied", "expired", "execution_failed"}
ApprovalStatus == {"none", "pending", "approved", "consumed", "executed"} \cup Decided
EffectStatus == {"none", "payload_recorded", "preview_ready", "executed",
                 "execution_failed", "rolled_back", "rollback_failed"}
Idle == [at |-> "idle"]
Places == {"snapshot", "record", "load", "consume", "check", "write",
           "finalize", "mark", "complete", "restore", "restored"}
Busy == [at : Places, id : Approvals, run : BOOLEAN, ok : BOOLEAN, preview : Preview]
Step == {Idle} \cup Busy

\* The one type invariant: a preview is there as soon as its status says so.
SideEffectTypeOK ==
    /\ now \in 0..MaxTime /\ crashes \in 0..MaxCrashes
    /\ approval \in [Approvals -> ApprovalStatus]
    /\ expires \in [Approvals -> Nat]
    /\ effect \in [Approvals -> [status : EffectStatus, preview : Preview]]
    /\ attempt \in [Approvals -> {"none", "waiting", "succeeded", "cancelled"}]
    /\ file \in [Files -> Contents]
    /\ step \in [Procs -> Step]
    /\ writes \in [Approvals -> Nat]
    /\ replaced \in [Approvals -> Contents]
    /\ raced \in [Approvals -> BOOLEAN]
    /\ shown \in [Approvals -> Preview]
    /\ unused \subseteq Others
    /\ \A a \in Approvals : effect[a].status \in {"none", "payload_recorded"}
                                <=> effect[a].preview = NoPreview

-------------------------------------------------------------------------------
(* The approval store *)

Expired(a) == expires[a] <= now

\* create_or_get_pending_request of a tool call that was deferred; requests that
\* are past their time expire first.
Ask(a) ==
    /\ approval[a] = "none"
    /\ approval' = [b \in Approvals |-> IF b = a THEN "pending"
                        ELSE IF approval[b] = "pending" /\ Expired(b) THEN "expired"
                        ELSE approval[b]]
    /\ expires' = [expires EXCEPT ![a] = now + Lifetime]
    /\ attempt' = [attempt EXCEPT ![a] = IF a \in ForStep THEN "waiting" ELSE @]
    /\ UNCHANGED <<now, effect, file, step, crashes, history, unused>>

\* expire_pending_requests, which every listing calls.
ExpirePending ==
    /\ approval' = [a \in Approvals |-> IF approval[a] = "pending" /\ Expired(a)
                        THEN "expired" ELSE approval[a]]
    /\ UNCHANGED <<now, expires, effect, attempt, file, step, crashes, history, unused>>

\* approve_request and deny_request.
Decide(a, verdict) ==
    /\ approval[a] = "pending"
    /\ approval' = [approval EXCEPT ![a] = IF Expired(a) THEN "expired" ELSE verdict]
    /\ UNCHANGED <<now, expires, effect, attempt, file, step, crashes, history, unused>>

\* The user gives up the step that waits.
Abort(a) ==
    /\ attempt[a] = "waiting"
    /\ attempt' = [attempt EXCEPT ![a] = "cancelled"]
    /\ UNCHANGED <<now, approval, expires, effect, file, step, crashes, history, unused>>

-------------------------------------------------------------------------------
(* The steps of a command *)

Doing(p, place) == step[p].at = place
Goto(p, place) == step' = [step EXCEPT ![p].at = place]
Done(p) == step' = [step EXCEPT ![p] = Idle]
Begin(p, a, place, run, preview) ==
    /\ Doing(p, "idle")
    /\ step' = [step EXCEPT ![p] = [at |-> place, id |-> a, run |-> run, ok |-> FALSE,
                                    preview |-> preview]]

\* prepare, up to record_payload.
Prepare(p, a, run) ==
    /\ approval[a] = "approved"
    /\ Begin(p, a, "snapshot", run, NoPreview)
    /\ effect' = [effect EXCEPT ![a].status = IF @ = "none" THEN "payload_recorded" ELSE @]
    /\ UNCHANGED <<now, approval, expires, attempt, file, crashes, history, unused>>

\* prepare_file_change: edit_file needs the text it replaces.
Snapshot(p) ==
    LET a == step[p].id
        c == file[Target[a]]
    IN  /\ Doing(p, "snapshot")
        /\ a \in EditTool => c # {}
        /\ step' = [step EXCEPT ![p].at = "record", ![p].preview =
                       [before |-> c, after |-> IF a \in EditTool THEN c \cup {a} ELSE {a}]]
        /\ UNCHANGED <<now, stores, file, crashes, history, unused>>

PreviewFails(p) ==
    /\ Doing(p, "snapshot") /\ Done(p)
    /\ UNCHANGED <<now, stores, file, crashes, history, unused>>

\* record_preview; /prepare_tool answers with the diff, /run_approved_tool goes on.
RecordPreview(p) ==
    LET a == step[p].id
    IN  /\ Doing(p, "record")
        /\ effect' = [effect EXCEPT ![a] =
                        [status |-> "preview_ready", preview |-> step[p].preview]]
        /\ IF step[p].run THEN Goto(p, "load") /\ UNCHANGED shown
           ELSE Done(p) /\ shown' = [shown EXCEPT ![a] = step[p].preview]
        /\ UNCHANGED <<now, approval, expires, attempt, file, crashes, writes, replaced,
                       raced, unused>>

Load(p) ==
    /\ Doing(p, "load")
    /\ step' = [step EXCEPT ![p].at = "consume", ![p].preview = effect[step[p].id].preview]
    /\ UNCHANGED <<now, stores, file, crashes, history, unused>>

\* apply: what has no preview yet is prepared first.
Reuse(p, a) ==
    /\ effect[a].preview # NoPreview
    /\ Begin(p, a, "consume", TRUE, effect[a].preview)
    /\ UNCHANGED <<now, stores, file, crashes, history, unused>>

Run(p, a) ==
    \/ effect[a].preview = NoPreview /\ Prepare(p, a, TRUE)
    \/ Reuse(p, a)

\* Mutant: an approval that was approved once is good for ever.
ConsumeAgain(p) ==
    LET a == step[p].id
    IN  /\ Doing(p, "consume")
        /\ approval' = [approval EXCEPT ![a] = "consumed"]
        /\ Goto(p, "check")
        /\ UNCHANGED <<now, expires, effect, attempt, file, crashes, history, unused>>

\* consume_approved_request: an approval is good for one use, before it expires.
Consume(p) ==
    LET a == step[p].id
    IN  /\ Doing(p, "consume")
        /\ approval' = [approval EXCEPT ![a] =
                IF @ # "approved" THEN @ ELSE IF Expired(a) THEN "expired" ELSE "consumed"]
        /\ IF approval'[a] = "consumed" /\ approval[a] = "approved"
           THEN Goto(p, "check") ELSE Done(p)
        /\ UNCHANGED <<now, expires, effect, attempt, file, crashes, history, unused>>

\* Mutant: no comparison with the snapshot.
CheckNothing(p) ==
    /\ Doing(p, "check") /\ Goto(p, "write")
    /\ UNCHANGED <<now, stores, file, crashes, history, unused>>

\* apply_file_change: nothing may have changed since the preview.
Check(p) ==
    /\ Doing(p, "check")
    /\ Goto(p, IF file[Target[step[p].id]] = step[p].preview.before
               THEN "write" ELSE "finalize")
    /\ UNCHANGED <<now, stores, file, crashes, history, unused>>

\* The file system or an artifact lets the change down.
ApplyFails(p) ==
    /\ Doing(p, "check") \/ Doing(p, "write")
    /\ Goto(p, "finalize")
    /\ UNCHANGED <<now, stores, file, crashes, history, unused>>

\* The process p, or another program, changes the file f; whoever has checked it
\* and not written it yet is in a race.
Touch(f, contents, p) ==
    /\ file' = [file EXCEPT ![f] = contents]
    /\ raced' = [a \in Approvals |-> raced[a] \/ (Target[a] = f /\
                    \E q \in Procs \ {p} : Doing(q, "write") /\ step[q].id = a)]

Write(p) ==
    LET a == step[p].id
    IN  /\ Doing(p, "write")
        /\ Touch(Target[a], step[p].preview.after, p)
        /\ writes' = [writes EXCEPT ![a] = @ + 1]
        /\ replaced' = [replaced EXCEPT ![a] = file[Target[a]]]
        /\ step' = [step EXCEPT ![p].at = "finalize", ![p].ok = TRUE]
        /\ UNCHANGED <<now, stores, crashes, shown, unused>>

\* finalize_consumed_request.
Finalize(p) ==
    LET a == step[p].id
    IN  /\ Doing(p, "finalize")
        /\ approval' = [approval EXCEPT ![a] = IF @ # "consumed" THEN @
                            ELSE IF step[p].ok THEN "executed" ELSE "execution_failed"]
        /\ Goto(p, "mark")
        /\ UNCHANGED <<now, expires, effect, attempt, file, crashes, history, unused>>

\* Mutant: the step is completed whether the change was made or not.
MarkCompletes(p) ==
    LET a == step[p].id
    IN  /\ Doing(p, "mark")
        /\ effect' = [effect EXCEPT ![a].status =
                        IF step[p].ok THEN "executed" ELSE "execution_failed"]
        /\ IF a \in ForStep THEN Goto(p, "complete") ELSE Done(p)
        /\ UNCHANGED <<now, approval, expires, attempt, file, crashes, history, unused>>

\* mark_executed and mark_execution_failed overwrite whatever status there is.
Mark(p) ==
    LET a == step[p].id
    IN  /\ Doing(p, "mark")
        /\ effect' = [effect EXCEPT ![a].status =
                        IF step[p].ok THEN "executed" ELSE "execution_failed"]
        /\ IF step[p].ok /\ a \in ForStep THEN Goto(p, "complete") ELSE Done(p)
        /\ UNCHANGED <<now, approval, expires, attempt, file, crashes, history, unused>>

\* complete_authorized_file_side_effect: an error when the attempt waits no more.
Complete(p) ==
    LET a == step[p].id
    IN  /\ Doing(p, "complete")
        /\ attempt' = [attempt EXCEPT ![a] = IF @ = "waiting" THEN "succeeded" ELSE @]
        /\ Done(p)
        /\ UNCHANGED <<now, approval, expires, effect, file, crashes, history, unused>>

\* rollback.
Rollback(p, a) ==
    /\ effect[a].status = "executed"
    /\ Begin(p, a, "restore", FALSE, effect[a].preview)
    /\ UNCHANGED <<now, stores, file, crashes, history, unused>>

\* Mutant: a file that the change created is left behind.
RestoreKeepsCreated(p) ==
    LET f == Target[step[p].id]
        before == step[p].preview.before
    IN  /\ Doing(p, "restore")
        /\ Touch(f, IF before = {} THEN file[f] ELSE before, p)
        /\ Goto(p, "restored")
        /\ UNCHANGED <<now, stores, crashes, writes, replaced, shown, unused>>

\* rollback_file_change does not look at what it overwrites.
Restore(p) ==
    /\ Doing(p, "restore")
    /\ Touch(Target[step[p].id], step[p].preview.before, p)
    /\ Goto(p, "restored")
    /\ UNCHANGED <<now, stores, crashes, writes, replaced, shown, unused>>

MarkRolledBack(p) ==
    /\ \/ Doing(p, "restored") /\ effect' = [effect EXCEPT ![step[p].id].status = "rolled_back"]
       \/ Doing(p, "restore") /\ effect' = [effect EXCEPT ![step[p].id].status = "rollback_failed"]
    /\ Done(p)
    /\ UNCHANGED <<now, approval, expires, attempt, file, crashes, history, unused>>

-------------------------------------------------------------------------------
\* The process dies, or a database raises out of the command.
Crash(p) ==
    /\ ~Doing(p, "idle") /\ crashes < MaxCrashes
    /\ crashes' = crashes + 1
    /\ Done(p)
    /\ UNCHANGED <<now, stores, file, history, unused>>

\* Another program adds to the file, replaces it or deletes it.
Edit(o, f) ==
    /\ o \in unused /\ unused' = unused \ {o}
    /\ \E c \in {file[f] \cup {o}, {o}, {}} : Touch(f, c, o)
    /\ UNCHANGED <<now, stores, step, crashes, writes, replaced, shown>>

Clock ==
    /\ now < MaxTime /\ now' = now + 1
    /\ UNCHANGED <<stores, file, step, crashes, history, unused>>

Init ==
    /\ now = 0 /\ crashes = 0 /\ unused = Others
    /\ approval = [a \in Approvals |-> "none"]
    /\ expires = [a \in Approvals |-> 0]
    /\ effect = [a \in Approvals |-> [status |-> "none", preview |-> NoPreview]]
    /\ attempt = [a \in Approvals |-> "none"]
    /\ file \in [Files -> SUBSET Others]
    /\ step = [p \in Procs |-> Idle]
    /\ writes = [a \in Approvals |-> 0]
    /\ replaced = [a \in Approvals |-> {}]
    /\ raced = [a \in Approvals |-> FALSE]
    /\ shown = [a \in Approvals |-> NoPreview]

Command(p) ==
    \/ \E a \in Approvals : Prepare(p, a, FALSE) \/ Run(p, a) \/ Rollback(p, a)
    \/ Snapshot(p) \/ PreviewFails(p) \/ RecordPreview(p) \/ Load(p)
    \/ Consume(p) \/ Check(p) \/ ApplyFails(p) \/ Write(p)
    \/ Finalize(p) \/ Mark(p) \/ Complete(p)
    \/ Restore(p) \/ MarkRolledBack(p)
    \/ Crash(p)

Next ==
    \/ \E a \in Approvals : Ask(a) \/ Abort(a)
    \/ \E a \in Approvals, verdict \in {"approved", "denied"} : Decide(a, verdict)
    \/ ExpirePending
    \/ \E p \in Procs : Command(p)
    \/ \E o \in Others, f \in Files : Edit(o, f)
    \/ Clock

Spec == Init /\ [][Next]_vars
-------------------------------------------------------------------------------
(* Properties *)

\* The approval record tells what happened to the file: an approval changes it at
\* most once, "executed" means that it did, and it did not when the record says
\* denied, expired, failed or not used yet.  Between the two, "consumed", nobody
\* knows: that is what a crash leaves behind.
ApprovalIsTruthful ==
    \A a \in Approvals :
        /\ writes[a] <= 1
        /\ writes[a] = 1 => approval[a] \in {"consumed", "executed"}
        /\ approval[a] = "executed" => writes[a] = 1

\* A step that was completed through its approval has its change in the file's
\* history, and the approval says so too.
CompletedIsExecuted ==
    \A a \in Approvals : attempt[a] = "succeeded" =>
        writes[a] = 1 /\ approval[a] = "executed"

\* An apply is what its preview says: it does not overwrite an edit that was made after
\* the preview was taken, unless the edit falls between the comparison and the write,
\* and if the user was shown a diff, the one shown last is the one that is written; a
\* preview made again in the command that writes never replaces it
\* (agent/policies/approved_side_effect_runtime.py apply).
ApplyIsAsShown ==
    [][\A a \in Approvals : writes'[a] # writes[a] =>
          /\ file[Target[a]] = effect[a].preview.before \/ raced[a]
          /\ shown[a] \in {NoPreview, effect[a].preview}]_vars

\* A rollback puts back what the change replaced, the file's absence included,
\* however often the change was prepared and whatever crashed in between; and the
\* handle of an executed change stays until it is used.
RestoresExactly ==
    \A p \in Procs : Doing(p, "restore") /\ step'[p].at = "restored" =>
        file'[Target[step[p].id]] = replaced[step[p].id] \/ raced[step[p].id]

StaysUndoable ==
    \A a \in Approvals : effect[a].status = "executed" =>
        /\ effect'[a].preview = effect[a].preview
        /\ effect'[a].status \in {"executed", "rolled_back", "rollback_failed"}

ExecutedIsUndoable == [][RestoresExactly /\ StaysUndoable]_vars
===============================================================================
