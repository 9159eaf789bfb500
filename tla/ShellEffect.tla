------------------------------ MODULE ShellEffect ------------------------------
(***************************************************************************)
(* Approved shell commands (ApprovedShellSideEffectRuntime): an approval   *)
(* is prepared, which records the terms of the sandbox under a preview,    *)
(* and applied, which uses the approval up, runs the command in a          *)
(* container, keeps its output in the directory of the preview, records    *)
(* the result and then finalizes the approval.  The approvals, the records *)
(* and the files are three places, written one after the other.            *)
(*                                                                         *)
(* The workspace may be served by more than one process.  A request that   *)
(* is not approved yet is as good as absent: it starts as approved.        *)
(***************************************************************************)
EXTENDS Naturals, Sequences

CONSTANTS
    Commands,       \* approvals of shell calls
    Servers,        \* processes that serve /prepare_tool and /run_approved_tool
    MaxPreviews,    \* bound: previews ever prepared
    MaxDeaths       \* bound: processes that die in a command

ShellEffectAssumption == MaxPreviews \in Nat /\ MaxDeaths \in Nat

VARIABLES
    approved,   \* tool_approval_requests.status
    record,     \* approved_side_effects: status, preview_id and whose output it names
    prepared,   \* previews that have their directory
    serving,    \* what each process is doing
    deaths,
    launched,   \* history: the previews under which a command was run
    outcome     \* history: what became of the container

shellEffectVars == <<approved, record, prepared, serving, deaths, launched, outcome>>

Free == [at |-> "idle"]
At(p, place) == serving[p].at = place
Go(p, place) == serving' = [serving EXCEPT ![p].at = place]
Return(p) == serving' = [serving EXCEPT ![p] = Free]
Outcomes == {"succeeded", "failed"}

-------------------------------------------------------------------------------
(* prepare                                                                     *)

\* The payload and the resource policy allow it: otherwise nothing happens at all.
Prepare(p, a, run) ==
    /\ At(p, "idle") /\ approved[a] = "approved"
    /\ record' = [record EXCEPT ![a].status = IF @ = "none" THEN "payload_recorded" ELSE @]
    /\ serving' = [serving EXCEPT ![p] =
                     [at |-> "preview", id |-> a, run |-> run, preview |-> 0, result |-> "none"]]
    /\ UNCHANGED <<approved, prepared, deaths, launched, outcome>>

\* prepare_shell_sandbox_preview makes a directory of its own.
MakePreview(p) ==
    /\ At(p, "preview")
    /\ \E new \in 1..MaxPreviews :
       /\ new \notin prepared /\ 1..(new - 1) \subseteq prepared
       /\ prepared' = prepared \cup {new}
       /\ serving' = [serving EXCEPT ![p].at = "record", ![p].preview = new]
    /\ UNCHANGED <<approved, record, deaths, launched, outcome>>

\* record_shell_preview writes over whatever the record says by now.
RecordPreview(p) ==
    LET a == serving[p].id
    IN  /\ At(p, "record")
        /\ record' = [record EXCEPT ![a].status = "preview_ready", ![a].preview = serving[p].preview]
        /\ IF serving[p].run THEN Go(p, "load") ELSE Return(p)
        /\ UNCHANGED <<approved, prepared, deaths, launched, outcome>>

PrepareFails(p) ==
    /\ serving[p].at \in {"preview", "record"} /\ Return(p)
    /\ UNCHANGED <<approved, record, prepared, deaths, launched, outcome>>

-------------------------------------------------------------------------------
(* apply                                                                       *)

Reuse(p, a) ==
    /\ At(p, "idle") /\ record[a].preview # 0
    /\ serving' = [serving EXCEPT ![p] = [at |-> "resolve", id |-> a, run |-> TRUE,
                                          preview |-> record[a].preview, result |-> "none"]]
    /\ UNCHANGED <<approved, record, prepared, deaths, launched, outcome>>

Apply(p, a) ==
    \/ Reuse(p, a)
    \/ record[a].preview = 0 /\ Prepare(p, a, TRUE)

\* What was just recorded is read again.
Load(p) ==
    /\ At(p, "load")
    /\ serving' = [serving EXCEPT ![p].at = "resolve", ![p].preview = record[serving[p].id].preview]
    /\ UNCHANGED <<approved, record, prepared, deaths, launched, outcome>>

\* The approval must still stand.
Resolve(p) ==
    LET a == serving[p].id
    IN  /\ At(p, "resolve")
        /\ IF approved[a] = "approved" THEN Go(p, "consume") ELSE Return(p)
        /\ UNCHANGED <<approved, record, prepared, deaths, launched, outcome>>

\* Mutant: the check of _resolve_approved_payload is taken for enough.
ConsumeUnchecked(p) ==
    /\ At(p, "consume")
    /\ approved' = [approved EXCEPT ![serving[p].id] = "consumed"] /\ Go(p, "run")
    /\ UNCHANGED <<record, prepared, deaths, launched, outcome>>

\* consume_approved_request: for one use, or not at all when it has expired.
Consume(p) ==
    LET a == serving[p].id
    IN  /\ At(p, "consume")
        /\ IF approved[a] # "approved" THEN Return(p) /\ UNCHANGED approved
           ELSE \/ approved' = [approved EXCEPT ![a] = "consumed"] /\ Go(p, "run")
                \/ approved' = [approved EXCEPT ![a] = "expired"] /\ Return(p)
        /\ UNCHANGED <<record, prepared, deaths, launched, outcome>>

\* The container is started, or never comes to be: the runner turns every failure of
\* its own into a result.
Launch(p) ==
    LET a == serving[p].id
    IN  /\ At(p, "run")
        /\ \/ /\ launched' = [launched EXCEPT ![a] = Append(@, serving[p].preview)]
              /\ Go(p, "running")
           \/ /\ serving' = [serving EXCEPT ![p].at = "output", ![p].result = "failed"]
              /\ UNCHANGED launched
        /\ UNCHANGED <<approved, record, prepared, deaths, outcome>>

\* It ends, or is killed when its time is over.
ContainerEnds(p, result) ==
    /\ At(p, "running")
    /\ outcome' = [outcome EXCEPT ![serving[p].id] = result]
    /\ serving' = [serving EXCEPT ![p].at = "output", ![p].result = result]
    /\ UNCHANGED <<approved, record, prepared, deaths, launched>>

\* _write_output: the files of the preview must be new.  Without them the record still
\* gets the result, and the approval stays consumed.
KeepOutput(p, kept) ==
    /\ At(p, "output") /\ Go(p, IF kept THEN "mark" ELSE "outcome")
    /\ UNCHANGED <<approved, record, prepared, deaths, launched, outcome>>

StatusOf(result) == IF result = "succeeded" THEN "executed" ELSE "execution_failed"

\* mark_shell_executed; when it raises, the outcome alone is tried.
Mark(p) ==
    LET a == serving[p].id
    IN  /\ At(p, "mark")
        /\ \/ /\ record' = [record EXCEPT ![a].status = StatusOf(serving[p].result),
                                          ![a].output = serving[p].preview]
              /\ Go(p, "finalize")
           \/ Go(p, "outcome") /\ UNCHANGED record
        /\ UNCHANGED <<approved, prepared, deaths, launched, outcome>>

\* finalize_consumed_request, after which the command is over unless it raises.
Finalize(p) ==
    LET a == serving[p].id
    IN  /\ At(p, "finalize")
        /\ \/ /\ approved' = [approved EXCEPT ![a] =
                                IF @ = "consumed" THEN StatusOf(serving[p].result) ELSE @]
              /\ IF approved[a] = "consumed" THEN Return(p) ELSE Go(p, "outcome")
           \/ Go(p, "outcome") /\ UNCHANGED approved
        /\ UNCHANGED <<record, prepared, deaths, launched, outcome>>

\* mark_shell_execution_outcome, if it can be written.
MarkOutcome(p) ==
    /\ At(p, "outcome") /\ Return(p)
    /\ \/ record' = [record EXCEPT ![serving[p].id].status = StatusOf(serving[p].result)]
       \/ UNCHANGED record
    /\ UNCHANGED <<approved, prepared, deaths, launched, outcome>>

\* The process dies; a container that runs is left to itself.
Dies(p) ==
    /\ ~At(p, "idle") /\ deaths < MaxDeaths /\ deaths' = deaths + 1
    /\ Return(p)
    /\ UNCHANGED <<approved, record, prepared, launched, outcome>>

ShellEffectInit ==
    /\ approved = [a \in Commands |-> "approved"]
    /\ record = [a \in Commands |-> [status |-> "none", preview |-> 0, output |-> 0]]
    /\ prepared = {} /\ serving = [p \in Servers |-> Free] /\ deaths = 0
    /\ launched = [a \in Commands |-> <<>>] /\ outcome = [a \in Commands |-> "none"]

ShellEffectNext ==
    \E p \in Servers :
        \/ \E a \in Commands : Prepare(p, a, FALSE) \/ Apply(p, a)
        \/ MakePreview(p) \/ RecordPreview(p) \/ PrepareFails(p)
        \/ Load(p) \/ Resolve(p) \/ Consume(p) \/ Launch(p)
        \/ \E result \in Outcomes : ContainerEnds(p, result)
        \/ \E kept \in BOOLEAN : KeepOutput(p, kept)
        \/ Mark(p) \/ Finalize(p) \/ MarkOutcome(p) \/ Dies(p)

-------------------------------------------------------------------------------
ShellEffectTypeOK ==
    /\ approved \in [Commands -> {"approved", "expired", "consumed", "executed", "execution_failed"}]
    /\ record \in [Commands -> [status : {"none", "payload_recorded", "preview_ready",
                                          "executed", "execution_failed"},
                                preview : 0..MaxPreviews, output : 0..MaxPreviews]]
    /\ prepared \subseteq 1..MaxPreviews /\ deaths \in 0..MaxDeaths

\* A command runs once at most, with its approval used up, and no record says of it what
\* is not so: neither that it succeeded or failed when it did not, nor an output that is
\* of another run; whoever dies, and whichever of the writes fails.  Between the two,
\* "consumed", nobody knows.  An approval that says how it ended has its output kept, and
\* a record that goes on after that is of a preview made meanwhile
\* (approved_shell_side_effect_runtime.py apply).
ShellOutcomeIsTrue ==
    \A a \in Commands :
        /\ Len(launched[a]) <= 1
        /\ launched[a] # <<>> => approved[a] \notin {"approved", "expired"}
        /\ "executed" \in {approved[a], record[a].status} => outcome[a] = "succeeded"
        /\ "execution_failed" \in {approved[a], record[a].status} =>
              outcome[a] # "succeeded" /\ approved[a] \notin {"approved", "expired"}
        /\ record[a].output # 0 /\ launched[a] # <<>> => launched[a] = <<record[a].output>>
        /\ approved[a] \in {"executed", "execution_failed"} =>
              /\ record[a].output # 0
              /\ \/ record[a].status = approved[a]
                 \/ record[a].status = "preview_ready" /\ record[a].preview # record[a].output
=============================================================================
