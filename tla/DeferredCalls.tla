----------------------------- MODULE DeferredCalls -----------------------------
(***************************************************************************)
(* Calls of tools that need the user's consent.  ToolExecutor               *)
(* (agent/tool_hooks/executor.py) defers such a call: it files a request    *)
(* and keeps the arguments in a vault.  The reply of the turn names one     *)
(* request as the current one; the user answers 1 (approve and run), 2      *)
(* (deny) or 3 (list), or names a request in a command                      *)
(* (plugins/status_commands/plugin.py).  An approval is used up before the  *)
(* tool runs, and its outcome is recorded afterwards.                       *)
(*                                                                         *)
(* One session.  A process runs one turn or command of it at a time; two    *)
(* processes may serve it while one replaces the other.  A turn or command  *)
(* waits for the model and for tools: there it can be stopped (/stop), die  *)
(* with its process, or find another process's decision.  A call stands for *)
(* its binding (call id, tool, arguments); the files and shell commands     *)
(* among them are run by SideEffect's and ShellEffect's runtimes.           *)
(***************************************************************************)
EXTENDS Naturals, Sequences, SequencesExt

CONSTANTS
    Calls,      \* calls of the model that the policy defers
    Runnable,   \* those of plain tools of risk "write", which the executor runs itself
    Servers,    \* processes that serve the session
    MaxBreaks   \* bound: turns and commands that do not end by themselves

DeferredCallsAssumption == Runnable \subseteq Calls /\ MaxBreaks \in Nat

VARIABLES
    filed,      \* the requests by created_at, a sequence
    status,     \* their status in the approval store
    late,       \* requests past their expires_at
    vault,      \* calls whose arguments are kept
    doing,      \* what each process is doing
    reminder,   \* metadata of each process's session: the request last named with a reply,
                \* and whether as a reminder
    named,      \* history: the request last named to the user as the current one
    runs,       \* history: how often the tool was invoked
    ended,      \* history: how the invocation ended
    misled,     \* history: requests a number decided though another was named
    breaks

store == <<filed, status, late, vault>>
callVars == <<store, doing, reminder, named, runs, ended, misled, breaks>>

None == "-"
Statuses == {"none", "pending", "approved", "denied", "expired", "consumed",
             "executed", "execution_failed"}
Idle == [at |-> "idle"]
Turn == [at : {"turn"}, asked : SUBSET Calls]
Command == [at : {"run", "invoke", "wait"}, call : Calls, progress : BOOLEAN]

DeferredCallsTypeOK ==
    /\ filed \in Seq(Calls) /\ IsInjective(filed)
    /\ status \in [Calls -> Statuses]
    /\ \A c \in Calls : status[c] = "none" <=> c \notin ToSet(filed)
    /\ late \subseteq ToSet(filed) /\ vault \subseteq ToSet(filed)
    /\ doing \in [Servers -> {Idle} \cup Turn \cup Command]
    /\ reminder \in [Servers -> [of : Calls \cup {None}, again : BOOLEAN]]
    /\ named \in Calls \cup {None}
    /\ ended \in [Calls -> {None, "returned", "raised"}]
    /\ breaks \in 0..MaxBreaks

DeferredCallsInit ==
    /\ filed = <<>> /\ late = {} /\ vault = {}
    /\ status = [c \in Calls |-> "none"]
    /\ doing = [s \in Servers |-> Idle]
    /\ reminder = [s \in Servers |-> [of |-> None, again |-> FALSE]] /\ named = None
    /\ runs = [c \in Calls |-> 0] /\ ended = [c \in Calls |-> None]
    /\ misled = {} /\ breaks = 0

-------------------------------------------------------------------------------
(* The approval store *)

\* expire_pending_requests, which every listing and decision calls first.
Current == [c \in Calls |-> IF status[c] = "pending" /\ c \in late THEN "expired"
                            ELSE status[c]]

\* list_pending_requests: the open ones, which are ordered by the time they were filed.
Pending == {c \in Calls : Current[c] = "pending"}
FiledBefore(c, d) == \E m, n \in DOMAIN filed : m < n /\ filed[m] = c /\ filed[n] = d

\* _current_pending_request: the oldest.
Chosen(open) == {c \in open : \A d \in open : ~FiledBefore(d, c)}
Newest(open) == {c \in open : \A d \in open : ~FiledBefore(c, d)}

\* The request that is shown as the current one.
NameFirst(open) == named' \in IF open = {} THEN {named} ELSE Chosen(open)

\* The time to live of a request is over.
Lapses(c) ==
    /\ status[c] \in {"pending", "approved"} /\ c \notin late
    /\ late' = late \cup {c}
    /\ UNCHANGED <<filed, status, vault, doing, reminder, named, runs, ended, misled, breaks>>

-------------------------------------------------------------------------------
(* A turn *)

StartTurn(s) ==
    /\ doing[s] = Idle
    /\ doing' = [doing EXCEPT ![s] = [at |-> "turn", asked |-> {}]]
    /\ UNCHANGED <<store, reminder, named, runs, ended, misled, breaks>>

\* The policy defers a call: record_defer_request files it, and
\* record_deferred_tool_payload keeps the arguments, or raises, which ends the turn.
Defer(s, c, kept) ==
    /\ doing[s].at = "turn" /\ status[c] = "none"
    /\ filed' = Append(filed, c)
    /\ status' = [Current EXCEPT ![c] = "pending"]
    /\ IF kept
       THEN /\ vault' = vault \cup {c}
            /\ doing' = [doing EXCEPT ![s].asked = @ \cup {c}]
            /\ UNCHANGED breaks
       ELSE /\ breaks < MaxBreaks /\ breaks' = breaks + 1
            /\ doing' = [doing EXCEPT ![s] = Idle]
            /\ UNCHANGED vault
    /\ UNCHANGED <<late, reminder, named, runs, ended, misled>>

\* The reply: a request of this turn that has become the current one is named in full;
\* an older one is brought up once.
EndTurn(s) ==
    /\ doing[s].at = "turn"
    /\ doing' = [doing EXCEPT ![s] = Idle]
    /\ status' = Current
    /\ \/ /\ Pending = {}
          /\ reminder' = [reminder EXCEPT ![s] = [of |-> None, again |-> FALSE]]
          /\ UNCHANGED named
       \/ \E c \in Chosen(Pending) :
            LET again == c \notin doing[s].asked IN
            IF again /\ reminder[s] = [of |-> c, again |-> TRUE]
            THEN UNCHANGED <<reminder, named>>
            ELSE /\ reminder' = [reminder EXCEPT ![s] = [of |-> c, again |-> again]]
                 /\ named' = c
    /\ UNCHANGED <<filed, late, vault, runs, ended, misled, breaks>>

-------------------------------------------------------------------------------
(* Commands *)

\* /approvals, and the answer 3.
ListAll(s) ==
    /\ doing[s] = Idle
    /\ status' = Current /\ NameFirst(Pending)
    /\ UNCHANGED <<filed, late, vault, doing, reminder, runs, ended, misled, breaks>>

\* _approve_or_reject with an id: /approve_tool and /deny_tool.
Decide(s, c, verdict) ==
    /\ doing[s] = Idle /\ Current[c] = "pending"
    /\ status' = [Current EXCEPT ![c] = verdict]
    /\ UNCHANGED <<filed, late, vault, doing, reminder, named, runs, ended, misled, breaks>>

\* _approve_last_unsupported_reason: the executor cannot run it.
Unsupported(c) == c \notin Runnable \/ c \notin vault

\* A number decides the current request.
Answered(c) ==
    misled' = misled \cup {d \in {c} : named # None /\ named # d /\ Current[named] = "pending"}

\* The answer 1 approves the current request; the executor runs it at once if it can.
AnswerYes(s) ==
    /\ doing[s] = Idle
    /\ \E c \in Chosen(Pending) :
       /\ status' = [Current EXCEPT ![c] = "approved"]
       /\ Answered(c)
       /\ IF Unsupported(c)
          THEN UNCHANGED doing /\ NameFirst(Pending \ {c})
          ELSE /\ doing' = [doing EXCEPT ![s] = [at |-> "run", call |-> c, progress |-> TRUE]]
               /\ UNCHANGED named
    /\ UNCHANGED <<filed, late, vault, reminder, runs, ended, breaks>>

\* The answer 2 denies it.
AnswerNo(s) ==
    /\ doing[s] = Idle
    /\ \E c \in Chosen(Pending) :
       /\ status' = [Current EXCEPT ![c] = "denied"]
       /\ Answered(c)
       /\ NameFirst(Pending \ {c})
    /\ UNCHANGED <<filed, late, vault, doing, reminder, runs, ended, breaks>>

\* /approve_last approves the newest and runs it, or does nothing.
ApproveLast(s) ==
    /\ doing[s] = Idle
    /\ \E c \in Newest(Pending) :
       /\ ~Unsupported(c)
       /\ status' = [Current EXCEPT ![c] = "approved"]
       /\ doing' = [doing EXCEPT ![s] = [at |-> "run", call |-> c, progress |-> FALSE]]
    /\ UNCHANGED <<filed, late, vault, reminder, named, runs, ended, misled, breaks>>

\* /run_approved_tool.
RunApproved(s, c) ==
    /\ doing[s] = Idle /\ status[c] = "approved" /\ ~Unsupported(c)
    /\ doing' = [doing EXCEPT ![s] = [at |-> "run", call |-> c, progress |-> FALSE]]
    /\ UNCHANGED <<store, reminder, named, runs, ended, misled, breaks>>

\* The command replies; after an answer it lists what is left and names the next.
Reply(s) ==
    /\ doing' = [doing EXCEPT ![s] = Idle]
    /\ IF doing[s].progress THEN NameFirst(Pending) ELSE UNCHANGED named

Listed(s) == IF doing[s].progress THEN Current ELSE status

\* Mutant: the command has read "approved"; the store does not look again.
UsableAsRead(c) == c \notin late

\* consume_approved_request: an approval is good for one use, and not for ever.
Usable(c) == status[c] = "approved" /\ c \notin late

Consume(s) ==
    /\ doing[s].at = "run"
    /\ LET c == doing[s].call IN
       IF Usable(c)
       THEN /\ status' = [status EXCEPT ![c] = "consumed"]
            /\ doing' = [doing EXCEPT ![s].at = "invoke"]
            /\ UNCHANGED named
       ELSE /\ status' = [Listed(s) EXCEPT ![c] = IF @ = "approved" THEN "expired" ELSE @]
            /\ Reply(s)
    /\ UNCHANGED <<filed, late, vault, reminder, runs, ended, misled, breaks>>

Invoke(s) ==
    /\ doing[s].at = "invoke"
    /\ runs' = [runs EXCEPT ![doing[s].call] = @ + 1]
    /\ doing' = [doing EXCEPT ![s].at = "wait"]
    /\ UNCHANGED <<store, reminder, named, ended, misled, breaks>>

\* The tool returns or raises; finalize_consumed_request records it before any hook runs.
ToolEnds(s, how) ==
    /\ doing[s].at = "wait"
    /\ LET c == doing[s].call IN
       /\ ended' = [ended EXCEPT ![c] = how]
       /\ status' = [Listed(s) EXCEPT ![c] = IF @ # "consumed" THEN @
                        ELSE IF how = "returned" THEN "executed" ELSE "execution_failed"]
       /\ Reply(s)
    /\ UNCHANGED <<filed, late, vault, reminder, runs, misled, breaks>>

\* A turn or a command is stopped, raises or dies with its process: nothing is said, and
\* an approval in use stays consumed.
BreaksOff(s) ==
    /\ doing[s] # Idle /\ breaks < MaxBreaks
    /\ breaks' = breaks + 1
    /\ doing' = [doing EXCEPT ![s] = Idle]
    /\ UNCHANGED <<store, reminder, named, runs, ended, misled>>

-------------------------------------------------------------------------------

CallsNext ==
    \/ \E c \in Calls : Lapses(c)
    \/ \E s \in Servers :
        \/ StartTurn(s) \/ EndTurn(s) \/ ListAll(s) \/ AnswerYes(s) \/ AnswerNo(s)
        \/ ApproveLast(s) \/ Consume(s) \/ Invoke(s) \/ BreaksOff(s)
        \/ \E c \in Calls : \/ RunApproved(s, c)
                            \/ \E kept \in BOOLEAN : Defer(s, c, kept)
                            \/ \E verdict \in {"approved", "denied"} : Decide(s, c, verdict)
        \/ \E how \in {"returned", "raised"} : ToolEnds(s, how)

-------------------------------------------------------------------------------
(* Properties *)

\* A deferred call runs at most once, whoever asks for it how often, and never without an
\* approval that was used up for it; what the record says of its end is what happened.
RunsAsApproved ==
    \A c \in Calls :
        /\ runs[c] <= 1
        /\ runs[c] = 1 => status[c] \in {"consumed", "executed", "execution_failed"}
        /\ status[c] = "executed" => ended[c] = "returned"
        /\ status[c] = "execution_failed" => ended[c] = "raised"

\* A number decides the request that was named last as the current one, as long as that
\* one is open: later requests and those of an interrupted turn do not slip in.
AnswerIsToWhatWasShown == misled = {}
===============================================================================
