-------------------------------- MODULE Peers --------------------------------
(***************************************************************************)
(* Peer agents (agent/peer_agent): a tool call delegates a task to another *)
(* agent, a child process that is started when it does not answer.  The    *)
(* call returns when the task is submitted; a poller asks for its state,   *)
(* tells the chat of its end and ends the process.  One peer agent: agents *)
(* have each their own lock, process and tasks.                            *)
(*                                                                         *)
(* The process is ended for every task that ends, whoever else works in it:*)
(* a task that goes with it is told as failed when its hour is over.       *)
(***************************************************************************)
EXTENDS Naturals, FiniteSets, Sequences, SequencesExt

CONSTANTS
    Delegated,  \* calls of the tool, each with its task
    MaxSpawns   \* bound: processes that are ever started

PeersAssumption == MaxSpawns \in Nat

Pids == 1..MaxSpawns

VARIABLES
    call,       \* where each call is
    spawned,    \* number of processes started so far
    living,     \* processes that run
    proc,       \* _procs: {} or the process the manager knows
    host,       \* history: the process a task was given to, 0 for none
    remote,     \* the state of the task there
    pending,    \* _pending, in the order of registration
    round,      \* what the poller still looks at in this pass
    ending,     \* is the poller in terminate?
    late,       \* tasks whose hour is over
    reports     \* what the chat was told of each task

peerVars == <<call, spawned, living, proc, host, remote, pending, round, ending, late, reports>>

InLock == {"check", "wait"}
Free == \A c \in Delegated : call[c] \notin InLock

Goto(c, place) == call' = [call EXCEPT ![c] = place]
OfCall == <<host, remote, pending, round, ending, late, reports>>

-----------------------------------------------------------------------------
(* execute of PeerAgentTool.                                               *)

Delegate(c) ==
    /\ call[c] = "none" /\ Goto(c, "lock")
    /\ UNCHANGED <<spawned, living, proc, OfCall>>

Enter(c) ==
    /\ call[c] = "lock" /\ Free /\ ~ending /\ Goto(c, "check")
    /\ UNCHANGED <<spawned, living, proc, OfCall>>

\* Whoever answers at the address will do.
IsReady(c) ==
    /\ call[c] \in InLock /\ living # {} /\ Goto(c, "submit")
    /\ UNCHANGED <<spawned, living, proc, OfCall>>

\* No answer within two seconds, whether a process runs or not: start one.
Spawn(c) ==
    /\ call[c] = "check" /\ spawned < MaxSpawns
    /\ spawned' = spawned + 1
    /\ living' = living \cup {spawned'} /\ proc' = {spawned'}
    /\ Goto(c, "wait")
    /\ UNCHANGED OfCall

\* It cannot be started, or has ended by itself: the manager keeps it then.
SpawnFails(c) ==
    /\ \/ call[c] = "check"
       \/ call[c] = "wait" /\ proc \cap living = {}
    /\ Goto(c, "failed")
    /\ UNCHANGED <<spawned, living, proc, OfCall>>

\* Thirty seconds are over.
SpawnTimesOut(c) ==
    /\ call[c] = "wait" /\ Goto(c, "failed")
    /\ living' = living \ proc /\ proc' = {}
    /\ UNCHANGED <<spawned, OfCall>>

\* The answer and the registration are one step.
Submit(c) ==
    /\ call[c] = "submit" /\ Goto(c, "registered")
    /\ \E p \in living : host' = [host EXCEPT ![c] = p]
    /\ remote' = [remote EXCEPT ![c] = "working"]
    /\ pending' = Append(pending, c)
    /\ UNCHANGED <<spawned, living, proc, round, ending, late, reports>>

\* No answer, or an answer that is lost.
SubmitFails(c) ==
    /\ call[c] = "submit" /\ Goto(c, "failed")
    /\ UNCHANGED <<spawned, living, proc, OfCall>>

\* The turn that waits for the call is interrupted.
Cancelled(c) ==
    /\ call[c] \in {"lock", "submit"} \cup InLock /\ Goto(c, "failed")
    /\ UNCHANGED <<spawned, living, proc, OfCall>>

-----------------------------------------------------------------------------
(* The other side.                                                         *)

Works(c, state) ==
    /\ remote[c] = "working" /\ host[c] \in living
    /\ remote' = [remote EXCEPT ![c] = state]
    /\ UNCHANGED <<call, spawned, living, proc, host, pending, round, ending, late, reports>>

Dies(p) ==
    /\ p \in living /\ living' = living \ {p}
    /\ UNCHANGED <<call, spawned, proc, OfCall>>

-----------------------------------------------------------------------------
(* The poller.                                                             *)

HourIsOver(c) ==
    /\ call[c] = "registered" /\ c \notin late
    /\ late' = late \cup {c}
    /\ UNCHANGED <<call, spawned, living, proc, host, remote, pending, round, ending, reports>>

Poll ==
    /\ round = <<>> /\ ~ending /\ pending # <<>>
    /\ round' = pending
    /\ UNCHANGED <<call, spawned, living, proc, host, remote, pending, ending, late, reports>>

\* What tasks/get says of a task: nothing when the address does not answer, an error
\* when another process answers that never heard of it.
Answers(c) ==
    {"error"} \cup IF host[c] \in living THEN {remote[c]} ELSE {}

\* Told, and then the process is ended.
Ends(c, what) ==
    /\ pending' = RemoveAt(pending, CHOOSE i \in DOMAIN pending : pending[i] = c)
    /\ reports' = [reports EXCEPT ![c] = Append(@, what)]
    /\ ending' = TRUE

\* _check.
Check ==
    /\ round # <<>> /\ ~ending
    /\ round' = Tail(round)
    /\ LET c == Head(round) IN
       IF c \in late THEN Ends(c, "failed")
       ELSE \E answer \in Answers(c) :
              IF answer \in {"completed", "failed"} THEN Ends(c, answer)
              ELSE UNCHANGED <<pending, reports, ending>>
    /\ UNCHANGED <<call, spawned, living, proc, host, remote, late>>

\* terminate waits for the lock, and for the process to end.
Terminate ==
    /\ ending /\ Free
    /\ ending' = FALSE
    /\ living' = living \ proc /\ proc' = {}
    /\ UNCHANGED <<call, spawned, host, remote, pending, round, late, reports>>

PeersInit ==
    /\ call = [c \in Delegated |-> "none"] /\ spawned = 0 /\ living = {} /\ proc = {}
    /\ host = [c \in Delegated |-> 0] /\ remote = [c \in Delegated |-> "none"]
    /\ pending = <<>> /\ round = <<>> /\ ending = FALSE /\ late = {}
    /\ reports = [c \in Delegated |-> <<>>]

\* A call that holds the lock moves on by itself, within its timeouts.
LockEnds(c) == IsReady(c) \/ Spawn(c) \/ SpawnFails(c) \/ SpawnTimesOut(c)

PeersNext ==
    \/ \E c \in Delegated :
         \/ Delegate(c) \/ Enter(c) \/ LockEnds(c) \/ Submit(c) \/ SubmitFails(c)
         \/ Cancelled(c) \/ HourIsOver(c)
         \/ \E state \in {"completed", "failed"} : Works(c, state)
    \/ \E p \in Pids : Dies(p)
    \/ Poll \/ Check \/ Terminate

PeersTypeOK ==
    /\ call \in [Delegated -> {"none", "lock", "check", "wait", "submit", "registered", "failed"}]
    /\ spawned \in 0..MaxSpawns /\ living \subseteq 1..spawned
    /\ proc \subseteq 1..spawned /\ Cardinality(proc) <= 1
    /\ \A c \in Delegated : host[c] <= spawned

\* The chat hears of each task once, of a success only if the peer had one, and of
\* nothing that was not registered.
ReportedOnce ==
    \A c \in Delegated :
        /\ Len(reports[c]) <= 1
        /\ reports[c] = <<"completed">> => remote[c] = "completed"
        /\ reports[c] # <<>> => call[c] = "registered"
        /\ call[c] = "registered" => (reports[c] = <<>>) = (c \in ToSet(pending))

\* A task that was registered is heard of, whatever becomes of the process and of the
\* other tasks in it.
DelegatedIsHeardOf == \A c \in Delegated : (call[c] = "registered") ~> (reports[c] # <<>>)
=============================================================================
