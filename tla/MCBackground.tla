---------------------------- MODULE MCBackground ----------------------------
(***************************************************************************)
(* Instances for TLC of what the agent does with no user waiting: the      *)
(* shell commands, the subagents and the tasks of peer agents a turn       *)
(* leaves behind, and the proactive loop.  They share no variable; a       *)
(* behaviour is one of one of them, named by part.                         *)
(***************************************************************************)
EXTENDS Subagents, SequencesExt

CONSTANTS Tasks, Routed, Timed, MaxReads,
          Alerts, Contents, Url, Texts, ContentLimit, Cooldown, DedupeHours, DriftHours,
          ContextHours, ContextDay, QuotaMax, Day, MaxHours, MaxTicks, MaxPushes,
          Delegated, MaxSpawns

VARIABLES
    part,
    task, registry, consumed, items, waiting, told, known, reads,
    hour, ticks, stage, ctx, gone, deliveries, contextAt, driftAt, quota, chatLog, heard, lost,
    call, spawned, living, proc, host, remote, pending, round, ending, late, reports

shellVars == <<task, registry, consumed, items, waiting, told, known, reads>>
proVars == <<hour, ticks, stage, ctx, gone, deliveries, contextAt, driftAt, quota,
             chatLog, heard, lost>>
peerVars == <<call, spawned, living, proc, host, remote, pending, round, ending, late, reports>>
backVars == <<part, shellVars, suVars, proVars, peerVars>>

H == INSTANCE ShellTasks

\* For the runs: the contents are about one page.
OnePage == [c \in Contents |-> "page"]

P == INSTANCE Proactive

Q == INSTANCE Peers

ASSUME BackgroundAssumption == H!ShellAssumption /\ P!ProactiveAssumption /\ Q!PeersAssumption

BackInit == /\ part \in {"shell", "subagents", "proactive", "peers"}
            /\ H!Init /\ Init /\ P!Init /\ Q!PeersInit

BackNext ==
    /\ UNCHANGED part
    /\ \/ part = "shell" /\ H!Next /\ UNCHANGED <<suVars, proVars, peerVars>>
       \/ part = "subagents" /\ Next /\ UNCHANGED <<shellVars, proVars, peerVars>>
       \/ part = "proactive" /\ P!Next /\ UNCHANGED <<shellVars, suVars, peerVars>>
       \/ part = "peers" /\ Q!PeersNext /\ UNCHANGED <<shellVars, suVars, proVars>>

OfShell(A) == part = "shell" /\ A /\ UNCHANGED <<part, suVars, proVars, peerVars>>
OfSubagents(A) == part = "subagents" /\ A /\ UNCHANGED <<part, shellVars, proVars, peerVars>>
OfPeers(A) == part = "peers" /\ A /\ UNCHANGED <<part, shellVars, suVars, proVars>>

\* The event loop runs what is ready: the pump of a command that is over, its
\* callback, a timer that is due, the loop that takes the next item, the poller of
\* the peers and the call that holds their lock; and a subagent ends, since its rounds
\* are bounded.
BackSpec ==
    /\ BackInit /\ [][BackNext]_backVars
    /\ WF_backVars(OfShell(H!CompletionTurn))
    /\ \A t \in Tasks : /\ WF_backVars(OfShell(H!PumpEnds(t)))
                        /\ WF_backVars(OfShell(H!PumpCallback(t)))
                        /\ WF_backVars(OfShell(H!Timer(t)))
    /\ \A j \in Subs : WF_backVars(OfSubagents(Works(j)))
    /\ WF_backVars(OfPeers(Q!Poll)) /\ WF_backVars(OfPeers(Q!Check))
    /\ WF_backVars(OfPeers(Q!Terminate))
    /\ \A c \in Delegated : /\ WF_backVars(OfPeers(Q!LockEnds(c)))
                            /\ WF_backVars(OfPeers(Q!HourIsOver(c)))

\* The properties of the modules, joined: nothing is told twice, and everything is
\* told in the end.
BackgroundTypeOK == H!ShellTypeOK /\ SubagentsTypeOK /\ Q!PeersTypeOK
EndsAreToldOnce == [](BackgroundTypeOK /\ LimitHolds /\ EndSaidOnce /\ Q!ReportedOnce) /\ H!ToldOnce
NotTooOften == P!NotTooOften
ToldTruly == P!ToldTruly
EndsAreTold ==
    H!EndsAreTold /\ H!TimeoutsKill /\ EveryJobIsHeardOf /\ Q!DelegatedIsHeardOf
=============================================================================
