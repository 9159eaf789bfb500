------------------------------- MODULE MCTools -------------------------------
(***************************************************************************)
(* Instances for TLC of tools that change things outside the agent: the    *)
(* file changes of MCSideEffect, the shell commands, the other tools that  *)
(* wait for consent, the document index, and the MCP servers with the      *)
(* calls of their tools.  They share no variable; a behaviour is one of    *)
(* one of them, named by part.                                             *)
(***************************************************************************)
EXTENDS MCSideEffect, Sequences, TLC

CONSTANTS m1, m2, n1, n2, Commands, Servers, MaxPreviews, MaxDeaths,
          Calls, Runnable, MaxBreaks,
          Paths, Texts, Models, MaxRuns, MaxEdits,
          Names, MaxServerConns, MaxStops, Direct, Pooled, MaxConns

VARIABLES part,
          approved, record, prepared, serving, deaths, launched, outcome,
          filed, status, late, vault, doing, reminder, named, runs, ended, misled, breaks,
          disk, edits, docs, chunks, meta, indexRuns, run, disturbed,
          up, saved, client, served, conn, children, booting, stops,
          wanted, unreached, doubled, dropped,
          call, lock, pooled, made, alive, asked, unread, reader, sent, done

cmdVars == <<approved, record, prepared, serving, deaths, launched, outcome>>
callVars == <<filed, status, late, vault, doing, reminder, named, runs, ended, misled,
              breaks>>
idxVars == <<disk, edits, docs, chunks, meta, indexRuns, run, disturbed>>
mcpVars == <<up, saved, client, served, conn, children, booting, stops,
             wanted, unreached, doubled, dropped>>
wireVars == <<call, lock, pooled, made, alive, asked, unread, reader, sent, done>>
allParts == <<vars, cmdVars, callVars, idxVars, mcpVars, wireVars>>

\* Two documents; a run that writes nothing need not rebuild.
TwoPaths == <<"a.md", "b.md">>
Options == {o \in [rebuild : BOOLEAN, dry : BOOLEAN] : ~(o.rebuild /\ o.dry)}

\* Which of the two embedding models a run has, and which server is which, makes no
\* difference.
Alike == Permutations(Models) \cup Permutations(Names)

C == INSTANCE ShellEffect
W == INSTANCE DeferredCalls
D == INSTANCE DocIndex
M == INSTANCE McpServers WITH MaxConns <- MaxServerConns
P == INSTANCE McpCalls

ASSUME ToolsAssumption ==
       /\ C!ShellEffectAssumption /\ W!DeferredCallsAssumption /\ D!DocIndexAssumption
       /\ M!McpServersAssumption /\ P!McpCallsAssumption

\* The first document is there or not to begin with, and may have been there earlier;
\* which of its contents it has makes no difference.  The others are new.
ToolsInit ==
    /\ part \in {"files", "shell", "calls", "index", "servers", "wire"}
    /\ Init /\ C!ShellEffectInit /\ W!DeferredCallsInit /\ D!DocInit
    /\ M!McpServersInit /\ P!McpCallsInit
    /\ \A i \in DOMAIN Paths :
         /\ IF i = 1 THEN disk[Paths[i]] # "new" /\ docs[Paths[i]].hash # "new"
                     ELSE disk[Paths[i]] = "old" /\ docs[Paths[i]] = D!NoRow
         /\ part # "index" /\ i = 1 => disk[Paths[i]] = "none" /\ docs[Paths[i]] = D!NoRow
    /\ part # "files" => \A f \in Files : file[f] = {}

ToolsNext ==
    /\ UNCHANGED part
    /\ \/ /\ part = "files" /\ Next
          /\ UNCHANGED <<cmdVars, callVars, idxVars, mcpVars, wireVars>>
       \/ /\ part = "shell" /\ C!ShellEffectNext
          /\ UNCHANGED <<vars, callVars, idxVars, mcpVars, wireVars>>
       \/ /\ part = "calls" /\ W!CallsNext
          /\ UNCHANGED <<vars, cmdVars, idxVars, mcpVars, wireVars>>
       \/ /\ part = "index" /\ D!DocNext
          /\ UNCHANGED <<vars, cmdVars, callVars, mcpVars, wireVars>>
       \/ /\ part = "servers" /\ M!McpServersNext
          /\ UNCHANGED <<vars, cmdVars, callVars, idxVars, wireVars>>
       \/ /\ part = "wire" /\ P!McpCallsNext
          /\ UNCHANGED <<vars, cmdVars, callVars, idxVars, mcpVars>>

ToolsSpec == ToolsInit /\ [][ToolsNext]_<<part, allParts>>

\* The agent's client and the pool's have no connection in common (WireInv): their calls
\* are explored one client at a time.
OneClientAtATime ==
    \/ \A c \in Direct : call[c].at = "idle"
    \/ \A c \in Pooled : call[c].at = "idle"

\* The properties of the modules, each joined.
ShellOutcomeIsTrue == part = "shell" => C!ShellEffectTypeOK /\ C!ShellOutcomeIsTrue
ApprovedCallsRunOnce ==
    part = "calls" =>
        W!DeferredCallsTypeOK /\ W!RunsAsApproved /\ W!AnswerIsToWhatWasShown
IndexMirrorsDisk ==
    [](part = "index" => D!DocTypeOK /\ D!ChunksAreTheRows) /\ D!SuccessMirrorsDisk /\ D!SeenStaysFindable
ServersAreTracked == part = "servers" => M!McpServersTypeOK /\ M!ServersAreTracked
CallsAreOwn == part = "wire" => P!McpCallsTypeOK /\ P!CallsAreOwn
=============================================================================
