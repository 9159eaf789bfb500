------------------------------ MODULE McpServers ------------------------------
(***************************************************************************)
(* The MCP servers that the agent runs as child processes and whose tools   *)
(* it offers (agent/mcp/registry.py, client.py).  The user has servers      *)
(* added and removed (mcp_add, mcp_remove); a list of them is written to    *)
(* mcp_servers.json and, at startup, all of it is connected in the          *)
(* background.  Connecting and disconnecting wait for the child: meanwhile  *)
(* another turn adds or removes, and the call of the tool may be cancelled  *)
(* (/stop), which McpClient.connect does not take for a failure.            *)
(***************************************************************************)
EXTENDS Naturals

CONSTANTS
    Names,
    MaxConns,       \* bound: connections made, in the order they start
    MaxStops        \* bound: ends of the agent's process

McpServersAssumption == MaxConns \in Nat /\ MaxStops \in Nat

VARIABLES
    up,         \* does the agent run?
    saved,      \* the names in mcp_servers.json
    client,     \* _clients: the connection of each name
    served,     \* the connection behind the tools of a name in ToolRegistry
    conn,       \* what each connection is doing, for which name
    children,   \* connections whose child process runs
    booting,    \* names that the startup still has to connect
    stops,
    wanted,     \* history: servers the user had added, written down since, and did not remove
    unreached,  \* history: names of the file not connected since a start, or dropped from
                \* the file before they were
    doubled,    \* history: names with two connections at once
    dropped     \* history: connections whose add was cancelled

mcpVars == <<up, saved, client, served, conn, children, booting, stops,
             wanted, unreached, doubled, dropped>>

None == 0
Conns == 1..MaxConns
Listed == {n \in Names : client[n] # None}
At(c, place) == conn[c].at = place
Goto(c, place) == conn' = [conn EXCEPT ![c].at = place]
Unmade == [at |-> "none", name |-> "-", by |-> "-"]
Under(n) == {c \in Conns : conn[c].name = n /\ conn[c].at \in {"connecting", "up"}}

McpServersTypeOK ==
    /\ up \in BOOLEAN /\ saved \subseteq Names /\ stops \in 0..MaxStops
    /\ client \in [Names -> Conns \cup {None}] /\ served \in [Names -> Conns \cup {None}]
    /\ conn \in [Conns -> [at : {"none", "connecting", "up", "closing", "over"},
                           name : Names \cup {"-"}, by : {"add", "boot", "-"}]]
    /\ children \subseteq Conns /\ dropped \subseteq Conns
    /\ booting \subseteq Names /\ wanted \subseteq Names

-------------------------------------------------------------------------------
\* _save: everything that is connected now; an error is only logged.
Save(connected) ==
    \/ saved' = connected
    \/ UNCHANGED saved

\* A connection starts: the child process, and then the handshake.
Opens(n, by) ==
    \E c \in Conns :
        /\ At(c, "none") /\ \A d \in 1..(c - 1) : ~At(d, "none")
        /\ conn' = [conn EXCEPT ![c] = [at |-> "connecting", name |-> n, by |-> by]]
        /\ children' = children \cup {c}
        /\ doubled' = doubled \cup {m \in {n} : Under(n) # {}}

\* load_and_connect_all.
BootConnects(n) ==
    /\ n \in booting /\ booting' = booting \ {n}
    /\ Opens(n, "boot")
    /\ UNCHANGED <<up, saved, client, served, stops, wanted, unreached, dropped>>

\* mcp_add of a name that is not connected.
Add(n) ==
    /\ up /\ client[n] = None
    /\ Opens(n, "add")
    /\ UNCHANGED <<up, saved, client, served, booting, stops, wanted, unreached, dropped>>

\* The end of _connect, and of add, which saves.
Connected(c) ==
    LET n == conn[c].name IN
    /\ At(c, "connecting") /\ Goto(c, "up")
    /\ client' = [client EXCEPT ![n] = c] /\ served' = [served EXCEPT ![n] = c]
    /\ IF conn[c].by = "boot" THEN UNCHANGED <<saved, wanted>>
       ELSE /\ Save(Listed \cup {n})
            /\ wanted' = IF saved' = saved /\ n \notin saved THEN wanted ELSE wanted \cup {n}
    /\ unreached' = unreached \ (saved' \cap (Listed \cup {n}))
    /\ UNCHANGED <<up, children, booting, stops, doubled, dropped>>

\* Mutant: the handshake is given up and the child forgotten.
FailedButRuns(c) ==
    /\ At(c, "connecting") /\ Goto(c, "over")
    /\ UNCHANGED <<up, saved, client, served, children, booting, stops, wanted, unreached,
                   doubled, dropped>>

\* It cannot be started, does not answer in time or answers nonsense.
ConnectFails(c) ==
    /\ At(c, "connecting") /\ Goto(c, "over")
    /\ children' = children \ {c}
    /\ UNCHANGED <<up, saved, client, served, booting, stops, wanted, unreached, doubled,
                   dropped>>

\* A cancelled add leaves the child running.
AddCancelled(c) ==
    /\ At(c, "connecting") /\ conn[c].by = "add" /\ Goto(c, "over")
    /\ dropped' = dropped \cup {c}
    /\ UNCHANGED <<up, saved, client, served, children, booting, stops, wanted, unreached,
                   doubled>>

\* mcp_remove: the tools go at once, then the child is waited for.
Remove(n) ==
    LET c == client[n] IN
    /\ c # None /\ Goto(c, "closing")
    /\ client' = [client EXCEPT ![n] = None] /\ served' = [served EXCEPT ![n] = None]
    /\ wanted' = wanted \ {n}
    /\ UNCHANGED <<up, saved, children, booting, stops, unreached, doubled, dropped>>

\* The child has ended; a cancelled remove does not save.
Removed(c, cancelled) ==
    /\ At(c, "closing") /\ Goto(c, "over")
    /\ children' = children \ {c}
    /\ IF cancelled THEN UNCHANGED saved ELSE Save(Listed)
    /\ unreached' = unreached \ (saved' \cap Listed)
    /\ UNCHANGED <<up, client, served, booting, stops, wanted, doubled, dropped>>

\* The process ends, in order or not; the children see their input closed.
Stop ==
    /\ up /\ up' = FALSE
    /\ stops < MaxStops /\ stops' = stops + 1
    /\ client' = [n \in Names |-> None] /\ served' = [n \in Names |-> None]
    /\ conn' = [c \in Conns |-> IF At(c, "none") THEN conn[c] ELSE [conn[c] EXCEPT !.at = "over"]]
    /\ children' = {} /\ booting' = {} /\ doubled' = {}
    /\ UNCHANGED <<saved, wanted, unreached, dropped>>

Start ==
    /\ ~up /\ up' = TRUE
    /\ booting' = saved /\ unreached' = unreached \cup saved
    /\ UNCHANGED <<saved, client, served, conn, children, stops, wanted, doubled, dropped>>

McpServersInit ==
    /\ up = FALSE /\ saved = {} /\ booting = {} /\ stops = 0
    /\ client = [n \in Names |-> None] /\ served = [n \in Names |-> None]
    /\ conn = [c \in Conns |-> Unmade] /\ children = {}
    /\ wanted = {} /\ unreached = {} /\ doubled = {} /\ dropped = {}

McpServersNext ==
    \/ \E n \in Names : BootConnects(n) \/ Add(n) \/ Remove(n)
    \/ \E c \in Conns : \/ Connected(c) \/ ConnectFails(c) \/ AddCancelled(c)
                        \/ \E cancelled \in BOOLEAN : Removed(c, cancelled)
    \/ Stop \/ Start

-------------------------------------------------------------------------------
(* Properties *)

\* A server that the user had added is written down as long as it is not removed,
\* whatever is added and removed meanwhile: only one that a start has not reached can
\* be forgotten, because the list holds what is connected.
OnlyUnreachedIsForgotten == wanted \ saved \subseteq unreached

\* Each child belongs to a server the agent knows or to a connection in progress, but
\* for the child of a cancelled mcp_add and for two connections of one name at once.
ChildrenAreTracked ==
    \A c \in children :
        \/ conn[c].at \in {"connecting", "closing"} \/ client[conn[c].name] = c
        \/ c \in dropped \/ conn[c].name \in doubled

\* A tool the model is offered has its child running.
ToolsHaveServers ==
    \A n \in Names : served[n] # None => served[n] \in children /\ conn[served[n]].name = n

ServersAreTracked == OnlyUnreachedIsForgotten /\ ChildrenAreTracked /\ ToolsHaveServers
===============================================================================
