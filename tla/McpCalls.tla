------------------------------- MODULE McpCalls -------------------------------
(***************************************************************************)
(* Calls of the tools of one MCP server.  The server is a child process     *)
(* that reads requests from a pipe and writes answers into another, with    *)
(* the ids of the requests (agent/mcp/client.py).  The turns of the agent   *)
(* share one client, which stays as it is when its child dies; the          *)
(* proactive loop has a client of its own, behind a lock, which is          *)
(* connected again when a call fails (McpClientPool,                        *)
(* proactive_v2/mcp_sources.py).  A call may be given up, by a timeout or   *)
(* because its turn is stopped, and its answer come later.                  *)
(***************************************************************************)
EXTENDS Naturals, Sequences

CONSTANTS
    Direct,         \* calls of the agent's turns
    Pooled,         \* calls of the proactive loop
    MaxConns        \* bound: connections; 1 is the agent's

McpCallsAssumption ==
    /\ Direct \cap Pooled = {} /\ MaxConns \in Nat \ {0}
    /\ (Direct \cup Pooled) \cap {"-", "none", "error", "timeout", "cancelled"} = {}

VARIABLES
    call,       \* where a call is, the connection it is on, and what it returned
    lock,       \* the call that holds the lock of the pool
    pooled,     \* _clients of the pool: the connection
    made,       \* connections made so far
    alive,      \* connections whose child runs
    asked,      \* requests a child has not answered
    unread,     \* answers in the pipe
    reader,     \* the call that waits on the pipe
    sent,       \* history: on which connections a call was sent
    done        \* history: how often the server did what a call asks

callsVars == <<call, lock, pooled, made, alive, asked, unread, reader, sent, done>>

AllCalls == Direct \cup Pooled
Conns == 1..MaxConns
Nobody == "-"
Over(k, result) == [at |-> "over", conn |-> k, result |-> result]

McpCallsTypeOK ==
    /\ call \in [AllCalls -> [at : {"idle", "queued", "reading", "failed", "over"},
                           conn : 0..MaxConns,
                           result : AllCalls \cup {"none", "error", "timeout", "cancelled"}]]
    /\ lock \in Pooled \cup {Nobody} /\ pooled \in 0..MaxConns /\ made \in Conns
    /\ alive \subseteq Conns
    /\ asked \in [Conns -> SUBSET AllCalls] /\ unread \in [Conns -> Seq(AllCalls)]
    /\ reader \in [Conns -> AllCalls \cup {Nobody}]
    /\ sent \in [AllCalls -> SUBSET Conns] /\ done \in [AllCalls -> 0..MaxConns]

-------------------------------------------------------------------------------
\* _send, and the start of _recv: one task at a time can wait on a pipe.  The second
\* raises, unless an answer has just come: then it takes the line and the first raises.
Sends(c, k) ==
    /\ sent' = [sent EXCEPT ![c] = @ \cup {k}]
    /\ asked' = [asked EXCEPT ![k] = IF k \in alive' THEN @ \cup {c} ELSE @]
    /\ IF reader[k] # Nobody /\ unread[k] = <<>>
       THEN call' = [call EXCEPT ![c] = Over(k, "error")] /\ UNCHANGED reader
       ELSE /\ call' = [call EXCEPT ![c] = [at |-> "reading", conn |-> k, result |-> "none"]]
            /\ reader' = [reader EXCEPT ![k] = c]

CallDirect(c) ==
    /\ c \in Direct /\ call[c].at = "idle"
    /\ UNCHANGED <<lock, pooled, made, alive, unread, done>>
    /\ Sends(c, 1)

CallPool(c) ==
    /\ c \in Pooled /\ call[c].at = "idle"
    /\ call' = [call EXCEPT ![c].at = "queued"]
    /\ UNCHANGED <<lock, pooled, made, alive, asked, unread, reader, sent, done>>

\* The lock is free, and the pool connected.
Acquire(c) ==
    /\ call[c].at = "queued" /\ lock = Nobody /\ pooled # 0
    /\ lock' = c
    /\ UNCHANGED <<pooled, made, alive, unread, done>>
    /\ Sends(c, pooled)

Connects(c) ==
    /\ made < MaxConns /\ made' = made + 1
    /\ alive' = alive \cup {made'} /\ pooled' = made'
    /\ lock' = c
    /\ Sends(c, made')

\* The first connection, or the one after a failure: the call is sent once more.
Reconnect(c) ==
    /\ \/ call[c].at = "queued" /\ lock = Nobody /\ pooled = 0
       \/ call[c].at = "failed"
    /\ Connects(c)
    /\ UNCHANGED <<unread, done>>

CannotConnect(c) ==
    /\ \/ call[c].at = "queued" /\ lock = Nobody /\ pooled = 0
       \/ call[c].at = "failed"
    /\ call' = [call EXCEPT ![c] = Over(call[c].conn, "error")]
    /\ lock' = Nobody
    /\ UNCHANGED <<pooled, made, alive, asked, unread, reader, sent, done>>

-------------------------------------------------------------------------------
\* A call is over with its connection as it is; the pool's lock is free again.
Returns(c, result) ==
    /\ call' = [call EXCEPT ![c] = Over(call[c].conn, result)]
    /\ lock' = IF lock = c THEN Nobody ELSE lock

StopsReading(c) ==
    reader' = [reader EXCEPT ![call[c].conn] = IF @ = c THEN Nobody ELSE @]

\* Mutant: the next answer is taken for one's own.
IsAnyAnswer(c, line) == line \in AllCalls

\* The answer has the id of the request.
IsAnswer(c, line) == line = c

\* _recv: lines that are not the answer are skipped.
Read(c) ==
    LET k == call[c].conn IN
    /\ call[c].at = "reading" /\ reader[k] = c /\ unread[k] # <<>>
    /\ unread' = [unread EXCEPT ![k] = Tail(@)]
    /\ IF IsAnswer(c, Head(unread[k]))
       THEN Returns(c, Head(unread[k])) /\ StopsReading(c)
       ELSE UNCHANGED <<call, lock, reader>>
    /\ UNCHANGED <<pooled, made, alive, asked, sent, done>>

\* The pool drops a connection whose call fails and tries once again.
Fails(c) ==
    LET k == call[c].conn IN
    /\ StopsReading(c)
    /\ IF c \in Direct THEN Returns(c, "error") /\ UNCHANGED <<pooled, alive>>
       ELSE /\ pooled' = 0 /\ alive' = alive \ {k}
            /\ IF sent[c] = {k} THEN call' = [call EXCEPT ![c].at = "failed"] /\ UNCHANGED lock
               ELSE Returns(c, "error")

\* The pipe is closed, or another call reads from it.
Breaks(c) ==
    LET k == call[c].conn IN
    /\ call[c].at = "reading"
    /\ reader[k] # c \/ (k \notin alive /\ unread[k] = <<>>)
    /\ Fails(c)
    /\ UNCHANGED <<made, asked, unread, sent, done>>

\* A line is too long for the stream, or, in the pool, an answer looks like JSON and is not.
Unreadable(c) ==
    LET k == call[c].conn IN
    /\ call[c].at = "reading" /\ reader[k] = c /\ unread[k] # <<>>
    /\ unread' = [unread EXCEPT ![k] = Tail(@)]
    /\ Fails(c)
    /\ UNCHANGED <<made, asked, sent, done>>

\* No line in time.  The pool ends the child, and does not ask again.
TimesOut(c) ==
    /\ call[c].at = "reading" /\ reader[call[c].conn] = c
    /\ Returns(c, "timeout") /\ StopsReading(c)
    /\ IF c \in Direct THEN UNCHANGED <<pooled, alive>>
       ELSE pooled' = 0 /\ alive' = alive \ {call[c].conn}
    /\ UNCHANGED <<made, asked, unread, sent, done>>

\* The turn or the tick is cancelled: the connection stays.
Cancelled(c) ==
    /\ call[c].at \in {"queued", "reading", "failed"}
    /\ Returns(c, "cancelled")
    /\ IF call[c].at = "reading" THEN StopsReading(c) ELSE UNCHANGED reader
    /\ UNCHANGED <<pooled, made, alive, asked, unread, sent, done>>

-------------------------------------------------------------------------------
(* The server *)

Answers(k, c) ==
    /\ k \in alive /\ c \in asked[k]
    /\ done' = [done EXCEPT ![c] = @ + 1]
    /\ asked' = [asked EXCEPT ![k] = @ \ {c}]
    /\ unread' = [unread EXCEPT ![k] = Append(@, c)]
    /\ UNCHANGED <<call, lock, pooled, made, alive, reader, sent>>

\* It dies, perhaps after doing what it was asked.
Dies(k) ==
    /\ k \in alive /\ alive' = alive \ {k}
    /\ \E did \in SUBSET asked[k] :
         done' = [c \in AllCalls |-> IF c \in did THEN done[c] + 1 ELSE done[c]]
    /\ asked' = [asked EXCEPT ![k] = {}]
    /\ UNCHANGED <<call, lock, pooled, made, unread, reader, sent>>

McpCallsInit ==
    /\ call = [c \in AllCalls |-> [at |-> "idle", conn |-> 0, result |-> "none"]]
    /\ lock = Nobody /\ pooled = 0 /\ made = 1 /\ alive = {1}
    /\ asked = [k \in Conns |-> {}] /\ unread = [k \in Conns |-> <<>>]
    /\ reader = [k \in Conns |-> Nobody]
    /\ sent = [c \in AllCalls |-> {}] /\ done = [c \in AllCalls |-> 0]

McpCallsNext ==
    \/ \E c \in AllCalls :
        \/ CallDirect(c) \/ CallPool(c) \/ Acquire(c) \/ Reconnect(c) \/ CannotConnect(c)
        \/ Read(c) \/ Breaks(c) \/ Unreadable(c) \/ TimesOut(c) \/ Cancelled(c)
        \/ \E k \in Conns : Answers(k, c)
    \/ \E k \in Conns : Dies(k)

-------------------------------------------------------------------------------
(* Properties *)

\* What a call returns is the answer to it, though answers to calls that were given up
\* are in the same pipe, and the server did what was asked.
AnswersAreOwn ==
    \A c \in AllCalls : call[c].result \in AllCalls => call[c].result = c /\ done[c] > 0

\* A call of a turn reaches the server at most once.  One of the pool may reach it twice,
\* only when the connection of the first time is lost, and never after a timeout.
RepeatedOnlyAfterLoss ==
    \A c \in AllCalls :
        /\ done[c] <= IF c \in Direct THEN 1 ELSE 2
        /\ \A k \in sent[c] : k # call[c].conn => k \notin alive

\* The lock is held by the one call of the pool that is under way.
OnePooledCall ==
    \A c \in Pooled : call[c].at \in {"reading", "failed"} <=> lock = c

CallsAreOwn == AnswersAreOwn /\ RepeatedOnlyAfterLoss /\ OnePooledCall
===============================================================================
