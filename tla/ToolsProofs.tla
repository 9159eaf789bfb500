------------------------------ MODULE ToolsProofs ------------------------------
(***************************************************************************)
(* Machine-checked proofs about the tools that change things outside the   *)
(* agent, in the module that TLC runs: the calls that wait for consent     *)
(* (W, DeferredCalls), the MCP servers (M, McpServers), the approved shell *)
(* commands (C, ShellEffect), the document index (D, DocIndex), the calls  *)
(* of MCP tools (P, McpCalls) and the approved changes of files            *)
(* (SideEffect), for any number of calls, commands, servers, processes,    *)
(* documents, connections and approvals.                                   *)
(***************************************************************************)
EXTENDS MCTools, NaturalsInduction, WellFoundedInduction, TLAPS

-------------------------------------------------------------------------------
(* Calls that wait for consent *)

\* A process has used up the approval of a call and has not recorded how it ended.
InUse(s, c) == doing[s].at \in {"invoke", "wait"} /\ doing[s].call = c

\* An approval in use is consumed, by one process at a time, which knows whether the tool
\* was invoked.
CallUseInv ==
    \A s \in Servers, c \in Calls : InUse(s, c) =>
        /\ status[c] = "consumed"
        /\ runs[c] = IF doing[s].at = "invoke" THEN 0 ELSE 1
        /\ \A t \in Servers : InUse(t, c) => t = s

CallIsOpen(c) == status[c] = "pending" /\ c \notin late

\* While the request that was named last is open, no older one is.
NamedInv ==
    named # W!None =>
        /\ status[named] # "none"
        /\ CallIsOpen(named) =>
              \A d \in Calls : W!FiledBefore(d, named) => ~CallIsOpen(d)

\* The inductive invariant.
CallsInv ==
    /\ W!DeferredCallsTypeOK /\ runs \in [Calls -> {0, 1}]
    /\ CallUseInv /\ W!RunsAsApproved
    /\ NamedInv /\ misled = {}

\* Listing the requests lets those expire whose time is over, and changes no other.
LEMMA CurrentStatus ==
    ASSUME W!DeferredCallsTypeOK
    PROVE  /\ W!Current \in [Calls -> W!Statuses]
           /\ \A c \in Calls :
                 /\ W!Current[c] = "pending" <=> CallIsOpen(c)
                 /\ W!Current[c] # status[c] => status[c] = "pending" /\ W!Current[c] = "expired"
BY DEF W!DeferredCallsTypeOK, W!Current, W!Statuses, CallIsOpen

\* The requests are ordered by the time they were filed.
LEMMA FiledInOrder ==
    ASSUME W!DeferredCallsTypeOK, NEW c \in Calls, NEW d \in Calls,
           status[c] # "none", status[d] # "none", c # d
    PROVE  W!FiledBefore(c, d) \/ W!FiledBefore(d, c)
<1>1. c \in W!ToSet(filed) /\ d \in W!ToSet(filed)
  BY DEF W!DeferredCallsTypeOK
<1>2. PICK m \in DOMAIN filed, n \in DOMAIN filed : filed[m] = c /\ filed[n] = d
  BY <1>1 DEF W!ToSet
<1>3. m \in Nat /\ n \in Nat
  BY DEF W!DeferredCallsTypeOK
<1>4. m < n \/ n < m
  BY <1>2, <1>3
<1> QED
  BY <1>2, <1>4 DEF W!FiledBefore

\* A new request comes after those that were filed before.
LEMMA FiledLast ==
    ASSUME W!DeferredCallsTypeOK, NEW c \in Calls, status[c] = "none",
           filed' = Append(filed, c)
    PROVE  /\ filed' \in Seq(Calls) /\ W!IsInjective(filed')
           /\ W!ToSet(filed') = W!ToSet(filed) \cup {c}
           /\ \A d, e \in Calls : (e # c /\ W!FiledBefore(d, e)') => W!FiledBefore(d, e)
<1>1. filed \in Seq(Calls) /\ c \notin W!ToSet(filed)
  BY DEF W!DeferredCallsTypeOK
<1> DEFINE n == Len(filed)
<1>2. /\ filed' \in Seq(Calls) /\ n \in Nat /\ DOMAIN filed = 1..n /\ DOMAIN filed' = 1..(n + 1)
      /\ filed'[n + 1] = c /\ \A i \in 1..n : filed'[i] = filed[i]
  BY <1>1
<1> HIDE DEF n
<1>3. \A i \in 1..(n + 1) : i = n + 1 \/ i \in 1..n
  BY <1>2
<1>4. \A i \in 1..n : filed[i] # c
  BY <1>1, <1>2 DEF W!ToSet
<1>5. W!IsInjective(filed')
  BY <1>2, <1>3, <1>4 DEF W!DeferredCallsTypeOK, W!IsInjective
<1>6. W!ToSet(filed') = W!ToSet(filed) \cup {c}
  <2>1. ASSUME NEW x \in W!ToSet(filed') PROVE x \in W!ToSet(filed) \cup {c}
    BY <1>2, <1>3, <2>1 DEF W!ToSet
  <2>2. ASSUME NEW x \in W!ToSet(filed) PROVE x \in W!ToSet(filed')
    <3>1. PICK i \in 1..n : filed[i] = x
      BY <1>2, <2>2 DEF W!ToSet
    <3>2. i \in 1..(n + 1) /\ filed'[i] = x
      BY <1>2, <3>1
    <3> QED
      BY <1>2, <3>2 DEF W!ToSet
  <2>3. c \in W!ToSet(filed')
    <3>1. n + 1 \in 1..(n + 1)
      BY <1>2
    <3> QED
      BY <1>2, <3>1 DEF W!ToSet
  <2> QED
    BY <2>1, <2>2, <2>3
<1>7. ASSUME NEW d \in Calls, NEW e \in Calls, e # c, W!FiledBefore(d, e)'
      PROVE  W!FiledBefore(d, e)
  <2>1. PICK i \in 1..(n + 1), j \in 1..(n + 1) : i < j /\ filed'[i] = d /\ filed'[j] = e
    BY <1>2, <1>7 DEF W!FiledBefore
  <2>2. j \in 1..n
    BY <1>2, <1>3, <1>7, <2>1
  <2>3. i \in 1..n
    BY <1>2, <2>1, <2>2
  <2> QED
    BY <1>2, <2>1, <2>2, <2>3 DEF W!FiledBefore
<1> QED
  BY <1>2, <1>5, <1>6, <1>7

\* What a step that files nothing does to the requests: some that were open are open no
\* longer, none is filed or opened.
Closing ==
    /\ filed' = filed /\ status' \in [Calls -> W!Statuses]
    /\ \A c \in Calls : status'[c] = "none" <=> status[c] = "none"
    /\ \A c \in Calls : CallIsOpen(c)' => CallIsOpen(c)
    /\ late' \subseteq W!ToSet(filed)

LEMMA CurrentCloses ==
    ASSUME W!DeferredCallsTypeOK, filed' = filed, late' = late,
           \/ status' = W!Current
           \/ status' = status
           \/ \E c \in Calls, verdict \in W!Statuses \ {"none", "pending"} :
                 /\ status[c] # "none"
                 /\ \/ status' = [W!Current EXCEPT ![c] = verdict]
                    \/ status' = [status EXCEPT ![c] = verdict]
    PROVE  /\ Closing
           /\ \A d \in Calls : CallIsOpen(d)' => status'[d] = "pending" /\ W!Current[d] = "pending"
<1>1. /\ W!Current \in [Calls -> W!Statuses]
      /\ \A c \in Calls :
            /\ W!Current[c] = "pending" <=> CallIsOpen(c)
            /\ W!Current[c] # status[c] => status[c] = "pending" /\ W!Current[c] = "expired"
  BY CurrentStatus
<1>2. status \in [Calls -> W!Statuses] /\ late \subseteq W!ToSet(filed)
  BY DEF W!DeferredCallsTypeOK
<1>3. CASE status' = W!Current
  BY <1>1, <1>2, <1>3 DEF Closing, CallIsOpen
<1>4. CASE status' = status
  BY <1>1, <1>2, <1>4 DEF Closing, CallIsOpen
<1>5. ASSUME NEW c \in Calls, NEW verdict \in W!Statuses \ {"none", "pending"}, status[c] # "none",
             status' = [W!Current EXCEPT ![c] = verdict]
      PROVE  Closing /\ \A d \in Calls : CallIsOpen(d)' =>
                            status'[d] = "pending" /\ W!Current[d] = "pending"
  BY <1>1, <1>2, <1>5 DEF Closing, CallIsOpen
<1>6. ASSUME NEW c \in Calls, NEW verdict \in W!Statuses \ {"none", "pending"}, status[c] # "none",
             status' = [status EXCEPT ![c] = verdict]
      PROVE  Closing /\ \A d \in Calls : CallIsOpen(d)' =>
                            status'[d] = "pending" /\ W!Current[d] = "pending"
  BY <1>1, <1>2, <1>6 DEF Closing, CallIsOpen
<1> QED
  BY <1>3, <1>4, <1>5, <1>6

\* The oldest of what is open afterwards may be named next.
LEMMA NamedStep ==
    ASSUME W!DeferredCallsTypeOK, NamedInv, Closing,
           \/ named' = named
           \/ \E open \in SUBSET Calls :
                 /\ named' \in W!Chosen(open)
                 /\ \A d \in Calls : CallIsOpen(d)' => d \in open
                 /\ \A d \in open : status[d] # "none"
    PROVE  NamedInv' /\ named' \in Calls \cup {W!None}
<1>1. named \in Calls \cup {W!None}
  BY DEF W!DeferredCallsTypeOK
<1>2. CASE named' = named
  BY <1>1, <1>2 DEF NamedInv, Closing, W!FiledBefore
<1>3. ASSUME NEW open \in SUBSET Calls, named' \in W!Chosen(open),
             \A d \in Calls : CallIsOpen(d)' => d \in open,
             \A d \in open : status[d] # "none"
      PROVE  NamedInv' /\ named' \in Calls \cup {W!None}
  <2>1. named' \in open /\ \A d \in open : ~W!FiledBefore(d, named')
    BY <1>3 DEF W!Chosen
  <2>2. \A d \in Calls : W!FiledBefore(d, named)' => W!FiledBefore(d, named')
    BY DEF Closing, W!FiledBefore
  <2> QED
    BY <1>3, <2>1, <2>2 DEF NamedInv, Closing
<1> QED
  BY <1>2, <1>3

Doings == {W!Idle} \cup W!Turn \cup W!Command
Reminders == [of : Calls \cup {W!None}, again : BOOLEAN]

\* What a step that files nothing leaves to check of the types.
LEMMA ClosingType ==
    ASSUME W!DeferredCallsTypeOK, Closing, vault' = vault,
           doing' \in [Servers -> Doings], reminder' \in [Servers -> Reminders],
           named' \in Calls \cup {W!None},
           ended' \in [Calls -> {W!None, "returned", "raised"}], breaks' \in 0..MaxBreaks
    PROVE  W!DeferredCallsTypeOK'
BY DEF W!DeferredCallsTypeOK, Closing, Doings, Reminders

\* No call is started or ended, and no approval used up.
Calm ==
    /\ runs' = runs /\ ended' = ended
    /\ \A c \in Calls :
          (\/ status[c] \in {"consumed", "executed", "execution_failed"}
           \/ status'[c] \in {"consumed", "executed", "execution_failed"})
          => status'[c] = status[c]

LEMMA UseKept ==
    ASSUME CallsInv, Calm,
           \A s \in Servers : doing'[s] = doing[s] \/ doing'[s].at \notin {"invoke", "wait"}
    PROVE  CallUseInv' /\ W!RunsAsApproved' /\ runs' \in [Calls -> {0, 1}]
<1>1. CallUseInv'
  BY DEF CallsInv, CallUseInv, InUse, Calm
<1>2. W!RunsAsApproved'
  BY DEF CallsInv, W!RunsAsApproved, Calm
<1> QED
  BY <1>1, <1>2 DEF CallsInv, Calm

LEMMA CurrentCalm ==
    ASSUME W!DeferredCallsTypeOK, runs' = runs, ended' = ended,
           \/ status' = W!Current
           \/ status' = status
           \/ \E c \in Calls, verdict \in {"approved", "denied", "expired", "pending"} :
                 /\ status[c] \in {"none", "pending", "approved"}
                 /\ \/ status' = [W!Current EXCEPT ![c] = verdict]
                    \/ status' = [status EXCEPT ![c] = verdict]
    PROVE  Calm
BY CurrentStatus DEF Calm, W!DeferredCallsTypeOK

\* A process is given something else to do.
LEMMA DoingType ==
    ASSUME W!DeferredCallsTypeOK, NEW s \in Servers, NEW x \in Doings,
           doing' = [doing EXCEPT ![s] = x]
    PROVE  /\ doing' \in [Servers -> Doings] /\ doing'[s] = x
           /\ \A t \in Servers : t # s => doing'[t] = doing[t]
BY DEF W!DeferredCallsTypeOK, Doings

LEMMA IdleType == W!Idle \in Doings /\ W!Idle.at = "idle"
BY DEF Doings, W!Idle

LEMMA CommandType ==
    ASSUME NEW place \in {"run", "invoke", "wait"}, NEW c \in Calls, NEW progress \in BOOLEAN
    PROVE  [at |-> place, call |-> c, progress |-> progress] \in Doings
BY DEF Doings, W!Command

\* A process in the middle of a command knows its call.
LEMMA CommandFields ==
    ASSUME W!DeferredCallsTypeOK, NEW s \in Servers, doing[s].at \in {"run", "invoke", "wait"}
    PROVE  /\ doing[s].call \in Calls /\ doing[s].progress \in BOOLEAN
           /\ doing[s] = [at |-> doing[s].at, call |-> doing[s].call,
                          progress |-> doing[s].progress]
<1>1. doing[s] \in Doings
  BY DEF W!DeferredCallsTypeOK, Doings
<1>2. doing[s] \in W!Command
  BY <1>1 DEF Doings, W!Idle, W!Turn, W!Command
<1> QED
  BY <1>2 DEF W!Command

\* The part of the invariant that a step between two commands leaves to check.
LEMMA QuietStep ==
    ASSUME CallsInv, Closing, Calm, vault' = vault, misled' = {},
           \/ doing' = doing
           \/ \E s \in Servers, x \in Doings :
                 doing' = [doing EXCEPT ![s] = x] /\ x.at \notin {"invoke", "wait"},
           reminder' \in [Servers -> Reminders], breaks' \in 0..MaxBreaks,
           \/ named' = named
           \/ \E open \in SUBSET Calls :
                 /\ named' \in W!Chosen(open)
                 /\ \A d \in Calls : CallIsOpen(d)' => d \in open
                 /\ \A d \in open : status[d] # "none"
    PROVE  CallsInv'
<1>0. W!DeferredCallsTypeOK /\ NamedInv
  BY DEF CallsInv
<1>1. /\ doing' \in [Servers -> Doings]
      /\ \A s \in Servers : doing'[s] = doing[s] \/ doing'[s].at \notin {"invoke", "wait"}
  <2>1. CASE doing' = doing
    BY <1>0, <2>1 DEF W!DeferredCallsTypeOK, Doings
  <2>2. ASSUME NEW s \in Servers, NEW x \in Doings, doing' = [doing EXCEPT ![s] = x],
               x.at \notin {"invoke", "wait"}
        PROVE  /\ doing' \in [Servers -> Doings]
               /\ \A t \in Servers : doing'[t] = doing[t] \/ doing'[t].at \notin {"invoke", "wait"}
    BY <1>0, <2>2, DoingType
  <2> QED
    BY <2>1, <2>2
<1>2. CallUseInv' /\ W!RunsAsApproved' /\ runs' \in [Calls -> {0, 1}]
  BY <1>1, UseKept
<1>3. NamedInv' /\ named' \in Calls \cup {W!None}
  BY <1>0, NamedStep
<1>4. ended' \in [Calls -> {W!None, "returned", "raised"}]
  BY <1>0 DEF Calm, W!DeferredCallsTypeOK
<1>5. W!DeferredCallsTypeOK'
  BY <1>0, <1>1, <1>3, <1>4, ClosingType
<1> QED
  BY <1>2, <1>3, <1>5 DEF CallsInv

\* What is open is what the listing shows.
LEMMA PendingCalls ==
    ASSUME W!DeferredCallsTypeOK
    PROVE  /\ W!Pending \subseteq Calls
           /\ \A c \in W!Pending :
                 CallIsOpen(c) /\ status[c] = "pending" /\ W!Current[c] = "pending"
           /\ \A c \in Calls : CallIsOpen(c) => c \in W!Pending
BY CurrentStatus DEF W!Pending, CallIsOpen

\* A number decides the request that was named last while that one is open: of two open
\* requests the older one is named.
LEMMA AnswerHits ==
    ASSUME CallsInv, NEW c \in W!Chosen(W!Pending), W!Answered(c)
    PROVE  misled' = {} /\ c \in Calls /\ status[c] = "pending" /\ CallIsOpen(c)
<1>0. W!DeferredCallsTypeOK /\ NamedInv /\ misled = {}
  BY DEF CallsInv
<1>1. c \in W!Pending /\ \A d \in W!Pending : ~W!FiledBefore(d, c)
  BY DEF W!Chosen
<1>2. c \in Calls /\ status[c] = "pending" /\ CallIsOpen(c)
  BY <1>0, <1>1, PendingCalls
<1>3. ASSUME named # W!None, named # c, W!Current[named] = "pending" PROVE FALSE
  <2>1. named \in Calls
    BY <1>0, <1>3 DEF W!DeferredCallsTypeOK
  <2>2. named \in W!Pending /\ CallIsOpen(named) /\ status[named] # "none"
    BY <1>0, <1>3, <2>1, CurrentStatus, PendingCalls
  <2>3. ~W!FiledBefore(named, c) /\ ~W!FiledBefore(c, named)
    BY <1>0, <1>1, <1>2, <1>3, <2>2 DEF NamedInv
  <2>4. status[c] # "none"
    BY <1>2
  <2> QED
    BY <1>0, <1>2, <1>3, <2>1, <2>2, <2>3, <2>4, FiledInOrder
<1>4. misled' = {}
  BY <1>0, <1>3 DEF W!Answered
<1> QED
  BY <1>2, <1>4

\* The listings, the decisions and the ends of turns.
LEMMA QuietCalls ==
    ASSUME CallsInv, W!DeferredCallsAssumption, NEW s \in Servers,
           \/ W!StartTurn(s) \/ W!EndTurn(s) \/ W!ListAll(s) \/ W!BreaksOff(s)
           \/ W!AnswerYes(s) \/ W!AnswerNo(s) \/ W!ApproveLast(s)
           \/ \E c \in Calls : W!RunApproved(s, c) \/ W!Decide(s, c, "approved")
                                  \/ W!Decide(s, c, "denied")
    PROVE  CallsInv'
<1>0. /\ W!DeferredCallsTypeOK /\ misled = {} /\ reminder \in [Servers -> Reminders]
      /\ breaks \in 0..MaxBreaks /\ MaxBreaks \in Nat
  BY DEF CallsInv, W!DeferredCallsTypeOK, Reminders, W!DeferredCallsAssumption
<1>01. /\ W!Pending \subseteq Calls
       /\ \A c \in W!Pending : CallIsOpen(c) /\ status[c] = "pending" /\ W!Current[c] = "pending"
       /\ \A c \in Calls : CallIsOpen(c) => c \in W!Pending
  BY <1>0, PendingCalls
<1>02. /\ "approved" \in W!Statuses \ {"none", "pending"}
       /\ "denied" \in W!Statuses \ {"none", "pending"}
  BY DEF W!Statuses
\* What may be named: nothing new, or the oldest of those that stay open.
<1>03. ASSUME NEW open \in SUBSET W!Pending, W!NameFirst(open),
              \A d \in Calls : CallIsOpen(d)' => d \in open
       PROVE  \/ named' = named
              \/ \E some \in SUBSET Calls :
                    /\ named' \in W!Chosen(some)
                    /\ \A d \in Calls : CallIsOpen(d)' => d \in some
                    /\ \A d \in some : status[d] # "none"
  <2>1. CASE open = {}
    BY <1>03, <2>1 DEF W!NameFirst
  <2>2. CASE open # {}
    <3>1. named' \in W!Chosen(open)
      BY <1>03, <2>2 DEF W!NameFirst
    <3>2. open \in SUBSET Calls /\ \A d \in open : status[d] # "none"
      BY <1>01
    <3> QED
      BY <1>03, <3>1, <3>2
  <2> QED
    BY <2>1, <2>2
<1>1. CASE W!StartTurn(s)
  <2>1. [at |-> "turn", asked |-> {}] \in Doings
    BY DEF Doings, W!Turn
  <2>2. /\ filed' = filed /\ late' = late /\ status' = status /\ vault' = vault /\ runs' = runs
        /\ ended' = ended /\ misled' = misled /\ named' = named /\ reminder' = reminder
        /\ breaks' = breaks /\ doing' = [doing EXCEPT ![s] = [at |-> "turn", asked |-> {}]]
    BY <1>1 DEF W!StartTurn, W!store
  <2>3. Closing /\ Calm
    BY <1>0, <2>2, CurrentCloses, CurrentCalm
  <2> QED
    BY <1>0, <2>1, <2>2, <2>3, QuietStep
<1>2. CASE W!EndTurn(s)
  <2>1. /\ filed' = filed /\ late' = late /\ status' = W!Current /\ vault' = vault /\ runs' = runs
        /\ ended' = ended /\ misled' = misled /\ breaks' = breaks
        /\ doing' = [doing EXCEPT ![s] = W!Idle]
    BY <1>2 DEF W!EndTurn
  <2>2. Closing /\ Calm /\ \A d \in Calls : CallIsOpen(d)' => d \in W!Pending
    BY <1>0, <2>1, CurrentCloses, CurrentCalm DEF W!Pending
  <2>3. /\ reminder' \in [Servers -> Reminders]
        /\ named' = named \/ named' \in W!Chosen(W!Pending)
    <3>1. CASE UNCHANGED <<reminder, named>>
      BY <1>0, <3>1
    <3>2. CASE /\ reminder' = [reminder EXCEPT ![s] = [of |-> W!None, again |-> FALSE]]
               /\ named' = named
      BY <1>0, <3>2 DEF Reminders
    <3>3. ASSUME NEW c \in W!Chosen(W!Pending), NEW again \in BOOLEAN, named' = c,
                 reminder' = [reminder EXCEPT ![s] = [of |-> c, again |-> again]]
          PROVE  /\ reminder' \in [Servers -> Reminders]
                 /\ named' = named \/ named' \in W!Chosen(W!Pending)
      <4>1. c \in Calls
        BY <1>01 DEF W!Chosen
      <4> QED
        BY <1>0, <3>3, <4>1 DEF Reminders
    <3>4. ASSUME NEW c PROVE (c \notin doing[s].asked) \in BOOLEAN
      OBVIOUS
    <3> QED
      BY <1>2, <3>1, <3>2, <3>3, <3>4 DEF W!EndTurn
  <2>4. \A d \in W!Pending : status[d] # "none"
    BY <1>01
  <2> QED
    BY <1>0, <1>01, <2>1, <2>2, <2>3, <2>4, IdleType, QuietStep
<1>3. CASE W!ListAll(s)
  <2>1. /\ filed' = filed /\ late' = late /\ status' = W!Current /\ vault' = vault /\ runs' = runs
        /\ ended' = ended /\ misled' = misled /\ breaks' = breaks /\ doing' = doing
        /\ reminder' = reminder /\ W!NameFirst(W!Pending)
    BY <1>3 DEF W!ListAll
  <2>2. Closing /\ Calm /\ \A d \in Calls : CallIsOpen(d)' => d \in W!Pending
    BY <1>0, <2>1, CurrentCloses, CurrentCalm DEF W!Pending
  <2> QED
    BY <1>0, <1>03, <2>1, <2>2, QuietStep
<1>4. CASE W!BreaksOff(s)
  <2>1. /\ filed' = filed /\ late' = late /\ status' = status /\ vault' = vault /\ runs' = runs
        /\ ended' = ended /\ misled' = misled /\ breaks' \in 0..MaxBreaks
        /\ doing' = [doing EXCEPT ![s] = W!Idle] /\ reminder' = reminder /\ named' = named
    BY <1>0, <1>4 DEF W!BreaksOff, W!store
  <2>2. Closing /\ Calm
    BY <1>0, <2>1, CurrentCloses, CurrentCalm
  <2> QED
    BY <1>0, <2>1, <2>2, IdleType, QuietStep
<1>5. ASSUME NEW c \in W!Chosen(W!Pending), W!Answered(c), NEW verdict \in {"approved", "denied"},
             status' = [W!Current EXCEPT ![c] = verdict],
             UNCHANGED <<filed, late, vault, reminder, runs, ended, breaks>>,
             \/ doing' = doing /\ W!NameFirst(W!Pending \ {c})
             \/ /\ doing' = [doing EXCEPT ![s] = [at |-> "run", call |-> c, progress |-> TRUE]]
                /\ named' = named
      PROVE  CallsInv'
  <2>1. misled' = {} /\ c \in Calls /\ status[c] = "pending"
    BY <1>5, AnswerHits
  <2>2. Closing /\ Calm /\ \A d \in Calls : CallIsOpen(d)' =>
                               status'[d] = "pending" /\ W!Current[d] = "pending"
    BY <1>0, <1>02, <1>5, <2>1, CurrentCloses, CurrentCalm
  <2>3. \A d \in Calls : CallIsOpen(d)' => d \in W!Pending \ {c}
    <3>1. W!Current \in [Calls -> W!Statuses]
      BY <1>0, CurrentStatus
    <3>2. status'[c] # "pending"
      BY <1>5, <2>1, <3>1
    <3> QED
      BY <2>2, <3>2 DEF W!Pending
  <2>4. CASE doing' = doing /\ W!NameFirst(W!Pending \ {c})
    <3>1. W!Pending \ {c} \in SUBSET W!Pending
      OBVIOUS
    <3> QED
      BY <1>0, <1>03, <1>5, <2>1, <2>2, <2>3, <2>4, <3>1, QuietStep
  <2>5. CASE /\ doing' = [doing EXCEPT ![s] = [at |-> "run", call |-> c, progress |-> TRUE]]
             /\ named' = named
    <3>1. [at |-> "run", call |-> c, progress |-> TRUE] \in Doings
      BY <2>1, CommandType
    <3> QED
      BY <1>0, <1>5, <2>1, <2>2, <2>5, <3>1, QuietStep
  <2> QED
    BY <1>5, <2>4, <2>5
<1>6. CASE W!AnswerYes(s)
  BY <1>5, <1>6 DEF W!AnswerYes
<1>7. CASE W!AnswerNo(s)
  BY <1>5, <1>7 DEF W!AnswerNo
<1>8. ASSUME NEW c \in Calls, status[c] \in {"pending", "approved"},
             NEW verdict \in {"approved", "denied"},
             status' = [W!Current EXCEPT ![c] = verdict] \/ status' = status,
             UNCHANGED <<filed, late, vault, reminder, named, runs, ended, misled, breaks>>,
             \/ doing' = doing
             \/ doing' = [doing EXCEPT ![s] = [at |-> "run", call |-> c, progress |-> FALSE]]
      PROVE  CallsInv'
  <2>1. Closing /\ Calm
    BY <1>0, <1>02, <1>8, CurrentCloses, CurrentCalm
  <2>2. [at |-> "run", call |-> c, progress |-> FALSE] \in Doings
    BY CommandType
  <2> QED
    BY <1>0, <1>8, <2>1, <2>2, QuietStep
<1>9. CASE W!ApproveLast(s)
  <2>1. PICK c \in W!Newest(W!Pending) :
          /\ status' = [W!Current EXCEPT ![c] = "approved"]
          /\ doing' = [doing EXCEPT ![s] = [at |-> "run", call |-> c, progress |-> FALSE]]
    BY <1>9 DEF W!ApproveLast
  <2>2. c \in Calls /\ status[c] = "pending"
    BY <1>01 DEF W!Newest
  <2>3. UNCHANGED <<filed, late, vault, reminder, named, runs, ended, misled, breaks>>
    BY <1>9 DEF W!ApproveLast
  <2> QED
    BY <1>8, <2>1, <2>2, <2>3
<1>10. ASSUME NEW c \in Calls, W!RunApproved(s, c) PROVE CallsInv'
  BY <1>8, <1>10 DEF W!RunApproved, W!store
<1>11. ASSUME NEW c \in Calls, NEW verdict \in {"approved", "denied"}, W!Decide(s, c, verdict)
       PROVE  CallsInv'
  <2>1. status[c] = "pending"
    BY <1>0, <1>11, CurrentStatus DEF W!Decide, CallIsOpen
  <2> QED
    BY <1>8, <1>11, <2>1 DEF W!Decide
<1> QED
  BY <1>1, <1>2, <1>3, <1>4, <1>6, <1>7, <1>9, <1>10, <1>11

\* The time to live of a request is over.
LEMMA LapseStep ==
    ASSUME CallsInv, NEW c \in Calls, W!Lapses(c)
    PROVE  CallsInv'
<1>0. /\ W!DeferredCallsTypeOK /\ misled = {} /\ reminder \in [Servers -> Reminders]
      /\ breaks \in 0..MaxBreaks
  BY DEF CallsInv, W!DeferredCallsTypeOK, Reminders
<1>1. /\ status' = status /\ filed' = filed /\ late' = late \cup {c} /\ doing' = doing
      /\ UNCHANGED <<vault, reminder, named, runs, ended, misled, breaks>>
      /\ status[c] \in {"pending", "approved"}
  BY DEF W!Lapses
<1>2. Closing
  BY <1>0, <1>1 DEF Closing, W!DeferredCallsTypeOK, CallIsOpen
<1>3. Calm
  BY <1>0, <1>1, CurrentCalm
<1> QED
  BY <1>0, <1>1, <1>2, <1>3, QuietStep

\* A new request is the last; the one that was named stays the oldest.
LEMMA DeferStep ==
    ASSUME CallsInv, W!DeferredCallsAssumption, NEW s \in Servers, NEW c \in Calls,
           NEW kept \in BOOLEAN, W!Defer(s, c, kept)
    PROVE  CallsInv'
<1>0. /\ W!DeferredCallsTypeOK /\ misled = {} /\ NamedInv /\ MaxBreaks \in Nat
      /\ doing[s].at = "turn" /\ status[c] = "none"
  BY DEF CallsInv, W!Defer, W!DeferredCallsAssumption
<1>1. /\ filed' = Append(filed, c) /\ status' = [W!Current EXCEPT ![c] = "pending"]
      /\ late' = late /\ reminder' = reminder /\ named' = named /\ runs' = runs
      /\ ended' = ended /\ misled' = misled
  BY DEF W!Defer
<1>2. /\ W!Current \in [Calls -> W!Statuses]
      /\ \A d \in Calls :
            /\ W!Current[d] = "pending" <=> CallIsOpen(d)
            /\ W!Current[d] # status[d] => status[d] = "pending" /\ W!Current[d] = "expired"
  BY <1>0, CurrentStatus
<1>3. /\ filed' \in Seq(Calls) /\ W!IsInjective(filed')
      /\ W!ToSet(filed') = W!ToSet(filed) \cup {c}
      /\ \A d, e \in Calls : (e # c /\ W!FiledBefore(d, e)') => W!FiledBefore(d, e)
  BY <1>0, <1>1, FiledLast
<1>4. c \notin W!ToSet(filed) /\ late \subseteq W!ToSet(filed) /\ vault \subseteq W!ToSet(filed)
  BY <1>0 DEF W!DeferredCallsTypeOK
<1>5. /\ vault' \subseteq W!ToSet(filed) \cup {c} /\ breaks' \in 0..MaxBreaks
      /\ \E x \in Doings : doing' = [doing EXCEPT ![s] = x] /\ x.at \notin {"invoke", "wait"}
  <2>1. CASE kept
    <3>1. doing[s] \in W!Turn
      BY <1>0 DEF W!DeferredCallsTypeOK, W!Turn, W!Command, W!Idle
    <3> DEFINE x == [doing[s] EXCEPT !.asked = @ \cup {c}]
    <3>2. x \in W!Turn /\ x.at = "turn"
      BY <3>1 DEF W!Turn
    <3>3. vault' = vault \cup {c} /\ breaks' = breaks /\ doing' = [doing EXCEPT ![s] = x]
      BY <2>1 DEF W!Defer
    <3> HIDE DEF x
    <3>4. breaks' \in 0..MaxBreaks
      BY <1>0, <3>3 DEF W!DeferredCallsTypeOK
    <3>5. x \in Doings /\ x.at \notin {"invoke", "wait"}
      BY <3>2 DEF Doings
    <3> QED
      BY <1>4, <3>3, <3>4, <3>5
  <2>2. CASE ~kept
    <3>1. /\ vault' = vault /\ breaks < MaxBreaks /\ breaks' = breaks + 1
          /\ doing' = [doing EXCEPT ![s] = W!Idle]
      BY <2>2 DEF W!Defer
    <3>2. breaks' \in 0..MaxBreaks
      BY <1>0, <3>1 DEF W!DeferredCallsTypeOK
    <3> QED
      BY <1>4, <3>1, <3>2, IdleType
  <2> QED
    BY <2>1, <2>2
<1>6. PICK x \in Doings : doing' = [doing EXCEPT ![s] = x] /\ x.at \notin {"invoke", "wait"}
  BY <1>5
<1>7. doing' \in [Servers -> Doings] /\ \A t \in Servers :
          doing'[t] = doing[t] \/ doing'[t].at \notin {"invoke", "wait"}
  BY <1>0, <1>6, DoingType
<1>8. Calm
  BY <1>0, <1>1, CurrentCalm
<1>9. CallUseInv' /\ W!RunsAsApproved' /\ runs' \in [Calls -> {0, 1}]
  BY <1>7, <1>8, UseKept
<1>10. W!DeferredCallsTypeOK'
  <2>1. /\ status' \in [Calls -> W!Statuses]
        /\ \A d \in Calls : status'[d] = "none" <=> d \notin W!ToSet(filed')
    BY <1>0, <1>1, <1>2, <1>3, <1>4 DEF W!DeferredCallsTypeOK, W!Statuses
  <2>2. late' \subseteq W!ToSet(filed') /\ vault' \subseteq W!ToSet(filed')
    BY <1>1, <1>3, <1>4, <1>5
  <2>3. /\ doing' \in [Servers -> {W!Idle} \cup W!Turn \cup W!Command]
        /\ reminder' \in [Servers -> [of : Calls \cup {W!None}, again : BOOLEAN]]
        /\ named' \in Calls \cup {W!None} /\ ended' \in [Calls -> {W!None, "returned", "raised"}]
    BY <1>0, <1>1, <1>7 DEF W!DeferredCallsTypeOK, Doings
  <2> QED
    BY <1>3, <1>5, <2>1, <2>2, <2>3 DEF W!DeferredCallsTypeOK
<1>11. NamedInv'
  <2>1. ASSUME NEW e \in Calls, named = e, named # W!None
        PROVE  /\ status'[e] # "none"
               /\ CallIsOpen(e)' => \A d \in Calls : W!FiledBefore(d, e)' => ~CallIsOpen(d)'
    <3>1. e # c /\ status[e] # "none"
      BY <1>0, <2>1 DEF NamedInv, W!DeferredCallsTypeOK
    <3>2. /\ status'[e] # "none"
          /\ CallIsOpen(e)' => CallIsOpen(e)
          /\ \A d \in Calls : d # c /\ CallIsOpen(d)' => CallIsOpen(d)
      BY <1>0, <1>1, <1>2, <3>1 DEF CallIsOpen
    <3>3. ~W!FiledBefore(c, e)
      BY <1>4 DEF W!FiledBefore, W!ToSet
    <3>4. CallIsOpen(e) => \A d \in Calls : W!FiledBefore(d, e) => ~CallIsOpen(d)
      BY <1>0, <2>1, <3>1 DEF NamedInv, W!DeferredCallsTypeOK
    <3>5. \A d \in Calls : W!FiledBefore(d, e)' => W!FiledBefore(d, e) /\ d # c
      BY <1>3, <3>1, <3>3 DEF W!FiledBefore
    <3> QED
      BY <3>2, <3>4, <3>5
  <2>2. named' = named /\ (named # W!None => named \in Calls)
    BY <1>0, <1>1 DEF W!DeferredCallsTypeOK
  <2> QED
    BY <2>1, <2>2 DEF NamedInv, CallIsOpen, W!FiledBefore
<1> QED
  BY <1>0, <1>1, <1>9, <1>10, <1>11 DEF CallsInv

\* The end of a command: nothing is named, or the oldest of what is left.
LEMMA ReplyStep ==
    ASSUME CallsInv, NEW s \in Servers, doing[s].at \in {"run", "invoke", "wait"}, W!Reply(s),
           Closing, doing[s].progress => \A d \in Calls : CallIsOpen(d)' => W!Current[d] = "pending"
    PROVE  /\ NamedInv' /\ named' \in Calls \cup {W!None}
           /\ doing' = [doing EXCEPT ![s] = W!Idle]
<1>0. W!DeferredCallsTypeOK /\ NamedInv
  BY DEF CallsInv
<1>1. doing[s].progress \in BOOLEAN /\ doing' = [doing EXCEPT ![s] = W!Idle]
  BY <1>0, CommandFields DEF W!Reply
<1>2. /\ W!Pending \in SUBSET Calls
      /\ \A d \in W!Pending : status[d] # "none"
  BY <1>0, PendingCalls
<1>3. CASE named' = named
  BY <1>0, <1>1, <1>3, NamedStep
<1>4. CASE doing[s].progress /\ named' \in W!Chosen(W!Pending)
  <2>1. \A d \in Calls : CallIsOpen(d)' => d \in W!Pending
    BY <1>4 DEF W!Pending
  <2>2. NamedInv' /\ named' \in Calls \cup {W!None}
    BY <1>0, <1>2, <1>4, <2>1, NamedStep
  <2> QED
    BY <1>1, <2>2
<1> QED
  BY <1>1, <1>3, <1>4 DEF W!Reply, W!NameFirst

\* An approval is used up by one process, or is there no more.
LEMMA ConsumeStep ==
    ASSUME CallsInv, W!DeferredCallsAssumption, NEW s \in Servers, W!Consume(s)
    PROVE  CallsInv'
<1>0. /\ W!DeferredCallsTypeOK /\ misled = {} /\ NamedInv /\ doing[s].at = "run"
      /\ breaks \in 0..MaxBreaks /\ ended \in [Calls -> {W!None, "returned", "raised"}]
      /\ reminder \in [Servers -> Reminders] /\ runs \in [Calls -> {0, 1}]
  BY DEF CallsInv, W!Consume, W!DeferredCallsTypeOK, Reminders
<1> DEFINE c == doing[s].call
<1>1. /\ c \in Calls /\ doing[s].progress \in BOOLEAN
      /\ doing[s] = [at |-> "run", call |-> c, progress |-> doing[s].progress]
  BY <1>0, CommandFields
<1>2. /\ filed' = filed /\ late' = late /\ vault' = vault /\ reminder' = reminder /\ runs' = runs
      /\ ended' = ended /\ misled' = misled /\ breaks' = breaks
  BY DEF W!Consume
<1>3. CASE W!Usable(c)
  <2> DEFINE x == [at |-> "invoke", call |-> c, progress |-> doing[s].progress]
  <2>1. /\ status' = [status EXCEPT ![c] = "consumed"] /\ named' = named
        /\ doing' = [doing EXCEPT ![s] = [doing[s] EXCEPT !.at = "invoke"]]
        /\ status[c] = "approved"
    BY <1>3 DEF W!Consume, W!Usable
  <2>2. x \in Doings /\ x.at = "invoke" /\ x.call = c /\ [doing[s] EXCEPT !.at = "invoke"] = x
    BY <1>1, CommandType
  <2> HIDE DEF x, c
  <2>3. doing' = [doing EXCEPT ![s] = x]
    BY <2>1, <2>2
  <2>4. /\ doing' \in [Servers -> Doings] /\ doing'[s] = x
        /\ \A t \in Servers : t # s => doing'[t] = doing[t]
    BY <1>0, <2>2, <2>3, DoingType
  <2>5. Closing
    BY <1>0, <1>1, <1>2, <2>1, CurrentCloses DEF W!Statuses
  <2>6. W!DeferredCallsTypeOK'
    BY <1>0, <1>2, <2>1, <2>4, <2>5, ClosingType DEF W!DeferredCallsTypeOK
  <2>7. NamedInv'
    BY <1>0, <2>1, <2>5, NamedStep
  <2>8. runs[c] = 0 /\ \A t \in Servers : ~InUse(t, c)
    BY <1>0, <1>1, <2>1 DEF CallsInv, W!RunsAsApproved, CallUseInv
  <2>9. \A d \in Calls : status'[d] = IF d = c THEN "consumed" ELSE status[d]
    BY <1>0, <1>1, <2>1 DEF W!DeferredCallsTypeOK
  <2>10. CallUseInv'
    <3> SUFFICES ASSUME NEW t \in Servers, NEW d \in Calls, InUse(t, d)'
                 PROVE  /\ status'[d] = "consumed"
                        /\ runs'[d] = IF doing'[t].at = "invoke" THEN 0 ELSE 1
                        /\ \A u \in Servers : InUse(u, d)' => u = t
      BY DEF CallUseInv
    <3>1. CASE t = s
      BY <1>2, <2>2, <2>4, <2>8, <2>9, <3>1 DEF InUse
    <3>2. CASE t # s
      <4>1. InUse(t, d) /\ d # c
        BY <2>4, <2>8, <3>2 DEF InUse
      <4>2. ~InUse(s, d)'
        BY <2>2, <2>4, <4>1 DEF InUse
      <4>3. /\ status[d] = "consumed" /\ runs[d] = IF doing[t].at = "invoke" THEN 0 ELSE 1
            /\ \A u \in Servers : InUse(u, d) => u = t
        BY <4>1 DEF CallsInv, CallUseInv
      <4>4. \A u \in Servers : u # s /\ InUse(u, d)' => u = t
        BY <2>4, <4>3 DEF InUse
      <4> QED
        BY <1>2, <2>4, <2>9, <3>2, <4>1, <4>2, <4>3, <4>4
    <3> QED
      BY <3>1, <3>2
  <2>11. W!RunsAsApproved'
    BY <1>2, <2>9 DEF CallsInv, W!RunsAsApproved
  <2> QED
    BY <1>0, <1>2, <2>6, <2>7, <2>10, <2>11 DEF CallsInv
<1>4. CASE ~W!Usable(c)
  <2>1. /\ status' = [W!Listed(s) EXCEPT ![c] = IF @ = "approved" THEN "expired" ELSE @]
        /\ W!Reply(s)
    BY <1>4 DEF W!Consume
  <2> HIDE DEF c
  <2>2. /\ W!Listed(s) \in [Calls -> W!Statuses]
        /\ W!Listed(s) = status \/ W!Listed(s) = W!Current
        /\ doing[s].progress => W!Listed(s) = W!Current
    BY <1>0, CurrentStatus DEF W!Listed, W!DeferredCallsTypeOK
  <2>3. \/ W!Listed(s)[c] # "approved" /\ status' = W!Listed(s)
        \/ /\ W!Listed(s)[c] = "approved" /\ status[c] = "approved"
           /\ status' = [W!Listed(s) EXCEPT ![c] = "expired"]
    BY <1>0, <1>1, <2>1, <2>2, CurrentStatus
  <2>4. Closing /\ Calm /\ \A d \in Calls : CallIsOpen(d)' => W!Current[d] = "pending"
    BY <1>0, <1>1, <1>2, <2>2, <2>3, CurrentCloses, CurrentCalm DEF W!Statuses
  <2>5. /\ NamedInv' /\ named' \in Calls \cup {W!None}
        /\ doing' = [doing EXCEPT ![s] = W!Idle]
    BY <1>0, <2>1, <2>4, ReplyStep
  <2>6. /\ doing' \in [Servers -> Doings]
        /\ \A t \in Servers : doing'[t] = doing[t] \/ doing'[t].at \notin {"invoke", "wait"}
    BY <1>0, <2>5, DoingType, IdleType
  <2>7. CallUseInv' /\ W!RunsAsApproved' /\ runs' \in [Calls -> {0, 1}]
    BY <2>4, <2>6, UseKept
  <2>8. W!DeferredCallsTypeOK'
    BY <1>0, <1>2, <2>4, <2>5, <2>6, ClosingType
  <2> QED
    BY <1>0, <1>2, <2>5, <2>7, <2>8 DEF CallsInv
<1> QED
  BY <1>3, <1>4

LEMMA InvokeStep ==
    ASSUME CallsInv, W!DeferredCallsAssumption, NEW s \in Servers, W!Invoke(s)
    PROVE  CallsInv'
<1>0. /\ W!DeferredCallsTypeOK /\ misled = {} /\ NamedInv /\ doing[s].at = "invoke"
      /\ runs \in [Calls -> {0, 1}]
  BY DEF CallsInv, W!Invoke
<1> DEFINE c == doing[s].call
           x == [at |-> "wait", call |-> c, progress |-> doing[s].progress]
<1>1. /\ c \in Calls /\ doing[s].progress \in BOOLEAN
      /\ doing[s] = [at |-> "invoke", call |-> c, progress |-> doing[s].progress]
  BY <1>0, CommandFields
<1>2. /\ filed' = filed /\ late' = late /\ vault' = vault /\ reminder' = reminder
      /\ status' = status /\ ended' = ended /\ misled' = misled /\ breaks' = breaks
      /\ named' = named /\ runs' = [runs EXCEPT ![c] = @ + 1]
      /\ doing' = [doing EXCEPT ![s] = [doing[s] EXCEPT !.at = "wait"]]
  BY DEF W!Invoke, W!store
<1>3. x \in Doings /\ x.at = "wait" /\ x.call = c /\ [doing[s] EXCEPT !.at = "wait"] = x
  BY <1>1, CommandType
<1>4. InUse(s, c)
  BY <1>0 DEF InUse
<1> HIDE DEF x, c
<1>5. /\ status[c] = "consumed" /\ runs[c] = 0 /\ \A t \in Servers : InUse(t, c) => t = s
  BY <1>0, <1>1, <1>4 DEF CallsInv, CallUseInv
<1>6. doing' = [doing EXCEPT ![s] = x]
  BY <1>2, <1>3
<1>7. /\ doing' \in [Servers -> Doings] /\ doing'[s] = x
      /\ \A t \in Servers : t # s => doing'[t] = doing[t]
  BY <1>0, <1>3, <1>6, DoingType
<1>8. runs' \in [Calls -> {0, 1}] /\ runs'[c] = 1 /\ \A d \in Calls : d # c => runs'[d] = runs[d]
  BY <1>0, <1>1, <1>2, <1>5
<1>9. Closing
  BY <1>0, <1>2, CurrentCloses
<1>10. W!DeferredCallsTypeOK'
  BY <1>0, <1>2, <1>7, <1>9, ClosingType DEF W!DeferredCallsTypeOK, Reminders
<1>11. NamedInv'
  BY <1>0, <1>2, <1>9, NamedStep
<1>12. CallUseInv'
  <2> SUFFICES ASSUME NEW t \in Servers, NEW d \in Calls, InUse(t, d)'
               PROVE  /\ status'[d] = "consumed"
                      /\ runs'[d] = IF doing'[t].at = "invoke" THEN 0 ELSE 1
                      /\ \A u \in Servers : InUse(u, d)' => u = t
    BY DEF CallUseInv
  <2>1. \A u \in Servers : InUse(u, d)' => InUse(u, d)
    BY <1>3, <1>4, <1>7 DEF InUse
  <2>2. /\ status[d] = "consumed" /\ runs[d] = IF doing[t].at = "invoke" THEN 0 ELSE 1
        /\ \A u \in Servers : InUse(u, d) => u = t
    BY <2>1 DEF CallsInv, CallUseInv
  <2>3. CASE t = s
    <3>1. d = c
      BY <1>3, <1>7, <2>3 DEF InUse
    <3> QED
      BY <1>2, <1>3, <1>7, <1>8, <2>1, <2>2, <2>3, <3>1
  <2>4. CASE t # s
    <3>1. d # c
      BY <1>5, <2>1, <2>4
    <3> QED
      BY <1>2, <1>7, <1>8, <2>1, <2>2, <2>4, <3>1
  <2> QED
    BY <2>3, <2>4
<1>13. W!RunsAsApproved'
  BY <1>2, <1>5, <1>8 DEF CallsInv, W!RunsAsApproved
<1> QED
  BY <1>0, <1>2, <1>8, <1>10, <1>11, <1>12, <1>13 DEF CallsInv

LEMMA ToolEndsStep ==
    ASSUME CallsInv, W!DeferredCallsAssumption, NEW s \in Servers,
           NEW how \in {"returned", "raised"}, W!ToolEnds(s, how)
    PROVE  CallsInv'
<1>0. /\ W!DeferredCallsTypeOK /\ misled = {} /\ NamedInv /\ doing[s].at = "wait"
      /\ breaks \in 0..MaxBreaks /\ ended \in [Calls -> {W!None, "returned", "raised"}]
      /\ reminder \in [Servers -> Reminders] /\ runs \in [Calls -> {0, 1}]
      /\ status \in [Calls -> W!Statuses] /\ late \subseteq W!ToSet(filed)
  BY DEF CallsInv, W!ToolEnds, W!DeferredCallsTypeOK, Reminders
<1> DEFINE c == doing[s].call
           end == IF how = "returned" THEN "executed" ELSE "execution_failed"
<1>1. c \in Calls /\ doing[s].progress \in BOOLEAN
  BY <1>0, CommandFields
<1>2. /\ filed' = filed /\ late' = late /\ vault' = vault /\ reminder' = reminder /\ runs' = runs
      /\ misled' = misled /\ breaks' = breaks /\ ended' = [ended EXCEPT ![c] = how]
      /\ status' = [W!Listed(s) EXCEPT ![c] = IF @ # "consumed" THEN @ ELSE end]
      /\ W!Reply(s)
  BY DEF W!ToolEnds
<1>3. InUse(s, c)
  BY <1>0 DEF InUse
<1>4. \/ how = "returned" /\ end = "executed"
      \/ how = "raised" /\ end = "execution_failed"
  OBVIOUS
<1> HIDE DEF c, end
<1>5. /\ status[c] = "consumed" /\ runs[c] = 1 /\ \A t \in Servers : InUse(t, c) => t = s
  BY <1>0, <1>1, <1>3 DEF CallsInv, CallUseInv
<1>6. /\ W!Current \in [Calls -> W!Statuses]
      /\ \A d \in Calls :
            /\ W!Current[d] = "pending" <=> CallIsOpen(d)
            /\ W!Current[d] # status[d] => status[d] = "pending" /\ W!Current[d] = "expired"
  BY <1>0, CurrentStatus
<1>7. /\ W!Listed(s) = status \/ W!Listed(s) = W!Current
      /\ doing[s].progress => W!Listed(s) = W!Current
  BY <1>1 DEF W!Listed
<1>8. W!Listed(s)[c] = "consumed"
  BY <1>1, <1>5, <1>6, <1>7
<1>9. status' = [W!Listed(s) EXCEPT ![c] = end]
  BY <1>2, <1>8
<1>10. end \in W!Statuses \ {"none", "pending"}
  BY <1>4 DEF W!Statuses
<1>11. Closing /\ \A d \in Calls : CallIsOpen(d)' => W!Current[d] = "pending"
  <2>1. status[c] # "none"
    BY <1>5
  <2>2. status' = [status EXCEPT ![c] = end] \/ status' = [W!Current EXCEPT ![c] = end]
    BY <1>7, <1>9
  <2> QED
    BY <1>0, <1>1, <1>2, <1>10, <2>1, <2>2, CurrentCloses
<1>12. /\ NamedInv' /\ named' \in Calls \cup {W!None}
       /\ doing' = [doing EXCEPT ![s] = W!Idle]
  BY <1>0, <1>2, <1>11, ReplyStep
<1>13. /\ doing' \in [Servers -> Doings] /\ doing'[s] = W!Idle
       /\ \A t \in Servers : t # s => doing'[t] = doing[t]
  BY <1>0, <1>12, DoingType, IdleType
<1>14. ended' \in [Calls -> {W!None, "returned", "raised"}] /\ ended'[c] = how
       /\ \A d \in Calls : d # c => ended'[d] = ended[d]
  BY <1>0, <1>1, <1>2
<1>15. W!DeferredCallsTypeOK'
  BY <1>0, <1>2, <1>11, <1>12, <1>13, <1>14, ClosingType
<1>16. /\ status'[c] = end
       /\ \A d \in Calls : d # c =>
             \/ status'[d] = status[d]
             \/ status[d] = "pending" /\ status'[d] = "expired"
  BY <1>0, <1>1, <1>6, <1>7, <1>9
<1>17. CallUseInv'
  <2> SUFFICES ASSUME NEW t \in Servers, NEW d \in Calls, InUse(t, d)'
               PROVE  /\ status'[d] = "consumed"
                      /\ runs'[d] = IF doing'[t].at = "invoke" THEN 0 ELSE 1
                      /\ \A u \in Servers : InUse(u, d)' => u = t
    BY DEF CallUseInv
  <2>1. \A u \in Servers : InUse(u, d)' => u # s /\ InUse(u, d)
    BY <1>13, IdleType DEF InUse
  <2>2. /\ status[d] = "consumed" /\ runs[d] = IF doing[t].at = "invoke" THEN 0 ELSE 1
        /\ \A u \in Servers : InUse(u, d) => u = t
    BY <2>1 DEF CallsInv, CallUseInv
  <2>3. d # c
    BY <1>5, <2>1
  <2> QED
    BY <1>2, <1>13, <1>16, <2>1, <2>2, <2>3
<1>18. W!RunsAsApproved'
  BY <1>2, <1>4, <1>5, <1>14, <1>16 DEF CallsInv, W!RunsAsApproved
<1> QED
  BY <1>0, <1>2, <1>12, <1>15, <1>17, <1>18 DEF CallsInv

LEMMA CallsStart ==
    ASSUME W!DeferredCallsInit, W!DeferredCallsAssumption
    PROVE  CallsInv
<1>1. /\ filed = <<>> /\ late = {} /\ vault = {} /\ status = [c \in Calls |-> "none"]
      /\ doing = [s \in Servers |-> W!Idle] /\ named = W!None /\ misled = {} /\ breaks = 0
      /\ reminder = [s \in Servers |-> [of |-> W!None, again |-> FALSE]]
      /\ runs = [c \in Calls |-> 0] /\ ended = [c \in Calls |-> W!None]
  BY DEF W!DeferredCallsInit
<1>2. filed \in Seq(Calls) /\ W!IsInjective(filed) /\ W!ToSet(filed) = {}
  BY <1>1 DEF W!IsInjective, W!ToSet
<1>3. W!DeferredCallsTypeOK
  BY <1>1, <1>2 DEF W!DeferredCallsAssumption, W!DeferredCallsTypeOK, W!Statuses
<1>4. CallUseInv /\ W!RunsAsApproved /\ NamedInv /\ runs \in [Calls -> {0, 1}]
  BY <1>1, IdleType DEF CallUseInv, InUse, W!RunsAsApproved, NamedInv
<1> QED
  BY <1>1, <1>3, <1>4 DEF CallsInv

LEMMA CallsStep ==
    ASSUME CallsInv, W!DeferredCallsAssumption, W!CallsNext
    PROVE  CallsInv'
BY LapseStep, QuietCalls, DeferStep, ConsumeStep, InvokeStep, ToolEndsStep DEF W!CallsNext

LEMMA CallsStay ==
    ASSUME CallsInv, UNCHANGED callVars
    PROVE  CallsInv'
BY DEF callVars, CallsInv, W!DeferredCallsTypeOK, CallUseInv, InUse, W!RunsAsApproved, NamedInv,
       CallIsOpen, W!FiledBefore

\* The calls of tools that wait for the user's consent (plugins/status_commands/plugin.py,
\* agent/tool_hooks/executor.py): whatever requests are filed, listed, answered by a number,
\* named in a command, overtaken by another process, stopped or late, a tool is invoked at
\* most once for a request, after its approval was used up for it; what is recorded of its
\* end is what happened; and a number decides the request that was named last as the
\* current one, as long as that one is open.
THEOREM ApprovedRunOnce == ToolsSpec => []ApprovedCallsRunOnce
<1> DEFINE Inv == part = "calls" => CallsInv
<1>1. ToolsInit => Inv
  BY CallsStart, ToolsAssumption DEF ToolsInit
<1>2. Inv /\ [ToolsNext]_<<part, allParts>> => Inv'
  <2> SUFFICES ASSUME Inv, part' = "calls", [ToolsNext]_<<part, allParts>>
               PROVE  CallsInv'
    OBVIOUS
  <2>1. part = "calls" /\ (W!CallsNext \/ UNCHANGED callVars)
    BY DEF ToolsNext, allParts
  <2> QED
    BY <2>1, CallsStep, CallsStay, ToolsAssumption
<1>3. Inv => ApprovedCallsRunOnce
  BY DEF CallsInv, ApprovedCallsRunOnce, W!AnswerIsToWhatWasShown
<1> QED
  BY <1>1, <1>2, <1>3, PTL DEF ToolsSpec

-------------------------------------------------------------------------------
(* MCP servers *)

Living(c) == conn[c].at \in {"connecting", "up", "closing"}

\* What a name is connected to is up and of that name, and its tools are the ones offered.
ClientInv ==
    /\ served = client
    /\ \A n \in Names : client[n] # M!None =>
          conn[client[n]].at = "up" /\ conn[client[n]].name = n

\* Connections that are made, used or closed have a child; two of one name at once are known.
ConnInv ==
    \A c \in M!Conns :
        /\ conn[c].at # "none" => conn[c].name \in Names
        /\ Living(c) => c \in children /\ up
        /\ c \in children => conn[c].at # "none"
        /\ \A d \in M!Conns :
              (/\ c # d /\ conn[c].name = conn[d].name
               /\ {conn[c].at, conn[d].at} \subseteq {"connecting", "up"})
              => conn[c].name \in doubled

\* What the user wants is connected, or a start has not reached it yet.
WantedInv ==
    /\ up => wanted \subseteq M!Listed \cup unreached
    /\ ~up => booting = {}

\* The inductive invariant.
ServersInv ==
    /\ M!McpServersTypeOK /\ M!OnlyUnreachedIsForgotten /\ M!ChildrenAreTracked
    /\ ClientInv /\ ConnInv /\ WantedInv

\* A connection goes on to the next place; the others stay where they are.
LEMMA ConnMoves ==
    ASSUME M!McpServersTypeOK, NEW c \in M!Conns,
           NEW place \in {"connecting", "up", "closing", "over"}, M!Goto(c, place)
    PROVE  /\ conn' \in [M!Conns -> [at : {"none", "connecting", "up", "closing", "over"},
                                     name : Names \cup {"-"}, by : {"add", "boot", "-"}]]
           /\ conn'[c].at = place /\ conn'[c].name = conn[c].name
           /\ \A d \in M!Conns : d # c => conn'[d] = conn[d]
BY DEF M!McpServersTypeOK, M!Goto

\* A connection starts, under a name that had one or had none.
LEMMA ConnOpens ==
    ASSUME M!McpServersTypeOK, ConnInv, NEW n \in Names, NEW by \in {"add", "boot"},
           M!Opens(n, by), up, up' = up, client' = client, served' = served, dropped' = dropped,
           ClientInv, M!ChildrenAreTracked
    PROVE  /\ conn' \in [M!Conns -> [at : {"none", "connecting", "up", "closing", "over"},
                                     name : Names \cup {"-"}, by : {"add", "boot", "-"}]]
           /\ children' \subseteq M!Conns
           /\ ConnInv' /\ ClientInv' /\ M!ChildrenAreTracked'
<1>1. PICK c \in M!Conns :
        /\ conn[c].at = "none"
        /\ conn' = [conn EXCEPT ![c] = [at |-> "connecting", name |-> n, by |-> by]]
        /\ children' = children \cup {c}
        /\ doubled' = doubled \cup {m \in {n} : M!Under(n) # {}}
  BY DEF M!Opens, M!At
<1>2. /\ conn' \in [M!Conns -> [at : {"none", "connecting", "up", "closing", "over"},
                                name : Names \cup {"-"}, by : {"add", "boot", "-"}]]
      /\ conn'[c].at = "connecting" /\ conn'[c].name = n
      /\ \A d \in M!Conns : d # c => conn'[d] = conn[d]
  BY <1>1 DEF M!McpServersTypeOK
<1>3. /\ children \subseteq M!Conns /\ client \in [Names -> M!Conns \cup {M!None}]
      /\ doubled \subseteq doubled'
      /\ M!Under(n) # {} => n \in doubled'
  BY <1>1 DEF M!McpServersTypeOK
<1>4. ASSUME NEW d \in M!Conns, NEW e \in M!Conns, d # e, conn'[d].name = conn'[e].name,
             {conn'[d].at, conn'[e].at} \subseteq {"connecting", "up"}
      PROVE  conn'[d].name \in doubled'
  <2>1. ASSUME NEW f \in M!Conns, f # c, conn'[f].name = n,
               conn'[f].at \in {"connecting", "up"}
        PROVE  n \in doubled'
    BY <1>2, <1>3, <2>1 DEF M!Under
  <2>2. CASE d = c
    BY <1>2, <1>4, <2>1, <2>2
  <2>3. CASE e = c
    BY <1>2, <1>4, <2>1, <2>3
  <2>4. CASE d # c /\ e # c
    BY <1>2, <1>3, <1>4, <2>4 DEF ConnInv
  <2> QED
    BY <2>2, <2>3, <2>4
<1>5. ConnInv'
  <2>1. ASSUME NEW d \in M!Conns
        PROVE  /\ conn'[d].at # "none" => conn'[d].name \in Names
               /\ conn'[d].at \in {"connecting", "up", "closing"} => d \in children' /\ up'
               /\ d \in children' => conn'[d].at # "none"
    BY <1>1, <1>2 DEF ConnInv, Living
  <2> QED
    BY <1>4, <2>1 DEF ConnInv, Living
<1>6. ClientInv'
  <2>1. ASSUME NEW m \in Names, client[m] # M!None
        PROVE  conn'[client[m]].at = "up" /\ conn'[client[m]].name = m
    BY <1>1, <1>2, <1>3, <2>1 DEF ClientInv
  <2> QED
    BY <2>1 DEF ClientInv
<1>7. M!ChildrenAreTracked'
  <2>1. ASSUME NEW d \in children'
        PROVE  \/ conn'[d].at \in {"connecting", "closing"} \/ client'[conn'[d].name] = d
               \/ d \in dropped' \/ conn'[d].name \in doubled'
    BY <1>1, <1>2, <1>3, <2>1 DEF M!ChildrenAreTracked
  <2> QED
    BY <2>1 DEF M!ChildrenAreTracked
<1> QED
  BY <1>1, <1>2, <1>3, <1>5, <1>6, <1>7

\* The tools have their servers by the two parts of the invariant.
LEMMA ClientsHaveChildren ==
    ASSUME M!McpServersTypeOK, ClientInv, ConnInv
    PROVE  M!ToolsHaveServers
<1>1. ASSUME NEW n \in Names, client[n] # M!None
      PROVE  client[n] \in children /\ conn[client[n]].name = n
  <2>1. client[n] \in M!Conns /\ conn[client[n]].at = "up" /\ conn[client[n]].name = n
    BY <1>1 DEF M!McpServersTypeOK, ClientInv
  <2> QED
    BY <2>1 DEF ConnInv, Living
<1> QED
  BY <1>1 DEF M!ToolsHaveServers, ClientInv

LEMMA OpenSteps ==
    ASSUME ServersInv, NEW n \in Names, M!BootConnects(n) \/ M!Add(n)
    PROVE  ServersInv'
<1>0. /\ M!McpServersTypeOK /\ M!OnlyUnreachedIsForgotten /\ M!ChildrenAreTracked
      /\ ClientInv /\ ConnInv /\ WantedInv
  BY DEF ServersInv
<1>1. /\ up /\ up' = up /\ saved' = saved /\ client' = client /\ served' = served /\ stops' = stops
      /\ wanted' = wanted /\ unreached' = unreached /\ dropped' = dropped
      /\ booting' \subseteq Names
      /\ M!Opens(n, "boot") \/ M!Opens(n, "add")
  BY <1>0 DEF M!BootConnects, M!Add, WantedInv, M!McpServersTypeOK
<1>2. /\ conn' \in [M!Conns -> [at : {"none", "connecting", "up", "closing", "over"},
                                name : Names \cup {"-"}, by : {"add", "boot", "-"}]]
      /\ children' \subseteq M!Conns
      /\ ConnInv' /\ ClientInv' /\ M!ChildrenAreTracked'
  BY <1>0, <1>1, ConnOpens
<1>3. M!McpServersTypeOK'
  BY <1>0, <1>1, <1>2 DEF M!McpServersTypeOK
<1>4. M!OnlyUnreachedIsForgotten'
  BY <1>0, <1>1 DEF M!OnlyUnreachedIsForgotten
<1>5. WantedInv'
  BY <1>0, <1>1 DEF WantedInv, M!Listed
<1> QED
  BY <1>2, <1>3, <1>4, <1>5 DEF ServersInv

\* A connection ends, with its child or without.
LEMMA EndSteps ==
    ASSUME ServersInv, NEW c \in M!Conns,
           \/ M!ConnectFails(c) \/ M!AddCancelled(c)
           \/ \E cancelled \in BOOLEAN : M!Removed(c, cancelled)
    PROVE  ServersInv'
<1>0. /\ M!McpServersTypeOK /\ M!OnlyUnreachedIsForgotten /\ M!ChildrenAreTracked
      /\ ClientInv /\ ConnInv /\ WantedInv
  BY DEF ServersInv
<1>1. /\ conn[c].at \in {"connecting", "closing"} /\ M!Goto(c, "over")
      /\ up' = up /\ client' = client /\ served' = served /\ booting' = booting
      /\ stops' = stops /\ wanted' = wanted /\ doubled' = doubled
      /\ \/ children' = children \ {c} /\ dropped' = dropped
         \/ children' = children /\ dropped' = dropped \cup {c}
      /\ \/ saved' = saved /\ unreached' = unreached
         \/ /\ saved' = saved \/ saved' = M!Listed
            /\ unreached' = unreached \ (saved' \cap M!Listed)
  BY DEF M!ConnectFails, M!AddCancelled, M!Removed, M!At, M!Save
<1>2. /\ conn' \in [M!Conns -> [at : {"none", "connecting", "up", "closing", "over"},
                                name : Names \cup {"-"}, by : {"add", "boot", "-"}]]
      /\ conn'[c].at = "over" /\ conn'[c].name = conn[c].name
      /\ \A d \in M!Conns : d # c => conn'[d] = conn[d]
  BY <1>0, <1>1, ConnMoves
<1>3. M!Listed \subseteq Names /\ M!Listed' = M!Listed
  BY <1>1 DEF M!Listed
<1>4. children \subseteq M!Conns /\ children' \subseteq children
  BY <1>0, <1>1 DEF M!McpServersTypeOK
<1>5. M!McpServersTypeOK'
  BY <1>0, <1>1, <1>2, <1>3 DEF M!McpServersTypeOK
<1>6. ConnInv'
  <2>1. ASSUME NEW d \in M!Conns
        PROVE  /\ conn'[d].at # "none" => conn'[d].name \in Names
               /\ conn'[d].at \in {"connecting", "up", "closing"} => d \in children' /\ up'
               /\ d \in children' => conn'[d].at # "none"
    BY <1>0, <1>1, <1>2, <1>4 DEF ConnInv, Living
  <2>2. ASSUME NEW d \in M!Conns, NEW e \in M!Conns, d # e, conn'[d].name = conn'[e].name,
               {conn'[d].at, conn'[e].at} \subseteq {"connecting", "up"}
        PROVE  conn'[d].name \in doubled'
    <3>1. d # c /\ e # c
      BY <1>2, <2>2
    <3> QED
      BY <1>0, <1>1, <1>2, <2>2, <3>1 DEF ConnInv
  <2> QED
    BY <2>1, <2>2 DEF ConnInv, Living
<1>7. ClientInv'
  <2>1. ASSUME NEW n \in Names, client[n] # M!None
        PROVE  conn'[client[n]].at = "up" /\ conn'[client[n]].name = n
    <3>1. client[n] \in M!Conns /\ client[n] # c
      BY <1>0, <1>1, <2>1 DEF M!McpServersTypeOK, ClientInv
    <3> QED
      BY <1>0, <1>2, <2>1, <3>1 DEF ClientInv
  <2> QED
    BY <1>0, <1>1, <2>1 DEF ClientInv
<1>8. M!ChildrenAreTracked'
  <2>1. ASSUME NEW d \in children'
        PROVE  \/ conn'[d].at \in {"connecting", "closing"} \/ client'[conn'[d].name] = d
               \/ d \in dropped' \/ conn'[d].name \in doubled'
    BY <1>0, <1>1, <1>2, <1>4, <2>1 DEF M!ChildrenAreTracked
  <2> QED
    BY <2>1 DEF M!ChildrenAreTracked
<1>9. M!OnlyUnreachedIsForgotten'
  <2>1. wanted \subseteq M!Listed \cup unreached
    BY <1>0, <1>1 DEF ConnInv, Living, WantedInv
  <2> QED
    BY <1>0, <1>1, <2>1 DEF M!OnlyUnreachedIsForgotten
<1>10. WantedInv'
  BY <1>0, <1>1, <1>3 DEF WantedInv
<1> QED
  BY <1>5, <1>6, <1>7, <1>8, <1>9, <1>10 DEF ServersInv

LEMMA ConnectedStep ==
    ASSUME ServersInv, NEW c \in M!Conns, M!Connected(c)
    PROVE  ServersInv'
<1>0. /\ M!McpServersTypeOK /\ M!OnlyUnreachedIsForgotten /\ M!ChildrenAreTracked
      /\ ClientInv /\ ConnInv /\ WantedInv
  BY DEF ServersInv
<1> DEFINE n == conn[c].name
<1>1. /\ conn[c].at = "connecting" /\ M!Goto(c, "up")
      /\ client' = [client EXCEPT ![n] = c] /\ served' = [served EXCEPT ![n] = c]
      /\ \/ saved' = saved /\ wanted' = wanted
         \/ /\ saved' = saved \/ saved' = M!Listed \cup {n}
            /\ wanted' = IF saved' = saved /\ n \notin saved THEN wanted ELSE wanted \cup {n}
      /\ unreached' = unreached \ (saved' \cap (M!Listed \cup {n}))
      /\ UNCHANGED <<up, children, booting, stops, doubled, dropped>>
  BY DEF M!Connected, M!At, M!Save
<1>2. /\ conn' \in [M!Conns -> [at : {"none", "connecting", "up", "closing", "over"},
                                name : Names \cup {"-"}, by : {"add", "boot", "-"}]]
      /\ conn'[c].at = "up" /\ conn'[c].name = n
      /\ \A d \in M!Conns : d # c => conn'[d] = conn[d]
  BY <1>0, <1>1, ConnMoves
<1>3. n \in Names /\ c \in children /\ up
  BY <1>0, <1>1 DEF ConnInv, Living
<1> HIDE DEF n
<1>4. /\ client' \in [Names -> M!Conns \cup {M!None}]
      /\ served' \in [Names -> M!Conns \cup {M!None}]
      /\ client'[n] = c /\ \A m \in Names : m # n => client'[m] = client[m]
  BY <1>0, <1>1, <1>3 DEF M!McpServersTypeOK
<1>5. c # M!None
  BY DEF M!None, M!Conns
<1>6. M!Listed' = M!Listed \cup {n} /\ M!Listed \subseteq Names
  <2>1. \A m \in Names : client'[m] # M!None <=> (client[m] # M!None \/ m = n)
    BY <1>4, <1>5
  <2> QED
    BY <1>3, <2>1 DEF M!Listed
<1>7. M!McpServersTypeOK'
  BY <1>0, <1>1, <1>2, <1>3, <1>4, <1>6 DEF M!McpServersTypeOK
<1>8. ConnInv'
  <2>1. ASSUME NEW d \in M!Conns
        PROVE  /\ conn'[d].at # "none" => conn'[d].name \in Names
               /\ conn'[d].at \in {"connecting", "up", "closing"} => d \in children' /\ up'
               /\ d \in children' => conn'[d].at # "none"
    BY <1>0, <1>1, <1>2, <1>3 DEF ConnInv, Living
  <2>2. ASSUME NEW d \in M!Conns, NEW e \in M!Conns, d # e, conn'[d].name = conn'[e].name,
               {conn'[d].at, conn'[e].at} \subseteq {"connecting", "up"}
        PROVE  conn'[d].name \in doubled'
    <3>1. \A f \in M!Conns : /\ conn'[f].name = conn[f].name
                             /\ conn'[f].at \in {"connecting", "up"}
                                => conn[f].at \in {"connecting", "up"}
      BY <1>1, <1>2 DEF n
    <3> QED
      BY <1>0, <1>1, <2>2, <3>1 DEF ConnInv
  <2> QED
    BY <2>1, <2>2 DEF ConnInv, Living
<1>9. ClientInv'
  <2>1. ASSUME NEW m \in Names, client'[m] # M!None
        PROVE  conn'[client'[m]].at = "up" /\ conn'[client'[m]].name = m
    <3>1. CASE m = n
      BY <1>2, <1>4, <3>1
    <3>2. CASE m # n
      <4>1. /\ client'[m] = client[m] /\ client[m] \in M!Conns
            /\ conn[client[m]].at = "up" /\ conn[client[m]].name = m
        BY <1>0, <1>4, <2>1, <3>2 DEF M!McpServersTypeOK, ClientInv
      <4> QED
        BY <1>1, <1>2, <4>1
    <3> QED
      BY <3>1, <3>2
  <2>2. served' = client'
    BY <1>0, <1>1 DEF ClientInv
  <2> QED
    BY <2>1, <2>2 DEF ClientInv
\* The connection that was there before, if any, is one of two of the name.
<1>10. M!ChildrenAreTracked'
  <2>1. ASSUME NEW d \in children
        PROVE  \/ conn'[d].at \in {"connecting", "closing"} \/ client'[conn'[d].name] = d
               \/ d \in dropped' \/ conn'[d].name \in doubled'
    <3>0. d \in M!Conns /\ conn[d].at # "none" /\ conn[d].name \in Names
      BY <1>0, <2>1 DEF M!McpServersTypeOK, ConnInv
    <3>1. CASE d = c
      BY <1>2, <1>4, <3>1
    <3>2. CASE d # c /\ conn[d].name # n
      <4>1. conn'[d] = conn[d] /\ client'[conn[d].name] = client[conn[d].name]
        BY <1>2, <1>4, <3>0, <3>2
      <4> QED
        BY <1>0, <1>1, <2>1, <4>1 DEF M!ChildrenAreTracked
    <3>3. CASE d # c /\ conn[d].name = n /\ client[n] = d
      <4>1. conn[d].at = "up"
        <5>1. client[n] # M!None
          BY <3>0, <3>3 DEF M!None, M!Conns
        <5> QED
          BY <1>0, <1>3, <3>3, <5>1 DEF ClientInv
      <4>2. n \in doubled
        BY <1>0, <1>1, <3>0, <3>3, <4>1 DEF ConnInv, n
      <4> QED
        BY <1>1, <1>2, <3>0, <3>3, <4>2
    <3>4. CASE d # c /\ conn[d].name = n /\ client[n] # d
      BY <1>0, <1>1, <1>2, <2>1, <3>0, <3>4 DEF M!ChildrenAreTracked
    <3> QED
      BY <3>1, <3>2, <3>3, <3>4
  <2>2. children' = children
    BY <1>1
  <2> QED
    BY <2>1, <2>2 DEF M!ChildrenAreTracked
<1>11. M!OnlyUnreachedIsForgotten' /\ WantedInv'
  <2>1. wanted \subseteq M!Listed \cup unreached /\ wanted \ saved \subseteq unreached
    BY <1>0, <1>3 DEF WantedInv, M!OnlyUnreachedIsForgotten
  <2>2. wanted' \subseteq M!Listed' \cup unreached'
    BY <1>1, <1>6, <2>1
  <2>3. wanted' \ saved' \subseteq unreached'
    BY <1>1, <1>6, <2>1
  <2> QED
    BY <1>1, <1>3, <2>2, <2>3 DEF WantedInv, M!OnlyUnreachedIsForgotten
<1> QED
  BY <1>7, <1>8, <1>9, <1>10, <1>11 DEF ServersInv

LEMMA RemoveStep ==
    ASSUME ServersInv, NEW n \in Names, M!Remove(n)
    PROVE  ServersInv'
<1>0. /\ M!McpServersTypeOK /\ M!OnlyUnreachedIsForgotten /\ M!ChildrenAreTracked
      /\ ClientInv /\ ConnInv /\ WantedInv
  BY DEF ServersInv
<1> DEFINE c == client[n]
<1>1. /\ c # M!None /\ M!Goto(c, "closing")
      /\ client' = [client EXCEPT ![n] = M!None] /\ served' = [served EXCEPT ![n] = M!None]
      /\ wanted' = wanted \ {n}
      /\ UNCHANGED <<up, saved, children, booting, stops, unreached, doubled, dropped>>
  BY DEF M!Remove
<1>2. c \in M!Conns /\ conn[c].at = "up" /\ conn[c].name = n
  BY <1>0, <1>1 DEF M!McpServersTypeOK, ClientInv
<1>3. /\ client' \in [Names -> M!Conns \cup {M!None}]
      /\ served' \in [Names -> M!Conns \cup {M!None}]
      /\ client'[n] = M!None /\ \A m \in Names : m # n => client'[m] = client[m]
  BY <1>0, <1>1 DEF M!McpServersTypeOK
<1> HIDE DEF c
<1>4. /\ conn' \in [M!Conns -> [at : {"none", "connecting", "up", "closing", "over"},
                                name : Names \cup {"-"}, by : {"add", "boot", "-"}]]
      /\ conn'[c].at = "closing" /\ conn'[c].name = n
      /\ \A d \in M!Conns : d # c => conn'[d] = conn[d]
  BY <1>0, <1>1, <1>2, ConnMoves
<1>5. M!Listed' = M!Listed \ {n}
  BY <1>3 DEF M!Listed
<1>6. M!McpServersTypeOK'
  BY <1>0, <1>1, <1>3, <1>4 DEF M!McpServersTypeOK
<1>7. ConnInv'
  <2>1. ASSUME NEW d \in M!Conns
        PROVE  /\ conn'[d].at # "none" => conn'[d].name \in Names
               /\ conn'[d].at \in {"connecting", "up", "closing"} => d \in children' /\ up'
               /\ d \in children' => conn'[d].at # "none"
    BY <1>0, <1>1, <1>2, <1>4 DEF ConnInv, Living
  <2>2. ASSUME NEW d \in M!Conns, NEW e \in M!Conns, d # e, conn'[d].name = conn'[e].name,
               {conn'[d].at, conn'[e].at} \subseteq {"connecting", "up"}
        PROVE  conn'[d].name \in doubled'
    <3>1. d # c /\ e # c
      BY <1>4, <2>2
    <3> QED
      BY <1>0, <1>1, <1>4, <2>2, <3>1 DEF ConnInv
  <2> QED
    BY <2>1, <2>2 DEF ConnInv, Living
<1>8. ClientInv'
  <2>1. ASSUME NEW m \in Names, client'[m] # M!None
        PROVE  conn'[client'[m]].at = "up" /\ conn'[client'[m]].name = m
    <3>1. m # n /\ client'[m] = client[m]
      BY <1>3, <2>1
    <3>2. client[m] \in M!Conns /\ conn[client[m]].at = "up" /\ conn[client[m]].name = m
      BY <1>0, <2>1, <3>1 DEF M!McpServersTypeOK, ClientInv
    <3>3. client[m] # c
      BY <1>2, <3>1, <3>2
    <3> QED
      BY <1>4, <3>1, <3>2, <3>3
  <2>2. served' = client'
    BY <1>0, <1>1 DEF ClientInv
  <2> QED
    BY <2>1, <2>2 DEF ClientInv
<1>9. M!ChildrenAreTracked'
  <2>1. ASSUME NEW d \in children
        PROVE  \/ conn'[d].at \in {"connecting", "closing"} \/ client'[conn'[d].name] = d
               \/ d \in dropped' \/ conn'[d].name \in doubled'
    <3>0. d \in M!Conns /\ conn[d].name \in Names
      BY <1>0, <2>1 DEF M!McpServersTypeOK, ConnInv
    <3>1. CASE d = c
      BY <1>4, <3>1
    <3>2. CASE d # c
      <4>1. conn'[d] = conn[d]
        BY <1>4, <3>0, <3>2
      <4>2. client[conn[d].name] = d => client'[conn[d].name] = d
        BY <1>3, <3>0, <3>2 DEF c
      <4> QED
        BY <1>0, <1>1, <2>1, <4>1, <4>2 DEF M!ChildrenAreTracked
    <3> QED
      BY <3>1, <3>2
  <2>2. children' = children
    BY <1>1
  <2> QED
    BY <2>1, <2>2 DEF M!ChildrenAreTracked
<1>10. M!OnlyUnreachedIsForgotten' /\ WantedInv'
  BY <1>0, <1>1, <1>5 DEF M!OnlyUnreachedIsForgotten, WantedInv
<1> QED
  BY <1>6, <1>7, <1>8, <1>9, <1>10 DEF ServersInv

\* The process ends, and with it every connection; a start connects what the file lists.
LEMMA ProcessSteps ==
    ASSUME ServersInv, M!McpServersAssumption, M!Stop \/ M!Start
    PROVE  ServersInv'
<1>0. /\ M!McpServersTypeOK /\ M!OnlyUnreachedIsForgotten /\ M!ChildrenAreTracked
      /\ ClientInv /\ ConnInv /\ WantedInv
  BY DEF ServersInv
<1>1. CASE M!Stop
  <2>1. /\ up' = FALSE /\ stops < MaxStops /\ stops' = stops + 1
        /\ client' = [n \in Names |-> M!None] /\ served' = [n \in Names |-> M!None]
        /\ conn' = [c \in M!Conns |-> IF conn[c].at = "none" THEN conn[c]
                                      ELSE [conn[c] EXCEPT !.at = "over"]]
        /\ children' = {} /\ booting' = {}
        /\ UNCHANGED <<saved, wanted, unreached, dropped>>
    BY <1>1 DEF M!Stop, M!At
  <2>2. /\ conn' \in [M!Conns -> [at : {"none", "connecting", "up", "closing", "over"},
                                  name : Names \cup {"-"}, by : {"add", "boot", "-"}]]
        /\ \A c \in M!Conns : /\ conn'[c].at \in {"none", "over"}
                              /\ conn'[c].at # "none" => conn[c].at # "none"
                              /\ conn'[c].name = conn[c].name
    BY <1>0, <2>1 DEF M!McpServersTypeOK
  <2>3. M!McpServersTypeOK'
    <3>1. stops' \in 0..MaxStops
      BY <1>0, <2>1 DEF M!McpServersTypeOK, M!McpServersAssumption
    <3> QED
      BY <1>0, <2>1, <2>2, <3>1 DEF M!McpServersTypeOK
  <2>4. ConnInv'
    <3>1. ASSUME NEW c \in M!Conns
          PROVE  /\ conn'[c].at # "none" => conn'[c].name \in Names
                 /\ conn'[c].at \notin {"connecting", "up", "closing"} /\ c \notin children'
      BY <1>0, <2>1, <2>2 DEF ConnInv
    <3> QED
      BY <3>1 DEF ConnInv, Living
  <2>5. ClientInv' /\ M!ChildrenAreTracked' /\ WantedInv' /\ M!OnlyUnreachedIsForgotten'
    BY <1>0, <2>1 DEF ClientInv, M!ChildrenAreTracked, WantedInv, M!OnlyUnreachedIsForgotten
  <2> QED
    BY <2>3, <2>4, <2>5 DEF ServersInv
<1>2. CASE M!Start
  <2>1. /\ ~up /\ up' = TRUE /\ booting' = saved /\ unreached' = unreached \cup saved
        /\ UNCHANGED <<saved, client, served, conn, children, stops, wanted, doubled, dropped>>
    BY <1>2 DEF M!Start
  <2>2. M!McpServersTypeOK' /\ ClientInv' /\ M!ChildrenAreTracked'
    BY <1>0, <2>1 DEF M!McpServersTypeOK, ClientInv, M!ChildrenAreTracked
  <2>3. ConnInv'
    BY <1>0, <2>1 DEF ConnInv, Living
  <2>4. WantedInv' /\ M!OnlyUnreachedIsForgotten'
    BY <1>0, <2>1 DEF WantedInv, M!OnlyUnreachedIsForgotten
  <2> QED
    BY <2>2, <2>3, <2>4 DEF ServersInv
<1> QED
  BY <1>1, <1>2

LEMMA ServersStart ==
    ASSUME M!McpServersInit, M!McpServersAssumption
    PROVE  ServersInv
<1>1. /\ up = FALSE /\ saved = {} /\ booting = {} /\ stops = 0
      /\ client = [n \in Names |-> M!None] /\ served = [n \in Names |-> M!None]
      /\ conn = [c \in M!Conns |-> [at |-> "none", name |-> "-", by |-> "-"]] /\ children = {}
      /\ wanted = {} /\ unreached = {} /\ doubled = {} /\ dropped = {}
  BY DEF M!McpServersInit, M!Unmade
<1>2. M!McpServersTypeOK
  <2>1. MaxStops \in Nat /\ stops \in 0..MaxStops
    BY <1>1 DEF M!McpServersAssumption
  <2>2. conn \in [M!Conns -> [at : {"none", "connecting", "up", "closing", "over"},
                             name : Names \cup {"-"}, by : {"add", "boot", "-"}]]
    BY <1>1
  <2> QED
    BY <1>1, <2>1, <2>2 DEF M!McpServersTypeOK
<1>3. ClientInv /\ ConnInv /\ WantedInv
  BY <1>1 DEF ClientInv, ConnInv, WantedInv, Living
<1>4. M!OnlyUnreachedIsForgotten /\ M!ChildrenAreTracked
  BY <1>1 DEF M!OnlyUnreachedIsForgotten, M!ChildrenAreTracked
<1> QED
  BY <1>2, <1>3, <1>4 DEF ServersInv

LEMMA ServersStep ==
    ASSUME ServersInv, M!McpServersAssumption, M!McpServersNext
    PROVE  ServersInv'
BY OpenSteps, EndSteps, ConnectedStep, RemoveStep, ProcessSteps DEF M!McpServersNext

LEMMA ServersStay ==
    ASSUME ServersInv, UNCHANGED mcpVars
    PROVE  ServersInv'
BY DEF mcpVars, ServersInv, M!McpServersTypeOK, M!OnlyUnreachedIsForgotten,
       M!ChildrenAreTracked, ClientInv, ConnInv, Living, WantedInv, M!Listed

\* The MCP servers (agent/mcp/registry.py): however adds, removes, starts in the background,
\* cancelled calls and ends of the process interleave, a server that was added and not
\* removed stays written down unless a start has not reached it; every child process belongs
\* to a server that is known or to a connection in progress, but for the child of a cancelled
\* mcp_add and for two connections of one name; and the tools that are offered have theirs.
THEOREM ServersStayTracked == ToolsSpec => []ServersAreTracked
<1> DEFINE Inv == part = "servers" => ServersInv
<1>1. ToolsInit => Inv
  BY ServersStart, ToolsAssumption DEF ToolsInit
<1>2. Inv /\ [ToolsNext]_<<part, allParts>> => Inv'
  <2> SUFFICES ASSUME Inv, part' = "servers", [ToolsNext]_<<part, allParts>>
               PROVE  ServersInv'
    OBVIOUS
  <2>1. part = "servers" /\ (M!McpServersNext \/ UNCHANGED mcpVars)
    BY DEF ToolsNext, allParts
  <2> QED
    BY <2>1, ServersStep, ServersStay, ToolsAssumption
<1>3. Inv => ServersAreTracked
  BY ClientsHaveChildren DEF ServersInv, ServersAreTracked, M!ServersAreTracked
<1> QED
  BY <1>1, <1>2, <1>3, PTL DEF ToolsSpec

-------------------------------------------------------------------------------
(* The document index *)

RunRecord == [at : {"load", "missing", "docs", "embed", "finish"}, model : Models,
              rebuild : BOOLEAN, dry : BOOLEAN, todo : SUBSET [doc : D!Docs, text : Texts],
              failed : BOOLEAN]

\* A dry run marks nothing; whoever embeds has a document at hand.
Proper(rec) ==
    /\ rec.at = "missing" => ~rec.dry
    /\ rec.at = "embed" => rec.todo # {}

IdxTypes ==
    /\ D!DocTypeOK
    /\ disk \in [D!Docs -> Texts \cup {"none"}]
    /\ run \in [D!Runs -> RunRecord \cup {D!NotStarted, [at |-> "over"]}]
    /\ \A r \in D!Runs : Proper(run[r])

UnderWay(r) == run[r].at \notin {"none", "over"}
Loaded(r) == run[r].at \notin {"none", "over", "load"}

\* What the index holds of a document is its file, and of the model of a rebuild.
MirrorsFile(r, d) ==
    /\ {c.text : c \in chunks[d]} = {disk[d]} \ {"none"}
    /\ run[r].rebuild => {c.model : c \in chunks[d]} \subseteq {run[r].model}

\* A run that nothing came between has the files as they are, and has brought every
\* document it is done with in line, unless it failed on one.
MirrorOf(r) ==
    Loaded(r) /\ r \notin disturbed =>
        /\ \A l \in run[r].todo : l.text = disk[l.doc] /\ l.text # "none"
        /\ ~run[r].dry /\ ~run[r].failed =>
              /\ run[r].at = "missing" => \A d \in D!Docs \ D!Seen(r) : disk[d] = "none"
              /\ run[r].at # "missing" => \A d \in D!Docs \ D!Seen(r) : MirrorsFile(r, d)
              /\ run[r].at = "finish" => run[r].todo = {} /\ meta = run[r].model

\* The inductive invariant.
IdxInv == IdxTypes /\ D!ChunksAreTheRows /\ \A r \in D!Runs : MirrorOf(r)

\* A set of numbers that is not empty has a smallest one.
LEMMA SmallestNat ==
    ASSUME NEW T, T \subseteq Nat, T # {}
    PROVE  \E x \in T : \A y \in T : x <= y
<1>1. IsWellFoundedOn({ss \in Nat \X Nat : ss[1] < ss[2]}, Nat)
  BY NatLessThanWellFounded DEF OpToRel
<1>2. PICK x \in T : \A y \in T : ~(<<y, x>> \in {ss \in Nat \X Nat : ss[1] < ss[2]})
  BY <1>1, WFMin
<1>3. ASSUME NEW y \in T PROVE x <= y
  <2>1. x \in Nat /\ y \in Nat
    OBVIOUS
  <2>2. ~(y < x)
    <3>1. <<y, x>> \in Nat \X Nat /\ <<y, x>>[1] = y /\ <<y, x>>[2] = x
      BY <2>1
    <3> QED
      BY <1>2, <3>1
  <2> QED
    BY <2>1, <2>2
<1> QED
  BY <1>3

\* The next document of a run is one of those it has loaded.
LEMMA CurrentIsLoaded ==
    ASSUME D!DocIndexAssumption, IdxTypes, NEW r \in D!Runs, UnderWay(r), run[r].todo # {}
    PROVE  /\ D!Current(r) \in run[r].todo
           /\ D!Current(r) \in [doc : D!Docs, text : Texts]
<1> DEFINE todo == run[r].todo
<1>1. todo \subseteq [doc : D!Docs, text : Texts] /\ todo # {}
  BY DEF IdxTypes, UnderWay, RunRecord, D!NotStarted
<1> HIDE DEF todo
<1>2. \A d \in D!Docs : D!Place(d) \in Nat
  <2> SUFFICES ASSUME NEW d \in D!Docs PROVE D!Place(d) \in Nat
    OBVIOUS
  <2>1. DOMAIN Paths \subseteq Nat
    BY DEF D!DocIndexAssumption
  <2>2. \E i \in DOMAIN Paths : Paths[i] = d
    BY DEF D!Docs, D!ToSet
  <2> QED
    BY <2>1, <2>2 DEF D!Place
<1>3. \E l \in todo : \A m \in todo : D!Place(l.doc) <= D!Place(m.doc)
  <2> DEFINE T == {D!Place(l.doc) : l \in todo}
  <2>1. T \subseteq Nat /\ T # {}
    BY <1>1, <1>2
  <2>2. PICK x \in T : \A y \in T : x <= y
    <3> HIDE DEF T
    <3> QED
      BY <2>1, SmallestNat
  <2> QED
    BY <2>2
<1>4. D!Current(r) \in todo
  BY <1>3 DEF D!Current, todo
<1> QED
  BY <1>1, <1>4 DEF todo

\* A step of one run leaves what the others know alone, or disturbs them.
LEMMA OthersKnow ==
    ASSUME IdxInv, NEW r, NEW q \in D!Runs \ {r}, run'[q] = run[q], disk' = disk,
           UnderWay(q) /\ q \notin disturbed' =>
               q \notin disturbed /\ chunks' = chunks /\ meta' = meta
    PROVE  MirrorOf(q)'
BY DEF IdxInv, MirrorOf, Loaded, UnderWay, MirrorsFile, D!Seen

\* Nothing is written: the others know what they knew.
Quietly(r) ==
    /\ disk' = disk /\ docs' = docs /\ chunks' = chunks /\ meta' = meta
    /\ disturbed' = disturbed /\ \A q \in D!Runs \ {r} : run'[q] = run[q]

\* The store is written: the others that are under way are disturbed.
Disturbing(r) ==
    /\ disk' = disk /\ disturbed' = disturbed \cup {q \in D!Runs \ {r} : UnderWay(q)}
    /\ \A q \in D!Runs \ {r} : run'[q] = run[q]

LEMMA OthersStay ==
    ASSUME IdxInv, NEW r, Quietly(r) \/ Disturbing(r)
    PROVE  \A q \in D!Runs \ {r} : MirrorOf(q)'
BY OthersKnow DEF Quietly, Disturbing

\* A run changes its own record only.
LEMMA RunMoves ==
    ASSUME IdxTypes, NEW r \in D!Runs, NEW rec \in RunRecord \cup {D!NotStarted, [at |-> "over"]},
           run' = [run EXCEPT ![r] = rec], Proper(rec)
    PROVE  /\ run' \in [D!Runs -> RunRecord \cup {D!NotStarted, [at |-> "over"]}]
           /\ run'[r] = rec /\ \A q \in D!Runs \ {r} : run'[q] = run[q]
           /\ \A q \in D!Runs : Proper(run'[q])
BY DEF IdxTypes

RunTypes == RunRecord \cup {D!NotStarted, [at |-> "over"]}
RunEnds == {"none", "running", "succeeded", "partial_failed", "failed"}

\* A step that writes nothing of the store but the status of the run.
LEMMA QuietRun ==
    ASSUME IdxInv, NEW r \in D!Runs, NEW rec \in RunTypes,
           run' = [run EXCEPT ![r] = rec], Proper(rec),
           disk' = disk, docs' = docs, chunks' = chunks, meta' = meta, disturbed' = disturbed,
           indexRuns' \in [D!Runs -> RunEnds], MirrorOf(r)'
    PROVE  IdxInv'
<1>1. /\ run' \in [D!Runs -> RunTypes] /\ run'[r] = rec
      /\ \A q \in D!Runs \ {r} : run'[q] = run[q]
      /\ \A q \in D!Runs : Proper(run'[q])
  BY RunMoves DEF IdxInv, RunTypes
<1>2. IdxTypes'
  BY <1>1 DEF IdxInv, IdxTypes, D!DocTypeOK, RunTypes, RunEnds
<1>3. D!ChunksAreTheRows'
  BY DEF IdxInv, D!ChunksAreTheRows
<1>4. \A q \in D!Runs : MirrorOf(q)'
  BY <1>1, OthersStay DEF Quietly
<1> QED
  BY <1>2, <1>3, <1>4 DEF IdxInv

\* The record of a run that is under way.
LEMMA RunFields ==
    ASSUME IdxTypes, NEW r \in D!Runs, UnderWay(r)
    PROVE  run[r] \in RunRecord
BY DEF IdxTypes, UnderWay, D!NotStarted

LEMMA StartStep ==
    ASSUME IdxInv, D!DocIndexAssumption, NEW r \in D!Runs, NEW model \in Models,
           NEW options \in Options, D!Start(r, model, options)
    PROVE  IdxInv'
<1> DEFINE rec == [at |-> "load", model |-> model, rebuild |-> options.rebuild,
                   dry |-> options.dry, todo |-> {}, failed |-> FALSE]
<1>1. /\ run' = [run EXCEPT ![r] = rec]
      /\ disk' = disk /\ docs' = docs /\ chunks' = chunks /\ meta' = meta /\ disturbed' = disturbed
      /\ indexRuns' = [indexRuns EXCEPT ![r] = "running"]
  BY DEF D!Start, D!store
<1>2. options.rebuild \in BOOLEAN /\ options.dry \in BOOLEAN
  BY DEF D!DocIndexAssumption
<1>3. rec \in RunTypes /\ rec.at = "load"
  BY <1>2 DEF RunTypes, RunRecord
<1>4. indexRuns' \in [D!Runs -> RunEnds]
  BY <1>1 DEF IdxInv, IdxTypes, D!DocTypeOK, RunEnds
<1> HIDE DEF rec
<1>5. MirrorOf(r)'
  <2>1. run'[r] = rec
    BY <1>1 DEF IdxInv, IdxTypes
  <2> QED
    BY <1>3, <2>1 DEF MirrorOf, Loaded
<1> QED
  BY <1>1, <1>3, <1>4, <1>5, QuietRun DEF Proper

LEMMA LoadStep ==
    ASSUME IdxInv, NEW r \in D!Runs, NEW bad \in SUBSET D!Docs, D!Load(r, bad)
    PROVE  IdxInv'
<1> DEFINE good == {d \in D!Docs : disk[d] # "none"} \ bad
           todo == {[doc |-> d, text |-> disk[d]] : d \in good}
           at == IF run[r].dry THEN "docs" ELSE "missing"
           rec == [run[r] EXCEPT !.at = at, !.todo = todo, !.failed = bad # {}]
<1>1. /\ run' = [run EXCEPT ![r] = rec] /\ run[r].at = "load"
      /\ disk' = disk /\ docs' = docs /\ chunks' = chunks /\ meta' = meta /\ disturbed' = disturbed
      /\ indexRuns' = indexRuns
  BY DEF D!Load, D!store, D!Doing, IdxInv, IdxTypes
<1>2. run[r] \in RunRecord
  BY <1>1, RunFields DEF IdxInv, UnderWay
<1>3. todo \in SUBSET [doc : D!Docs, text : Texts]
  BY DEF IdxInv, IdxTypes
<1>4. rec \in RunRecord /\ rec.at = at /\ rec.todo = todo /\ rec.failed = (bad # {})
      /\ rec.dry = run[r].dry /\ rec.rebuild = run[r].rebuild
  <2> HIDE DEF todo
  <2> QED
    BY <1>2, <1>3 DEF RunRecord
<1>5. indexRuns' \in [D!Runs -> RunEnds]
  BY <1>1 DEF IdxInv, IdxTypes, D!DocTypeOK, RunEnds
<1>6. MirrorOf(r)'
  <2>1. run'[r] = rec
    BY <1>1 DEF IdxInv, IdxTypes
  <2>2. \A l \in todo : l.text = disk[l.doc] /\ l.text # "none"
    OBVIOUS
  <2>3. bad = {} => \A d \in D!Docs : disk[d] # "none" => d \in {l.doc : l \in todo}
    <3> SUFFICES ASSUME bad = {}, NEW d \in D!Docs, disk[d] # "none"
                 PROVE  \E l \in todo : l.doc = d
      OBVIOUS
    <3> WITNESS [doc |-> d, text |-> disk[d]] \in todo
    <3> QED
      OBVIOUS
  <2> HIDE DEF rec, todo
  <2> QED
    BY <1>1, <1>4, <2>1, <2>2, <2>3 DEF MirrorOf, Loaded, D!Seen
<1> HIDE DEF rec
<1>7. Proper(rec)
  BY <1>4 DEF Proper
<1> QED
  BY <1>1, <1>4, <1>5, <1>6, <1>7, QuietRun DEF RunTypes

\* The document that is taken from those to do.
LEMMA NextShape ==
    ASSUME IdxInv, D!DocIndexAssumption, NEW r \in D!Runs, NEW failed \in BOOLEAN,
           UnderWay(r), run[r].todo # {}, D!NextDoc(r, failed)
    PROVE  \E rec \in RunRecord :
             /\ run' = [run EXCEPT ![r] = rec]
             /\ rec.at = "docs" /\ rec.todo = run[r].todo \ {D!Current(r)}
             /\ rec.failed = (run[r].failed \/ failed)
             /\ rec.dry = run[r].dry /\ rec.rebuild = run[r].rebuild /\ rec.model = run[r].model
<1> DEFINE rec == [run[r] EXCEPT !.at = "docs", !.todo = run[r].todo \ {D!Current(r)},
                                 !.failed = run[r].failed \/ failed]
<1>1. run' = [run EXCEPT ![r] = rec]
  BY DEF D!NextDoc, IdxInv, IdxTypes
<1>2. run[r] \in RunRecord
  BY RunFields DEF IdxInv
<1>3. /\ rec \in RunRecord
      /\ rec.at = "docs" /\ rec.todo = run[r].todo \ {D!Current(r)}
      /\ rec.failed = (run[r].failed \/ failed)
      /\ rec.dry = run[r].dry /\ rec.rebuild = run[r].rebuild /\ rec.model = run[r].model
  BY <1>2 DEF RunRecord
<1> QED
  BY <1>1, <1>3

\* What a run has not seen, once it is done with a document.
LEMMA SeenLess ==
    ASSUME NEW r \in D!Runs, D!Current(r) \in run[r].todo,
           run'[r].todo = run[r].todo \ {D!Current(r)},
           NEW d, d \notin D!Seen(r)', d # D!Current(r).doc
    PROVE  d \notin D!Seen(r)
BY DEF D!Seen

LEMMA OverStep ==
    ASSUME IdxInv, NEW r \in D!Runs,
           D!Finish(r) \/ D!Fails(r) \/ D!Crash(r)
    PROVE  IdxInv'
<1> DEFINE rec == [at |-> "over"]
<1>1. /\ run' = [run EXCEPT ![r] = rec]
      /\ disk' = disk /\ docs' = docs /\ chunks' = chunks /\ meta' = meta /\ disturbed' = disturbed
      /\ indexRuns' \in [D!Runs -> RunEnds]
  BY DEF D!Finish, D!Fails, D!Crash, D!Over, D!store, IdxInv, IdxTypes, D!DocTypeOK, RunEnds
<1>2. rec \in RunTypes /\ rec.at = "over"
  BY DEF RunTypes
<1> HIDE DEF rec
<1>3. MirrorOf(r)'
  <2>1. run'[r] = rec
    BY <1>1 DEF IdxInv, IdxTypes
  <2> QED
    BY <1>2, <2>1 DEF MirrorOf, Loaded
<1> QED
  BY <1>1, <1>2, <1>3, QuietRun DEF Proper

LEMMA ChunkStep ==
    ASSUME IdxInv, NEW r \in D!Runs, D!Chunk(r)
    PROVE  IdxInv'
<1> DEFINE rec == [run[r] EXCEPT !.at = "embed"]
<1>1. /\ run' = [run EXCEPT ![r] = rec] /\ run[r].at = "docs" /\ run[r].todo # {}
      /\ disk' = disk /\ docs' = docs /\ chunks' = chunks /\ meta' = meta /\ disturbed' = disturbed
      /\ indexRuns' \in [D!Runs -> RunEnds]
  BY DEF D!Chunk, D!Doing, D!Goto, D!store, IdxInv, IdxTypes, D!DocTypeOK, RunEnds
<1>2. run[r] \in RunRecord
  BY <1>1, RunFields DEF IdxInv, UnderWay
<1>3. /\ rec \in RunRecord /\ rec.at = "embed" /\ rec.todo = run[r].todo
      /\ rec.failed = run[r].failed /\ rec.dry = run[r].dry /\ rec.rebuild = run[r].rebuild
      /\ rec.model = run[r].model
  BY <1>2 DEF RunRecord
<1> HIDE DEF rec
<1>4. MirrorOf(r)'
  <2>1. run'[r] = rec
    BY <1>1 DEF IdxInv, IdxTypes
  <2>2. MirrorOf(r)
    BY DEF IdxInv
  <2> QED
    BY <1>1, <1>3, <2>1, <2>2 DEF MirrorOf, Loaded, MirrorsFile, D!Seen
<1> QED
  BY <1>1, <1>3, <1>4, QuietRun DEF RunTypes, Proper

\* A document is passed over because its row says what the file says, or given up.
LEMMA GivenUpStep ==
    ASSUME IdxInv, D!DocIndexAssumption, NEW r \in D!Runs, D!Skip(r) \/ D!IndexingFails(r)
    PROVE  IdxInv'
<1>1. PICK failed \in BOOLEAN :
        /\ D!NextDoc(r, failed) /\ run[r].at \in {"docs", "embed"} /\ run[r].todo # {}
        /\ ~failed => D!UpToDate(r)
  <2>1. CASE D!Skip(r)
    BY <2>1 DEF D!Skip, D!Doing
  <2>2. CASE D!IndexingFails(r)
    BY <2>2 DEF D!IndexingFails, D!Doing, IdxInv, IdxTypes, Proper
  <2> QED
    BY <2>1, <2>2
<1>2. UnderWay(r) /\ Loaded(r)
  BY <1>1 DEF UnderWay, Loaded
<1>3. PICK rec \in RunRecord :
        /\ run' = [run EXCEPT ![r] = rec]
        /\ rec.at = "docs" /\ rec.todo = run[r].todo \ {D!Current(r)}
        /\ rec.failed = (run[r].failed \/ failed)
        /\ rec.dry = run[r].dry /\ rec.rebuild = run[r].rebuild /\ rec.model = run[r].model
  BY <1>1, <1>2, NextShape
<1>4. /\ disk' = disk /\ docs' = docs /\ chunks' = chunks /\ meta' = meta /\ disturbed' = disturbed
      /\ indexRuns' \in [D!Runs -> RunEnds]
  BY DEF D!Skip, D!IndexingFails, D!store, IdxInv, IdxTypes, D!DocTypeOK, RunEnds
<1>5. MirrorOf(r)'
  <2>1. run'[r] = rec
    BY <1>3 DEF IdxInv, IdxTypes
  <2>2. MirrorOf(r)
    BY DEF IdxInv
  <2>3. D!Current(r) \in run[r].todo /\ D!Current(r) \in [doc : D!Docs, text : Texts]
    BY <1>1, <1>2, CurrentIsLoaded DEF IdxInv
  <2> SUFFICES ASSUME r \notin disturbed, ~rec.dry, ~rec.failed,
                      NEW d \in D!Docs \ D!Seen(r)'
               PROVE  MirrorsFile(r, d)'
    BY <1>2, <1>3, <1>4, <2>1, <2>2 DEF MirrorOf, Loaded
  <2>4. ~failed /\ ~run[r].failed /\ ~run[r].dry
    BY <1>3
  <2>5. CASE d = D!Current(r).doc
    <3>1. docs[d] = [status |-> "active", hash |-> D!Current(r).text] /\ ~run[r].rebuild
      BY <1>1, <2>4, <2>5 DEF D!UpToDate
    <3>2. {c.text : c \in chunks[d]} = {D!Current(r).text}
      BY <3>1 DEF IdxInv, D!ChunksAreTheRows
    <3>3. D!Current(r).text = disk[d] /\ disk[d] # "none"
      BY <1>2, <2>2, <2>3, <2>5 DEF MirrorOf
    <3> QED
      BY <1>3, <1>4, <2>1, <3>1, <3>2, <3>3 DEF MirrorsFile
  <2>6. CASE d # D!Current(r).doc
    <3>1. d \notin D!Seen(r)
      BY <1>3, <2>1, <2>3, <2>6, SeenLess
    <3>2. MirrorsFile(r, d)
      BY <1>1, <1>2, <2>2, <2>4, <3>1 DEF MirrorOf
    <3> QED
      BY <1>3, <1>4, <2>1, <3>2 DEF MirrorsFile
  <2> QED
    BY <2>5, <2>6
<1> QED
  BY <1>3, <1>4, <1>5, QuietRun DEF RunTypes, Proper

\* A step that writes to the store.
LEMMA WritingRun ==
    ASSUME IdxInv, NEW r \in D!Runs, NEW rec \in RunRecord,
           run' = [run EXCEPT ![r] = rec], Proper(rec),
           indexRuns' = indexRuns, Quietly(r) \/ Disturbing(r),
           docs' \in [D!Docs -> [status : {"none", "active", "deleted"},
                                 hash : Texts \cup {"none"}]],
           chunks' \in [D!Docs -> SUBSET [text : Texts, model : Models]],
           meta' \in Models \cup {"none"}, D!ChunksAreTheRows', MirrorOf(r)'
    PROVE  IdxInv'
<1>1. /\ run' \in [D!Runs -> RunTypes] /\ run'[r] = rec
      /\ \A q \in D!Runs : Proper(run'[q])
  BY RunMoves DEF IdxInv, RunTypes
<1>2. disturbed' \subseteq D!Runs /\ disk' = disk
  BY DEF Quietly, Disturbing, IdxInv, IdxTypes, D!DocTypeOK
<1>3. IdxTypes'
  BY <1>1, <1>2 DEF IdxInv, IdxTypes, D!DocTypeOK, RunTypes
<1>4. \A q \in D!Runs : MirrorOf(q)'
  BY OthersStay
<1> QED
  BY <1>3, <1>4 DEF IdxInv

LEMMA MissingStep ==
    ASSUME IdxInv, NEW r \in D!Runs, D!MarkMissing(r)
    PROVE  IdxInv'
<1> DEFINE gone == {d \in D!Docs \ D!Seen(r) : docs[d].status = "active"}
           rec == [run[r] EXCEPT !.at = "docs"]
<1>1. /\ run' = [run EXCEPT ![r] = rec] /\ run[r].at = "missing"
      /\ disk' = disk /\ meta' = meta /\ indexRuns' = indexRuns
      /\ docs' = [d \in D!Docs |-> IF d \in gone THEN [docs[d] EXCEPT !.status = "deleted"]
                                   ELSE docs[d]]
      /\ chunks' = [d \in D!Docs |-> IF d \in gone THEN {} ELSE chunks[d]]
      /\ IF gone = {} THEN disturbed' = disturbed ELSE D!DisturbedBy(r)
  BY DEF D!MarkMissing, D!Doing, D!Goto
<1>2. run[r] \in RunRecord
  BY <1>1, RunFields DEF IdxInv, UnderWay
<1>3. /\ rec \in RunRecord /\ rec.at = "docs" /\ rec.todo = run[r].todo
      /\ rec.failed = run[r].failed /\ rec.dry = run[r].dry /\ rec.rebuild = run[r].rebuild
      /\ rec.model = run[r].model
  BY <1>2 DEF RunRecord
<1> HIDE DEF rec
<1>4. /\ docs \in [D!Docs -> [status : {"none", "active", "deleted"}, hash : Texts \cup {"none"}]]
      /\ chunks \in [D!Docs -> SUBSET [text : Texts, model : Models]] /\ D!ChunksAreTheRows
      /\ meta \in Models \cup {"none"}
  BY DEF IdxInv, IdxTypes, D!DocTypeOK
<1>5. /\ docs' \in [D!Docs -> [status : {"none", "active", "deleted"}, hash : Texts \cup {"none"}]]
      /\ chunks' \in [D!Docs -> SUBSET [text : Texts, model : Models]]
  BY <1>1, <1>4
<1>6. D!ChunksAreTheRows'
  <2> SUFFICES ASSUME NEW d \in D!Docs
               PROVE  {c.text : c \in chunks'[d]} =
                      IF docs'[d].status = "active" THEN {docs'[d].hash} ELSE {}
    BY DEF D!ChunksAreTheRows
  <2>1. CASE d \in gone
    <3>1. chunks'[d] = {} /\ docs'[d].status = "deleted"
      BY <1>1, <1>4, <2>1
    <3> QED
      BY <3>1
  <2>2. CASE d \notin gone
    <3>1. chunks'[d] = chunks[d] /\ docs'[d] = docs[d]
      BY <1>1, <2>2
    <3> QED
      BY <1>4, <3>1 DEF D!ChunksAreTheRows
  <2> QED
    BY <2>1, <2>2
<1>7. \A q \in D!Runs \ {r} : run'[q] = run[q]
  BY <1>1 DEF IdxInv, IdxTypes
<1>8. Quietly(r) \/ Disturbing(r)
  <2>1. CASE gone = {}
    <3>1. docs' = docs /\ chunks' = chunks
      BY <1>1, <1>4, <2>1
    <3> QED
      BY <1>1, <1>7, <2>1, <3>1 DEF Quietly
  <2>2. CASE gone # {}
    BY <1>1, <1>7, <2>2 DEF Disturbing, D!DisturbedBy, UnderWay
  <2> QED
    BY <2>1, <2>2
<1>9. MirrorOf(r)'
  <2>1. run'[r] = rec /\ r \notin disturbed' => r \notin disturbed
    BY <1>1, <1>8 DEF Quietly, Disturbing
  <2>2. run'[r] = rec
    BY <1>1 DEF IdxInv, IdxTypes
  <2>3. MirrorOf(r) /\ Loaded(r)
    BY <1>1 DEF IdxInv, Loaded
  <2>4. D!Seen(r)' = D!Seen(r)
    BY <1>3, <2>2 DEF D!Seen
  <2> SUFFICES ASSUME r \notin disturbed, ~rec.dry, ~rec.failed, NEW d \in D!Docs \ D!Seen(r)
               PROVE  MirrorsFile(r, d)'
    BY <1>1, <1>3, <2>1, <2>2, <2>3, <2>4 DEF MirrorOf, Loaded
  <2>5. disk[d] = "none"
    BY <1>1, <1>3, <2>3 DEF MirrorOf
  <2>6. chunks'[d] = {}
    <3>1. CASE d \in gone
      BY <1>1, <3>1
    <3>2. CASE d \notin gone
      <4>1. chunks'[d] = chunks[d] /\ docs[d].status # "active"
        BY <1>1, <3>2
      <4>2. {c.text : c \in chunks[d]} = {}
        BY <1>4, <4>1 DEF D!ChunksAreTheRows
      <4> QED
        BY <4>1, <4>2
    <3> QED
      BY <3>1, <3>2
  <2> QED
    BY <1>1, <2>5, <2>6 DEF MirrorsFile
<1> HIDE DEF gone
<1>10. Proper(rec)
  BY <1>3 DEF Proper
<1> QED
  BY <1>1, <1>3, <1>4, <1>5, <1>6, <1>8, <1>9, <1>10, WritingRun

LEMMA ReplaceStep ==
    ASSUME IdxInv, D!DocIndexAssumption, NEW r \in D!Runs, D!Replace(r)
    PROVE  IdxInv'
<1>1. run[r].at = "embed" /\ D!NextDoc(r, FALSE) /\ run[r].todo # {}
      /\ UnderWay(r) /\ Loaded(r)
  BY DEF D!Replace, D!Doing, IdxInv, IdxTypes, Proper, UnderWay, Loaded
<1>2. run[r] \in RunRecord
  BY <1>1, RunFields DEF IdxInv
<1>3. PICK l \in [doc : D!Docs, text : Texts] : l = D!Current(r) /\ l \in run[r].todo
  BY <1>1, CurrentIsLoaded DEF IdxInv
<1>4. PICK rec \in RunRecord :
        /\ run' = [run EXCEPT ![r] = rec]
        /\ rec.at = "docs" /\ rec.todo = run[r].todo \ {D!Current(r)}
        /\ rec.failed = (run[r].failed \/ FALSE)
        /\ rec.dry = run[r].dry /\ rec.rebuild = run[r].rebuild /\ rec.model = run[r].model
  BY <1>1, NextShape
<1>5. /\ disk' = disk /\ meta' = meta /\ indexRuns' = indexRuns
      /\ IF run[r].dry THEN UNCHANGED <<docs, chunks, disturbed>>
         ELSE /\ docs' = [docs EXCEPT ![l.doc] = [status |-> "active", hash |-> l.text]]
              /\ chunks' = [chunks EXCEPT ![l.doc] = {[text |-> l.text, model |-> run[r].model]}]
              /\ D!DisturbedBy(r)
  BY <1>3 DEF D!Replace
<1>6. /\ docs \in [D!Docs -> [status : {"none", "active", "deleted"}, hash : Texts \cup {"none"}]]
      /\ chunks \in [D!Docs -> SUBSET [text : Texts, model : Models]] /\ D!ChunksAreTheRows
      /\ meta \in Models \cup {"none"}
  BY DEF IdxInv, IdxTypes, D!DocTypeOK
<1>7. l.doc \in D!Docs /\ l.text \in Texts /\ run[r].model \in Models /\ run[r].dry \in BOOLEAN
  BY <1>2, <1>3 DEF RunRecord
<1>8. \A q \in D!Runs \ {r} : run'[q] = run[q]
  BY <1>4 DEF IdxInv, IdxTypes
<1>9. Quietly(r) \/ Disturbing(r)
  BY <1>5, <1>7, <1>8 DEF Quietly, Disturbing, D!DisturbedBy, UnderWay
<1>10. /\ docs' \in [D!Docs -> [status : {"none", "active", "deleted"}, hash : Texts \cup {"none"}]]
       /\ chunks' \in [D!Docs -> SUBSET [text : Texts, model : Models]]
  <2>1. CASE run[r].dry
    BY <1>5, <1>6, <2>1
  <2>2. CASE ~run[r].dry
    BY <1>5, <1>6, <1>7, <2>2
  <2> QED
    BY <2>1, <2>2
<1>11. D!ChunksAreTheRows'
  <2> SUFFICES ASSUME NEW d \in D!Docs
               PROVE  {c.text : c \in chunks'[d]} =
                      IF docs'[d].status = "active" THEN {docs'[d].hash} ELSE {}
    BY DEF D!ChunksAreTheRows
  <2>1. CASE ~run[r].dry /\ d = l.doc
    <3>1. chunks'[d] = {[text |-> l.text, model |-> run[r].model]}
          /\ docs'[d] = [status |-> "active", hash |-> l.text]
      BY <1>5, <1>6, <2>1
    <3> QED
      BY <3>1
  <2>2. CASE run[r].dry \/ d # l.doc
    <3>1. chunks'[d] = chunks[d] /\ docs'[d] = docs[d]
      BY <1>5, <1>6, <2>2
    <3> QED
      BY <1>6, <3>1 DEF D!ChunksAreTheRows
  <2> QED
    BY <1>7, <2>1, <2>2
<1>12. MirrorOf(r)'
  <2>1. run'[r] = rec
    BY <1>4 DEF IdxInv, IdxTypes
  <2>2. MirrorOf(r) /\ (r \notin disturbed' => r \notin disturbed)
    BY <1>9 DEF IdxInv, Quietly, Disturbing
  <2> SUFFICES ASSUME r \notin disturbed, ~rec.dry, ~rec.failed,
                      NEW d \in D!Docs \ D!Seen(r)'
               PROVE  MirrorsFile(r, d)'
    BY <1>1, <1>4, <1>5, <2>1, <2>2 DEF MirrorOf, Loaded
  <2>3. ~run[r].failed /\ ~run[r].dry
    BY <1>4
  <2>4. CASE d = l.doc
    <3>1. chunks'[d] = {[text |-> l.text, model |-> run[r].model]}
      BY <1>5, <1>6, <1>7, <2>3, <2>4
    <3>2. l.text = disk[d] /\ disk[d] # "none"
      BY <1>1, <1>3, <2>2, <2>4 DEF MirrorOf
    <3> QED
      BY <1>4, <1>5, <2>1, <3>1, <3>2 DEF MirrorsFile
  <2>5. CASE d # l.doc
    <3>1. d \notin D!Seen(r)
      BY <1>3, <1>4, <2>1, <2>5, SeenLess
    <3>2. MirrorsFile(r, d) /\ chunks'[d] = chunks[d]
      BY <1>1, <1>5, <1>6, <2>2, <2>3, <2>5, <3>1 DEF MirrorOf
    <3> QED
      BY <1>4, <1>5, <2>1, <3>2 DEF MirrorsFile
  <2> QED
    BY <2>4, <2>5
<1>13. Proper(rec)
  BY <1>4 DEF Proper
<1> QED
  BY <1>4, <1>5, <1>6, <1>9, <1>10, <1>11, <1>12, <1>13, WritingRun

LEMMA MetaStep ==
    ASSUME IdxInv, NEW r \in D!Runs, D!WriteMeta(r)
    PROVE  IdxInv'
<1> DEFINE rec == [run[r] EXCEPT !.at = "finish"]
<1>1. /\ run' = [run EXCEPT ![r] = rec] /\ run[r].at = "docs" /\ run[r].todo = {}
      /\ disk' = disk /\ docs' = docs /\ chunks' = chunks /\ indexRuns' = indexRuns
      /\ IF run[r].dry THEN UNCHANGED <<meta, disturbed>>
         ELSE meta' = run[r].model /\ D!DisturbedBy(r)
  BY DEF D!WriteMeta, D!Doing, D!Goto
<1>2. run[r] \in RunRecord
  BY <1>1, RunFields DEF IdxInv, UnderWay
<1>3. /\ rec \in RunRecord /\ rec.at = "finish" /\ rec.todo = {}
      /\ rec.failed = run[r].failed /\ rec.dry = run[r].dry /\ rec.rebuild = run[r].rebuild
      /\ rec.model = run[r].model /\ run[r].model \in Models /\ run[r].dry \in BOOLEAN
  BY <1>1, <1>2 DEF RunRecord
<1> HIDE DEF rec
<1>4. /\ docs \in [D!Docs -> [status : {"none", "active", "deleted"}, hash : Texts \cup {"none"}]]
      /\ chunks \in [D!Docs -> SUBSET [text : Texts, model : Models]]
      /\ meta' \in Models \cup {"none"}
  BY <1>1, <1>3 DEF IdxInv, IdxTypes, D!DocTypeOK
<1>5. D!ChunksAreTheRows'
  BY <1>1 DEF IdxInv, D!ChunksAreTheRows
<1>6. \A q \in D!Runs \ {r} : run'[q] = run[q]
  BY <1>1 DEF IdxInv, IdxTypes
<1>7. Quietly(r) \/ Disturbing(r)
  BY <1>1, <1>3, <1>6 DEF Quietly, Disturbing, D!DisturbedBy, UnderWay
<1>8. MirrorOf(r)'
  <2>1. run'[r] = rec
    BY <1>1 DEF IdxInv, IdxTypes
  <2>2. MirrorOf(r) /\ (r \notin disturbed' => r \notin disturbed)
    BY <1>7 DEF IdxInv, Quietly, Disturbing
  <2>3. D!Seen(r)' = D!Seen(r)
    BY <1>1, <1>3, <2>1 DEF D!Seen
  <2> QED
    BY <1>1, <1>3, <2>1, <2>2, <2>3 DEF MirrorOf, Loaded, MirrorsFile
<1>9. Proper(rec)
  BY <1>3 DEF Proper
<1> QED
  BY <1>1, <1>3, <1>4, <1>5, <1>7, <1>8, <1>9, WritingRun

LEMMA EditStep ==
    ASSUME IdxInv, D!DocIndexAssumption, NEW d \in D!Docs, NEW text \in Texts \cup {"none"},
           D!Edit(d, text)
    PROVE  IdxInv'
<1>1. /\ disk' = [disk EXCEPT ![d] = text] /\ D!DisturbedBy(0)
      /\ docs' = docs /\ chunks' = chunks /\ meta' = meta /\ indexRuns' = indexRuns /\ run' = run
  BY DEF D!Edit, D!store
<1>2. disturbed' \subseteq D!Runs /\ \A r \in D!Runs : UnderWay(r) => r \in disturbed'
  <2>1. 0 \notin D!Runs /\ disturbed \subseteq D!Runs
    BY DEF D!Runs, D!DocIndexAssumption, IdxInv, IdxTypes, D!DocTypeOK
  <2> QED
    BY <1>1, <2>1 DEF D!DisturbedBy, UnderWay
<1>3. IdxTypes'
  BY <1>1, <1>2 DEF IdxInv, IdxTypes, D!DocTypeOK
<1>4. D!ChunksAreTheRows'
  BY <1>1 DEF IdxInv, D!ChunksAreTheRows
<1>5. \A r \in D!Runs : MirrorOf(r)'
  BY <1>1, <1>2 DEF MirrorOf, Loaded, UnderWay
<1> QED
  BY <1>3, <1>4, <1>5 DEF IdxInv

LEMMA IdxStart ==
    ASSUME D!DocInit
    PROVE  IdxInv
<1>1. /\ chunks = [d \in D!Docs |-> {}] /\ meta = "none" /\ disturbed = {}
      /\ indexRuns = [r \in D!Runs |-> "none"] /\ run = [r \in D!Runs |-> D!NotStarted]
      /\ disk \in [D!Docs -> Texts \cup {"none"}]
      /\ docs \in [D!Docs -> {D!NoRow} \cup [status : {"deleted"}, hash : Texts]]
  BY DEF D!DocInit
<1>2. /\ docs \in [D!Docs -> [status : {"none", "active", "deleted"}, hash : Texts \cup {"none"}]]
      /\ \A d \in D!Docs : docs[d].status # "active"
  BY <1>1 DEF D!NoRow
<1>3. IdxTypes
  BY <1>1, <1>2 DEF IdxTypes, D!DocTypeOK, Proper, D!NotStarted
<1>4. D!ChunksAreTheRows
  BY <1>1, <1>2 DEF D!ChunksAreTheRows
<1>5. \A r \in D!Runs : MirrorOf(r)
  BY <1>1 DEF MirrorOf, Loaded, D!NotStarted
<1> QED
  BY <1>3, <1>4, <1>5 DEF IdxInv

LEMMA IdxStep ==
    ASSUME IdxInv, D!DocIndexAssumption, D!DocNext
    PROVE  IdxInv'
BY StartStep, LoadStep, MissingStep, GivenUpStep, ChunkStep, ReplaceStep, MetaStep, OverStep,
   EditStep DEF D!DocNext

LEMMA IdxStay ==
    ASSUME IdxInv, UNCHANGED idxVars
    PROVE  IdxInv'
BY DEF idxVars, IdxInv, IdxTypes, D!DocTypeOK, D!ChunksAreTheRows, MirrorOf, Loaded, MirrorsFile,
       D!Seen

\* Only a run that has written everything down says it succeeded.
LEMMA SuccessStep ==
    ASSUME IdxInv, D!DocNext, NEW r \in D!Runs, indexRuns'[r] = "succeeded",
           indexRuns[r] # "succeeded", ~run[r].dry, r \notin disturbed, NEW d \in D!Docs
    PROVE  /\ {c.text : c \in chunks[d]} = {disk[d]} \ {"none"}
           /\ run[r].rebuild => {c.model : c \in chunks[d]} \subseteq {meta}
<1>0. indexRuns \in [D!Runs -> RunEnds] /\ run \in [D!Runs -> RunTypes]
  BY DEF IdxInv, IdxTypes, D!DocTypeOK, RunEnds, RunTypes
<1>1. run[r].at = "finish" /\ ~run[r].failed
  <2>1. PICK q \in D!Runs : D!Finish(q) \/ indexRuns' = indexRuns
                            \/ \E end \in {"running", "failed"} :
                                 indexRuns' = [indexRuns EXCEPT ![q] = end]
    <3>1. CASE \E q \in D!Runs :
                 \/ \E model \in Models, options \in Options : D!Start(q, model, options)
                 \/ \E bad \in SUBSET D!Docs : D!Load(q, bad)
                 \/ D!MarkMissing(q) \/ D!Skip(q) \/ D!Chunk(q) \/ D!Replace(q)
                 \/ D!IndexingFails(q) \/ D!WriteMeta(q) \/ D!Finish(q) \/ D!Fails(q) \/ D!Crash(q)
      BY <3>1 DEF D!Start, D!Load, D!MarkMissing, D!Skip, D!Chunk, D!Replace, D!IndexingFails,
                  D!WriteMeta, D!Fails, D!Crash
    <3>2. CASE \E e \in D!Docs, text \in Texts \cup {"none"} : D!Edit(e, text)
      BY <3>2 DEF D!Edit
    <3> QED
      BY <3>1, <3>2 DEF D!DocNext
  <2>2. D!Finish(q)
    BY <1>0, <2>1
  <2>3. q = r
    BY <1>0, <2>2 DEF D!Finish
  <2> QED
    BY <1>0, <2>2, <2>3 DEF D!Finish, D!Doing
<1>2. MirrorOf(r) /\ Loaded(r)
  BY <1>1 DEF IdxInv, Loaded
<1>3. run[r].todo = {} /\ meta = run[r].model
  BY <1>1, <1>2 DEF MirrorOf
<1>4. MirrorsFile(r, d)
  BY <1>1, <1>2, <1>3 DEF MirrorOf, D!Seen
<1> QED
  BY <1>3, <1>4 DEF MirrorsFile

\* Only the marking of missing documents takes chunks away.
LEMMA ChunksGo ==
    ASSUME IdxInv, D!DocIndexAssumption, D!DocNext, NEW d \in D!Docs, chunks[d] # {},
           chunks'[d] = {}
    PROVE  \E r \in D!Runs : D!Doing(r, "missing") /\ ~run[r].dry /\ d \notin D!Seen(r)
<1>1. chunks \in [D!Docs -> SUBSET [text : Texts, model : Models]] /\ chunks' # chunks
  BY DEF IdxInv, IdxTypes, D!DocTypeOK
<1>2. PICK r \in D!Runs : D!MarkMissing(r) \/ D!Replace(r)
  <2>1. CASE \E e \in D!Docs, text \in Texts \cup {"none"} : D!Edit(e, text)
    BY <1>1, <2>1 DEF D!Edit, D!store
  <2>2. CASE \E q \in D!Runs :
               \/ \E model \in Models, options \in Options : D!Start(q, model, options)
               \/ \E bad \in SUBSET D!Docs : D!Load(q, bad)
               \/ D!MarkMissing(q) \/ D!Skip(q) \/ D!Chunk(q) \/ D!Replace(q)
               \/ D!IndexingFails(q) \/ D!WriteMeta(q) \/ D!Finish(q) \/ D!Fails(q) \/ D!Crash(q)
    BY <1>1, <2>2 DEF D!Start, D!Load, D!Skip, D!Chunk, D!IndexingFails, D!WriteMeta, D!Finish,
                      D!Fails, D!Crash, D!store
  <2> QED
    BY <2>1, <2>2 DEF D!DocNext
<1>3. ~D!Replace(r)
  <2> SUFFICES ASSUME D!Replace(r) PROVE FALSE
    OBVIOUS
  <2>1. PICK x \in {D!Current(r)} :
          chunks' = [chunks EXCEPT ![x.doc] = {[text |-> x.text, model |-> run[r].model]}]
    BY <1>1 DEF D!Replace
  <2> QED
    BY <1>1, <2>1
<1>4. D!MarkMissing(r)
  BY <1>2, <1>3
<1>5. run[r].at = "missing" /\ d \notin D!Seen(r)
  BY <1>1, <1>4 DEF D!MarkMissing, D!Doing
<1> QED
  BY <1>5 DEF D!Doing, IdxInv, IdxTypes, Proper

\* The document index (doc_rag), for any number of documents, runs and edits: what a search
\* finds of a document is what its row says; a run that says it succeeded leaves an index that
\* mirrors the files as they are, of the model that meta names after a rebuild, unless a file
\* or another run was in between; and the chunks of a document go only in a run that
\* did not get to see its file.
THEOREM IndexMirrors == ToolsSpec => IndexMirrorsDisk
<1> DEFINE Inv == part = "index" => IdxInv
<1>1. ToolsInit => Inv
  BY IdxStart DEF ToolsInit
<1>2. Inv /\ [ToolsNext]_<<part, allParts>> => Inv'
  <2> SUFFICES ASSUME Inv, part' = "index", [ToolsNext]_<<part, allParts>>
               PROVE  IdxInv'
    OBVIOUS
  <2>1. part = "index" /\ (D!DocNext \/ UNCHANGED idxVars)
    BY DEF ToolsNext, allParts
  <2> QED
    BY <2>1, IdxStep, IdxStay, ToolsAssumption
<1>3. Inv => (part = "index" => D!DocTypeOK /\ D!ChunksAreTheRows)
  BY DEF IdxInv, IdxTypes
<1>4. Inv /\ [ToolsNext]_<<part, allParts>> => (part = "index" /\ D!DocNext /\ IdxInv) \/ UNCHANGED D!docVars
  BY DEF ToolsNext, allParts, idxVars, D!docVars
<1>5. Inv /\ [ToolsNext]_<<part, allParts>> =>
        [\A r \in D!Runs :
            /\ indexRuns'[r] = "succeeded" /\ indexRuns[r] # "succeeded"
            /\ ~run[r].dry /\ r \notin disturbed
            => \A d \in D!Docs :
                 /\ {c.text : c \in chunks[d]} = {disk[d]} \ {"none"}
                 /\ run[r].rebuild => {c.model : c \in chunks[d]} \subseteq {meta}]_(D!docVars)
  BY <1>4, SuccessStep
<1>6. Inv /\ [ToolsNext]_<<part, allParts>> =>
        [\A d \in D!Docs : chunks[d] # {} /\ chunks'[d] = {} =>
            \E r \in D!Runs : D!Doing(r, "missing") /\ ~run[r].dry /\ d \notin D!Seen(r)]_(D!docVars)
  BY <1>4, ChunksGo, ToolsAssumption
<1>7. ToolsSpec => D!SuccessMirrorsDisk
  BY <1>1, <1>2, <1>5, PTL DEF ToolsSpec, D!SuccessMirrorsDisk
<1>8. ToolsSpec => D!SeenStaysFindable
  BY <1>1, <1>2, <1>6, PTL DEF ToolsSpec, D!SeenStaysFindable
<1>9. ToolsSpec => [](part = "index" => D!DocTypeOK /\ D!ChunksAreTheRows)
  BY <1>1, <1>2, <1>3, PTL DEF ToolsSpec
<1> QED
  BY <1>7, <1>8, <1>9 DEF IndexMirrorsDisk

-------------------------------------------------------------------------------
(* Shell commands *)

Applied == {"run", "running", "output", "mark", "finalize", "outcome"}
Final == {"executed", "execution_failed"}
Serving == [at : {"preview", "record", "load", "resolve", "consume"} \cup Applied,
            id : Commands, run : BOOLEAN, preview : 0..MaxPreviews,
            result : {"none", "succeeded", "failed"}]

ShellTypes ==
    /\ C!ShellEffectTypeOK
    /\ serving \in [Servers -> {C!Free} \cup Serving]
    /\ launched \in [Commands -> Seq(0..MaxPreviews)]
    /\ outcome \in [Commands -> {"none", "succeeded", "failed"}]

IsBusy(p) == serving[p].at # "idle"
Applies(p, a) == serving[p].at \in Applied /\ serving[p].id = a

\* A preview that is made and not recorded yet is known to its process only.
PreviewInv ==
    /\ \A a \in Commands : {record[a].preview, record[a].output} \subseteq prepared \cup {0}
    /\ \A p \in Servers : IsBusy(p) =>
          /\ serving[p].preview \in prepared \cup {0}
          /\ serving[p].at \notin {"preview", "load"} => serving[p].preview # 0
          /\ serving[p].at = "load" => record[serving[p].id].preview # 0
          /\ serving[p].at = "record" =>
                /\ \A a \in Commands :
                      serving[p].preview \notin {record[a].preview, record[a].output}
                /\ \A q \in Servers : IsBusy(q) /\ q # p => serving[q].preview # serving[p].preview

\* The result that a process holds is what became of the container, if there was one.
ResultIsTrue(p, a) ==
    \/ serving[p].result = "failed" /\ launched[a] = <<>> /\ outcome[a] = "none"
    \/ /\ serving[p].result \in C!Outcomes /\ outcome[a] = serving[p].result
       /\ launched[a] = <<serving[p].preview>>

\* What a process knows that applies an approval.
ApplyOK(p, a) ==
    /\ approved[a] = "consumed"
    /\ serving[p].at \in {"run", "running", "output", "mark"} =>
          record[a].output = 0 /\ record[a].status \notin Final
    /\ serving[p].at = "run" => launched[a] = <<>> /\ outcome[a] = "none"
    /\ serving[p].at = "running" => launched[a] = <<serving[p].preview>> /\ outcome[a] = "none"
    /\ serving[p].at \in {"output", "mark", "finalize", "outcome"} => ResultIsTrue(p, a)
    /\ serving[p].at = "finalize" =>
          /\ record[a].output = serving[p].preview
          /\ \/ record[a].status = C!StatusOf(serving[p].result)
             \/ record[a].status = "preview_ready" /\ record[a].preview # record[a].output

\* It has used the approval up, and is the only one.
ApplyInv ==
    \A p \in Servers, a \in Commands : Applies(p, a) =>
        ApplyOK(p, a) /\ \A q \in Servers : Applies(q, a) => q = p

\* Nothing was done with an approval that is not used up; what is recorded of one that is,
\* is what happened.
CommandOK(a) ==
    /\ approved[a] \in {"approved", "expired"} =>
          /\ launched[a] = <<>> /\ outcome[a] = "none"
          /\ record[a].output = 0 /\ record[a].status \notin Final
    /\ launched[a] = <<>> \/ \E n \in prepared : launched[a] = <<n>>
    /\ "executed" \in {approved[a], record[a].status} => outcome[a] = "succeeded"
    /\ "execution_failed" \in {approved[a], record[a].status} => outcome[a] # "succeeded"
    /\ record[a].output # 0 /\ launched[a] # <<>> => launched[a] = <<record[a].output>>
    /\ approved[a] \in Final =>
          /\ record[a].output # 0
          /\ \/ record[a].status = approved[a]
             \/ record[a].status = "preview_ready" /\ record[a].preview # record[a].output

\* The inductive invariant.
ShellInv == ShellTypes /\ PreviewInv /\ ApplyInv /\ \A a \in Commands : CommandOK(a)

\* A process goes on to something else; the others do what they did.
LEMMA ServingMoves ==
    ASSUME ShellTypes, NEW p \in Servers, NEW x \in {C!Free} \cup Serving,
           serving' = [serving EXCEPT ![p] = x]
    PROVE  /\ serving' \in [Servers -> {C!Free} \cup Serving] /\ serving'[p] = x
           /\ \A q \in Servers : q # p => serving'[q] = serving[q]
BY DEF ShellTypes

LEMMA FreeType == C!Free \in {C!Free} \cup Serving /\ C!Free.at = "idle"
BY DEF C!Free

\* A process in the middle of a command knows its approval.
LEMMA ServingFields ==
    ASSUME ShellTypes, NEW p \in Servers, IsBusy(p)
    PROVE  /\ serving[p] \in Serving /\ serving[p].id \in Commands
           /\ serving[p].preview \in 0..MaxPreviews
           /\ serving[p].run \in BOOLEAN /\ serving[p].result \in {"none", "succeeded", "failed"}
BY DEF ShellTypes, IsBusy, C!Free, Serving

LEMMA ServingGoes ==
    ASSUME ShellTypes, NEW p \in Servers, IsBusy(p),
           NEW place \in {"record", "load", "resolve", "consume"} \cup Applied, C!Go(p, place)
    PROVE  /\ serving' \in [Servers -> {C!Free} \cup Serving]
           /\ serving'[p].at = place /\ serving'[p].id = serving[p].id
           /\ serving'[p].preview = serving[p].preview /\ serving'[p].result = serving[p].result
           /\ \A q \in Servers : q # p => serving'[q] = serving[q]
<1>1. serving[p] \in Serving
  BY ServingFields
<1> DEFINE x == [serving[p] EXCEPT !.at = place]
<1>2. /\ x \in Serving /\ x.at = place /\ x.id = serving[p].id
      /\ x.preview = serving[p].preview /\ x.result = serving[p].result
  BY <1>1 DEF Serving
<1>3. serving' = [serving EXCEPT ![p] = x]
  BY DEF C!Go
<1> HIDE DEF x
<1> QED
  BY <1>2, <1>3, ServingMoves

\* No preview is made: a process takes one of those that are recorded, or keeps its own,
\* and may record it.
LEMMA PreviewsKept ==
    ASSUME ShellTypes, PreviewInv, NEW p \in Servers, prepared' = prepared,
           \A q \in Servers : q # p => serving'[q] = serving[q],
           \A a \in Commands :
              /\ \/ record'[a].preview = record[a].preview
                 \/ /\ IsBusy(p) /\ serving[p].preview # 0
                    /\ record'[a].preview = serving[p].preview
              /\ \/ record'[a].output = record[a].output
                 \/ /\ IsBusy(p) /\ serving[p].preview # 0
                    /\ record'[a].output = serving[p].preview,
           IsBusy(p)' =>
              /\ serving'[p].at # "record" /\ serving'[p].id \in Commands
              /\ serving'[p].at \notin {"preview", "load"} => serving'[p].preview # 0
              /\ serving'[p].at = "load" => record'[serving'[p].id].preview # 0
              /\ \/ serving'[p].preview = 0
                 \/ IsBusy(p) /\ serving'[p].preview = serving[p].preview
                 \/ \E a \in Commands : serving'[p].preview = record[a].preview
    PROVE  PreviewInv'
<1>1. IsBusy(p) => serving[p].preview \in prepared \cup {0}
  BY DEF PreviewInv
<1>2. ASSUME NEW a \in Commands
      PROVE  {record'[a].preview, record'[a].output} \subseteq prepared' \cup {0}
  BY <1>1 DEF PreviewInv
<1>3. IsBusy(p)' => serving'[p].preview \in prepared' \cup {0}
  BY <1>1 DEF PreviewInv
<1>4. ASSUME NEW q \in Servers, q # p, IsBusy(q)'
      PROVE  /\ IsBusy(q) /\ serving'[q] = serving[q]
             /\ serving'[q].preview \in prepared' \cup {0}
             /\ serving'[q].at \notin {"preview", "load"} => serving'[q].preview # 0
  BY <1>4 DEF PreviewInv, IsBusy
<1>5. ASSUME NEW q \in Servers, q # p, IsBusy(q)', serving'[q].at = "load"
      PROVE  record'[serving'[q].id].preview # 0
  <2>1. IsBusy(q) /\ serving'[q] = serving[q]
    BY <1>4, <1>5
  <2>2. serving[q].id \in Commands /\ record[serving[q].id].preview # 0
    BY <1>5, <2>1, ServingFields DEF PreviewInv
  <2> QED
    BY <2>1, <2>2
<1>6. ASSUME NEW q \in Servers, q # p, IsBusy(q)', serving'[q].at = "record"
      PROVE  /\ \A a \in Commands :
                   serving'[q].preview \notin {record'[a].preview, record'[a].output}
             /\ \A r \in Servers : IsBusy(r)' /\ r # q => serving'[r].preview # serving'[q].preview
  <2>1. IsBusy(q) /\ serving'[q] = serving[q] /\ serving[q].at = "record"
    BY <1>4, <1>6
  <2>2. /\ \A a \in Commands : serving[q].preview \notin {record[a].preview, record[a].output}
        /\ \A r \in Servers : IsBusy(r) /\ r # q => serving[r].preview # serving[q].preview
        /\ serving[q].preview # 0
    BY <2>1 DEF PreviewInv
  <2>3. IsBusy(p) => serving[p].preview # serving[q].preview
    BY <1>6, <2>2
  <2>4. IsBusy(p)' => serving'[p].preview # serving'[q].preview
    BY <2>1, <2>2, <2>3
  <2>5. \A r \in Servers : r # p /\ r # q /\ IsBusy(r)' => serving'[r].preview # serving'[q].preview
    BY <1>4, <2>1, <2>2
  <2>6. \A a \in Commands : serving'[q].preview \notin {record'[a].preview, record'[a].output}
    BY <2>1, <2>2, <2>3
  <2> QED
    BY <2>4, <2>5, <2>6
<1>7. ASSUME NEW q \in Servers, IsBusy(q)'
      PROVE  /\ serving'[q].preview \in prepared' \cup {0}
             /\ serving'[q].at \notin {"preview", "load"} => serving'[q].preview # 0
             /\ serving'[q].at = "load" => record'[serving'[q].id].preview # 0
             /\ serving'[q].at = "record" =>
                   /\ \A a \in Commands :
                         serving'[q].preview \notin {record'[a].preview, record'[a].output}
                   /\ \A r \in Servers :
                         IsBusy(r)' /\ r # q => serving'[r].preview # serving'[q].preview
  BY <1>3, <1>4, <1>5, <1>6, <1>7
<1> QED
  BY <1>2, <1>7 DEF PreviewInv, IsBusy

\* Between two commands, and before the approval is used up, nothing is done with it.
LEMMA QuietUse ==
    ASSUME ShellInv, NEW p \in Servers, serving'[p].at \notin Applied,
           \A q \in Servers : q # p => serving'[q] = serving[q],
           launched' = launched, outcome' = outcome, prepared \subseteq prepared',
           \A a \in Commands :
              /\ \/ approved'[a] = approved[a]
                 \/ approved[a] = "approved" /\ approved'[a] = "expired"
              /\ record'[a].output = record[a].output
              /\ \/ record'[a].status = record[a].status /\ record'[a].preview = record[a].preview
                 \/ approved[a] = "approved" /\ record'[a].status \notin Final
                 \/ record'[a].status = "preview_ready" /\ record'[a].preview # record'[a].output
    PROVE  ApplyInv' /\ \A a \in Commands : CommandOK(a)'
<1>1. ASSUME NEW q \in Servers, NEW a \in Commands, Applies(q, a)'
      PROVE  Applies(q, a) /\ q # p /\ serving'[q] = serving[q]
  BY <1>1 DEF Applies
<1>2. ASSUME NEW q \in Servers, NEW a \in Commands, Applies(q, a)' PROVE ApplyOK(q, a)'
  <2>1. Applies(q, a) /\ serving'[q] = serving[q]
    BY <1>1, <1>2
  <2>2. ApplyOK(q, a)
    BY <2>1 DEF ShellInv, ApplyInv
  <2>3. approved'[a] = approved[a] /\ approved[a] = "consumed"
    BY <2>2 DEF ApplyOK
  <2> QED
    BY <2>1, <2>2, <2>3 DEF ApplyOK, ResultIsTrue, Final
<1>3. ASSUME NEW q \in Servers, NEW a \in Commands, Applies(q, a)', NEW r \in Servers,
             Applies(r, a)'
      PROVE  r = q
  BY <1>1, <1>3 DEF ShellInv, ApplyInv
<1>4. ASSUME NEW a \in Commands PROVE CommandOK(a)'
  <2>1. CommandOK(a)
    BY DEF ShellInv
  <2>2. CASE approved[a] = "approved"
    <3>1. approved'[a] \in {"approved", "expired"}
      BY <2>2
    <3> QED
      BY <2>1, <2>2, <3>1 DEF CommandOK, Final
  <2>3. CASE approved[a] # "approved"
    BY <2>1, <2>3 DEF CommandOK, Final
  <2> QED
    BY <2>2, <2>3
<1> QED
  BY <1>2, <1>3, <1>4 DEF ApplyInv

\* A step of a process that uses an approval up, or has, concerns that approval.
LEMMA OwnUse ==
    ASSUME ShellInv, NEW p \in Servers, NEW a \in Commands,
           \A q \in Servers : q # p => serving'[q] = serving[q],
           prepared' = prepared,
           \A b \in Commands : b # a =>
              /\ approved'[b] = approved[b] /\ record'[b] = record[b]
              /\ launched'[b] = launched[b] /\ outcome'[b] = outcome[b],
           Applies(p, a) \/ ~IsBusy(p) \/ serving[p].at \notin Applied,
           Applies(p, a) \/ approved[a] = "approved",
           serving'[p].at \in Applied => serving'[p].id = a /\ ApplyOK(p, a)',
           CommandOK(a)'
    PROVE  ApplyInv' /\ \A b \in Commands : CommandOK(b)'
<1>1. \A q \in Servers : q # p => ~Applies(q, a)
  BY DEF ShellInv, ApplyInv, ApplyOK
<1>2. ASSUME NEW q \in Servers, NEW b \in Commands, Applies(q, b)'
      PROVE  \/ q = p /\ b = a
             \/ q # p /\ b # a /\ Applies(q, b) /\ serving'[q] = serving[q]
  <2>1. CASE q = p
    BY <1>2, <2>1 DEF Applies
  <2>2. CASE q # p
    <3>1. Applies(q, b) /\ serving'[q] = serving[q]
      BY <1>2, <2>2 DEF Applies
    <3> QED
      BY <1>1, <2>2, <3>1
  <2> QED
    BY <2>1, <2>2
<1>3. ASSUME NEW q \in Servers, NEW b \in Commands, Applies(q, b)' PROVE ApplyOK(q, b)'
  <2>1. CASE q = p /\ b = a
    BY <1>3, <2>1 DEF Applies
  <2>2. CASE q # p /\ b # a /\ Applies(q, b) /\ serving'[q] = serving[q]
    <3>1. ApplyOK(q, b)
      BY <2>2 DEF ShellInv, ApplyInv
    <3> QED
      BY <2>2, <3>1 DEF ApplyOK, ResultIsTrue, Final
  <2> QED
    BY <1>2, <1>3, <2>1, <2>2
<1>4. ASSUME NEW q \in Servers, NEW b \in Commands, Applies(q, b)', NEW r \in Servers,
             Applies(r, b)'
      PROVE  r = q
  BY <1>2, <1>4 DEF ShellInv, ApplyInv
<1>5. ASSUME NEW b \in Commands PROVE CommandOK(b)'
  <2>1. CommandOK(b)
    BY DEF ShellInv
  <2> QED
    BY <2>1 DEF CommandOK
<1> QED
  BY <1>3, <1>4, <1>5 DEF ApplyInv

\* Preparing, and what comes before the approval is used up.
LEMMA PrepareSteps ==
    ASSUME ShellInv, C!ShellEffectAssumption, NEW p \in Servers, NEW a \in Commands,
           \/ \E run2 \in BOOLEAN : C!Prepare(p, a, run2)
           \/ C!Reuse(p, a) \/ C!MakePreview(p)
    PROVE  ShellInv'
<1>0. ShellTypes /\ PreviewInv /\ MaxPreviews \in Nat /\ C!ShellEffectTypeOK
  BY DEF ShellInv, C!ShellEffectAssumption, ShellTypes
<1>1. ASSUME NEW run2 \in BOOLEAN, C!Prepare(p, a, run2) PROVE ShellInv'
  <2> DEFINE x == [at |-> "preview", id |-> a, run |-> run2, preview |-> 0, result |-> "none"]
  <2>1. /\ serving[p].at = "idle" /\ approved[a] = "approved"
        /\ record' = [record EXCEPT ![a].status = IF @ = "none" THEN "payload_recorded" ELSE @]
        /\ serving' = [serving EXCEPT ![p] = x]
        /\ UNCHANGED <<approved, prepared, deaths, launched, outcome>>
    BY <1>1 DEF C!Prepare, C!At
  <2>2. x \in Serving /\ x.at = "preview" /\ x.id = a /\ x.preview = 0
    BY <1>0 DEF Serving
  <2> HIDE DEF x
  <2>3. /\ serving' \in [Servers -> {C!Free} \cup Serving] /\ serving'[p] = x
        /\ \A q \in Servers : q # p => serving'[q] = serving[q]
    BY <1>0, <2>1, <2>2, ServingMoves
  <2>4. /\ record' \in [Commands -> [status : {"none", "payload_recorded", "preview_ready",
                                              "executed", "execution_failed"},
                                    preview : 0..MaxPreviews, output : 0..MaxPreviews]]
        /\ \A b \in Commands : /\ record'[b].preview = record[b].preview
                               /\ record'[b].output = record[b].output
                               /\ b # a => record'[b] = record[b]
        /\ record'[a].status \in {record[a].status, "payload_recorded"}
    BY <1>0, <2>1 DEF C!ShellEffectTypeOK
  <2>5. ShellTypes'
    BY <1>0, <2>1, <2>3, <2>4 DEF ShellTypes, C!ShellEffectTypeOK
  <2>6. PreviewInv'
    BY <1>0, <2>1, <2>2, <2>3, <2>4, PreviewsKept
  <2>7. record[a].status \notin Final
    BY <2>1 DEF ShellInv, CommandOK
  <2>8. ApplyInv' /\ \A b \in Commands : CommandOK(b)'
    BY <2>1, <2>2, <2>3, <2>4, <2>7, QuietUse DEF Applied, Final
  <2> QED
    BY <2>5, <2>6, <2>8 DEF ShellInv
<1>2. CASE C!Reuse(p, a)
  <2> DEFINE x == [at |-> "resolve", id |-> a, run |-> TRUE, preview |-> record[a].preview,
                   result |-> "none"]
  <2>1. /\ serving[p].at = "idle" /\ record[a].preview # 0
        /\ serving' = [serving EXCEPT ![p] = x]
        /\ UNCHANGED <<approved, record, prepared, deaths, launched, outcome>>
    BY <1>2 DEF C!Reuse, C!At
  <2>2. /\ x \in Serving /\ x.at = "resolve" /\ x.id = a /\ x.preview = record[a].preview
    BY <1>0 DEF Serving, C!ShellEffectTypeOK
  <2> HIDE DEF x
  <2>3. /\ serving' \in [Servers -> {C!Free} \cup Serving] /\ serving'[p] = x
        /\ \A q \in Servers : q # p => serving'[q] = serving[q]
    BY <1>0, <2>1, <2>2, ServingMoves
  <2>4. ShellTypes'
    BY <1>0, <2>1, <2>3 DEF ShellTypes, C!ShellEffectTypeOK
  <2>5. PreviewInv'
    BY <1>0, <2>1, <2>2, <2>3, PreviewsKept
  <2>6. ApplyInv' /\ \A b \in Commands : CommandOK(b)'
    BY <2>1, <2>2, <2>3, QuietUse DEF Applied
  <2> QED
    BY <2>4, <2>5, <2>6 DEF ShellInv
<1>3. CASE C!MakePreview(p)
  <2>1. PICK new \in 1..MaxPreviews :
          /\ new \notin prepared /\ prepared' = prepared \cup {new}
          /\ serving' = [serving EXCEPT ![p].at = "record", ![p].preview = new]
    BY <1>3 DEF C!MakePreview
  <2>2. serving[p].at = "preview" /\ UNCHANGED <<approved, record, deaths, launched, outcome>>
    BY <1>3 DEF C!MakePreview, C!At
  <2> DEFINE x == [serving[p] EXCEPT !.at = "record", !.preview = new]
  <2>3. IsBusy(p) /\ serving[p] \in Serving /\ serving[p].id \in Commands
    BY <1>0, <2>2, ServingFields DEF IsBusy
  <2>31. new \in 0..MaxPreviews
    BY <1>0, <2>1
  <2>4. x \in Serving /\ x.at = "record" /\ x.preview = new /\ x.id = serving[p].id
    BY <2>3, <2>31 DEF Serving, Applied
  <2>5. serving' = [serving EXCEPT ![p] = x]
    BY <1>0, <2>1 DEF ShellTypes
  <2> HIDE DEF x
  <2>6. /\ serving' \in [Servers -> {C!Free} \cup Serving] /\ serving'[p] = x
        /\ \A q \in Servers : q # p => serving'[q] = serving[q]
    BY <1>0, <2>4, <2>5, ServingMoves
  <2>7. ShellTypes'
    BY <1>0, <2>1, <2>2, <2>6 DEF ShellTypes, C!ShellEffectTypeOK
  <2>8. new # 0
    BY <1>0, <2>1
  <2>9. PreviewInv'
    <3>1. \A b \in Commands : {record'[b].preview, record'[b].output} \subseteq prepared' \cup {0}
      BY <1>0, <2>1, <2>2 DEF PreviewInv
    <3>2. \A b \in Commands : new \notin {record'[b].preview, record'[b].output}
      BY <1>0, <2>1, <2>2, <2>8 DEF PreviewInv
    <3>3. ASSUME NEW q \in Servers, q # p, IsBusy(q)'
          PROVE  /\ IsBusy(q) /\ serving'[q] = serving[q]
                 /\ serving'[q].preview \in prepared \cup {0}
                 /\ serving'[q].preview # new
      BY <1>0, <2>1, <2>6, <2>8, <3>3 DEF PreviewInv, IsBusy
    <3>4. ASSUME NEW q \in Servers, IsBusy(q)'
          PROVE  /\ serving'[q].preview \in prepared' \cup {0}
                 /\ serving'[q].at \notin {"preview", "load"} => serving'[q].preview # 0
                 /\ serving'[q].at = "load" => record'[serving'[q].id].preview # 0
                 /\ serving'[q].at = "record" =>
                       /\ \A b \in Commands :
                             serving'[q].preview \notin {record'[b].preview, record'[b].output}
                       /\ \A r \in Servers :
                             IsBusy(r)' /\ r # q => serving'[r].preview # serving'[q].preview
      <4>1. CASE q = p
        BY <2>1, <2>4, <2>6, <2>8, <3>2, <3>3, <4>1
      <4>2. CASE q # p
        <5>1. IsBusy(q) /\ serving'[q] = serving[q] /\ serving'[q].preview \in prepared \cup {0}
              /\ serving'[q].preview # new
          BY <3>3, <3>4, <4>2
        <5>2. serving[q].at = "record" =>
                 \A r \in Servers : IsBusy(r)' /\ r # q => serving'[r].preview # serving'[q].preview
          BY <1>0, <2>4, <2>6, <3>3, <5>1 DEF PreviewInv
        <5>3. /\ serving[q].at \notin {"preview", "load"} => serving[q].preview # 0
              /\ serving[q].at = "load" => record[serving[q].id].preview # 0
              /\ serving[q].at = "record" => \A b \in Commands :
                    serving[q].preview \notin {record[b].preview, record[b].output}
          BY <1>0, <5>1 DEF PreviewInv
        <5>4. record' = record /\ prepared \subseteq prepared'
          BY <2>1, <2>2
        <5>5. serving'[q].at = "load" => record'[serving'[q].id].preview # 0
          BY <5>1, <5>3, <5>4
        <5>6. serving'[q].at = "record" => \A b \in Commands :
                 serving'[q].preview \notin {record'[b].preview, record'[b].output}
          BY <5>1, <5>3, <5>4
        <5>7. /\ serving'[q].preview \in prepared' \cup {0}
              /\ serving'[q].at \notin {"preview", "load"} => serving'[q].preview # 0
          BY <5>1, <5>3, <5>4
        <5> QED
          BY <5>1, <5>2, <5>5, <5>6, <5>7
      <4> QED
        BY <4>1, <4>2
    <3> QED
      BY <3>1, <3>4 DEF PreviewInv, IsBusy
  <2>10. ApplyInv' /\ \A b \in Commands : CommandOK(b)'
    BY <2>1, <2>2, <2>4, <2>6, QuietUse DEF Applied
  <2> QED
    BY <2>7, <2>9, <2>10 DEF ShellInv
<1> QED
  BY <1>1, <1>2, <1>3

LEMMA ServingReturns ==
    ASSUME ShellTypes, NEW p \in Servers, C!Return(p)
    PROVE  /\ serving' \in [Servers -> {C!Free} \cup Serving] /\ serving'[p].at = "idle"
           /\ \A q \in Servers : q # p => serving'[q] = serving[q]
BY ServingMoves, FreeType DEF C!Return

\* A process stops, dies, or goes on without touching anything.
LEMMA IdleSteps ==
    ASSUME ShellInv, C!ShellEffectAssumption, NEW p \in Servers,
           \/ C!PrepareFails(p) \/ C!Load(p) \/ C!Resolve(p) \/ C!Dies(p)
    PROVE  ShellInv'
<1>0. ShellTypes /\ PreviewInv /\ MaxDeaths \in Nat /\ C!ShellEffectTypeOK
  BY DEF ShellInv, C!ShellEffectAssumption, ShellTypes
<1>1. /\ IsBusy(p) /\ UNCHANGED <<approved, record, prepared, launched, outcome>>
      /\ deaths' \in 0..MaxDeaths
  BY <1>0 DEF C!PrepareFails, C!Load, C!Resolve, C!Dies, C!At, IsBusy, C!ShellEffectTypeOK
<1>2. /\ serving[p] \in Serving /\ serving[p].id \in Commands
      /\ serving[p].preview \in 0..MaxPreviews
  BY <1>0, <1>1, ServingFields
<1>3. \/ C!Return(p)
      \/ serving[p].at = "resolve" /\ C!Go(p, "consume")
      \/ /\ serving[p].at = "load"
         /\ serving' = [serving EXCEPT ![p].at = "resolve",
                                       ![p].preview = record[serving[p].id].preview]
  BY DEF C!PrepareFails, C!Load, C!Resolve, C!Dies, C!At
<1>4. ASSUME serving' \in [Servers -> {C!Free} \cup Serving],
             \A q \in Servers : q # p => serving'[q] = serving[q],
             \/ serving'[p].at = "idle"
             \/ /\ serving'[p].at \in {"resolve", "consume"} /\ serving'[p].id \in Commands
                /\ serving'[p].preview # 0
                /\ \/ serving'[p].preview = serving[p].preview
                   \/ \E a \in Commands : serving'[p].preview = record[a].preview
      PROVE  ShellInv'
  <2>1. ShellTypes'
    BY <1>0, <1>1, <1>4 DEF ShellTypes, C!ShellEffectTypeOK
  <2>2. PreviewInv'
    BY <1>0, <1>1, <1>4, PreviewsKept DEF IsBusy
  <2>3. serving'[p].at \notin Applied
    BY <1>4 DEF Applied
  <2>4. ApplyInv' /\ \A a \in Commands : CommandOK(a)'
    BY <1>1, <1>4, <2>3, QuietUse
  <2> QED
    BY <2>1, <2>2, <2>4 DEF ShellInv
<1>5. CASE C!Return(p)
  BY <1>0, <1>4, <1>5, ServingReturns
<1>6. CASE serving[p].at = "resolve" /\ C!Go(p, "consume")
  <2>1. serving[p].preview # 0
    BY <1>0, <1>1, <1>6 DEF PreviewInv
  <2> QED
    BY <1>0, <1>1, <1>2, <1>4, <1>6, <2>1, ServingGoes
<1>7. CASE /\ serving[p].at = "load"
           /\ serving' = [serving EXCEPT ![p].at = "resolve",
                                         ![p].preview = record[serving[p].id].preview]
  <2> DEFINE n == record[serving[p].id].preview
             x == [serving[p] EXCEPT !.at = "resolve", !.preview = n]
  <2>1. n \in 0..MaxPreviews /\ n # 0
    BY <1>0, <1>1, <1>2, <1>7 DEF PreviewInv, C!ShellEffectTypeOK
  <2>2. serving' = [serving EXCEPT ![p] = x]
    BY <1>0, <1>7 DEF ShellTypes
  <2>3. \E a \in Commands : n = record[a].preview
    BY <1>2
  <2> HIDE DEF n
  <2>4. x \in Serving /\ x.at = "resolve" /\ x.preview = n /\ x.id = serving[p].id
    BY <1>2, <2>1 DEF Serving
  <2> HIDE DEF x
  <2>5. /\ serving' \in [Servers -> {C!Free} \cup Serving] /\ serving'[p] = x
        /\ \A q \in Servers : q # p => serving'[q] = serving[q]
    BY <1>0, <2>2, <2>4, ServingMoves
  <2> QED
    BY <1>2, <1>4, <2>1, <2>3, <2>4, <2>5
<1> QED
  BY <1>3, <1>5, <1>6, <1>7

\* The preview is recorded: it is no output of an earlier run.
LEMMA RecordStep ==
    ASSUME ShellInv, C!ShellEffectAssumption, NEW p \in Servers, C!RecordPreview(p)
    PROVE  ShellInv'
<1>0. ShellTypes /\ PreviewInv /\ C!ShellEffectTypeOK
  BY DEF ShellInv, ShellTypes
<1> DEFINE a == serving[p].id
           n == serving[p].preview
<1>1. /\ serving[p].at = "record" /\ IsBusy(p)
      /\ record' = [record EXCEPT ![a].status = "preview_ready", ![a].preview = n]
      /\ C!Go(p, "load") \/ C!Return(p)
      /\ UNCHANGED <<approved, prepared, deaths, launched, outcome>>
  BY DEF C!RecordPreview, C!At, IsBusy
<1>2. a \in Commands /\ n \in 0..MaxPreviews /\ n # 0 /\ n # record[a].output
  BY <1>0, <1>1, ServingFields DEF PreviewInv
<1>3. /\ serving' \in [Servers -> {C!Free} \cup Serving]
      /\ \A q \in Servers : q # p => serving'[q] = serving[q]
      /\ \/ serving'[p].at = "idle"
         \/ serving'[p].at = "load" /\ serving'[p].id = a /\ serving'[p].preview = n
  BY <1>0, <1>1, ServingGoes, ServingReturns
<1> HIDE DEF a, n
<1>4. /\ record' \in [Commands -> [status : {"none", "payload_recorded", "preview_ready",
                                            "executed", "execution_failed"},
                                  preview : 0..MaxPreviews, output : 0..MaxPreviews]]
      /\ record'[a].preview = n /\ record'[a].output = record[a].output
      /\ record'[a].status = "preview_ready"
      /\ \A b \in Commands : b # a => record'[b] = record[b]
  BY <1>0, <1>1, <1>2 DEF C!ShellEffectTypeOK
<1>5. ShellTypes'
  BY <1>0, <1>1, <1>3, <1>4 DEF ShellTypes, C!ShellEffectTypeOK
<1>6. PreviewInv'
  <2>1. \A b \in Commands :
           /\ \/ record'[b].preview = record[b].preview
              \/ /\ IsBusy(p) /\ serving[p].preview # 0
                 /\ record'[b].preview = serving[p].preview
           /\ record'[b].output = record[b].output
    BY <1>1, <1>2, <1>4 DEF n
  <2>2. IsBusy(p)' =>
              /\ serving'[p].at = "load" /\ serving'[p].id \in Commands
              /\ record'[serving'[p].id].preview # 0
              /\ serving'[p].preview = serving[p].preview
    BY <1>2, <1>3, <1>4 DEF n, IsBusy
  <2> QED
    BY <1>0, <1>1, <1>3, <2>1, <2>2, PreviewsKept
<1>7. ApplyInv' /\ \A b \in Commands : CommandOK(b)'
  <2>1. serving'[p].at \notin Applied
    BY <1>3 DEF Applied
  <2> QED
    BY <1>1, <1>2, <1>3, <1>4, <2>1, QuietUse
<1> QED
  BY <1>5, <1>6, <1>7 DEF ShellInv

\* What a step of an approval that is used up, or just being used up, leaves to check.
LEMMA OwnStep ==
    ASSUME ShellInv, NEW p \in Servers, NEW a \in Commands, IsBusy(p), serving[p].id = a,
           serving[p].preview # 0,
           C!ShellEffectTypeOK', prepared' = prepared,
           launched' \in [Commands -> Seq(0..MaxPreviews)],
           outcome' \in [Commands -> {"none", "succeeded", "failed"}],
           serving' \in [Servers -> {C!Free} \cup Serving],
           \A q \in Servers : q # p => serving'[q] = serving[q],
           \/ serving'[p].at = "idle"
           \/ /\ serving'[p].at \in Applied /\ serving'[p].id = a /\ ApplyOK(p, a)'
              /\ serving'[p].preview = serving[p].preview,
           \A b \in Commands : b # a =>
              /\ approved'[b] = approved[b] /\ record'[b] = record[b]
              /\ launched'[b] = launched[b] /\ outcome'[b] = outcome[b],
           record'[a].preview = record[a].preview,
           record'[a].output = record[a].output \/ record'[a].output = serving[p].preview,
           \/ serving[p].at \in Applied
           \/ serving[p].at \notin Applied /\ approved[a] = "approved",
           CommandOK(a)'
    PROVE  ShellInv'
<1>1. ShellTypes /\ PreviewInv
  BY DEF ShellInv
<1>2. ShellTypes'
  BY DEF ShellTypes
<1>3. PreviewInv'
  <2>1. \A b \in Commands :
           /\ record'[b].preview = record[b].preview
           /\ \/ record'[b].output = record[b].output
              \/ IsBusy(p) /\ serving[p].preview # 0 /\ record'[b].output = serving[p].preview
    OBVIOUS
  <2>2. IsBusy(p)' =>
              /\ serving'[p].at \notin {"record", "preview", "load"} /\ serving'[p].id \in Commands
              /\ serving'[p].preview = serving[p].preview
    BY DEF IsBusy, Applied
  <2> QED
    BY <1>1, <2>1, <2>2, PreviewsKept
<1>4. ApplyInv' /\ \A b \in Commands : CommandOK(b)'
  <2>1. Applies(p, a) \/ (serving[p].at \notin Applied /\ approved[a] = "approved")
    BY DEF Applies
  <2>2. "idle" \notin Applied
    BY DEF Applied
  <2> QED
    BY <2>1, <2>2, OwnUse
<1> QED
  BY <1>2, <1>3, <1>4 DEF ShellInv

\* What the process that applies an approval may take for granted.
LEMMA Applying ==
    ASSUME ShellInv, NEW p \in Servers, IsBusy(p), serving[p].at \in Applied \cup {"consume"}
    PROVE  /\ ShellTypes /\ C!ShellEffectTypeOK
           /\ serving[p] \in Serving /\ serving[p].id \in Commands
           /\ serving[p].preview \in 0..MaxPreviews /\ serving[p].preview # 0
           /\ serving[p].preview \in prepared
           /\ serving[p].at \in Applied => ApplyOK(p, serving[p].id)
           /\ CommandOK(serving[p].id)
<1>1. ShellTypes /\ PreviewInv /\ C!ShellEffectTypeOK
  BY DEF ShellInv, ShellTypes
<1>2. /\ serving[p] \in Serving /\ serving[p].id \in Commands
      /\ serving[p].preview \in 0..MaxPreviews
  BY <1>1, ServingFields
<1>3. serving[p].at \notin {"preview", "load"}
  BY DEF Applied
<1>4. serving[p].preview # 0 /\ serving[p].preview \in prepared
  BY <1>1, <1>3 DEF PreviewInv
<1>5. serving[p].at \in Applied => ApplyOK(p, serving[p].id)
  BY <1>2 DEF ShellInv, ApplyInv, Applies
<1>6. CommandOK(serving[p].id)
  BY <1>2 DEF ShellInv
<1> QED
  BY <1>1, <1>2, <1>4, <1>5, <1>6

\* The approval is used up, or it is too late.
LEMMA UseStep ==
    ASSUME ShellInv, NEW p \in Servers, C!Consume(p),
           NEW a \in Commands, NEW n \in 0..MaxPreviews, IsBusy(p), serving[p].id = a,
           serving[p].preview = n
    PROVE  ShellInv'
<1>1. /\ serving[p].at = "consume"
      /\ UNCHANGED <<record, prepared, deaths, launched, outcome>>
      /\ \/ C!Return(p) /\ approved' = approved
         \/ /\ approved[a] = "approved"
            /\ \/ approved' = [approved EXCEPT ![a] = "consumed"] /\ C!Go(p, "run")
               \/ approved' = [approved EXCEPT ![a] = "expired"] /\ C!Return(p)
  BY DEF C!Consume, C!At, IsBusy
<1>2. /\ ShellTypes /\ C!ShellEffectTypeOK /\ a \in Commands
      /\ serving[p].preview \in 0..MaxPreviews /\ serving[p].preview # 0
      /\ CommandOK(a)
  BY <1>1, Applying
<1>3. /\ serving' \in [Servers -> {C!Free} \cup Serving]
      /\ \A q \in Servers : q # p => serving'[q] = serving[q]
      /\ C!Return(p) => serving'[p].at = "idle"
      /\ C!Go(p, "run") => /\ serving'[p].at = "run" /\ serving'[p].id = a
                           /\ serving'[p].preview = serving[p].preview
  BY <1>1, <1>2, ServingGoes, ServingReturns DEF Applied
<1>4. PreviewInv
  BY DEF ShellInv
<1>5. CASE C!Return(p) /\ (approved' = approved \/
             (approved[a] = "approved" /\ approved' = [approved EXCEPT ![a] = "expired"]))
  <2>1. ShellTypes'
    <3>1. approved' \in [Commands -> {"approved", "expired", "consumed", "executed",
                                      "execution_failed"}]
      BY <1>2, <1>5 DEF C!ShellEffectTypeOK
    <3>2. C!ShellEffectTypeOK'
      BY <1>1, <1>2, <3>1 DEF C!ShellEffectTypeOK
    <3>3. /\ launched' \in [Commands -> Seq(0..MaxPreviews)]
          /\ outcome' \in [Commands -> {"none", "succeeded", "failed"}]
      BY <1>1, <1>2 DEF ShellTypes
    <3> QED
      BY <1>3, <3>2, <3>3 DEF ShellTypes
  <2>2. PreviewInv'
    BY <1>1, <1>2, <1>3, <1>4, <1>5, PreviewsKept DEF IsBusy
  <2>3. serving'[p].at \notin Applied
    BY <1>3, <1>5 DEF Applied
  <2>4. \A b \in Commands : \/ approved'[b] = approved[b]
                            \/ approved[b] = "approved" /\ approved'[b] = "expired"
    BY <1>2, <1>5 DEF C!ShellEffectTypeOK
  <2>5. ApplyInv' /\ \A b \in Commands : CommandOK(b)'
    BY <1>1, <1>3, <2>3, <2>4, QuietUse
  <2> QED
    BY <2>1, <2>2, <2>5 DEF ShellInv
<1>6. CASE /\ approved[a] = "approved" /\ approved' = [approved EXCEPT ![a] = "consumed"]
           /\ C!Go(p, "run")
  <2>1. serving'[p].at = "run" /\ serving'[p].id = a /\ serving'[p].preview = serving[p].preview
    BY <1>3, <1>6
  <2>2. serving[p].id = a /\ serving[p].at \notin Applied
    BY <1>1 DEF Applied
  <2>3. /\ C!ShellEffectTypeOK' /\ approved'[a] = "consumed"
        /\ \A b \in Commands : b # a => approved'[b] = approved[b]
    BY <1>1, <1>2, <1>6 DEF C!ShellEffectTypeOK
  <2>4. /\ launched[a] = <<>> /\ outcome[a] = "none"
        /\ record[a].output = 0 /\ record[a].status \notin Final
    BY <1>2, <1>6 DEF CommandOK
  <2>5. ApplyOK(p, a)'
    BY <1>1, <2>1, <2>3, <2>4 DEF ApplyOK
  <2>6. CommandOK(a)'
    BY <1>1, <2>3, <2>4 DEF CommandOK, Final
  <2>7. serving'[p].at \in Applied
    BY <2>1 DEF Applied
  <2>8. /\ launched' \in [Commands -> Seq(0..MaxPreviews)]
        /\ outcome' \in [Commands -> {"none", "succeeded", "failed"}]
    BY <1>1, <1>2 DEF ShellTypes
  <2> QED
    BY <1>1, <1>2, <1>3, <1>6, <2>1, <2>2, <2>3, <2>5, <2>6, <2>7, <2>8, OwnStep
<1> QED
  BY <1>1, <1>5, <1>6

\* The container: it starts or not, and ends.
LEMMA ContainerSteps ==
    ASSUME ShellInv, NEW p \in Servers,
           C!Launch(p) \/ \E result \in C!Outcomes : C!ContainerEnds(p, result),
           NEW a \in Commands, NEW n \in 0..MaxPreviews, IsBusy(p), serving[p].id = a,
           serving[p].preview = n
    PROVE  ShellInv'
<1>1. /\ IsBusy(p) /\ UNCHANGED <<approved, record, prepared, deaths>>
      /\ \/ /\ serving[p].at = "run" /\ outcome' = outcome
            /\ launched' = [launched EXCEPT ![a] = Append(@, n)] /\ C!Go(p, "running")
         \/ /\ serving[p].at = "run" /\ outcome' = outcome /\ launched' = launched
            /\ serving' = [serving EXCEPT ![p].at = "output", ![p].result = "failed"]
         \/ /\ serving[p].at = "running" /\ launched' = launched
            /\ \E result \in {"succeeded", "failed"} :
                  /\ outcome' = [outcome EXCEPT ![a] = result]
                  /\ serving' = [serving EXCEPT ![p].at = "output", ![p].result = result]
  BY DEF C!Launch, C!ContainerEnds, C!At, C!Outcomes, IsBusy
<1>2. /\ ShellTypes /\ C!ShellEffectTypeOK /\ serving[p] \in Serving /\ a \in Commands
      /\ n \in 0..MaxPreviews /\ n # 0 /\ n \in prepared
      /\ ApplyOK(p, a) /\ CommandOK(a) /\ serving[p].at \in Applied
  <2>1. serving[p].at \in Applied
    BY <1>1 DEF Applied
  <2> QED
    BY <1>1, <2>1, Applying
<1>3. ASSUME NEW result \in {"succeeded", "failed"},
             serving' = [serving EXCEPT ![p].at = "output", ![p].result = result]
      PROVE  /\ serving' \in [Servers -> {C!Free} \cup Serving]
             /\ serving'[p].at = "output" /\ serving'[p].id = a /\ serving'[p].preview = n
             /\ serving'[p].result = result
             /\ \A q \in Servers : q # p => serving'[q] = serving[q]
  <2> DEFINE x == [serving[p] EXCEPT !.at = "output", !.result = result]
  <2>1. /\ x \in Serving /\ x.at = "output" /\ x.id = a /\ x.preview = n /\ x.result = result
    BY <1>2 DEF Serving, Applied
  <2>2. serving' = [serving EXCEPT ![p] = x]
    BY <1>2, <1>3 DEF ShellTypes
  <2> HIDE DEF x
  <2> QED
    BY <1>2, <2>1, <2>2, ServingMoves
<1>5. /\ launched \in [Commands -> Seq(0..MaxPreviews)]
      /\ outcome \in [Commands -> {"none", "succeeded", "failed"}]
      /\ approved' = approved /\ record' = record /\ prepared' = prepared /\ C!ShellEffectTypeOK'
  BY <1>1, <1>2 DEF ShellTypes, C!ShellEffectTypeOK
<1>6. CASE /\ serving[p].at = "run" /\ outcome' = outcome
           /\ launched' = [launched EXCEPT ![a] = Append(@, n)] /\ C!Go(p, "running")
  <2>1. /\ serving' \in [Servers -> {C!Free} \cup Serving]
        /\ serving'[p].at = "running" /\ serving'[p].id = a /\ serving'[p].preview = n
        /\ \A q \in Servers : q # p => serving'[q] = serving[q]
    BY <1>1, <1>2, <1>6, ServingGoes DEF Applied
  <2>2. launched[a] = <<>> /\ outcome[a] = "none" /\ record[a].output = 0
    BY <1>2, <1>6 DEF ApplyOK
  <2>3. launched' \in [Commands -> Seq(0..MaxPreviews)]
    BY <1>2, <1>5, <1>6
  <2>4. launched'[a] = <<n>> /\ \A b \in Commands : b # a => launched'[b] = launched[b]
    BY <1>2, <1>5, <1>6, <2>2
  <2>5. ApplyOK(p, a)'
    BY <1>2, <1>5, <1>6, <2>1, <2>2, <2>4 DEF ApplyOK
  <2>6. CommandOK(a)'
    BY <1>2, <1>5, <1>6, <2>2, <2>4 DEF CommandOK, ApplyOK, Final
  <2> QED
    BY <1>1, <1>2, <1>5, <1>6, <2>1, <2>3, <2>4, <2>5, <2>6, OwnStep DEF Applied
<1>7. CASE /\ serving[p].at = "run" /\ outcome' = outcome /\ launched' = launched
           /\ serving' = [serving EXCEPT ![p].at = "output", ![p].result = "failed"]
  <2>1. /\ serving' \in [Servers -> {C!Free} \cup Serving]
        /\ serving'[p].at = "output" /\ serving'[p].id = a /\ serving'[p].preview = n
        /\ serving'[p].result = "failed"
        /\ \A q \in Servers : q # p => serving'[q] = serving[q]
    BY <1>3, <1>7
  <2>2. ApplyOK(p, a)'
    BY <1>2, <1>5, <1>7, <2>1 DEF ApplyOK, ResultIsTrue
  <2>3. CommandOK(a)'
    BY <1>2, <1>5, <1>7 DEF CommandOK
  <2> QED
    BY <1>1, <1>2, <1>5, <1>7, <2>1, <2>2, <2>3, OwnStep DEF Applied
<1>8. ASSUME serving[p].at = "running", launched' = launched,
             NEW result \in {"succeeded", "failed"},
             outcome' = [outcome EXCEPT ![a] = result],
             serving' = [serving EXCEPT ![p].at = "output", ![p].result = result]
      PROVE  ShellInv'
  <2>1. /\ serving' \in [Servers -> {C!Free} \cup Serving]
        /\ serving'[p].at = "output" /\ serving'[p].id = a /\ serving'[p].preview = n
        /\ serving'[p].result = result
        /\ \A q \in Servers : q # p => serving'[q] = serving[q]
    BY <1>3, <1>8
  <2>2. /\ outcome' \in [Commands -> {"none", "succeeded", "failed"}] /\ outcome'[a] = result
        /\ \A b \in Commands : b # a => outcome'[b] = outcome[b]
    BY <1>2, <1>5, <1>8
  <2>3. ApplyOK(p, a)'
    BY <1>2, <1>5, <1>8, <2>1, <2>2 DEF ApplyOK, ResultIsTrue, C!Outcomes
  <2>4. CommandOK(a)'
    BY <1>2, <1>5, <1>8, <2>2 DEF CommandOK, ApplyOK, Final
  <2> QED
    BY <1>1, <1>2, <1>5, <1>8, <2>1, <2>2, <2>3, <2>4, OwnStep DEF Applied
<1> QED
  BY <1>1, <1>6, <1>7, <1>8

\* What the process writes down afterwards.
LEMMA OutcomeSteps ==
    ASSUME ShellInv, NEW p \in Servers,
           \/ \E kept \in BOOLEAN : C!KeepOutput(p, kept)
           \/ C!Mark(p) \/ C!Finalize(p) \/ C!MarkOutcome(p),
           NEW a \in Commands, NEW n \in 0..MaxPreviews, IsBusy(p), serving[p].id = a,
           serving[p].preview = n
    PROVE  ShellInv'
<1> DEFINE told == C!StatusOf(serving[p].result)
<1>1. /\ IsBusy(p) /\ UNCHANGED <<prepared, deaths, launched, outcome>>
      /\ \/ /\ serving[p].at = "output" /\ UNCHANGED <<approved, record>>
            /\ C!Go(p, "mark") \/ C!Go(p, "outcome")
         \/ /\ serving[p].at = "mark" /\ approved' = approved
            /\ record' = [record EXCEPT ![a].status = told, ![a].output = n]
            /\ C!Go(p, "finalize")
         \/ /\ serving[p].at \in {"mark", "finalize"} /\ UNCHANGED <<approved, record>>
            /\ C!Go(p, "outcome")
         \/ /\ serving[p].at = "finalize" /\ record' = record
            /\ approved' = [approved EXCEPT ![a] = IF @ = "consumed" THEN told ELSE @]
            /\ IF approved[a] = "consumed" THEN C!Return(p) ELSE C!Go(p, "outcome")
         \/ /\ serving[p].at = "outcome" /\ approved' = approved /\ C!Return(p)
            /\ record' = record \/ record' = [record EXCEPT ![a].status = told]
  BY DEF C!KeepOutput, C!Mark, C!Finalize, C!MarkOutcome, C!At, IsBusy
<1>2. /\ ShellTypes /\ C!ShellEffectTypeOK /\ a \in Commands
      /\ n \in 0..MaxPreviews /\ n # 0 /\ serving[p].at \in Applied
      /\ ApplyOK(p, a) /\ CommandOK(a) /\ serving[p].id = a /\ serving[p].preview = n
  <2>1. serving[p].at \in Applied
    BY <1>1 DEF Applied
  <2> QED
    BY <1>1, <2>1, Applying
<1>3. ResultIsTrue(p, a) /\ approved[a] = "consumed"
  BY <1>1, <1>2 DEF ApplyOK
<1>4. /\ told \in Final
      /\ told = "executed" => outcome[a] = "succeeded"
      /\ told = "execution_failed" => outcome[a] # "succeeded"
      /\ launched[a] = <<>> \/ launched[a] = <<n>>
      /\ told = C!StatusOf(serving[p].result)
  BY <1>3 DEF ResultIsTrue, C!StatusOf, Final, C!Outcomes
<1>5. /\ launched \in [Commands -> Seq(0..MaxPreviews)] /\ launched' = launched
      /\ outcome \in [Commands -> {"none", "succeeded", "failed"}] /\ outcome' = outcome
      /\ prepared' = prepared
      /\ approved \in [Commands -> {"approved", "expired", "consumed", "executed",
                                    "execution_failed"}]
      /\ record \in [Commands -> [status : {"none", "payload_recorded", "preview_ready",
                                            "executed", "execution_failed"},
                                  preview : 0..MaxPreviews, output : 0..MaxPreviews]]
  BY <1>1, <1>2 DEF ShellTypes, C!ShellEffectTypeOK
<1>6. /\ C!Return(p) => /\ serving' \in [Servers -> {C!Free} \cup Serving]
                        /\ serving'[p].at = "idle"
                        /\ \A q \in Servers : q # p => serving'[q] = serving[q]
      /\ \A place \in {"mark", "finalize", "outcome"} : C!Go(p, place) =>
            /\ serving' \in [Servers -> {C!Free} \cup Serving]
            /\ serving'[p].at = place /\ serving'[p].id = a /\ serving'[p].preview = n
            /\ serving'[p].result = serving[p].result
            /\ \A q \in Servers : q # p => serving'[q] = serving[q]
  BY <1>1, <1>2, ServingGoes, ServingReturns DEF Applied
<1> HIDE DEF told
<1>7. CASE /\ serving[p].at = "output" /\ UNCHANGED <<approved, record>>
           /\ C!Go(p, "mark") \/ C!Go(p, "outcome")
  <2>1. /\ serving' \in [Servers -> {C!Free} \cup Serving]
        /\ serving'[p].at \in {"mark", "outcome"} /\ serving'[p].id = a /\ serving'[p].preview = n
        /\ serving'[p].result = serving[p].result
        /\ \A q \in Servers : q # p => serving'[q] = serving[q]
    BY <1>6, <1>7
  <2>2. C!ShellEffectTypeOK'
    BY <1>1, <1>2, <1>7 DEF C!ShellEffectTypeOK
  <2>3. ApplyOK(p, a)'
    BY <1>1, <1>2, <1>3, <1>7, <2>1 DEF ApplyOK, ResultIsTrue
  <2>4. CommandOK(a)'
    BY <1>1, <1>2, <1>7 DEF CommandOK
  <2> QED
    BY <1>1, <1>2, <1>5, <1>7, <2>1, <2>2, <2>3, <2>4, OwnStep DEF Applied
<1>8. CASE /\ serving[p].at = "mark" /\ approved' = approved
           /\ record' = [record EXCEPT ![a].status = told, ![a].output = n]
           /\ C!Go(p, "finalize")
  <2>1. /\ serving' \in [Servers -> {C!Free} \cup Serving]
        /\ serving'[p].at = "finalize" /\ serving'[p].id = a /\ serving'[p].preview = n
        /\ serving'[p].result = serving[p].result
        /\ \A q \in Servers : q # p => serving'[q] = serving[q]
    BY <1>6, <1>8
  <2>2. /\ record' \in [Commands -> [status : {"none", "payload_recorded", "preview_ready",
                                               "executed", "execution_failed"},
                                     preview : 0..MaxPreviews, output : 0..MaxPreviews]]
        /\ record'[a].status = told /\ record'[a].output = n
        /\ record'[a].preview = record[a].preview
        /\ \A b \in Commands : b # a => record'[b] = record[b]
    BY <1>2, <1>4, <1>5, <1>8 DEF Final
  <2>3. C!ShellEffectTypeOK'
    BY <1>1, <1>2, <1>8, <2>2 DEF C!ShellEffectTypeOK
  <2>4. ApplyOK(p, a)'
    BY <1>1, <1>2, <1>3, <1>4, <1>8, <2>1, <2>2 DEF ApplyOK, ResultIsTrue
  <2>5. CommandOK(a)'
    BY <1>1, <1>2, <1>3, <1>4, <1>8, <2>2 DEF CommandOK, Final
  <2>6. /\ IsBusy(p) /\ serving[p].preview # 0 /\ prepared' = prepared
        /\ launched' \in [Commands -> Seq(0..MaxPreviews)]
        /\ outcome' \in [Commands -> {"none", "succeeded", "failed"}]
    BY <1>1, <1>2, <1>5
  <2>7. \A b \in Commands : b # a =>
           /\ approved'[b] = approved[b] /\ record'[b] = record[b]
           /\ launched'[b] = launched[b] /\ outcome'[b] = outcome[b]
    BY <1>5, <1>8, <2>2
  <2>8. /\ record'[a].preview = record[a].preview
        /\ record'[a].output = record[a].output \/ record'[a].output = serving[p].preview
    BY <1>2, <1>8, <2>2
  <2>9. serving'[p].at \in Applied
    BY <2>1 DEF Applied
  <2> QED
    BY <1>2, <2>1, <2>3, <2>4, <2>5, <2>6, <2>7, <2>8, <2>9, OwnStep
<1>9. CASE /\ serving[p].at \in {"mark", "finalize"} /\ UNCHANGED <<approved, record>>
           /\ C!Go(p, "outcome")
  <2>1. /\ serving' \in [Servers -> {C!Free} \cup Serving]
        /\ serving'[p].at = "outcome" /\ serving'[p].id = a /\ serving'[p].preview = n
        /\ serving'[p].result = serving[p].result
        /\ \A q \in Servers : q # p => serving'[q] = serving[q]
    BY <1>6, <1>9
  <2>2. C!ShellEffectTypeOK'
    BY <1>1, <1>2, <1>9 DEF C!ShellEffectTypeOK
  <2>3. ApplyOK(p, a)'
    BY <1>1, <1>2, <1>3, <1>9, <2>1 DEF ApplyOK, ResultIsTrue
  <2>4. CommandOK(a)'
    BY <1>1, <1>2, <1>9 DEF CommandOK
  <2> QED
    BY <1>1, <1>2, <1>5, <1>9, <2>1, <2>2, <2>3, <2>4, OwnStep DEF Applied
<1>10. CASE /\ serving[p].at = "finalize" /\ record' = record
            /\ approved' = [approved EXCEPT ![a] = IF @ = "consumed" THEN told ELSE @]
            /\ C!Return(p)
  <2>1. /\ serving' \in [Servers -> {C!Free} \cup Serving] /\ serving'[p].at = "idle"
        /\ \A q \in Servers : q # p => serving'[q] = serving[q]
    BY <1>6, <1>10
  <2>2. /\ approved' \in [Commands -> {"approved", "expired", "consumed", "executed",
                                       "execution_failed"}]
        /\ approved'[a] = told /\ \A b \in Commands : b # a => approved'[b] = approved[b]
    BY <1>2, <1>3, <1>4, <1>5, <1>10 DEF Final
  <2>3. C!ShellEffectTypeOK'
    BY <1>1, <1>2, <1>10, <2>2 DEF C!ShellEffectTypeOK
  <2>4. /\ record[a].output = n
        /\ \/ record[a].status = told
           \/ record[a].status = "preview_ready" /\ record[a].preview # record[a].output
    BY <1>2, <1>4, <1>10 DEF ApplyOK
  <2>5. CommandOK(a)'
    BY <1>1, <1>2, <1>3, <1>4, <1>10, <2>2, <2>4 DEF CommandOK, Final
  <2>6. /\ IsBusy(p) /\ serving[p].preview # 0 /\ prepared' = prepared
        /\ launched' \in [Commands -> Seq(0..MaxPreviews)]
        /\ outcome' \in [Commands -> {"none", "succeeded", "failed"}]
    BY <1>1, <1>2, <1>5
  <2>7. \A b \in Commands : b # a =>
           /\ approved'[b] = approved[b] /\ record'[b] = record[b]
           /\ launched'[b] = launched[b] /\ outcome'[b] = outcome[b]
    BY <1>5, <1>10, <2>2
  <2>8. /\ record'[a].preview = record[a].preview
        /\ record'[a].output = record[a].output \/ record'[a].output = serving[p].preview
    BY <1>2, <1>10, <2>2
  <2> QED
    BY <1>2, <2>1, <2>3, <2>5, <2>6, <2>7, <2>8, OwnStep
<1>11. CASE /\ serving[p].at = "outcome" /\ approved' = approved /\ C!Return(p)
            /\ record' = record \/ record' = [record EXCEPT ![a].status = told]
  <2>1. /\ serving' \in [Servers -> {C!Free} \cup Serving] /\ serving'[p].at = "idle"
        /\ \A q \in Servers : q # p => serving'[q] = serving[q]
    BY <1>6, <1>11
  <2>2. /\ record' \in [Commands -> [status : {"none", "payload_recorded", "preview_ready",
                                               "executed", "execution_failed"},
                                     preview : 0..MaxPreviews, output : 0..MaxPreviews]]
        /\ record'[a].status \in {record[a].status, told} /\ record'[a].output = record[a].output
        /\ record'[a].preview = record[a].preview
        /\ \A b \in Commands : b # a => record'[b] = record[b]
    <3>1. CASE record' = record
      BY <1>2, <1>5, <3>1
    <3>2. CASE record' = [record EXCEPT ![a].status = told]
      BY <1>2, <1>4, <1>5, <3>2 DEF Final
    <3> QED
      BY <1>11, <3>1, <3>2
  <2>3. C!ShellEffectTypeOK'
    BY <1>1, <1>2, <1>11, <2>2 DEF C!ShellEffectTypeOK
  <2>4. CommandOK(a)'
    BY <1>1, <1>2, <1>3, <1>4, <1>11, <2>2 DEF CommandOK, Final
  <2> QED
    BY <1>1, <1>2, <1>5, <1>11, <2>1, <2>2, <2>3, <2>4, OwnStep DEF Applied
<1> QED
  BY <1>1, <1>3, <1>7, <1>8, <1>9, <1>10, <1>11

LEMMA ShellStart ==
    ASSUME C!ShellEffectInit, C!ShellEffectAssumption
    PROVE  ShellInv
<1>1. /\ approved = [a \in Commands |-> "approved"]
      /\ record = [a \in Commands |-> [status |-> "none", preview |-> 0, output |-> 0]]
      /\ prepared = {} /\ serving = [p \in Servers |-> C!Free] /\ deaths = 0
      /\ launched = [a \in Commands |-> <<>>] /\ outcome = [a \in Commands |-> "none"]
      /\ MaxPreviews \in Nat /\ MaxDeaths \in Nat
  BY DEF C!ShellEffectInit, C!ShellEffectAssumption
<1>2. \A p \in Servers : serving[p].at = "idle"
  BY <1>1 DEF C!Free
<1>3. ShellTypes
  BY <1>1 DEF ShellTypes, C!ShellEffectTypeOK
<1>4. PreviewInv
  BY <1>1, <1>2 DEF PreviewInv, IsBusy
<1>5. ApplyInv
  BY <1>2 DEF ApplyInv, Applies, Applied
<1>6. \A a \in Commands : CommandOK(a)
  BY <1>1 DEF CommandOK, Final
<1> QED
  BY <1>3, <1>4, <1>5, <1>6 DEF ShellInv

LEMMA ShellStep ==
    ASSUME ShellInv, C!ShellEffectAssumption, C!ShellEffectNext
    PROVE  ShellInv'
<1>1. PICK p \in Servers :
        \/ \E a \in Commands : C!Prepare(p, a, FALSE) \/ C!Apply(p, a)
        \/ C!MakePreview(p) \/ C!RecordPreview(p) \/ C!PrepareFails(p)
        \/ C!Load(p) \/ C!Resolve(p) \/ C!Consume(p) \/ C!Launch(p)
        \/ \E result \in C!Outcomes : C!ContainerEnds(p, result)
        \/ \E kept \in BOOLEAN : C!KeepOutput(p, kept)
        \/ C!Mark(p) \/ C!Finalize(p) \/ C!MarkOutcome(p) \/ C!Dies(p)
  BY DEF C!ShellEffectNext
<1>2. ASSUME NEW a \in Commands, C!Prepare(p, a, FALSE) \/ C!Apply(p, a) PROVE ShellInv'
  <2>1. C!Reuse(p, a) \/ \E run2 \in BOOLEAN : C!Prepare(p, a, run2)
    BY <1>2 DEF C!Apply
  <2> QED
    BY <2>1, PrepareSteps
<1>3. CASE C!MakePreview(p)
  <2>1. serving[p].at = "preview"
    BY <1>3 DEF C!MakePreview, C!At
  <2>2. PICK a \in Commands : TRUE
    BY <2>1, ServingFields DEF ShellInv, IsBusy
  <2> QED
    BY <1>3, PrepareSteps
<1>4. ASSUME \/ C!Consume(p) \/ C!Launch(p) \/ C!Mark(p) \/ C!Finalize(p) \/ C!MarkOutcome(p)
             \/ \E result \in C!Outcomes : C!ContainerEnds(p, result)
             \/ \E kept \in BOOLEAN : C!KeepOutput(p, kept)
      PROVE  ShellInv'
  <2>1. IsBusy(p)
    BY <1>4 DEF C!Consume, C!Launch, C!Mark, C!Finalize, C!MarkOutcome, C!ContainerEnds,
                C!KeepOutput, C!At, IsBusy
  <2>2. PICK a \in Commands : serving[p].id = a
    BY <2>1, ServingFields DEF ShellInv
  <2>3. PICK n \in 0..MaxPreviews : serving[p].preview = n
    BY <2>1, ServingFields DEF ShellInv
  <2> QED
    BY <1>4, <2>1, <2>2, <2>3, UseStep, ContainerSteps, OutcomeSteps
<1> QED
  BY <1>1, <1>2, <1>3, <1>4, RecordStep, IdleSteps

LEMMA ShellStay ==
    ASSUME ShellInv, UNCHANGED cmdVars
    PROVE  ShellInv'
<1>1. ShellTypes'
  BY DEF cmdVars, ShellInv, ShellTypes, C!ShellEffectTypeOK
<1>2. PreviewInv'
  BY DEF cmdVars, ShellInv, PreviewInv, IsBusy
<1>3. ApplyInv'
  <2>1. /\ approved' = approved /\ record' = record /\ serving' = serving
        /\ launched' = launched /\ outcome' = outcome
    BY DEF cmdVars
  <2>2. ApplyInv
    BY DEF ShellInv
  <2>3. ASSUME NEW p \in Servers, NEW a \in Commands, Applies(p, a)'
        PROVE  ApplyOK(p, a)' /\ \A q \in Servers : Applies(q, a)' => q = p
    <3>1. Applies(p, a) /\ \A q \in Servers : Applies(q, a)' => Applies(q, a)
      BY <2>1, <2>3 DEF Applies
    <3>2. ApplyOK(p, a)
      BY <2>2, <3>1 DEF ApplyInv
    <3>3. ApplyOK(p, a)'
      BY <2>1, <3>2 DEF ApplyOK, ResultIsTrue
    <3> QED
      BY <2>2, <3>1, <3>3 DEF ApplyInv
  <2> QED
    BY <2>3 DEF ApplyInv
<1>4. \A a \in Commands : CommandOK(a)'
  BY DEF cmdVars, ShellInv, CommandOK
<1> QED
  BY <1>1, <1>2, <1>3, <1>4 DEF ShellInv

\* Approved shell commands (ApprovedShellSideEffectRuntime): whichever processes prepare and
\* apply an approval at the same time, die in between, or fail to write one of the three
\* places, the command runs once at most, with its approval used up; no record says of it
\* that it succeeded or failed when it did not, or names the output of another run; and an
\* approval that says how it ended has its output kept.
THEOREM ShellRunsOnceAndTruly == ToolsSpec => []ShellOutcomeIsTrue
<1> DEFINE Inv == part = "shell" => ShellInv
<1>1. ToolsInit => Inv
  BY ShellStart, ToolsAssumption DEF ToolsInit
<1>2. Inv /\ [ToolsNext]_<<part, allParts>> => Inv'
  <2> SUFFICES ASSUME Inv, part' = "shell", [ToolsNext]_<<part, allParts>>
               PROVE  ShellInv'
    OBVIOUS
  <2>1. part = "shell" /\ (C!ShellEffectNext \/ UNCHANGED cmdVars)
    BY DEF ToolsNext, allParts
  <2> QED
    BY <2>1, ShellStep, ShellStay, ToolsAssumption
<1>3. Inv => ShellOutcomeIsTrue
  <2>1. ASSUME ShellInv, NEW a \in Commands
        PROVE  CommandOK(a) /\ Len(launched[a]) <= 1
    <3>1. CommandOK(a)
      BY <2>1 DEF ShellInv
    <3>2. PICK n : launched[a] = <<>> \/ launched[a] = <<n>>
      BY <3>1 DEF CommandOK
    <3>3. CASE launched[a] = <<>>
      BY <3>1, <3>3
    <3>4. CASE launched[a] = <<n>>
      BY <3>1, <3>4
    <3> QED
      BY <3>2, <3>3, <3>4
  <2>2. ShellInv => C!ShellOutcomeIsTrue
    BY <2>1 DEF C!ShellOutcomeIsTrue, CommandOK, Final
  <2> QED
    BY <2>2 DEF ShellOutcomeIsTrue, ShellInv, ShellTypes
<1> QED
  BY <1>1, <1>2, <1>3, PTL DEF ToolsSpec

-------------------------------------------------------------------------------
(* Calls of MCP tools *)

\* The request of a call that a living server has not answered; on how many connections
\* the call was sent, 2 standing for more.
IsAsked(c) == \E k \in alive : c \in asked[k]
TimesAsked(c) == IF IsAsked(c) THEN 1 ELSE 0
TimesSent(c) == IF sent[c] = {} THEN 0 ELSE IF sent[c] = {call[c].conn} THEN 1 ELSE 2

\* Where a call is says on which connections it was sent: those before the present one
\* are lost.  The calls of turns are on the connection of the agent, the others never.
SentInv ==
    /\ alive \subseteq 1..made
    /\ \A c \in P!AllCalls :
        /\ sent[c] \subseteq 1..made
        /\ sent[c] # {} => call[c].conn \in sent[c]
        /\ call[c].at \in {"idle", "queued"} => sent[c] = {}
        /\ call[c].at = "reading" => sent[c] # {}
        /\ call[c].at = "failed" => sent[c] = {call[c].conn} /\ call[c].conn \notin alive
        /\ \A k \in sent[c] : k # call[c].conn => k \notin alive
        /\ \A k \in P!Conns : c \in asked[k] => k \in sent[c]
        /\ c \in Direct => sent[c] \subseteq {1} /\ call[c].at \notin {"queued", "failed"}
        /\ c \in Pooled => 1 \notin sent[c]

\* What the server has done or may still do of a call was sent to it.
DoneInv == \A c \in P!AllCalls : done[c] + TimesAsked(c) <= TimesSent(c)

\* The lines in a pipe are answers.
UnreadInv ==
    \A k \in P!Conns : \A i \in DOMAIN unread[k] : done[unread[k][i]] > 0

\* Who waits on a pipe is reading from it; the pool's connection is never the agent's.
ReaderInv ==
    /\ pooled = 0 \/ pooled \in 2..made
    /\ \A k \in P!Conns : reader[k] # P!Nobody =>
          call[reader[k]].at = "reading" /\ call[reader[k]].conn = k

\* The inductive invariant.
WireInv ==
    /\ P!McpCallsTypeOK /\ P!AnswersAreOwn /\ P!OnePooledCall
    /\ SentInv /\ DoneInv /\ UnreadInv /\ ReaderInv

CallRecs ==
    [at : {"idle", "queued", "reading", "failed", "over"}, conn : 0..MaxConns,
     result : P!AllCalls \cup {"none", "error", "timeout", "cancelled"}]

LEMMA WireFacts ==
    ASSUME WireInv, P!McpCallsAssumption
    PROVE  /\ P!McpCallsTypeOK /\ P!AnswersAreOwn /\ P!OnePooledCall
           /\ SentInv /\ DoneInv /\ UnreadInv /\ ReaderInv
           /\ call \in [P!AllCalls -> CallRecs] /\ made \in 1..MaxConns /\ MaxConns \in Nat
           /\ done \in [P!AllCalls -> Nat]
           /\ Pooled \subseteq P!AllCalls /\ Direct \subseteq P!AllCalls
           /\ Direct \cap Pooled = {} /\ P!Nobody \notin P!AllCalls
           /\ \A c \in P!AllCalls : c \in Direct \/ c \in Pooled
<1>1. P!McpCallsTypeOK /\ MaxConns \in Nat
  BY DEF WireInv, P!McpCallsAssumption
<1>2. done \in [P!AllCalls -> Nat]
  BY <1>1 DEF P!McpCallsTypeOK
<1> QED
  BY <1>1, <1>2 DEF WireInv, P!McpCallsAssumption, P!McpCallsTypeOK, P!AllCalls, P!Conns,
                    P!Nobody, CallRecs

\* A call that was sent twice was sent on two connections.
LEMMA TimesSentBound ==
    ASSUME WireInv, P!McpCallsAssumption, NEW c \in P!AllCalls
    PROVE  TimesSent(c) \in 0..MaxConns /\ TimesSent(c) \in {0, 1, 2}
<1>0. /\ SentInv /\ made \in 1..MaxConns /\ MaxConns \in Nat
  BY WireFacts
<1>1. sent[c] \subseteq 1..made /\ (sent[c] # {} => call[c].conn \in sent[c])
  BY <1>0 DEF SentInv
<1>2. ASSUME sent[c] # {}, sent[c] # {call[c].conn} PROVE 2 <= MaxConns
  <2>1. PICK k \in sent[c] : k # call[c].conn
    BY <1>1, <1>2
  <2>2. k \in 1..MaxConns /\ call[c].conn \in 1..MaxConns
    BY <1>0, <1>1, <1>2
  <2> QED
    BY <1>0, <2>1, <2>2
<1> QED
  BY <1>0, <1>2 DEF TimesSent

LEMMA TailLines ==
    ASSUME NEW S, NEW s \in Seq(S), s # <<>>
    PROVE  /\ Tail(s) \in Seq(S) /\ Head(s) = s[1] /\ 1 \in DOMAIN s
           /\ \A i \in DOMAIN Tail(s) : i + 1 \in DOMAIN s /\ Tail(s)[i] = s[i + 1]
OBVIOUS

\* Lines are taken from pipes; nothing the server did is undone.
LEMMA LinesTaken ==
    ASSUME WireInv, P!McpCallsAssumption, done' = done,
           \/ unread' = unread
           \/ \E k \in P!Conns : /\ unread[k] # <<>>
                                 /\ unread' = [unread EXCEPT ![k] = Tail(@)]
    PROVE  /\ unread' \in [P!Conns -> Seq(P!AllCalls)] /\ UnreadInv'
<1>0. unread \in [P!Conns -> Seq(P!AllCalls)] /\ UnreadInv
  BY WireFacts DEF P!McpCallsTypeOK
<1>1. CASE unread' = unread
  BY <1>0, <1>1 DEF UnreadInv
<1>2. ASSUME NEW k \in P!Conns, unread[k] # <<>>, unread' = [unread EXCEPT ![k] = Tail(@)]
      PROVE  unread' \in [P!Conns -> Seq(P!AllCalls)] /\ UnreadInv'
  <2>1. unread[k] \in Seq(P!AllCalls)
    BY <1>0
  <2>2. /\ Tail(unread[k]) \in Seq(P!AllCalls)
        /\ \A i \in DOMAIN Tail(unread[k]) :
              i + 1 \in DOMAIN unread[k] /\ Tail(unread[k])[i] = unread[k][i + 1]
    BY <1>2, <2>1, TailLines
  <2>3. /\ unread' \in [P!Conns -> Seq(P!AllCalls)]
        /\ unread'[k] = Tail(unread[k]) /\ \A j \in P!Conns : j # k => unread'[j] = unread[j]
    BY <1>0, <1>2, <2>2
  <2>4. ASSUME NEW j \in P!Conns, NEW i \in DOMAIN unread'[j] PROVE done'[unread'[j][i]] > 0
    <3>1. CASE j = k
      BY <1>0, <2>2, <2>3, <2>4, <3>1 DEF UnreadInv
    <3>2. CASE j # k
      BY <1>0, <2>3, <2>4, <3>2 DEF UnreadInv
    <3> QED
      BY <3>1, <3>2
  <2> QED
    BY <2>3, <2>4 DEF UnreadInv
<1> QED
  BY <1>1, <1>2

\* A call leaves the place where it waited.
LEMMA LeaveStep ==
    ASSUME WireInv, P!McpCallsAssumption, NEW c \in P!AllCalls, NEW x \in CallRecs,
           call[c].at \in {"queued", "reading", "failed"},
           call' = [call EXCEPT ![c] = x], x.conn = call[c].conn,
           \/ /\ x.at = "over" /\ lock' = IF lock = c THEN P!Nobody ELSE lock
              /\ x.result \in P!AllCalls => x.result = c /\ done[c] > 0
           \/ /\ x.at = "failed" /\ lock' = lock /\ c \in Pooled /\ call[c].at = "reading"
              /\ sent[c] = {call[c].conn} /\ call[c].conn \notin alive'
              /\ x.result = call[c].result,
           alive' \subseteq alive, pooled' = pooled \/ pooled' = 0,
           made' = made, asked' = asked, sent' = sent, done' = done,
           \/ reader' = reader /\ call[c].at # "reading"
           \/ /\ call[c].at = "reading"
              /\ reader' = [reader EXCEPT ![call[c].conn] = IF @ = c THEN P!Nobody ELSE @],
           \/ unread' = unread
           \/ \E k \in P!Conns : /\ unread[k] # <<>>
                                 /\ unread' = [unread EXCEPT ![k] = Tail(@)]
    PROVE  WireInv'
<1>0. /\ P!McpCallsTypeOK /\ P!AnswersAreOwn /\ P!OnePooledCall /\ SentInv /\ DoneInv /\ ReaderInv
      /\ call \in [P!AllCalls -> CallRecs] /\ made \in 1..MaxConns /\ MaxConns \in Nat
      /\ done \in [P!AllCalls -> Nat]
      /\ Pooled \subseteq P!AllCalls /\ P!Nobody \notin P!AllCalls /\ Direct \cap Pooled = {}
  BY WireFacts
<1>1. /\ call' \in [P!AllCalls -> CallRecs] /\ call'[c] = x
      /\ \A d \in P!AllCalls : d # c => call'[d] = call[d]
      /\ \A d \in P!AllCalls : call'[d].conn = call[d].conn
  BY <1>0
<1>2. unread' \in [P!Conns -> Seq(P!AllCalls)] /\ UnreadInv'
  BY LinesTaken
<1>3. /\ reader' \in [P!Conns -> P!AllCalls \cup {P!Nobody}]
      /\ \A k \in P!Conns : reader'[k] # P!Nobody => reader'[k] = reader[k] /\ reader[k] # c
  <2>1. CASE reader' = reader /\ call[c].at # "reading"
    BY <1>0, <2>1 DEF P!McpCallsTypeOK, ReaderInv
  <2>2. CASE /\ call[c].at = "reading"
             /\ reader' = [reader EXCEPT ![call[c].conn] = IF @ = c THEN P!Nobody ELSE @]
    <3>1. reader \in [P!Conns -> P!AllCalls \cup {P!Nobody}]
      BY <1>0 DEF P!McpCallsTypeOK
    <3>2. PICK j : j = call[c].conn /\ reader' = [reader EXCEPT ![j] =
                                          IF @ = c THEN P!Nobody ELSE @]
      BY <2>2
    <3>3. reader' \in [P!Conns -> P!AllCalls \cup {P!Nobody}]
      BY <3>1, <3>2
    <3>4. ASSUME NEW k \in P!Conns, reader'[k] # P!Nobody
          PROVE  reader'[k] = reader[k] /\ reader[k] # c
      <4>1. CASE k = j
        BY <3>1, <3>2, <3>4, <4>1
      <4>2. CASE k # j
        <5>1. reader'[k] = reader[k]
          BY <3>1, <3>2, <4>2
        <5>2. call[reader[k]].conn = k
          BY <1>0, <3>4, <5>1 DEF ReaderInv
        <5> QED
          BY <3>2, <4>2, <5>1, <5>2
      <4> QED
        BY <4>1, <4>2
    <3> QED
      BY <3>3, <3>4
  <2> QED
    BY <2>1, <2>2
<1>4. /\ lock' \in Pooled \cup {P!Nobody}
      /\ \A d \in Pooled : d # c => (lock' = d <=> lock = d)
      /\ x.at = "over" => lock' # c
      /\ x.at = "failed" => lock' = c
  BY <1>0 DEF P!McpCallsTypeOK, P!OnePooledCall
<1>5. P!McpCallsTypeOK'
  <2>1. pooled' \in 0..MaxConns /\ alive' \subseteq P!Conns
    BY <1>0 DEF P!McpCallsTypeOK
  <2> QED
    BY <1>0, <1>1, <1>2, <1>3, <1>4, <2>1 DEF P!McpCallsTypeOK, CallRecs
<1>6. P!AnswersAreOwn'
  BY <1>0, <1>1 DEF P!AnswersAreOwn
<1>7. P!OnePooledCall'
  BY <1>0, <1>1, <1>4 DEF P!OnePooledCall
<1>8. SentInv'
  <2>1. ASSUME NEW d \in P!AllCalls
        PROVE  /\ sent'[d] \subseteq 1..made'
               /\ sent'[d] # {} => call'[d].conn \in sent'[d]
               /\ call'[d].at \in {"idle", "queued"} => sent'[d] = {}
               /\ call'[d].at = "reading" => sent'[d] # {}
               /\ call'[d].at = "failed" =>
                     sent'[d] = {call'[d].conn} /\ call'[d].conn \notin alive'
               /\ \A k \in sent'[d] : k # call'[d].conn => k \notin alive'
               /\ \A k \in P!Conns : d \in asked'[k] => k \in sent'[d]
               /\ d \in Direct => sent'[d] \subseteq {1} /\ call'[d].at \notin {"queued", "failed"}
               /\ d \in Pooled => 1 \notin sent'[d]
    <3>1. CASE d = c
      BY <1>0, <1>1, <3>1 DEF SentInv
    <3>2. CASE d # c
      BY <1>0, <1>1, <3>2 DEF SentInv
    <3> QED
      BY <3>1, <3>2
  <2> QED
    BY <1>0, <2>1 DEF SentInv
<1>9. DoneInv'
  <2>1. ASSUME NEW d \in P!AllCalls
        PROVE  done'[d] + (IF IsAsked(d)' THEN 1 ELSE 0) <= TimesSent(d)'
    <3>1. IsAsked(d)' => IsAsked(d)
      BY DEF IsAsked
    <3>2. TimesSent(d)' = TimesSent(d)
      BY <1>1 DEF TimesSent
    <3>3. done[d] + (IF IsAsked(d) THEN 1 ELSE 0) <= TimesSent(d)
      BY <1>0 DEF DoneInv, TimesAsked
    <3>4. TimesSent(d) \in {0, 1, 2} /\ done[d] \in Nat
      BY <1>0, TimesSentBound
    <3> QED
      BY <3>1, <3>2, <3>3, <3>4
  <2> QED
    BY <2>1 DEF DoneInv, TimesAsked
<1>10. ReaderInv'
  <2>1. ASSUME NEW k \in P!Conns, reader'[k] # P!Nobody
        PROVE  call'[reader'[k]].at = "reading" /\ call'[reader'[k]].conn = k
    <3>1. reader'[k] = reader[k] /\ reader[k] # c /\ reader[k] \in P!AllCalls
      BY <1>0, <1>3, <2>1 DEF P!McpCallsTypeOK
    <3> QED
      BY <1>0, <1>1, <2>1, <3>1 DEF ReaderInv
  <2> QED
    BY <1>0, <2>1 DEF ReaderInv
<1> QED
  BY <1>2, <1>5, <1>6, <1>7, <1>8, <1>9, <1>10 DEF WireInv

\* A living server is asked for a call on the connection the call is on.
LEMMA AskedHere ==
    ASSUME WireInv, P!McpCallsAssumption, NEW c \in P!AllCalls, NEW k \in alive, c \in asked[k]
    PROVE  k \in P!Conns /\ k = call[c].conn
BY WireFacts DEF SentInv, P!McpCallsTypeOK

\* A call goes on: it is sent, on a connection that is there or has just been made.
LEMMA SendStep ==
    ASSUME WireInv, P!McpCallsAssumption, NEW c \in P!AllCalls, NEW k \in P!Conns,
           NEW x \in CallRecs, x.conn = k, x.result \in {"none", "error"},
           call' = [call EXCEPT ![c] = x],
           \/ x.at = "reading" /\ reader' = [reader EXCEPT ![k] = c]
           \/ x.at = "over" /\ reader' = reader /\ c \in Direct,
           \/ c \in Direct /\ call[c].at = "idle" /\ k = 1 /\ lock' = lock
           \/ /\ c \in Pooled /\ k # 1 /\ lock \in {P!Nobody, c} /\ lock' = c
              /\ call[c].at \in {"queued", "failed"},
           \/ k \in 1..made /\ UNCHANGED <<made, alive, pooled>> /\ call[c].at # "failed"
           \/ /\ k = made + 1 /\ made' = k /\ alive' = alive \cup {k} /\ pooled' = k
              /\ c \in Pooled,
           sent' = [sent EXCEPT ![c] = @ \cup {k}],
           asked' = [asked EXCEPT ![k] = IF k \in alive' THEN @ \cup {c} ELSE @],
           UNCHANGED <<unread, done>>
    PROVE  WireInv'
<1>0. /\ P!McpCallsTypeOK /\ P!AnswersAreOwn /\ P!OnePooledCall /\ SentInv /\ DoneInv /\ ReaderInv
      /\ call \in [P!AllCalls -> CallRecs] /\ made \in 1..MaxConns /\ MaxConns \in Nat
      /\ done \in [P!AllCalls -> Nat]
      /\ Pooled \subseteq P!AllCalls /\ P!Nobody \notin P!AllCalls /\ Direct \cap Pooled = {}
  BY WireFacts
<1>1. /\ call' \in [P!AllCalls -> CallRecs] /\ call'[c] = x
      /\ \A d \in P!AllCalls : d # c => call'[d] = call[d]
  BY <1>0
<1>2. unread' \in [P!Conns -> Seq(P!AllCalls)] /\ UnreadInv'
  BY LinesTaken
<1>3. /\ sent' \in [P!AllCalls -> SUBSET P!Conns] /\ sent'[c] = sent[c] \cup {k}
      /\ \A d \in P!AllCalls : d # c => sent'[d] = sent[d]
  BY <1>0 DEF P!McpCallsTypeOK
<1>4. /\ asked' \in [P!Conns -> SUBSET P!AllCalls]
      /\ \A j \in P!Conns : j # k => asked'[j] = asked[j]
      /\ asked'[k] \subseteq asked[k] \cup {c}
  BY <1>0 DEF P!McpCallsTypeOK
<1>5. /\ made' \in 1..MaxConns /\ made <= made' /\ k \in 1..made'
      /\ alive' \subseteq alive \cup {k} /\ alive \subseteq 1..made /\ alive' \subseteq 1..made'
      /\ pooled' = 0 \/ pooled' \in 2..made'
      /\ k \in alive' \ alive => k = made + 1
      /\ call[c].at = "failed" => k = made + 1
  <2>1. CASE k \in 1..made /\ UNCHANGED <<made, alive, pooled>> /\ call[c].at # "failed"
    BY <1>0, <2>1 DEF SentInv, ReaderInv
  <2>2. CASE k = made + 1 /\ made' = k /\ alive' = alive \cup {k} /\ pooled' = k
    BY <1>0, <2>2 DEF SentInv, ReaderInv, P!Conns
  <2> QED
    BY <2>1, <2>2
<1>6. /\ sent[c] = {} \/ (call[c].at = "failed" /\ \E j : sent[c] = {j} /\ j = call[c].conn
                                                   /\ j \notin alive' /\ j # k /\ j \in 1..made)
      /\ c \in Direct => sent[c] = {}
      /\ x.result \notin P!AllCalls
  <2>1. x.result \notin P!AllCalls
    BY DEF P!McpCallsAssumption, P!AllCalls
  <2>2. call[c].at # "failed" => sent[c] = {}
    BY <1>0 DEF SentInv
  <2>3. CASE call[c].at = "failed"
    <3>1. sent[c] = {call[c].conn} /\ call[c].conn \notin alive /\ call[c].conn \in 1..made
      BY <1>0, <2>3 DEF SentInv
    <3>2. k = made + 1 /\ call[c].conn # k /\ call[c].conn \notin alive' /\ c \notin Direct
      BY <1>0, <1>5, <2>3, <3>1
    <3> QED
      BY <2>1, <2>3, <3>1, <3>2
  <2> QED
    BY <2>1, <2>2, <2>3
<1>7. P!McpCallsTypeOK'
  <2>0. /\ reader \in [P!Conns -> P!AllCalls \cup {P!Nobody}]
        /\ lock \in Pooled \cup {P!Nobody}
    BY <1>0 DEF P!McpCallsTypeOK
  <2>1. /\ reader' \in [P!Conns -> P!AllCalls \cup {P!Nobody}]
        /\ lock' \in Pooled \cup {P!Nobody}
    <3>1. reader' = reader \/ reader' = [reader EXCEPT ![k] = c]
      OBVIOUS
    <3>2. lock' = lock \/ (lock' = c /\ c \in Pooled)
      OBVIOUS
    <3>3. reader' \in [P!Conns -> P!AllCalls \cup {P!Nobody}]
      <4>1. CASE reader' = reader
        BY <2>0, <4>1
      <4>2. CASE reader' = [reader EXCEPT ![k] = c]
        BY <2>0, <4>2
      <4> QED
        BY <3>1, <4>1, <4>2
    <3> QED
      BY <2>0, <3>2, <3>3
  <2>2. pooled' \in 0..MaxConns /\ alive' \subseteq P!Conns /\ made' \in P!Conns
    BY <1>0, <1>5 DEF P!Conns
  <2>3. done' \in [P!AllCalls -> 0..MaxConns]
    BY <1>0 DEF P!McpCallsTypeOK
  <2> QED
    BY <1>1, <1>2, <1>3, <1>4, <2>1, <2>2, <2>3 DEF P!McpCallsTypeOK, CallRecs
<1>8. P!AnswersAreOwn'
  BY <1>0, <1>1, <1>6 DEF P!AnswersAreOwn
<1>9. P!OnePooledCall'
  BY <1>0, <1>1 DEF P!OnePooledCall
<1>10. SentInv'
  <2>1. ASSUME NEW d \in P!AllCalls
        PROVE  /\ sent'[d] \subseteq 1..made'
               /\ sent'[d] # {} => call'[d].conn \in sent'[d]
               /\ call'[d].at \in {"idle", "queued"} => sent'[d] = {}
               /\ call'[d].at = "reading" => sent'[d] # {}
               /\ call'[d].at = "failed" =>
                     sent'[d] = {call'[d].conn} /\ call'[d].conn \notin alive'
               /\ \A j \in sent'[d] : j # call'[d].conn => j \notin alive'
               /\ \A j \in P!Conns : d \in asked'[j] => j \in sent'[d]
               /\ d \in Direct => sent'[d] \subseteq {1} /\ call'[d].at \notin {"queued", "failed"}
               /\ d \in Pooled => 1 \notin sent'[d]
    <3>1. CASE d = c
      <4>1. \A j \in P!Conns : c \in asked'[j] => j \in sent'[c]
        BY <1>0, <1>3, <1>4 DEF SentInv
      <4>2. sent'[c] \subseteq 1..made' /\ (c \in Pooled => 1 \notin sent'[c])
        BY <1>0, <1>3, <1>5 DEF SentInv
      <4>3. \A j \in sent'[c] : j # k => j \notin alive'
        BY <1>3, <1>6
      <4> QED
        BY <1>0, <1>1, <1>3, <1>6, <3>1, <4>1, <4>2, <4>3
    <3>2. CASE d # c
      <4>1. /\ sent'[d] = sent[d] /\ call'[d] = call[d]
            /\ \A j \in P!Conns : d \in asked'[j] => d \in asked[j]
        BY <1>1, <1>3, <1>4, <3>2
      <4>2. sent[d] \subseteq 1..made
        BY <1>0 DEF SentInv
      <4>3. call[d].at = "failed" => call[d].conn \in 1..made
        BY <1>0, <4>2 DEF SentInv
      <4>4. \A j \in 1..made : j \in alive' => j \in alive
        BY <1>0, <1>5
      <4>5. sent[d] \subseteq 1..made'
        BY <1>0, <1>5, <4>2
      <4> QED
        BY <1>0, <4>1, <4>2, <4>3, <4>4, <4>5 DEF SentInv
    <3> QED
      BY <3>1, <3>2
  <2> QED
    BY <1>5, <2>1 DEF SentInv
<1>11. DoneInv'
  <2>1. ASSUME NEW d \in P!AllCalls
        PROVE  done'[d] + (IF IsAsked(d)' THEN 1 ELSE 0) <= TimesSent(d)'
    <3>1. TimesSent(d) \in {0, 1, 2} /\ done[d] \in Nat /\ done'[d] = done[d]
      BY <1>0, TimesSentBound
    <3>2. done[d] + (IF IsAsked(d) THEN 1 ELSE 0) <= TimesSent(d)
      BY <1>0 DEF DoneInv, TimesAsked
    <3>3. CASE d = c
      <4>1. CASE sent[c] = {}
        <5>1. TimesSent(c) = 0 /\ TimesSent(c)' = 1
          BY <1>1, <1>3, <4>1 DEF TimesSent
        <5> QED
          BY <3>1, <3>2, <3>3, <5>1
      <4>2. CASE sent[c] # {}
        <5>1. TimesSent(c) = 1 /\ TimesSent(c)' = 2
          BY <1>1, <1>3, <1>6, <4>2 DEF TimesSent
        <5> QED
          BY <3>1, <3>2, <3>3, <5>1
      <4> QED
        BY <4>1, <4>2
    <3>4. CASE d # c
      <4>1. TimesSent(d)' = TimesSent(d)
        BY <1>1, <1>3, <3>4 DEF TimesSent
      <4>2. ASSUME NEW j \in alive', d \in asked'[j] PROVE j \in alive /\ d \in asked[j]
        <5>1. j \in P!Conns
          BY <1>5, <1>0 DEF P!Conns
        <5>2. d \in asked[j]
          BY <1>4, <3>4, <4>2, <5>1
        <5>3. j \in sent[d] /\ sent[d] \subseteq 1..made
          BY <1>0, <5>1, <5>2 DEF SentInv
        <5> QED
          BY <1>0, <1>5, <5>2, <5>3
      <4>3. IsAsked(d)' => IsAsked(d)
        BY <4>2 DEF IsAsked
      <4> QED
        BY <3>1, <3>2, <4>1, <4>3
    <3> QED
      BY <3>3, <3>4
  <2> QED
    BY <2>1 DEF DoneInv, TimesAsked
<1>12. ReaderInv'
  <2>1. ASSUME NEW j \in P!Conns, reader'[j] # P!Nobody
        PROVE  call'[reader'[j]].at = "reading" /\ call'[reader'[j]].conn = j
    <3>1. CASE x.at = "reading" /\ reader' = [reader EXCEPT ![k] = c] /\ j = k
      BY <1>0, <1>1, <3>1 DEF P!McpCallsTypeOK
    <3>2. CASE reader'[j] = reader[j]
      <4>1. reader[j] \in P!AllCalls /\ call[reader[j]].at = "reading" /\ call[reader[j]].conn = j
        BY <1>0, <2>1, <3>2 DEF P!McpCallsTypeOK, ReaderInv
      <4> QED
        BY <1>1, <3>2, <4>1
    <3>3. \/ x.at = "reading" /\ reader' = [reader EXCEPT ![k] = c] /\ j = k
          \/ reader'[j] = reader[j]
      BY <1>0 DEF P!McpCallsTypeOK
    <3> QED
      BY <3>1, <3>2, <3>3
  <2> QED
    BY <1>5, <2>1 DEF ReaderInv
<1> QED
  BY <1>2, <1>7, <1>8, <1>9, <1>10, <1>11, <1>12 DEF WireInv

\* Nobody waits on a connection of the pool when a call of the pool is sent.
LEMMA PoolIsFree ==
    ASSUME WireInv, P!McpCallsAssumption, NEW c \in Pooled, NEW k \in P!Conns, k # 1,
           lock \in {P!Nobody, c}, call[c].at \in {"queued", "failed"}
    PROVE  reader[k] = P!Nobody
<1>1. SUFFICES ASSUME reader[k] # P!Nobody PROVE FALSE
  OBVIOUS
<1>2. PICK d \in P!AllCalls : d = reader[k] /\ call[d].at = "reading" /\ call[d].conn = k
  BY <1>1, WireFacts DEF ReaderInv, P!McpCallsTypeOK
<1>3. d \notin Direct /\ d \in Pooled
  <2>1. sent[d] # {} /\ k \in sent[d]
    BY <1>2, WireFacts DEF SentInv
  <2> QED
    BY <2>1, WireFacts DEF SentInv
<1>4. lock = d
  BY <1>2, <1>3, WireFacts DEF P!OnePooledCall
<1>5. d # P!Nobody /\ d # c
  BY <1>2, WireFacts
<1> QED
  BY <1>4, <1>5

LEMMA SendSteps ==
    ASSUME WireInv, P!McpCallsAssumption, NEW c \in P!AllCalls,
           P!CallDirect(c) \/ P!Acquire(c) \/ P!Reconnect(c)
    PROVE  WireInv'
<1>0. /\ P!OnePooledCall /\ SentInv /\ ReaderInv
      /\ made \in 1..MaxConns /\ MaxConns \in Nat
      /\ c \in Direct \/ c \in Pooled
      /\ Pooled \subseteq P!AllCalls /\ P!Nobody \notin P!AllCalls /\ Direct \cap Pooled = {}
  BY WireFacts
<1> DEFINE Reads(k) == [at |-> "reading", conn |-> k, result |-> "none"]
<1>1. ASSUME NEW k \in P!Conns PROVE Reads(k) \in CallRecs /\ P!Over(k, "error") \in CallRecs
  BY <1>0 DEF CallRecs, P!Over, P!Conns
<1>2. CASE P!CallDirect(c)
  <2>1. 1 \in P!Conns /\ 1 \in 1..made /\ c \in Direct /\ c \notin Pooled /\ call[c].at = "idle"
    BY <1>0, <1>2 DEF P!Conns, P!CallDirect
  <2>2. /\ lock' = lock /\ UNCHANGED <<made, alive, pooled>> /\ UNCHANGED <<unread, done>>
        /\ sent' = [sent EXCEPT ![c] = @ \cup {1}]
        /\ asked' = [asked EXCEPT ![1] = IF 1 \in alive' THEN @ \cup {c} ELSE @]
    BY <1>2 DEF P!CallDirect, P!Sends
  <2>3. \/ call' = [call EXCEPT ![c] = P!Over(1, "error")] /\ reader' = reader
        \/ call' = [call EXCEPT ![c] = Reads(1)] /\ reader' = [reader EXCEPT ![1] = c]
    BY <1>2 DEF P!CallDirect, P!Sends
  <2>4. PICK x \in {Reads(1), P!Over(1, "error")} :
          /\ call' = [call EXCEPT ![c] = x]
          /\ \/ x = Reads(1) /\ reader' = [reader EXCEPT ![1] = c]
             \/ x = P!Over(1, "error") /\ reader' = reader
    BY <2>3
  <2>5. /\ x \in CallRecs /\ x.conn = 1 /\ x.result \in {"none", "error"}
        /\ \/ x.at = "reading" /\ reader' = [reader EXCEPT ![1] = c]
           \/ x.at = "over" /\ reader' = reader /\ c \in Direct
    <3>1. CASE x = Reads(1) /\ reader' = [reader EXCEPT ![1] = c]
      BY <1>1, <2>1, <3>1
    <3>2. CASE x = P!Over(1, "error") /\ reader' = reader
      BY <1>1, <2>1, <3>2 DEF P!Over
    <3> QED
      BY <2>4, <3>1, <3>2
  <2> QED
    BY <2>1, <2>2, <2>4, <2>5, SendStep
<1>3. ASSUME NEW k \in P!Conns, c \in Pooled, k # 1, lock \in {P!Nobody, c},
             call[c].at \in {"queued", "failed"}, lock' = c, P!Sends(c, k),
             \/ k \in 1..made /\ UNCHANGED <<made, alive, pooled>> /\ call[c].at # "failed"
             \/ k = made + 1 /\ made' = k /\ alive' = alive \cup {k} /\ pooled' = k,
             UNCHANGED <<unread, done>>
      PROVE  WireInv'
  <2>1. reader[k] = P!Nobody
    BY <1>3, PoolIsFree
  <2>2. /\ call' = [call EXCEPT ![c] = Reads(k)] /\ reader' = [reader EXCEPT ![k] = c]
        /\ sent' = [sent EXCEPT ![c] = @ \cup {k}]
        /\ asked' = [asked EXCEPT ![k] = IF k \in alive' THEN @ \cup {c} ELSE @]
    BY <1>3, <2>1 DEF P!Sends
  <2>3. /\ Reads(k) \in CallRecs /\ Reads(k).conn = k /\ Reads(k).result = "none"
        /\ Reads(k).at = "reading"
    BY <1>1
  <2> HIDE DEF Reads
  <2> QED
    BY <1>3, <2>2, <2>3, SendStep
<1>4. CASE P!Acquire(c)
  <2>1. pooled \in 2..made /\ call[c].at = "queued" /\ lock = P!Nobody
    BY <1>0, <1>4 DEF P!Acquire, ReaderInv
  <2>2. c \in Pooled
    BY <1>0, <2>1 DEF SentInv
  <2>3. pooled \in P!Conns /\ pooled \in 1..made /\ pooled # 1
    BY <1>0, <2>1 DEF P!Conns
  <2>4. PICK k \in P!Conns : k = pooled
    BY <2>3
  <2> QED
    BY <1>3, <1>4, <2>1, <2>2, <2>3, <2>4 DEF P!Acquire
<1>5. CASE P!Reconnect(c)
  <2>1. /\ made < MaxConns /\ made' = made + 1 /\ alive' = alive \cup {made'} /\ pooled' = made'
        /\ lock' = c /\ P!Sends(c, made') /\ UNCHANGED <<unread, done>>
    BY <1>5 DEF P!Reconnect, P!Connects
  <2>2. call[c].at \in {"queued", "failed"} /\ (call[c].at = "queued" => lock = P!Nobody)
    BY <1>5 DEF P!Reconnect
  <2>3. c \in Pooled
    BY <1>0, <2>2 DEF SentInv
  <2>4. lock \in {P!Nobody, c}
    BY <1>0, <2>2, <2>3 DEF P!OnePooledCall
  <2>5. made' \in P!Conns /\ made' # 1
    BY <1>0, <2>1 DEF P!Conns
  <2>6. PICK k \in P!Conns : k = made'
    BY <2>5
  <2> QED
    BY <1>3, <2>1, <2>2, <2>3, <2>4, <2>5, <2>6
<1> QED
  BY <1>2, <1>4, <1>5

\* The server does what it was asked, or dies.
LEMMA ServerDoes ==
    ASSUME WireInv, P!McpCallsAssumption,
           UNCHANGED <<call, lock, pooled, made, reader, sent>>,
           alive' \subseteq alive,
           asked' \in [P!Conns -> SUBSET P!AllCalls],
           \A k \in P!Conns : asked'[k] \subseteq asked[k],
           done' \in [P!AllCalls -> Nat],
           \A c \in P!AllCalls :
              /\ done[c] <= done'[c]
              /\ done'[c] + TimesAsked(c)' <= done[c] + TimesAsked(c),
           unread' \in [P!Conns -> Seq(P!AllCalls)], UnreadInv'
    PROVE  WireInv'
<1>0. /\ P!McpCallsTypeOK /\ P!AnswersAreOwn /\ P!OnePooledCall /\ SentInv /\ DoneInv /\ ReaderInv
      /\ done \in [P!AllCalls -> Nat] /\ MaxConns \in Nat
  BY WireFacts
<1>1. ASSUME NEW c \in P!AllCalls
      PROVE  TimesAsked(c) \in {0, 1} /\ TimesAsked(c)' \in {0, 1}
  BY DEF TimesAsked
<1>2. ASSUME NEW c \in P!AllCalls
      PROVE  /\ done'[c] + TimesAsked(c)' <= TimesSent(c)
             /\ done'[c] \in 0..MaxConns
  <2>1. done[c] + TimesAsked(c) <= TimesSent(c)
    BY <1>0 DEF DoneInv
  <2>2. TimesSent(c) \in 0..MaxConns /\ done[c] \in Nat /\ done'[c] \in Nat
    BY <1>0, TimesSentBound
  <2>3. done'[c] + TimesAsked(c)' <= done[c] + TimesAsked(c)
    OBVIOUS
  <2>4. PICK n, m, t, u, v : /\ n = done[c] /\ m = done'[c] /\ t = TimesAsked(c)
                             /\ u = TimesAsked(c)' /\ v = TimesSent(c)
    OBVIOUS
  <2>5. /\ n + t <= v /\ m + u <= n + t /\ n \in Nat /\ m \in Nat
        /\ t \in {0, 1} /\ u \in {0, 1} /\ v \in 0..MaxConns
    BY <1>1, <2>1, <2>2, <2>3, <2>4
  <2>6. m + u <= v /\ m \in 0..MaxConns
    BY <1>0, <2>5
  <2> QED
    BY <2>4, <2>6
<1>3. P!McpCallsTypeOK'
  <2>1. done' \in [P!AllCalls -> 0..MaxConns]
    BY <1>2
  <2> QED
    BY <1>0, <2>1 DEF P!McpCallsTypeOK
<1>4. P!AnswersAreOwn'
  <2>1. ASSUME NEW c \in P!AllCalls, call[c].result \in P!AllCalls
        PROVE  call[c].result = c /\ done'[c] > 0
    BY <1>0, <2>1 DEF P!AnswersAreOwn
  <2> QED
    BY <2>1 DEF P!AnswersAreOwn
<1>5. P!OnePooledCall'
  BY <1>0 DEF P!OnePooledCall
<1>6. SentInv'
  BY <1>0 DEF SentInv
<1>7. DoneInv'
  <2>1. ASSUME NEW c \in P!AllCalls PROVE TimesSent(c)' = TimesSent(c)
    BY DEF TimesSent
  <2> QED
    BY <1>2, <2>1 DEF DoneInv
<1>8. ReaderInv'
  BY <1>0 DEF ReaderInv
<1> QED
  BY <1>3, <1>4, <1>5, <1>6, <1>7, <1>8 DEF WireInv

LEMMA AppendedLine ==
    ASSUME NEW S, NEW s \in Seq(S), NEW c \in S, NEW i \in DOMAIN Append(s, c)
    PROVE  Append(s, c)[i] = c \/ (i \in DOMAIN s /\ Append(s, c)[i] = s[i])
OBVIOUS

LEMMA AnswersStep ==
    ASSUME WireInv, P!McpCallsAssumption, NEW c \in P!AllCalls, NEW k \in P!Conns,
           P!Answers(k, c)
    PROVE  WireInv'
<1>0. /\ P!McpCallsTypeOK /\ UnreadInv /\ done \in [P!AllCalls -> Nat]
  BY WireFacts
<1>1. /\ k \in alive /\ c \in asked[k]
      /\ done' = [done EXCEPT ![c] = @ + 1]
      /\ asked' = [asked EXCEPT ![k] = @ \ {c}]
      /\ unread' = [unread EXCEPT ![k] = Append(@, c)]
      /\ UNCHANGED <<call, lock, pooled, made, reader, sent>> /\ alive' = alive
  BY DEF P!Answers
<1>2. /\ asked' \in [P!Conns -> SUBSET P!AllCalls] /\ asked'[k] = asked[k] \ {c}
      /\ \A j \in P!Conns : j # k => asked'[j] = asked[j]
  BY <1>0, <1>1 DEF P!McpCallsTypeOK
<1>3. /\ done' \in [P!AllCalls -> Nat] /\ done'[c] = done[c] + 1
      /\ \A d \in P!AllCalls : d # c => done'[d] = done[d]
  BY <1>0, <1>1
<1>4. ASSUME NEW d \in P!AllCalls
      PROVE  done[d] <= done'[d] /\ done'[d] + TimesAsked(d)' <= done[d] + TimesAsked(d)
  <2>1. CASE d = c
    <3>1. IsAsked(c)
      BY <1>1 DEF IsAsked
    <3>2. ~IsAsked(c)'
      <4>1. ASSUME NEW j \in alive', c \in asked'[j] PROVE FALSE
        <5>1. j \in alive /\ j \in P!Conns
          BY <1>0, <1>1 DEF P!McpCallsTypeOK
        <5>2. c \in asked[j] /\ j # k
          BY <1>2, <4>1, <5>1
        <5> QED
          BY <1>1, <5>1, <5>2, AskedHere
      <4> QED
        BY <4>1 DEF IsAsked
    <3>3. TimesAsked(c) = 1 /\ TimesAsked(c)' = 0
      BY <3>1, <3>2 DEF TimesAsked
    <3> QED
      BY <1>0, <1>3, <2>1, <3>3
  <2>2. CASE d # c
    <3>1. IsAsked(d)' => IsAsked(d)
      BY <1>0, <1>1, <1>2 DEF IsAsked, P!McpCallsTypeOK
    <3>2. TimesAsked(d)' <= TimesAsked(d) /\ TimesAsked(d) \in {0, 1} /\ TimesAsked(d)' \in {0, 1}
      BY <3>1 DEF TimesAsked
    <3> QED
      BY <1>0, <1>3, <2>2, <3>2
  <2> QED
    BY <2>1, <2>2
<1>5. /\ unread' \in [P!Conns -> Seq(P!AllCalls)] /\ unread'[k] = Append(unread[k], c)
      /\ \A j \in P!Conns : j # k => unread'[j] = unread[j]
  BY <1>0, <1>1 DEF P!McpCallsTypeOK
<1>6. UnreadInv'
  <2>1. ASSUME NEW j \in P!Conns, NEW i \in DOMAIN unread'[j] PROVE done'[unread'[j][i]] > 0
    <3>1. unread'[j][i] = c \/ (i \in DOMAIN unread[j] /\ unread'[j][i] = unread[j][i])
      <4>1. CASE j = k
        <5>1. unread[k] \in Seq(P!AllCalls) /\ i \in DOMAIN Append(unread[k], c)
          BY <1>0, <1>5, <2>1, <4>1 DEF P!McpCallsTypeOK
        <5> QED
          BY <1>5, <4>1, <5>1, AppendedLine
      <4>2. CASE j # k
        BY <1>5, <2>1, <4>2
      <4> QED
        BY <4>1, <4>2
    <3>2. CASE unread'[j][i] = c
      BY <1>0, <1>3, <3>2
    <3>3. CASE i \in DOMAIN unread[j] /\ unread'[j][i] = unread[j][i]
      <4>1. unread[j][i] \in P!AllCalls /\ done[unread[j][i]] > 0
        BY <1>0, <3>3 DEF UnreadInv, P!McpCallsTypeOK
      <4> QED
        BY <1>0, <1>3, <3>3, <4>1
    <3> QED
      BY <3>1, <3>2, <3>3
  <2> QED
    BY <2>1 DEF UnreadInv
<1> QED
  BY <1>1, <1>2, <1>3, <1>4, <1>5, <1>6, ServerDoes

LEMMA DiesStep ==
    ASSUME WireInv, P!McpCallsAssumption, NEW k \in P!Conns, P!Dies(k)
    PROVE  WireInv'
<1>0. /\ P!McpCallsTypeOK /\ UnreadInv /\ done \in [P!AllCalls -> Nat]
  BY WireFacts
<1>1. /\ k \in alive /\ alive' = alive \ {k}
      /\ asked' = [asked EXCEPT ![k] = {}]
      /\ UNCHANGED <<call, lock, pooled, made, reader, sent>> /\ unread' = unread
  BY DEF P!Dies
<1>2. PICK did \in SUBSET asked[k] :
         done' = [c \in P!AllCalls |-> IF c \in did THEN done[c] + 1 ELSE done[c]]
  BY DEF P!Dies
<1>3. /\ asked' \in [P!Conns -> SUBSET P!AllCalls] /\ asked'[k] = {}
      /\ \A j \in P!Conns : j # k => asked'[j] = asked[j]
  BY <1>0, <1>1 DEF P!McpCallsTypeOK
<1>4. /\ done' \in [P!AllCalls -> Nat]
      /\ \A d \in P!AllCalls : done'[d] = IF d \in did THEN done[d] + 1 ELSE done[d]
  BY <1>0, <1>2
<1>5. ASSUME NEW d \in P!AllCalls
      PROVE  done[d] <= done'[d] /\ done'[d] + TimesAsked(d)' <= done[d] + TimesAsked(d)
  <2>1. CASE d \in did
    <3>1. IsAsked(d)
      BY <1>1, <2>1 DEF IsAsked
    <3>2. ~IsAsked(d)'
      <4>1. ASSUME NEW j \in alive', d \in asked'[j] PROVE FALSE
        <5>1. j \in alive /\ j \in P!Conns /\ j # k
          BY <1>0, <1>1 DEF P!McpCallsTypeOK
        <5>2. d \in asked[j] /\ d \in asked[k]
          BY <1>3, <2>1, <4>1, <5>1
        <5> QED
          BY <1>1, <5>1, <5>2, AskedHere
      <4> QED
        BY <4>1 DEF IsAsked
    <3>3. TimesAsked(d) = 1 /\ TimesAsked(d)' = 0
      BY <3>1, <3>2 DEF TimesAsked
    <3> QED
      BY <1>0, <1>4, <2>1, <3>3
  <2>2. CASE d \notin did
    <3>1. IsAsked(d)' => IsAsked(d)
      BY <1>0, <1>1, <1>3 DEF IsAsked, P!McpCallsTypeOK
    <3>2. TimesAsked(d)' <= TimesAsked(d) /\ TimesAsked(d) \in {0, 1} /\ TimesAsked(d)' \in {0, 1}
      BY <3>1 DEF TimesAsked
    <3> QED
      BY <1>0, <1>4, <2>2, <3>2
  <2> QED
    BY <2>1, <2>2
<1>6. unread' \in [P!Conns -> Seq(P!AllCalls)] /\ UnreadInv'
  <2>1. ASSUME NEW j \in P!Conns, NEW i \in DOMAIN unread[j] PROVE done'[unread[j][i]] > 0
    <3>1. unread[j][i] \in P!AllCalls /\ done[unread[j][i]] > 0
      BY <1>0, <2>1 DEF UnreadInv, P!McpCallsTypeOK
    <3> QED
      BY <1>0, <1>4, <3>1
  <2> QED
    BY <1>0, <1>1, <2>1 DEF UnreadInv, P!McpCallsTypeOK
<1>7. /\ alive' \subseteq alive /\ \A j \in P!Conns : asked'[j] \subseteq asked[j]
  BY <1>1, <1>3
<1> QED
  BY <1>1, <1>3, <1>4, <1>5, <1>6, <1>7, ServerDoes

LEMMA CallPoolStep ==
    ASSUME WireInv, P!McpCallsAssumption, NEW c \in P!AllCalls, P!CallPool(c)
    PROVE  WireInv'
<1>0. /\ P!McpCallsTypeOK /\ P!AnswersAreOwn /\ P!OnePooledCall /\ SentInv /\ DoneInv
      /\ UnreadInv /\ ReaderInv /\ call \in [P!AllCalls -> CallRecs]
      /\ Direct \cap Pooled = {}
  BY WireFacts
<1>1. /\ c \in Pooled /\ c \notin Direct /\ call[c].at = "idle"
      /\ call' = [call EXCEPT ![c].at = "queued"]
      /\ lock' = lock /\ pooled' = pooled /\ made' = made /\ alive' = alive /\ asked' = asked
      /\ unread' = unread /\ reader' = reader /\ sent' = sent /\ done' = done
  BY <1>0 DEF P!CallPool
<1>2. /\ call' \in [P!AllCalls -> CallRecs]
      /\ call'[c].at = "queued" /\ call'[c].conn = call[c].conn /\ call'[c].result = call[c].result
      /\ \A d \in P!AllCalls : d # c => call'[d] = call[d]
  BY <1>0, <1>1 DEF CallRecs
<1>3. P!McpCallsTypeOK'
  BY <1>0, <1>1, <1>2 DEF P!McpCallsTypeOK, CallRecs
<1>4. P!AnswersAreOwn'
  BY <1>0, <1>1, <1>2 DEF P!AnswersAreOwn
<1>5. P!OnePooledCall'
  BY <1>0, <1>1, <1>2 DEF P!OnePooledCall, P!AllCalls
<1>6. SentInv'
  BY <1>0, <1>1, <1>2 DEF SentInv
<1>7. DoneInv'
  <2>1. ASSUME NEW d \in P!AllCalls
        PROVE  TimesSent(d)' = TimesSent(d) /\ TimesAsked(d)' = TimesAsked(d)
    BY <1>1, <1>2 DEF TimesSent, TimesAsked, IsAsked
  <2> QED
    BY <1>0, <1>1, <2>1 DEF DoneInv
<1>8. UnreadInv'
  BY <1>0, <1>1 DEF UnreadInv
<1>9. ReaderInv'
  BY <1>0, <1>1, <1>2 DEF ReaderInv, P!McpCallsTypeOK
<1> QED
  BY <1>3, <1>4, <1>5, <1>6, <1>7, <1>8, <1>9 DEF WireInv

LEMMA WireStay ==
    ASSUME WireInv, UNCHANGED wireVars
    PROVE  WireInv'
<1>1. /\ call' = call /\ lock' = lock /\ pooled' = pooled /\ made' = made /\ alive' = alive
      /\ asked' = asked /\ unread' = unread /\ reader' = reader /\ sent' = sent /\ done' = done
  BY DEF wireVars
<1>2. DoneInv'
  BY <1>1 DEF WireInv, DoneInv, TimesSent, TimesAsked, IsAsked
<1> QED
  BY <1>1, <1>2 DEF WireInv, P!McpCallsTypeOK, P!AnswersAreOwn, P!OnePooledCall, SentInv,
                    UnreadInv, ReaderInv

\* A line that is not the answer is skipped.
LEMMA SkipStep ==
    ASSUME WireInv, P!McpCallsAssumption, NEW k \in P!Conns, unread[k] # <<>>,
           unread' = [unread EXCEPT ![k] = Tail(@)],
           UNCHANGED <<call, lock, reader, pooled, made, alive, asked, sent, done>>
    PROVE  WireInv'
<1>1. /\ call' = call /\ lock' = lock /\ pooled' = pooled /\ made' = made /\ alive' = alive
      /\ asked' = asked /\ reader' = reader /\ sent' = sent /\ done' = done
  OBVIOUS
<1>2. unread' \in [P!Conns -> Seq(P!AllCalls)] /\ UnreadInv'
  BY LinesTaken
<1>3. DoneInv'
  BY <1>1 DEF WireInv, DoneInv, TimesSent, TimesAsked, IsAsked
<1>4. P!McpCallsTypeOK'
  BY <1>1, <1>2 DEF WireInv, P!McpCallsTypeOK
<1> QED
  BY <1>1, <1>2, <1>3, <1>4 DEF WireInv, P!AnswersAreOwn, P!OnePooledCall, SentInv, ReaderInv

\* A call ends, with its own answer or none.
LEMMA ReturnStep ==
    ASSUME WireInv, P!McpCallsAssumption, NEW c \in P!AllCalls,
           call[c].at \in {"queued", "reading", "failed"},
           NEW result \in {c, "error", "timeout", "cancelled"}, result = c => done[c] > 0,
           call' = [call EXCEPT ![c] = P!Over(call[c].conn, result)],
           lock' = IF lock = c THEN P!Nobody ELSE lock,
           alive' \subseteq alive, pooled' = pooled \/ pooled' = 0,
           made' = made, asked' = asked, sent' = sent, done' = done,
           \/ reader' = reader /\ call[c].at # "reading"
           \/ call[c].at = "reading" /\ P!StopsReading(c),
           \/ unread' = unread
           \/ \E k \in P!Conns : /\ unread[k] # <<>>
                                 /\ unread' = [unread EXCEPT ![k] = Tail(@)]
    PROVE  WireInv'
<1>1. call[c].conn \in 0..MaxConns
  BY WireFacts DEF CallRecs
<1>2. PICK x : x = P!Over(call[c].conn, result)
  OBVIOUS
<1>3. /\ x \in CallRecs /\ x.at = "over" /\ x.conn = call[c].conn /\ x.result = result
  BY <1>1, <1>2 DEF P!Over, CallRecs
<1>4. result \in P!AllCalls => result = c
  BY DEF P!McpCallsAssumption, P!AllCalls
<1>5. \/ reader' = reader /\ call[c].at # "reading"
      \/ /\ call[c].at = "reading"
         /\ reader' = [reader EXCEPT ![call[c].conn] = IF @ = c THEN P!Nobody ELSE @]
  BY DEF P!StopsReading
<1>6. call' = [call EXCEPT ![c] = x]
  BY <1>2
<1> QED
  BY <1>3, <1>4, <1>5, <1>6, LeaveStep

\* A call of the pool fails for the first time.
LEMMA RetryStep ==
    ASSUME WireInv, P!McpCallsAssumption, NEW c \in Pooled, call[c].at = "reading",
           sent[c] = {call[c].conn},
           call' = [call EXCEPT ![c].at = "failed"], lock' = lock,
           alive' = alive \ {call[c].conn}, pooled' = 0,
           made' = made, asked' = asked, sent' = sent, done' = done, P!StopsReading(c),
           \/ unread' = unread
           \/ \E k \in P!Conns : /\ unread[k] # <<>>
                                 /\ unread' = [unread EXCEPT ![k] = Tail(@)]
    PROVE  WireInv'
<1>0. call \in [P!AllCalls -> CallRecs] /\ c \in P!AllCalls
  BY WireFacts
<1>1. PICK x : x = [call[c] EXCEPT !.at = "failed"]
  OBVIOUS
<1>2. /\ x \in CallRecs /\ x.at = "failed" /\ x.conn = call[c].conn
      /\ x.result = call[c].result
  BY <1>0, <1>1 DEF CallRecs
<1>3. call' = [call EXCEPT ![c] = x]
  BY <1>0, <1>1
<1>4. reader' = [reader EXCEPT ![call[c].conn] = IF @ = c THEN P!Nobody ELSE @]
  BY DEF P!StopsReading
<1>5. alive' \subseteq alive /\ call[c].conn \notin alive'
  OBVIOUS
<1> QED
  BY <1>0, <1>2, <1>3, <1>4, <1>5, LeaveStep

LEMMA FailsStep ==
    ASSUME WireInv, P!McpCallsAssumption, NEW c \in P!AllCalls, P!Breaks(c) \/ P!Unreadable(c)
    PROVE  WireInv'
<1>1. /\ call[c].at = "reading" /\ P!Fails(c) /\ P!StopsReading(c)
      /\ made' = made /\ asked' = asked /\ sent' = sent /\ done' = done
  BY DEF P!Breaks, P!Unreadable, P!Fails
<1>2. call[c].conn \in P!Conns
  BY <1>1, WireFacts DEF SentInv, P!McpCallsTypeOK, P!Conns
<1>3. \/ unread' = unread
      \/ \E k \in P!Conns : /\ unread[k] # <<>>
                            /\ unread' = [unread EXCEPT ![k] = Tail(@)]
  BY <1>2 DEF P!Breaks, P!Unreadable
<1>4. CASE /\ call' = [call EXCEPT ![c] = P!Over(call[c].conn, "error")]
           /\ lock' = IF lock = c THEN P!Nobody ELSE lock
           /\ alive' \subseteq alive /\ (pooled' = pooled \/ pooled' = 0)
  <2>1. "error" # c
    BY DEF P!McpCallsAssumption, P!AllCalls
  <2> QED
    BY <1>1, <1>3, <1>4, <2>1, ReturnStep
<1>5. CASE /\ c \in Pooled /\ sent[c] = {call[c].conn}
           /\ call' = [call EXCEPT ![c].at = "failed"] /\ lock' = lock
           /\ alive' = alive \ {call[c].conn} /\ pooled' = 0
  BY <1>1, <1>3, <1>5, RetryStep
<1>6. c \in Direct \/ c \in Pooled
  BY WireFacts
<1> QED
  BY <1>1, <1>4, <1>5, <1>6 DEF P!Fails, P!Returns

LEMMA CallEnds ==
    ASSUME WireInv, P!McpCallsAssumption, NEW c \in P!AllCalls,
           \/ P!Read(c) \/ P!TimesOut(c) \/ P!Cancelled(c) \/ P!CannotConnect(c)
    PROVE  WireInv'
<1>1. c \notin {"error", "timeout", "cancelled"}
  BY DEF P!McpCallsAssumption, P!AllCalls
<1>2. CASE P!Read(c)
  <2>1. /\ call[c].at = "reading" /\ unread[call[c].conn] # <<>>
        /\ unread' = [unread EXCEPT ![call[c].conn] = Tail(@)]
        /\ UNCHANGED <<pooled, made, alive, asked, sent, done>>
    BY <1>2 DEF P!Read
  <2>2. call[c].conn \in P!Conns
    BY <2>1, WireFacts DEF SentInv, P!McpCallsTypeOK, P!Conns
  <2>3. PICK k \in P!Conns : k = call[c].conn
    BY <2>2
  <2>4. unread[k] \in Seq(P!AllCalls) /\ unread[k] # <<>>
    BY <2>1, <2>3, WireFacts DEF P!McpCallsTypeOK
  <2>5. 1 \in DOMAIN unread[k] /\ Head(unread[k]) = unread[k][1]
    BY <2>4, TailLines
  <2>6. done[Head(unread[k])] > 0
    BY <2>5, WireFacts DEF UnreadInv
  <2>7. CASE Head(unread[k]) = c
    <3>1. P!Returns(c, c) /\ P!StopsReading(c)
      BY <1>2, <2>3, <2>7 DEF P!Read, P!IsAnswer
    <3> QED
      BY <2>1, <2>3, <2>6, <2>7, <3>1, ReturnStep DEF P!Returns
  <2>8. CASE Head(unread[k]) # c
    <3>1. UNCHANGED <<call, lock, reader>>
      BY <1>2, <2>3, <2>8 DEF P!Read, P!IsAnswer
    <3> QED
      BY <2>1, <2>3, <3>1, SkipStep
  <2> QED
    BY <2>7, <2>8
<1>3. CASE P!TimesOut(c)
  <2>1. /\ call[c].at = "reading" /\ P!Returns(c, "timeout") /\ P!StopsReading(c)
        /\ alive' \subseteq alive /\ (pooled' = pooled \/ pooled' = 0)
        /\ UNCHANGED <<made, asked, unread, sent, done>>
    BY <1>3 DEF P!TimesOut
  <2> QED
    BY <1>1, <2>1, ReturnStep DEF P!Returns
<1>4. CASE P!Cancelled(c)
  <2>1. /\ call[c].at \in {"queued", "reading", "failed"} /\ P!Returns(c, "cancelled")
        /\ \/ reader' = reader /\ call[c].at # "reading"
           \/ call[c].at = "reading" /\ P!StopsReading(c)
        /\ alive' \subseteq alive /\ pooled' = pooled
        /\ UNCHANGED <<made, asked, unread, sent, done>>
    BY <1>4 DEF P!Cancelled
  <2> QED
    BY <1>1, <2>1, ReturnStep DEF P!Returns
<1>5. CASE P!CannotConnect(c)
  <2>1. /\ call[c].at \in {"queued", "failed"} /\ (call[c].at = "queued" => lock = P!Nobody)
        /\ call' = [call EXCEPT ![c] = P!Over(call[c].conn, "error")] /\ lock' = P!Nobody
        /\ UNCHANGED <<pooled, made, alive, asked, unread, reader, sent, done>>
    BY <1>5 DEF P!CannotConnect
  <2>2. c \in Pooled
    BY <2>1, WireFacts DEF SentInv
  <2>3. lock \in {P!Nobody, c}
    BY <2>1, <2>2, WireFacts DEF P!OnePooledCall
  <2>4. lock' = IF lock = c THEN P!Nobody ELSE lock
    BY <2>1, <2>3
  <2> QED
    BY <1>1, <2>1, <2>4, ReturnStep
<1> QED
  BY <1>2, <1>3, <1>4, <1>5

LEMMA WireStart ==
    ASSUME P!McpCallsInit, P!McpCallsAssumption
    PROVE  WireInv
<1>0. /\ MaxConns \in Nat \ {0} /\ 1 \in P!Conns /\ P!Nobody \notin P!AllCalls
      /\ "none" \notin P!AllCalls /\ Pooled \subseteq P!AllCalls
  BY DEF P!McpCallsAssumption, P!Conns, P!AllCalls, P!Nobody
<1>1. /\ \A c \in P!AllCalls : call[c].at = "idle" /\ call[c].conn = 0 /\ call[c].result = "none"
      /\ \A c \in P!AllCalls : sent[c] = {} /\ done[c] = 0
      /\ \A k \in P!Conns : asked[k] = {} /\ unread[k] = <<>> /\ reader[k] = P!Nobody
      /\ lock = P!Nobody /\ pooled = 0 /\ made = 1 /\ alive = {1}
  BY DEF P!McpCallsInit
<1>2. P!McpCallsTypeOK
  <2>1. call \in [P!AllCalls -> CallRecs]
    BY <1>0 DEF P!McpCallsInit, CallRecs
  <2>2. /\ asked \in [P!Conns -> SUBSET P!AllCalls] /\ unread \in [P!Conns -> Seq(P!AllCalls)]
        /\ reader \in [P!Conns -> P!AllCalls \cup {P!Nobody}]
        /\ sent \in [P!AllCalls -> SUBSET P!Conns] /\ done \in [P!AllCalls -> 0..MaxConns]
    BY <1>0 DEF P!McpCallsInit
  <2> QED
    BY <1>0, <1>1, <2>1, <2>2 DEF P!McpCallsTypeOK, CallRecs
<1>3. P!AnswersAreOwn /\ P!OnePooledCall
  BY <1>0, <1>1 DEF P!AnswersAreOwn, P!OnePooledCall
<1>4. SentInv /\ UnreadInv /\ ReaderInv
  BY <1>0, <1>1 DEF SentInv, UnreadInv, ReaderInv
<1>5. DoneInv
  <2>1. ASSUME NEW c \in P!AllCalls PROVE TimesAsked(c) = 0 /\ TimesSent(c) = 0
    BY <1>0, <1>1 DEF TimesAsked, TimesSent, IsAsked
  <2> QED
    BY <1>1, <2>1 DEF DoneInv
<1> QED
  BY <1>2, <1>3, <1>4, <1>5 DEF WireInv

LEMMA WireStep ==
    ASSUME WireInv, P!McpCallsAssumption, P!McpCallsNext
    PROVE  WireInv'
BY SendSteps, CallPoolStep, CallEnds, FailsStep, AnswersStep, DiesStep DEF P!McpCallsNext

\* Calls of MCP tools (McpClient, McpClientPool): however the calls of turns and of the
\* proactive loop overlap, are given up or cancelled, and whenever servers die, a call
\* returns the answer to it, though old answers are in the same pipe, and only when the
\* server did what was asked; a call of a turn is done once at most and one of the pool
\* twice, after the connection of the first time is lost; and one call of the pool at a
\* time holds its lock.
THEOREM CallsStayOwn == ToolsSpec => []CallsAreOwn
<1> DEFINE Inv == part = "wire" => WireInv
<1>1. ToolsInit => Inv
  BY WireStart, ToolsAssumption DEF ToolsInit
<1>2. Inv /\ [ToolsNext]_<<part, allParts>> => Inv'
  <2> SUFFICES ASSUME Inv, part' = "wire", [ToolsNext]_<<part, allParts>>
               PROVE  WireInv'
    OBVIOUS
  <2>1. part = "wire" /\ (P!McpCallsNext \/ UNCHANGED wireVars)
    BY DEF ToolsNext, allParts
  <2> QED
    BY <2>1, WireStep, WireStay, ToolsAssumption
<1>3. Inv => CallsAreOwn
  <2> SUFFICES ASSUME WireInv PROVE P!McpCallsTypeOK /\ P!CallsAreOwn
    BY DEF CallsAreOwn
  <2>0. P!McpCallsAssumption
    BY ToolsAssumption
  <2>1. ASSUME NEW c \in P!AllCalls
        PROVE  /\ done[c] <= IF c \in Direct THEN 1 ELSE 2
               /\ \A k \in sent[c] : k # call[c].conn => k \notin alive
    <3>1. done[c] + TimesAsked(c) <= TimesSent(c) /\ TimesAsked(c) \in {0, 1} /\ done[c] \in Nat
      BY <2>0, WireFacts DEF DoneInv, TimesAsked
    <3>2. TimesSent(c) \in {0, 1, 2}
      BY <2>0, TimesSentBound
    <3>3. c \in Direct => TimesSent(c) \in {0, 1}
      BY <2>0, WireFacts DEF SentInv, TimesSent
    <3>4. \A k \in sent[c] : k # call[c].conn => k \notin alive
      BY <2>0, WireFacts DEF SentInv
    <3> QED
      BY <3>1, <3>2, <3>3, <3>4
  <2>2. P!RepeatedOnlyAfterLoss
    BY <2>1 DEF P!RepeatedOnlyAfterLoss
  <2> QED
    BY <2>0, <2>2, WireFacts DEF P!CallsAreOwn
<1> QED
  BY <1>1, <1>2, <1>3, PTL DEF ToolsSpec

-------------------------------------------------------------------------------
(* Approved changes of files *)

\* The process p is using the approval a: it has consumed it and has not said yet
\* what came of it.
Uses(p, a) == step[p].at \in {"check", "write", "finalize"} /\ step[p].id = a

\* One use at a time, and only of a consumed approval; the file has been changed
\* when the process knows that it has.
UseInv ==
    /\ \A p, q \in Procs : \A a \in Approvals : Uses(p, a) /\ Uses(q, a) => p = q
    /\ \A p \in Procs : \A a \in Approvals : Uses(p, a) =>
          approval[a] = "consumed" /\ writes[a] = IF step[p].ok THEN 1 ELSE 0

\* Only a change that was made goes on with "ok".
OkInv ==
    \A p \in Procs : step[p].at # "idle" /\ step[p].ok =>
        step[p].at \in {"finalize", "mark", "complete"}

\* The end of a command that made its change: the approval is settled.
EndInv ==
    /\ \A p \in Procs : step[p].at = "mark" /\ step[p].ok => approval[step[p].id] = "executed"
    /\ \A p \in Procs : step[p].at = "complete" => approval[step[p].id] = "executed"
    /\ \A a \in Approvals : attempt[a] = "succeeded" => approval[a] = "executed"

\* What each status of an approval says about its file.
StatusInv ==
    \A a \in Approvals :
        /\ writes[a] <= 1
        /\ approval[a] \notin {"consumed", "executed"} => writes[a] = 0
        /\ approval[a] = "executed" => writes[a] = 1

\* A command past its preview works on an effect that has one.
FilePreviewInv ==
    \A p \in Procs :
        /\ step[p].at = "record" => step[p].preview # NoPreview
        /\ step[p].at \in {"load", "consume", "check", "write", "finalize", "mark",
                           "restore", "restored"} => effect[step[p].id].preview # NoPreview

IInv == SideEffectTypeOK /\ UseInv /\ OkInv /\ EndInv /\ StatusInv /\ FilePreviewInv

-------------------------------------------------------------------------------
\* The process p goes on at place, with the same approval in hand; no other moves.
StepTo(p, place) ==
    /\ step[p] \in Busy /\ step[p].id \in Approvals
    /\ step' \in [Procs -> Step]
    /\ \A q \in Procs : q # p => step'[q] = step[q]
    /\ step'[p].at = place
    /\ place # "idle" => step'[p] \in Busy /\ step'[p].id = step[p].id

\* What Goto and Done mean, point by point.
LEMMA GotoShape ==
    ASSUME IInv, NEW p \in Procs, step[p].at # "idle",
           NEW place \in Places, Goto(p, place)
    PROVE  StepTo(p, place) /\ step'[p].ok = step[p].ok /\ step'[p].preview = step[p].preview
<1>1. step[p] \in Busy
  BY DEF IInv, SideEffectTypeOK, Step, Idle
<1>2. place # "idle"
  BY DEF Places
<1> QED
  BY <1>1, <1>2 DEF IInv, SideEffectTypeOK, StepTo, Step, Busy, Goto

LEMMA DoneShape ==
    ASSUME IInv, NEW p \in Procs, step[p].at # "idle", Done(p)
    PROVE  StepTo(p, "idle")
<1>1. step[p] \in Busy
  BY DEF IInv, SideEffectTypeOK, Step, Idle
<1> QED
  BY <1>1 DEF IInv, SideEffectTypeOK, StepTo, Step, Busy, Done, Idle

\* A preview that has just been taken is one.
SnapshotTo(p) ==
    /\ StepTo(p, "record") /\ step[p].at = "snapshot"
    /\ step'[p].ok = step[p].ok /\ step'[p].preview # NoPreview
    /\ UNCHANGED <<now, stores, file, crashes, history, unused>>

LEMMA SnapshotShape ==
    ASSUME IInv, NEW p \in Procs, Snapshot(p)
    PROVE  SnapshotTo(p)
<1> DEFINE a == step[p].id
           c == file[Target[a]]
           v == [before |-> c, after |-> IF a \in EditTool THEN c \cup {a} ELSE {a}]
<1>1. step[p] \in Busy /\ step[p].at = "snapshot"
  BY DEF IInv, SideEffectTypeOK, Snapshot, Doing, Step, Idle
<1>2. c \in Contents /\ a \in Approvals
  BY <1>1, SideEffectAssumption DEF IInv, SideEffectTypeOK, Busy
<1>3. v \in Preview /\ v # NoPreview
  BY <1>2 DEF Preview, Contents, NoPreview
<1>4. step' = [step EXCEPT ![p].at = "record", ![p].preview = v]
  BY DEF Snapshot
<1>5. UNCHANGED <<now, stores, file, crashes, history, unused>>
  BY DEF Snapshot
<1> HIDE DEF v
<1> QED
  BY <1>1, <1>3, <1>4, <1>5 DEF IInv, SideEffectTypeOK, StepTo, Step, Busy, Places, SnapshotTo

RecordPreviewTo(p) ==
    /\ \/ StepTo(p, "load") /\ step'[p].ok = step[p].ok
       \/ StepTo(p, "idle")
    /\ step[p].at = "record"
    /\ shown' \in [Approvals -> Preview]
    /\ step[p].preview \in Preview /\ step[p].preview # NoPreview
    /\ effect' = [effect EXCEPT ![step[p].id] =
                     [status |-> "preview_ready", preview |-> step[p].preview]]
    /\ UNCHANGED <<now, approval, expires, attempt, file, crashes, writes,
                   replaced, raced, unused>>

LEMMA RecordPreviewShape ==
    ASSUME IInv, NEW p \in Procs, RecordPreview(p)
    PROVE  RecordPreviewTo(p)
<1>1. step[p] \in Busy /\ step[p].at = "record"
  BY DEF IInv, SideEffectTypeOK, RecordPreview, Doing, Step, Idle
<1>2. \/ Goto(p, "load") /\ UNCHANGED shown
      \/ Done(p) /\ shown' = [shown EXCEPT ![step[p].id] = step[p].preview]
  BY DEF RecordPreview
<1>3. /\ effect' = [effect EXCEPT ![step[p].id] =
                        [status |-> "preview_ready", preview |-> step[p].preview]]
      /\ UNCHANGED <<now, approval, expires, attempt, file, crashes, writes, replaced,
                     raced, unused>>
  BY DEF RecordPreview
<1>4. step[p].preview \in Preview /\ step[p].preview # NoPreview
  BY <1>1 DEF IInv, Busy, FilePreviewInv
<1>5. shown' \in [Approvals -> Preview]
  BY <1>2, <1>4 DEF IInv, SideEffectTypeOK
<1>6. "load" \in Places
  BY DEF Places
<1> QED
  BY <1>1, <1>2, <1>3, <1>4, <1>5, <1>6, GotoShape, DoneShape DEF RecordPreviewTo

LoadTo(p) ==
    /\ StepTo(p, "consume") /\ step[p].at = "load"
    /\ step'[p].ok = step[p].ok
    /\ UNCHANGED <<now, stores, file, crashes, history, unused>>

LEMMA LoadShape ==
    ASSUME IInv, NEW p \in Procs, Load(p)
    PROVE  LoadTo(p)
<1>1. step[p] \in Busy /\ step[p].at = "load"
  BY DEF IInv, SideEffectTypeOK, Load, Doing, Step, Idle
<1>2. effect[step[p].id].preview \in Preview
  BY <1>1 DEF IInv, SideEffectTypeOK, Busy
<1>3. step' = [step EXCEPT ![p].at = "consume", ![p].preview = effect[step[p].id].preview]
  BY DEF Load
<1>4. UNCHANGED <<now, stores, file, crashes, history, unused>>
  BY DEF Load
<1> QED
  BY <1>1, <1>2, <1>3, <1>4 DEF IInv, SideEffectTypeOK, StepTo, Step, Busy, Places, LoadTo

\* Only an approved request is consumed.
ConsumeTo(p) ==
    /\ step[p].at = "consume"
    /\ \/ /\ approval[step[p].id] = "approved"
          /\ approval' = [approval EXCEPT ![step[p].id] = "consumed"]
          /\ StepTo(p, "check") /\ step'[p].ok = step[p].ok
       \/ /\ approval[step[p].id] = "approved"
          /\ approval' = [approval EXCEPT ![step[p].id] = "expired"]
          /\ StepTo(p, "idle")
       \/ approval' = approval /\ StepTo(p, "idle")
    /\ UNCHANGED <<now, expires, effect, attempt, file, crashes, history, unused>>

LEMMA ConsumeShape ==
    ASSUME IInv, NEW p \in Procs, Consume(p)
    PROVE  ConsumeTo(p)
<1> DEFINE a == step[p].id
<1>1. step[p] \in Busy /\ step[p].at = "consume" /\ a \in Approvals
  BY DEF IInv, SideEffectTypeOK, Consume, Doing, Step, Busy, Idle
<1>2. UNCHANGED <<now, expires, effect, attempt, file, crashes, history, unused>>
  BY DEF Consume
<1>3. "check" \in Places
  BY DEF Places
<1>4. CASE approval[a] = "approved" /\ ~Expired(a)
  <2>1. approval' = [approval EXCEPT ![a] = "consumed"]
    BY <1>4 DEF Consume
  <2>2. approval'[a] = "consumed"
    BY <1>1, <2>1 DEF IInv, SideEffectTypeOK
  <2>3. Goto(p, "check")
    BY <1>4, <2>2 DEF Consume
  <2> QED
    BY <1>1, <1>2, <1>3, <1>4, <2>1, <2>3, GotoShape DEF ConsumeTo
<1>5. CASE approval[a] = "approved" /\ Expired(a)
  <2>1. approval' = [approval EXCEPT ![a] = "expired"]
    BY <1>5 DEF Consume
  <2>2. approval'[a] = "expired"
    BY <1>1, <2>1 DEF IInv, SideEffectTypeOK
  <2>3. Done(p)
    BY <1>5, <2>2 DEF Consume
  <2> QED
    BY <1>1, <1>2, <1>5, <2>1, <2>3, DoneShape DEF ConsumeTo
<1>6. CASE approval[a] # "approved"
  <2>1. approval' = approval
    BY <1>1, <1>6 DEF Consume, IInv, SideEffectTypeOK
  <2>2. Done(p)
    BY <1>6, <2>1 DEF Consume
  <2> QED
    BY <1>1, <1>2, <2>1, <2>2, DoneShape DEF ConsumeTo
<1> QED
  BY <1>4, <1>5, <1>6

WriteTo(p) ==
    /\ StepTo(p, "finalize") /\ step[p].at = "write" /\ step'[p].ok = TRUE
    /\ file' \in [Files -> Contents] /\ raced' \in [Approvals -> BOOLEAN]
    /\ replaced' \in [Approvals -> Contents]
    /\ writes' = [writes EXCEPT ![step[p].id] = @ + 1]
    /\ UNCHANGED <<now, stores, crashes, shown, unused>>

LEMMA WriteShape ==
    ASSUME IInv, NEW p \in Procs, Write(p)
    PROVE  WriteTo(p)
<1>1. step[p] \in Busy /\ step[p].at = "write"
  BY DEF IInv, SideEffectTypeOK, Write, Doing, Step, Idle
<1>2. /\ step' = [step EXCEPT ![p].at = "finalize", ![p].ok = TRUE]
      /\ file' = [file EXCEPT ![Target[step[p].id]] = step[p].preview.after]
      /\ replaced' = [replaced EXCEPT ![step[p].id] = file[Target[step[p].id]]]
      /\ writes' = [writes EXCEPT ![step[p].id] = @ + 1]
      /\ UNCHANGED <<now, stores, crashes, shown, unused>>
  BY DEF Write, Touch
<1>3. file' \in [Files -> Contents] /\ replaced' \in [Approvals -> Contents]
  BY <1>1, <1>2, SideEffectAssumption DEF IInv, SideEffectTypeOK, Busy, Preview
<1>4. raced' \in [Approvals -> BOOLEAN]
  BY DEF Write, Touch
<1> QED
  BY <1>1, <1>2, <1>3, <1>4 DEF IInv, SideEffectTypeOK, StepTo, Step, Busy, Places, WriteTo

MarkTo(p) ==
    /\ \/ StepTo(p, "complete") /\ step'[p].ok = step[p].ok /\ step[p].ok = TRUE
       \/ StepTo(p, "idle")
    /\ step[p].at = "mark"
    /\ \/ effect' = [effect EXCEPT ![step[p].id].status = "executed"]
       \/ effect' = [effect EXCEPT ![step[p].id].status = "execution_failed"]
    /\ UNCHANGED <<now, approval, expires, attempt, file, crashes, history, unused>>

LEMMA MarkShape ==
    ASSUME IInv, NEW p \in Procs, Mark(p)
    PROVE  MarkTo(p)
<1>1. step[p] \in Busy /\ step[p].at = "mark" /\ step[p].ok \in BOOLEAN
  BY DEF IInv, SideEffectTypeOK, Mark, Doing, Step, Busy, Idle
<1>2. UNCHANGED <<now, approval, expires, attempt, file, crashes, history, unused>>
  BY DEF Mark
<1>3. \/ effect' = [effect EXCEPT ![step[p].id].status = "executed"]
      \/ effect' = [effect EXCEPT ![step[p].id].status = "execution_failed"]
  BY DEF Mark
<1>4. "complete" \in Places
  BY DEF Places
<1>5. CASE step[p].ok = TRUE /\ step[p].id \in ForStep
  <2>1. Goto(p, "complete")
    BY <1>5 DEF Mark
  <2> QED
    BY <1>1, <1>2, <1>3, <1>4, <1>5, <2>1, GotoShape DEF MarkTo
<1>6. CASE ~(step[p].ok /\ step[p].id \in ForStep)
  <2>1. Done(p)
    BY <1>6 DEF Mark
  <2> QED
    BY <1>1, <1>2, <1>3, <2>1, DoneShape DEF MarkTo
<1> QED
  BY <1>1, <1>5, <1>6

MarkRolledBackTo(p) ==
    /\ StepTo(p, "idle") /\ step[p].at \in {"restore", "restored"}
    /\ \/ effect' = [effect EXCEPT ![step[p].id].status = "rolled_back"]
       \/ effect' = [effect EXCEPT ![step[p].id].status = "rollback_failed"]
    /\ UNCHANGED <<now, approval, expires, attempt, file, crashes, history, unused>>

\* Nothing but the status of one effect is written.
LEMMA StatusSet ==
    ASSUME effect \in [Approvals -> [status : EffectStatus, preview : Preview]],
           NEW a \in Approvals, NEW st \in EffectStatus,
           effect' = [effect EXCEPT ![a].status = st]
    PROVE  /\ effect' \in [Approvals -> [status : EffectStatus, preview : Preview]]
           /\ effect'[a].status = st
           /\ \A b \in Approvals : effect'[b].preview = effect[b].preview
           /\ \A b \in Approvals \ {a} : effect'[b] = effect[b]
OBVIOUS

LEMMA RolledBack ==
    ASSUME effect \in [Approvals -> [status : EffectStatus, preview : Preview]],
           NEW p \in Procs, MarkRolledBackTo(p)
    PROVE  /\ effect' \in [Approvals -> [status : EffectStatus, preview : Preview]]
           /\ effect'[step[p].id].status \in {"rolled_back", "rollback_failed"}
           /\ \A b \in Approvals : effect'[b].preview = effect[b].preview
           /\ \A b \in Approvals \ {step[p].id} : effect'[b] = effect[b]
<1>1. step[p].id \in Approvals
  BY DEF MarkRolledBackTo, StepTo
<1>2. PICK st \in {"rolled_back", "rollback_failed"} :
          effect' = [effect EXCEPT ![step[p].id].status = st]
  BY DEF MarkRolledBackTo
<1>3. st \in EffectStatus
  BY DEF EffectStatus
<1> QED
  BY <1>1, <1>2, <1>3, StatusSet

LEMMA MarkRolledBackShape ==
    ASSUME IInv, NEW p \in Procs, MarkRolledBack(p)
    PROVE  MarkRolledBackTo(p)
<1>1. step[p].at \in {"restore", "restored"} /\ Done(p)
  BY DEF MarkRolledBack, Doing
<1>2. StepTo(p, "idle")
  BY <1>1, DoneShape
<1> QED
  BY <1>1, <1>2 DEF MarkRolledBack, MarkRolledBackTo

\* An approval stays in one hand until it is settled.
LEMMA FileUseStep == IInv /\ [Next]_vars => UseInv'
<1> SUFFICES ASSUME IInv, [Next]_vars PROVE UseInv'
  OBVIOUS
<1>0. SideEffectTypeOK /\ UseInv /\ OkInv /\ EndInv /\ StatusInv /\ FilePreviewInv
  BY DEF IInv
<1>t. /\ approval \in [Approvals -> ApprovalStatus]
      /\ effect \in [Approvals -> [status : EffectStatus, preview : Preview]]
      /\ writes \in [Approvals -> Nat]
  BY <1>0 DEF SideEffectTypeOK
<1>10. ASSUME NEW p \in Procs, Snapshot(p)
      PROVE  UseInv'
  <2>1. SnapshotTo(p)
    BY <1>10, SnapshotShape
  <2>2. /\ UNCHANGED <<approval, writes>> /\ step'[p].at = "record"
        /\ \A q \in Procs : q # p => step'[q] = step[q]
    BY <2>1 DEF SnapshotTo, StepTo, stores, history
  <2> QED
    BY <1>0, <1>t, <2>2 DEF UseInv, Uses
<1>12. ASSUME NEW p \in Procs, RecordPreview(p)
      PROVE  UseInv'
  <2>1. RecordPreviewTo(p)
    BY <1>12, RecordPreviewShape
  <2>2. /\ UNCHANGED <<approval, writes>> /\ step'[p].at \in {"load", "idle"}
        /\ \A q \in Procs : q # p => step'[q] = step[q]
    BY <2>1 DEF RecordPreviewTo, StepTo, stores, history
  <2> QED
    BY <1>0, <1>t, <2>2 DEF UseInv, Uses
<1>13. ASSUME NEW p \in Procs, Load(p)
      PROVE  UseInv'
  <2>1. LoadTo(p)
    BY <1>13, LoadShape
  <2>2. /\ UNCHANGED <<approval, writes>> /\ step'[p].at = "consume"
        /\ \A q \in Procs : q # p => step'[q] = step[q]
    BY <2>1 DEF LoadTo, StepTo, stores, history
  <2> QED
    BY <1>0, <1>t, <2>2 DEF UseInv, Uses
<1>14. ASSUME NEW p \in Procs, Consume(p)
      PROVE  UseInv'
  <2>1. ConsumeTo(p)
    BY <1>14, ConsumeShape
  <2>2. /\ UNCHANGED writes /\ step[p].id \in Approvals /\ step[p].ok \in BOOLEAN
        /\ \A q \in Procs : q # p => step'[q] = step[q]
    BY <2>1 DEF ConsumeTo, StepTo, history, Busy
  <2>3. CASE approval[step[p].id] = "approved"
    <3>1. ~step[p].ok /\ writes[step[p].id] = 0
      BY <1>0, <2>1, <2>2, <2>3 DEF ConsumeTo, OkInv, StatusInv
    <3>2. \A q \in Procs : ~Uses(q, step[p].id)
      BY <1>0, <2>2, <2>3 DEF UseInv
    <3>3. \A b \in Approvals : b # step[p].id => approval'[b] = approval[b]
      BY <1>t, <2>1, <2>2 DEF ConsumeTo
    <3>4. \/ /\ step'[p].at = "check" /\ step'[p].id = step[p].id
             /\ step'[p].ok = step[p].ok /\ approval'[step[p].id] = "consumed"
          \/ step'[p].at = "idle"
      BY <1>t, <2>1, <2>2 DEF ConsumeTo, StepTo
    <3> QED
      BY <1>0, <2>2, <3>1, <3>2, <3>3, <3>4 DEF UseInv, Uses
  <2>4. CASE approval[step[p].id] # "approved"
    <3>1. UNCHANGED approval /\ step'[p].at = "idle"
      BY <2>1, <2>4 DEF ConsumeTo, StepTo
    <3> QED
      BY <1>0, <2>2, <3>1 DEF UseInv, Uses
  <2> QED
    BY <2>3, <2>4
<1>17. ASSUME NEW p \in Procs, Write(p)
      PROVE  UseInv'
  <2>1. WriteTo(p)
    BY <1>17, WriteShape
  <2> QED
    BY <2>1, <1>0, <1>t DEF WriteTo, StepTo, UseInv, Uses, OkInv, StatusInv, stores,
       history
<1>19. ASSUME NEW p \in Procs, Mark(p)
      PROVE  UseInv'
  <2>1. MarkTo(p)
    BY <1>19, MarkShape
  <2>2. /\ UNCHANGED <<approval, writes>> /\ step'[p].at \in {"complete", "idle"}
        /\ \A q \in Procs : q # p => step'[q] = step[q]
    BY <2>1 DEF MarkTo, StepTo, stores, history
  <2> QED
    BY <1>0, <1>t, <2>2 DEF UseInv, Uses
<1>22. ASSUME NEW p \in Procs, MarkRolledBack(p)
      PROVE  UseInv'
  <2>1. MarkRolledBackTo(p)
    BY <1>22, MarkRolledBackShape
  <2>2. /\ UNCHANGED <<approval, writes>> /\ step'[p].at = "idle"
        /\ \A q \in Procs : q # p => step'[q] = step[q]
    BY <2>1 DEF MarkRolledBackTo, StepTo, stores, history
  <2> QED
    BY <1>0, <1>t, <2>2 DEF UseInv, Uses
<1> USE <1>0, SideEffectAssumption DEF UseInv, Uses, OkInv, StatusInv, vars, stores,
    history, SideEffectTypeOK, Step, Busy, Idle, Places, Doing, Goto, Done
<1>1. ASSUME NEW a \in Approvals, Ask(a)
      PROVE  UseInv'
  BY <1>1 DEF Ask
<1>2. ASSUME NEW a \in Approvals, Abort(a)
      PROVE  UseInv'
  BY <1>2 DEF Abort
<1>3. ASSUME NEW a \in Approvals, NEW verdict \in {"approved", "denied"}, Decide(a, verdict)
      PROVE  UseInv'
  BY <1>3 DEF Decide
<1>4. ASSUME ExpirePending
      PROVE  UseInv'
  BY <1>4 DEF ExpirePending
<1>5. ASSUME NEW o \in Others, NEW f \in Files, Edit(o, f)
      PROVE  UseInv'
  BY <1>5 DEF Edit, Touch
<1>6. ASSUME Clock
      PROVE  UseInv'
  BY <1>6 DEF Clock
<1>7. ASSUME NEW p \in Procs, NEW a \in Approvals, NEW again \in BOOLEAN, Prepare(p, a, again)
      PROVE  UseInv'
  BY <1>7 DEF Prepare, Begin
<1>8. ASSUME NEW p \in Procs, NEW a \in Approvals, Reuse(p, a)
      PROVE  UseInv'
  BY <1>8 DEF Reuse, Begin
<1>9. ASSUME NEW p \in Procs, NEW a \in Approvals, Rollback(p, a)
      PROVE  UseInv'
  BY <1>9 DEF Rollback, Begin
<1>11. ASSUME NEW p \in Procs, PreviewFails(p)
      PROVE  UseInv'
  BY <1>11 DEF PreviewFails
<1>15. ASSUME NEW p \in Procs, Check(p)
      PROVE  UseInv'
  BY <1>15 DEF Check
<1>16. ASSUME NEW p \in Procs, ApplyFails(p)
      PROVE  UseInv'
  BY <1>16 DEF ApplyFails
<1>18. ASSUME NEW p \in Procs, Finalize(p)
      PROVE  UseInv'
  BY <1>18 DEF Finalize
<1>20. ASSUME NEW p \in Procs, Complete(p)
      PROVE  UseInv'
  BY <1>20 DEF Complete
<1>21. ASSUME NEW p \in Procs, Restore(p)
      PROVE  UseInv'
  BY <1>21 DEF Restore, Touch
<1>23. ASSUME NEW p \in Procs, Crash(p)
      PROVE  UseInv'
  BY <1>23 DEF Crash
<1>24. CASE UNCHANGED vars
  BY <1>24
<1> HIDE <1>0, SideEffectAssumption DEF UseInv, Uses, OkInv, StatusInv, vars,
    stores, history, SideEffectTypeOK, Step, Busy, Idle, Places, Doing, Goto, Done
<1> QED
  BY <1>1, <1>2, <1>3, <1>4, <1>5, <1>6, <1>7, <1>8, <1>9, <1>10, <1>11, <1>12,
     <1>13, <1>14, <1>15, <1>16, <1>17, <1>18, <1>19, <1>20, <1>21, <1>22, <1>23,
     <1>24
  DEF Next, Command, Run

\* ok is set by the write and by nothing else.
LEMMA OkStep == IInv /\ [Next]_vars => OkInv'
<1> SUFFICES ASSUME IInv, [Next]_vars PROVE OkInv'
  OBVIOUS
<1>0. SideEffectTypeOK /\ UseInv /\ OkInv /\ EndInv /\ StatusInv /\ FilePreviewInv
  BY DEF IInv
<1>t. /\ approval \in [Approvals -> ApprovalStatus]
      /\ effect \in [Approvals -> [status : EffectStatus, preview : Preview]]
      /\ writes \in [Approvals -> Nat]
  BY <1>0 DEF SideEffectTypeOK
<1>10. ASSUME NEW p \in Procs, Snapshot(p)
      PROVE  OkInv'
  <2>1. SnapshotTo(p)
    BY <1>10, SnapshotShape
  <2> QED
    BY <2>1, <1>0, <1>t DEF SnapshotTo, StepTo, OkInv, stores, history
<1>12. ASSUME NEW p \in Procs, RecordPreview(p)
      PROVE  OkInv'
  <2>1. RecordPreviewTo(p)
    BY <1>12, RecordPreviewShape
  <2> QED
    BY <2>1, <1>0, <1>t DEF RecordPreviewTo, StepTo, OkInv, stores, history
<1>13. ASSUME NEW p \in Procs, Load(p)
      PROVE  OkInv'
  <2>1. LoadTo(p)
    BY <1>13, LoadShape
  <2> QED
    BY <2>1, <1>0, <1>t DEF LoadTo, StepTo, OkInv, stores, history
<1>14. ASSUME NEW p \in Procs, Consume(p)
      PROVE  OkInv'
  <2>1. ConsumeTo(p)
    BY <1>14, ConsumeShape
  <2> QED
    BY <2>1, <1>0, <1>t DEF ConsumeTo, StepTo, OkInv, stores, history
<1>17. ASSUME NEW p \in Procs, Write(p)
      PROVE  OkInv'
  <2>1. WriteTo(p)
    BY <1>17, WriteShape
  <2> QED
    BY <2>1, <1>0, <1>t DEF WriteTo, StepTo, OkInv, stores, history
<1>19. ASSUME NEW p \in Procs, Mark(p)
      PROVE  OkInv'
  <2>1. MarkTo(p)
    BY <1>19, MarkShape
  <2> QED
    BY <2>1, <1>0, <1>t DEF MarkTo, StepTo, OkInv, stores, history
<1>22. ASSUME NEW p \in Procs, MarkRolledBack(p)
      PROVE  OkInv'
  <2>1. MarkRolledBackTo(p)
    BY <1>22, MarkRolledBackShape
  <2> QED
    BY <2>1, <1>0, <1>t DEF MarkRolledBackTo, StepTo, OkInv, stores, history
<1> USE <1>0, SideEffectAssumption DEF OkInv, vars, stores, history,
    SideEffectTypeOK, Step, Busy, Idle, Places, Doing, Goto, Done
<1>1. ASSUME NEW a \in Approvals, Ask(a)
      PROVE  OkInv'
  BY <1>1 DEF Ask
<1>2. ASSUME NEW a \in Approvals, Abort(a)
      PROVE  OkInv'
  BY <1>2 DEF Abort
<1>3. ASSUME NEW a \in Approvals, NEW verdict \in {"approved", "denied"}, Decide(a, verdict)
      PROVE  OkInv'
  BY <1>3 DEF Decide
<1>4. ASSUME ExpirePending
      PROVE  OkInv'
  BY <1>4 DEF ExpirePending
<1>5. ASSUME NEW o \in Others, NEW f \in Files, Edit(o, f)
      PROVE  OkInv'
  BY <1>5 DEF Edit, Touch
<1>6. ASSUME Clock
      PROVE  OkInv'
  BY <1>6 DEF Clock
<1>7. ASSUME NEW p \in Procs, NEW a \in Approvals, NEW again \in BOOLEAN, Prepare(p, a, again)
      PROVE  OkInv'
  BY <1>7 DEF Prepare, Begin
<1>8. ASSUME NEW p \in Procs, NEW a \in Approvals, Reuse(p, a)
      PROVE  OkInv'
  BY <1>8 DEF Reuse, Begin
<1>9. ASSUME NEW p \in Procs, NEW a \in Approvals, Rollback(p, a)
      PROVE  OkInv'
  BY <1>9 DEF Rollback, Begin
<1>11. ASSUME NEW p \in Procs, PreviewFails(p)
      PROVE  OkInv'
  BY <1>11 DEF PreviewFails
<1>15. ASSUME NEW p \in Procs, Check(p)
      PROVE  OkInv'
  BY <1>15 DEF Check
<1>16. ASSUME NEW p \in Procs, ApplyFails(p)
      PROVE  OkInv'
  BY <1>16 DEF ApplyFails
<1>18. ASSUME NEW p \in Procs, Finalize(p)
      PROVE  OkInv'
  BY <1>18 DEF Finalize
<1>20. ASSUME NEW p \in Procs, Complete(p)
      PROVE  OkInv'
  BY <1>20 DEF Complete
<1>21. ASSUME NEW p \in Procs, Restore(p)
      PROVE  OkInv'
  BY <1>21 DEF Restore, Touch
<1>23. ASSUME NEW p \in Procs, Crash(p)
      PROVE  OkInv'
  BY <1>23 DEF Crash
<1>24. CASE UNCHANGED vars
  BY <1>24
<1> HIDE <1>0, SideEffectAssumption DEF OkInv, vars, stores, history,
    SideEffectTypeOK, Step, Busy, Idle, Places, Doing, Goto, Done
<1> QED
  BY <1>1, <1>2, <1>3, <1>4, <1>5, <1>6, <1>7, <1>8, <1>9, <1>10, <1>11, <1>12,
     <1>13, <1>14, <1>15, <1>16, <1>17, <1>18, <1>19, <1>20, <1>21, <1>22, <1>23,
     <1>24
  DEF Next, Command, Run

\* What was executed stays executed.
LEMMA EndStep == IInv /\ [Next]_vars => EndInv'
<1> SUFFICES ASSUME IInv, [Next]_vars PROVE EndInv'
  OBVIOUS
<1>0. SideEffectTypeOK /\ UseInv /\ OkInv /\ EndInv /\ StatusInv /\ FilePreviewInv
  BY DEF IInv
<1>t. /\ approval \in [Approvals -> ApprovalStatus]
      /\ effect \in [Approvals -> [status : EffectStatus, preview : Preview]]
      /\ writes \in [Approvals -> Nat]
  BY <1>0 DEF SideEffectTypeOK
<1>10. ASSUME NEW p \in Procs, Snapshot(p)
      PROVE  EndInv'
  <2>1. SnapshotTo(p)
    BY <1>10, SnapshotShape
  <2> QED
    BY <2>1, <1>0, <1>t DEF SnapshotTo, StepTo, EndInv, OkInv, UseInv, Uses, stores,
       history
<1>12. ASSUME NEW p \in Procs, RecordPreview(p)
      PROVE  EndInv'
  <2>1. RecordPreviewTo(p)
    BY <1>12, RecordPreviewShape
  <2>2. /\ UNCHANGED <<approval, attempt>> /\ step'[p].at \in {"load", "idle"}
        /\ \A q \in Procs : q # p => step'[q] = step[q]
    BY <2>1 DEF RecordPreviewTo, StepTo, stores, history
  <2> QED
    BY <1>0, <1>t, <2>2 DEF EndInv
<1>13. ASSUME NEW p \in Procs, Load(p)
      PROVE  EndInv'
  <2>1. LoadTo(p)
    BY <1>13, LoadShape
  <2> QED
    BY <2>1, <1>0, <1>t DEF LoadTo, StepTo, EndInv, OkInv, UseInv, Uses, stores,
       history
<1>14. ASSUME NEW p \in Procs, Consume(p)
      PROVE  EndInv'
  <2>1. ConsumeTo(p)
    BY <1>14, ConsumeShape
  <2>2. /\ step'[p].at \in {"check", "idle"} /\ UNCHANGED attempt
        /\ \A q \in Procs : q # p => step'[q] = step[q]
    BY <2>1 DEF ConsumeTo, StepTo
  <2>3. \A b \in Approvals : approval[b] = "executed" => approval'[b] = "executed"
    BY <2>1, <1>t DEF ConsumeTo, StepTo
  <2>4. \A q \in Procs : step[q].at \in {"mark", "complete"} => step[q].id \in Approvals
    BY <1>0 DEF SideEffectTypeOK, Step, Busy, Idle
  <2> QED
    BY <1>0, <2>2, <2>3, <2>4 DEF EndInv
<1>17. ASSUME NEW p \in Procs, Write(p)
      PROVE  EndInv'
  <2>1. WriteTo(p)
    BY <1>17, WriteShape
  <2>2. /\ UNCHANGED <<approval, attempt>> /\ step'[p].at = "finalize"
        /\ \A q \in Procs : q # p => step'[q] = step[q]
    BY <2>1 DEF WriteTo, StepTo, stores, history
  <2> QED
    BY <1>0, <1>t, <2>2 DEF EndInv
<1>19. ASSUME NEW p \in Procs, Mark(p)
      PROVE  EndInv'
  <2>1. MarkTo(p)
    BY <1>19, MarkShape
  <2>2. /\ UNCHANGED <<approval, attempt>>
        /\ \/ step'[p].at = "complete" /\ step'[p].id = step[p].id /\ step[p].ok
           \/ step'[p].at = "idle"
        /\ \A q \in Procs : q # p => step'[q] = step[q]
    BY <2>1 DEF MarkTo, StepTo, history
  <2>3. step[p].at = "mark"
    BY <2>1 DEF MarkTo
  <2> QED
    BY <1>0, <2>2, <2>3 DEF EndInv
<1>22. ASSUME NEW p \in Procs, MarkRolledBack(p)
      PROVE  EndInv'
  <2>1. MarkRolledBackTo(p)
    BY <1>22, MarkRolledBackShape
  <2>2. /\ UNCHANGED <<approval, attempt>> /\ step'[p].at = "idle"
        /\ \A q \in Procs : q # p => step'[q] = step[q]
    BY <2>1 DEF MarkRolledBackTo, StepTo, stores, history
  <2> QED
    BY <1>0, <1>t, <2>2 DEF EndInv
<1> USE <1>0, SideEffectAssumption DEF EndInv, OkInv, UseInv, Uses, vars, stores,
    history, SideEffectTypeOK, Step, Busy, Idle, Places, Doing, Goto, Done
<1>1. ASSUME NEW a \in Approvals, Ask(a)
      PROVE  EndInv'
  BY <1>1 DEF Ask
<1>2. ASSUME NEW a \in Approvals, Abort(a)
      PROVE  EndInv'
  BY <1>2 DEF Abort
<1>3. ASSUME NEW a \in Approvals, NEW verdict \in {"approved", "denied"}, Decide(a, verdict)
      PROVE  EndInv'
  BY <1>3 DEF Decide
<1>4. ASSUME ExpirePending
      PROVE  EndInv'
  BY <1>4 DEF ExpirePending
<1>5. ASSUME NEW o \in Others, NEW f \in Files, Edit(o, f)
      PROVE  EndInv'
  BY <1>5 DEF Edit, Touch
<1>6. ASSUME Clock
      PROVE  EndInv'
  BY <1>6 DEF Clock
<1>7. ASSUME NEW p \in Procs, NEW a \in Approvals, NEW again \in BOOLEAN, Prepare(p, a, again)
      PROVE  EndInv'
  BY <1>7 DEF Prepare, Begin
<1>8. ASSUME NEW p \in Procs, NEW a \in Approvals, Reuse(p, a)
      PROVE  EndInv'
  BY <1>8 DEF Reuse, Begin
<1>9. ASSUME NEW p \in Procs, NEW a \in Approvals, Rollback(p, a)
      PROVE  EndInv'
  BY <1>9 DEF Rollback, Begin
<1>11. ASSUME NEW p \in Procs, PreviewFails(p)
      PROVE  EndInv'
  BY <1>11 DEF PreviewFails
<1>15. ASSUME NEW p \in Procs, Check(p)
      PROVE  EndInv'
  BY <1>15 DEF Check
<1>16. ASSUME NEW p \in Procs, ApplyFails(p)
      PROVE  EndInv'
  BY <1>16 DEF ApplyFails
<1>18. ASSUME NEW p \in Procs, Finalize(p)
      PROVE  EndInv'
  BY <1>18 DEF Finalize
<1>20. ASSUME NEW p \in Procs, Complete(p)
      PROVE  EndInv'
  BY <1>20 DEF Complete
<1>21. ASSUME NEW p \in Procs, Restore(p)
      PROVE  EndInv'
  BY <1>21 DEF Restore, Touch
<1>23. ASSUME NEW p \in Procs, Crash(p)
      PROVE  EndInv'
  BY <1>23 DEF Crash
<1>24. CASE UNCHANGED vars
  BY <1>24
<1> HIDE <1>0, SideEffectAssumption DEF EndInv, OkInv, UseInv, Uses, vars, stores,
    history, SideEffectTypeOK, Step, Busy, Idle, Places, Doing, Goto, Done
<1> QED
  BY <1>1, <1>2, <1>3, <1>4, <1>5, <1>6, <1>7, <1>8, <1>9, <1>10, <1>11, <1>12,
     <1>13, <1>14, <1>15, <1>16, <1>17, <1>18, <1>19, <1>20, <1>21, <1>22, <1>23,
     <1>24
  DEF Next, Command, Run

\* The status and the file move together, with "consumed" in between.
LEMMA StatusStep == IInv /\ [Next]_vars => StatusInv'
<1> SUFFICES ASSUME IInv, [Next]_vars PROVE StatusInv'
  OBVIOUS
<1>0. SideEffectTypeOK /\ UseInv /\ OkInv /\ EndInv /\ StatusInv /\ FilePreviewInv
  BY DEF IInv
<1>t. /\ approval \in [Approvals -> ApprovalStatus]
      /\ effect \in [Approvals -> [status : EffectStatus, preview : Preview]]
      /\ writes \in [Approvals -> Nat]
  BY <1>0 DEF SideEffectTypeOK
<1>10. ASSUME NEW p \in Procs, Snapshot(p)
      PROVE  StatusInv'
  <2>1. SnapshotTo(p)
    BY <1>10, SnapshotShape
  <2> QED
    BY <2>1, <1>0, <1>t DEF SnapshotTo, StepTo, StatusInv, UseInv, Uses, stores,
       history
<1>12. ASSUME NEW p \in Procs, RecordPreview(p)
      PROVE  StatusInv'
  <2>1. RecordPreviewTo(p)
    BY <1>12, RecordPreviewShape
  <2> QED
    BY <2>1, <1>0, <1>t DEF RecordPreviewTo, StepTo, StatusInv, UseInv, Uses,
       stores, history
<1>13. ASSUME NEW p \in Procs, Load(p)
      PROVE  StatusInv'
  <2>1. LoadTo(p)
    BY <1>13, LoadShape
  <2> QED
    BY <2>1, <1>0, <1>t DEF LoadTo, StepTo, StatusInv, UseInv, Uses, stores, history
<1>14. ASSUME NEW p \in Procs, Consume(p)
      PROVE  StatusInv'
  <2>1. ConsumeTo(p)
    BY <1>14, ConsumeShape
  <2> QED
    BY <2>1, <1>0, <1>t DEF ConsumeTo, StepTo, StatusInv, UseInv, Uses, stores,
       history
<1>17. ASSUME NEW p \in Procs, Write(p)
      PROVE  StatusInv'
  <2>1. WriteTo(p)
    BY <1>17, WriteShape
  <2>2. /\ step[p].id \in Approvals /\ Uses(p, step[p].id) /\ UNCHANGED approval
        /\ writes' = [writes EXCEPT ![step[p].id] = @ + 1]
    BY <2>1 DEF WriteTo, StepTo, stores, Uses
  <2>3. step[p].ok = FALSE
    BY <1>0, <2>1 DEF WriteTo, StepTo, OkInv, Busy
  <2>4. approval[step[p].id] = "consumed" /\ writes[step[p].id] = 0
    BY <1>0, <2>2, <2>3 DEF UseInv
  <2> QED
    BY <1>0, <1>t, <2>2, <2>4 DEF StatusInv
<1>19. ASSUME NEW p \in Procs, Mark(p)
      PROVE  StatusInv'
  <2>1. MarkTo(p)
    BY <1>19, MarkShape
  <2> QED
    BY <2>1, <1>0, <1>t DEF MarkTo, StepTo, StatusInv, UseInv, Uses, stores, history
<1>22. ASSUME NEW p \in Procs, MarkRolledBack(p)
      PROVE  StatusInv'
  <2>1. MarkRolledBackTo(p)
    BY <1>22, MarkRolledBackShape
  <2> QED
    BY <2>1, <1>0, <1>t DEF MarkRolledBackTo, StepTo, StatusInv, UseInv, Uses,
       stores, history
<1> USE <1>0, SideEffectAssumption DEF StatusInv, UseInv, Uses, OkInv,
    ApprovalStatus, Decided, vars, stores, history, SideEffectTypeOK, Step, Busy,
    Idle, Places, Doing, Goto, Done
<1>1. ASSUME NEW a \in Approvals, Ask(a)
      PROVE  StatusInv'
  BY <1>1 DEF Ask
<1>2. ASSUME NEW a \in Approvals, Abort(a)
      PROVE  StatusInv'
  BY <1>2 DEF Abort
<1>3. ASSUME NEW a \in Approvals, NEW verdict \in {"approved", "denied"}, Decide(a, verdict)
      PROVE  StatusInv'
  BY <1>3 DEF Decide
<1>4. ASSUME ExpirePending
      PROVE  StatusInv'
  BY <1>4 DEF ExpirePending
<1>5. ASSUME NEW o \in Others, NEW f \in Files, Edit(o, f)
      PROVE  StatusInv'
  BY <1>5 DEF Edit, Touch
<1>6. ASSUME Clock
      PROVE  StatusInv'
  BY <1>6 DEF Clock
<1>7. ASSUME NEW p \in Procs, NEW a \in Approvals, NEW again \in BOOLEAN, Prepare(p, a, again)
      PROVE  StatusInv'
  BY <1>7 DEF Prepare, Begin
<1>8. ASSUME NEW p \in Procs, NEW a \in Approvals, Reuse(p, a)
      PROVE  StatusInv'
  BY <1>8 DEF Reuse, Begin
<1>9. ASSUME NEW p \in Procs, NEW a \in Approvals, Rollback(p, a)
      PROVE  StatusInv'
  BY <1>9 DEF Rollback, Begin
<1>11. ASSUME NEW p \in Procs, PreviewFails(p)
      PROVE  StatusInv'
  BY <1>11 DEF PreviewFails
<1>15. ASSUME NEW p \in Procs, Check(p)
      PROVE  StatusInv'
  BY <1>15 DEF Check
<1>16. ASSUME NEW p \in Procs, ApplyFails(p)
      PROVE  StatusInv'
  BY <1>16 DEF ApplyFails
<1>18. ASSUME NEW p \in Procs, Finalize(p)
      PROVE  StatusInv'
  BY <1>18 DEF Finalize
<1>20. ASSUME NEW p \in Procs, Complete(p)
      PROVE  StatusInv'
  BY <1>20 DEF Complete
<1>21. ASSUME NEW p \in Procs, Restore(p)
      PROVE  StatusInv'
  BY <1>21 DEF Restore, Touch
<1>23. ASSUME NEW p \in Procs, Crash(p)
      PROVE  StatusInv'
  BY <1>23 DEF Crash
<1>24. CASE UNCHANGED vars
  BY <1>24
<1> HIDE <1>0, SideEffectAssumption DEF StatusInv, UseInv, Uses, OkInv,
    ApprovalStatus, Decided, vars, stores, history, SideEffectTypeOK, Step, Busy,
    Idle, Places, Doing, Goto, Done
<1> QED
  BY <1>1, <1>2, <1>3, <1>4, <1>5, <1>6, <1>7, <1>8, <1>9, <1>10, <1>11, <1>12,
     <1>13, <1>14, <1>15, <1>16, <1>17, <1>18, <1>19, <1>20, <1>21, <1>22, <1>23,
     <1>24
  DEF Next, Command, Run

\* A preview is never lost.
LEMMA PreviewStep == IInv /\ [Next]_vars => FilePreviewInv'
<1> SUFFICES ASSUME IInv, [Next]_vars PROVE FilePreviewInv'
  OBVIOUS
<1>0. SideEffectTypeOK /\ UseInv /\ OkInv /\ EndInv /\ StatusInv /\ FilePreviewInv
  BY DEF IInv
<1>t. /\ approval \in [Approvals -> ApprovalStatus]
      /\ effect \in [Approvals -> [status : EffectStatus, preview : Preview]]
      /\ writes \in [Approvals -> Nat]
  BY <1>0 DEF SideEffectTypeOK
<1>10. ASSUME NEW p \in Procs, Snapshot(p)
      PROVE  FilePreviewInv'
  <2>1. SnapshotTo(p)
    BY <1>10, SnapshotShape
  <2> QED
    BY <2>1, <1>0, <1>t DEF SnapshotTo, StepTo, FilePreviewInv, stores, history
<1>12. ASSUME NEW p \in Procs, RecordPreview(p)
      PROVE  FilePreviewInv'
  <2>1. RecordPreviewTo(p)
    BY <1>12, RecordPreviewShape
  <2> QED
    BY <2>1, <1>0, <1>t DEF RecordPreviewTo, StepTo, FilePreviewInv, stores, history
<1>13. ASSUME NEW p \in Procs, Load(p)
      PROVE  FilePreviewInv'
  <2>1. LoadTo(p)
    BY <1>13, LoadShape
  <2> QED
    BY <2>1, <1>0, <1>t DEF LoadTo, StepTo, FilePreviewInv, stores, history
<1>14. ASSUME NEW p \in Procs, Consume(p)
      PROVE  FilePreviewInv'
  <2>1. ConsumeTo(p)
    BY <1>14, ConsumeShape
  <2> QED
    BY <2>1, <1>0, <1>t DEF ConsumeTo, StepTo, FilePreviewInv, stores, history
<1>17. ASSUME NEW p \in Procs, Write(p)
      PROVE  FilePreviewInv'
  <2>1. WriteTo(p)
    BY <1>17, WriteShape
  <2> QED
    BY <2>1, <1>0, <1>t DEF WriteTo, StepTo, FilePreviewInv, stores, history
<1>19. ASSUME NEW p \in Procs, Mark(p)
      PROVE  FilePreviewInv'
  <2>1. MarkTo(p)
    BY <1>19, MarkShape
  <2>2. /\ step'[p].at \in {"complete", "idle"}
        /\ \A q \in Procs : q # p => step'[q] = step[q]
        /\ step[p].id \in Approvals
    BY <2>1 DEF MarkTo, StepTo
  <2>3. \A b \in Approvals : effect'[b].preview = effect[b].preview
    BY <2>1, <2>2, <1>t DEF MarkTo
  <2>4. \A q \in Procs : step[q].at # "idle" => step[q].id \in Approvals
    BY <1>0 DEF SideEffectTypeOK, Step, Busy, Idle
  <2> QED
    BY <1>0, <2>2, <2>3, <2>4 DEF FilePreviewInv
<1>22. ASSUME NEW p \in Procs, MarkRolledBack(p)
      PROVE  FilePreviewInv'
  <2>1. MarkRolledBackTo(p)
    BY <1>22, MarkRolledBackShape
  <2>2. /\ step'[p].at \in {"idle"}
        /\ \A q \in Procs : q # p => step'[q] = step[q]
        /\ step[p].id \in Approvals
    BY <2>1 DEF MarkRolledBackTo, StepTo
  <2>3. \A b \in Approvals : effect'[b].preview = effect[b].preview
    BY <1>t, <2>1, RolledBack
  <2>4. \A q \in Procs : step[q].at # "idle" => step[q].id \in Approvals
    BY <1>0 DEF SideEffectTypeOK, Step, Busy, Idle
  <2> QED
    BY <1>0, <2>2, <2>3, <2>4 DEF FilePreviewInv
<1> USE <1>0, SideEffectAssumption DEF FilePreviewInv, NoPreview, Contents, Preview,
    vars, stores, history, SideEffectTypeOK, Step, Busy, Idle, Places, Doing, Goto,
    Done
<1>1. ASSUME NEW a \in Approvals, Ask(a)
      PROVE  FilePreviewInv'
  BY <1>1 DEF Ask
<1>2. ASSUME NEW a \in Approvals, Abort(a)
      PROVE  FilePreviewInv'
  BY <1>2 DEF Abort
<1>3. ASSUME NEW a \in Approvals, NEW verdict \in {"approved", "denied"}, Decide(a, verdict)
      PROVE  FilePreviewInv'
  BY <1>3 DEF Decide
<1>4. ASSUME ExpirePending
      PROVE  FilePreviewInv'
  BY <1>4 DEF ExpirePending
<1>5. ASSUME NEW o \in Others, NEW f \in Files, Edit(o, f)
      PROVE  FilePreviewInv'
  BY <1>5 DEF Edit, Touch
<1>6. ASSUME Clock
      PROVE  FilePreviewInv'
  BY <1>6 DEF Clock
<1>7. ASSUME NEW p \in Procs, NEW a \in Approvals, NEW again \in BOOLEAN, Prepare(p, a, again)
      PROVE  FilePreviewInv'
  BY <1>7 DEF Prepare, Begin
<1>8. ASSUME NEW p \in Procs, NEW a \in Approvals, Reuse(p, a)
      PROVE  FilePreviewInv'
  BY <1>8 DEF Reuse, Begin
<1>9. ASSUME NEW p \in Procs, NEW a \in Approvals, Rollback(p, a)
      PROVE  FilePreviewInv'
  BY <1>9 DEF Rollback, Begin
<1>11. ASSUME NEW p \in Procs, PreviewFails(p)
      PROVE  FilePreviewInv'
  BY <1>11 DEF PreviewFails
<1>15. ASSUME NEW p \in Procs, Check(p)
      PROVE  FilePreviewInv'
  BY <1>15 DEF Check
<1>16. ASSUME NEW p \in Procs, ApplyFails(p)
      PROVE  FilePreviewInv'
  BY <1>16 DEF ApplyFails
<1>18. ASSUME NEW p \in Procs, Finalize(p)
      PROVE  FilePreviewInv'
  BY <1>18 DEF Finalize
<1>20. ASSUME NEW p \in Procs, Complete(p)
      PROVE  FilePreviewInv'
  BY <1>20 DEF Complete
<1>21. ASSUME NEW p \in Procs, Restore(p)
      PROVE  FilePreviewInv'
  BY <1>21 DEF Restore, Touch
<1>23. ASSUME NEW p \in Procs, Crash(p)
      PROVE  FilePreviewInv'
  BY <1>23 DEF Crash
<1>24. CASE UNCHANGED vars
  BY <1>24
<1> HIDE <1>0, SideEffectAssumption DEF FilePreviewInv, NoPreview, Contents, Preview,
    vars, stores, history, SideEffectTypeOK, Step, Busy, Idle, Places, Doing, Goto,
    Done
<1> QED
  BY <1>1, <1>2, <1>3, <1>4, <1>5, <1>6, <1>7, <1>8, <1>9, <1>10, <1>11, <1>12,
     <1>13, <1>14, <1>15, <1>16, <1>17, <1>18, <1>19, <1>20, <1>21, <1>22, <1>23,
     <1>24
  DEF Next, Command, Run

\* The types.
LEMMA TypeStep == IInv /\ [Next]_vars => SideEffectTypeOK'
<1> SUFFICES ASSUME IInv, [Next]_vars PROVE SideEffectTypeOK'
  OBVIOUS
<1>0. SideEffectTypeOK /\ UseInv /\ OkInv /\ EndInv /\ StatusInv /\ FilePreviewInv
  BY DEF IInv
<1>t. /\ approval \in [Approvals -> ApprovalStatus]
      /\ effect \in [Approvals -> [status : EffectStatus, preview : Preview]]
      /\ writes \in [Approvals -> Nat]
  BY <1>0 DEF SideEffectTypeOK
<1>12. ASSUME NEW p \in Procs, RecordPreview(p)
      PROVE  SideEffectTypeOK'
  <2>1. RecordPreviewTo(p)
    BY <1>12, RecordPreviewShape
  <2>2. /\ step' \in [Procs -> Step] /\ shown' \in [Approvals -> Preview]
        /\ UNCHANGED <<now, approval, expires, attempt, file, crashes, writes, replaced,
                       raced, unused>>
    BY <2>1 DEF RecordPreviewTo, StepTo, stores
  <2>3. effect' \in [Approvals -> [status : EffectStatus, preview : Preview]]
    BY <1>t, <2>1 DEF RecordPreviewTo, EffectStatus
  <2>4. \A a \in Approvals : effect'[a].status \in {"none", "payload_recorded"}
                                <=> effect'[a].preview = NoPreview
    BY <1>0, <1>t, <2>1 DEF RecordPreviewTo, SideEffectTypeOK
  <2> QED
    BY <1>0, <2>2, <2>3, <2>4 DEF SideEffectTypeOK
<1>14. ASSUME NEW p \in Procs, Consume(p)
      PROVE  SideEffectTypeOK'
  <2>1. ConsumeTo(p)
    BY <1>14, ConsumeShape
  <2>2. /\ step' \in [Procs -> Step] /\ step[p].id \in Approvals
        /\ UNCHANGED <<now, expires, effect, attempt, file, crashes, writes, replaced,
                       raced, shown, unused>>
    BY <2>1 DEF ConsumeTo, StepTo, stores, history
  <2>3. approval' \in [Approvals -> ApprovalStatus]
    BY <1>t, <2>1, <2>2 DEF ConsumeTo, ApprovalStatus, Decided
  <2> QED
    BY <1>0, <2>2, <2>3 DEF SideEffectTypeOK
<1>15. ASSUME NEW p \in Procs, Check(p)
      PROVE  SideEffectTypeOK'
  <2>1. \E place \in {"write", "finalize"} : Goto(p, place)
    BY <1>15 DEF Check
  <2>2. step[p].at # "idle" /\ {"write", "finalize"} \subseteq Places
    BY <1>15 DEF Check, Doing, Places
  <2>3. step' \in [Procs -> Step]
    BY <2>1, <2>2, GotoShape DEF StepTo
  <2>4. UNCHANGED <<now, approval, expires, effect, attempt, file, crashes, writes,
                       replaced, raced, shown, unused>>
    BY <1>15 DEF Check, stores, history
  <2> QED
    BY <1>0, <2>3, <2>4 DEF SideEffectTypeOK
<1>16. ASSUME NEW p \in Procs, ApplyFails(p)
      PROVE  SideEffectTypeOK'
  <2>1. step[p].at # "idle" /\ Goto(p, "finalize")
    BY <1>16 DEF ApplyFails, Doing
  <2>2. "finalize" \in Places
    BY DEF Places
  <2>3. step' \in [Procs -> Step]
    BY <2>1, <2>2, GotoShape DEF StepTo
  <2>4. /\ UNCHANGED <<now, approval, expires, effect, attempt, file, crashes, writes,
                       replaced, raced, shown, unused>>
    BY <1>0, <1>16, SideEffectAssumption
    DEF ApplyFails, SideEffectTypeOK, stores, history
  <2> QED
    BY <1>0, <2>3, <2>4 DEF SideEffectTypeOK
<1>17. ASSUME NEW p \in Procs, Write(p)
      PROVE  SideEffectTypeOK'
  <2>1. WriteTo(p)
    BY <1>17, WriteShape
  <2>2. /\ step' \in [Procs -> Step] /\ file' \in [Files -> Contents]
        /\ raced' \in [Approvals -> BOOLEAN] /\ replaced' \in [Approvals -> Contents]
        /\ UNCHANGED <<now, approval, expires, effect, attempt, crashes, shown, unused>>
    BY <2>1 DEF WriteTo, StepTo, stores
  <2>3. writes' \in [Approvals -> Nat]
    BY <1>t, <2>1 DEF WriteTo, StepTo
  <2> QED
    BY <1>0, <2>2, <2>3 DEF SideEffectTypeOK
<1>18. ASSUME NEW p \in Procs, Finalize(p)
      PROVE  SideEffectTypeOK'
  <2>1. step[p].at # "idle" /\ Goto(p, "mark")
    BY <1>18 DEF Finalize, Doing
  <2>2. "mark" \in Places
    BY DEF Places
  <2>3. step' \in [Procs -> Step]
    BY <2>1, <2>2, GotoShape DEF StepTo
  <2>4. /\ approval' \in [Approvals -> ApprovalStatus]
        /\ UNCHANGED <<now, expires, effect, attempt, file, crashes, writes, replaced,
                       raced, shown, unused>>
    BY <1>0, <1>18, SideEffectAssumption
    DEF Finalize, SideEffectTypeOK, stores, history, ApprovalStatus, Decided
  <2> QED
    BY <1>0, <2>3, <2>4 DEF SideEffectTypeOK
<1>19. ASSUME NEW p \in Procs, Mark(p)
      PROVE  SideEffectTypeOK'
  <2>1. MarkTo(p)
    BY <1>19, MarkShape
  <2>2. /\ step' \in [Procs -> Step] /\ step[p].id \in Approvals
        /\ UNCHANGED <<now, approval, expires, attempt, file, crashes, writes, replaced,
                       raced, shown, unused>>
    BY <2>1 DEF MarkTo, StepTo, stores, history
  <2>3. effect[step[p].id].preview # NoPreview
    BY <1>0, <2>1 DEF MarkTo, FilePreviewInv
  <2>4. effect' \in [Approvals -> [status : EffectStatus, preview : Preview]]
    BY <1>t, <2>1, <2>2 DEF MarkTo, EffectStatus
  <2>5. /\ \A a \in Approvals : effect'[a].preview = effect[a].preview
        /\ \A a \in Approvals \ {step[p].id} : effect'[a] = effect[a]
        /\ effect'[step[p].id].status \notin {"none", "payload_recorded"}
    BY <1>t, <2>1, <2>2 DEF MarkTo
  <2>6. \A a \in Approvals : effect'[a].status \in {"none", "payload_recorded"}
                                <=> effect'[a].preview = NoPreview
    <3> SUFFICES ASSUME NEW a \in Approvals
                 PROVE  effect'[a].status \in {"none", "payload_recorded"}
                            <=> effect'[a].preview = NoPreview
      OBVIOUS
    <3>1. effect[a].status \in {"none", "payload_recorded"}
              <=> effect[a].preview = NoPreview
      BY <1>0 DEF SideEffectTypeOK
    <3>2. CASE a = step[p].id
      BY <2>3, <2>5, <3>2
    <3>3. CASE a # step[p].id
      BY <2>5, <3>1, <3>3
    <3> QED
      BY <3>2, <3>3
  <2> QED
    BY <1>0, <2>2, <2>4, <2>6 DEF SideEffectTypeOK
<1>21. ASSUME NEW p \in Procs, Restore(p)
      PROVE  SideEffectTypeOK'
  <2>1. step[p] \in Busy /\ Goto(p, "restored")
    BY <1>0, <1>21 DEF Restore, Doing, SideEffectTypeOK, Step, Idle
  <2>2. step[p].at # "idle" /\ "restored" \in Places
    BY <1>21 DEF Restore, Doing, Places
  <2>3. step' \in [Procs -> Step]
    BY <2>1, <2>2, GotoShape DEF StepTo
  <2>4. /\ file' = [file EXCEPT ![Target[step[p].id]] = step[p].preview.before]
        /\ raced' \in [Approvals -> BOOLEAN]
        /\ UNCHANGED <<now, approval, expires, effect, attempt, crashes, writes, replaced,
                       shown, unused>>
    BY <1>21 DEF Restore, Touch, stores
  <2>5. step[p].preview.before \in Contents
    BY <2>1 DEF Busy, Preview
  <2> QED
    BY <1>0, <2>3, <2>4, <2>5 DEF SideEffectTypeOK
<1>22. ASSUME NEW p \in Procs, MarkRolledBack(p)
      PROVE  SideEffectTypeOK'
  <2>1. MarkRolledBackTo(p)
    BY <1>22, MarkRolledBackShape
  <2>2. /\ step' \in [Procs -> Step] /\ step[p].id \in Approvals
        /\ UNCHANGED <<now, approval, expires, attempt, file, crashes, writes, replaced,
                       raced, shown, unused>>
    BY <2>1 DEF MarkRolledBackTo, StepTo, stores, history
  <2>3. effect[step[p].id].preview # NoPreview
    BY <1>0, <2>1 DEF MarkRolledBackTo, FilePreviewInv
  <2>4. effect' \in [Approvals -> [status : EffectStatus, preview : Preview]]
    BY <1>t, <2>1, RolledBack
  <2>5. /\ \A a \in Approvals : effect'[a].preview = effect[a].preview
        /\ \A a \in Approvals \ {step[p].id} : effect'[a] = effect[a]
        /\ effect'[step[p].id].status \notin {"none", "payload_recorded"}
    BY <1>t, <2>1, RolledBack
  <2>6. \A a \in Approvals : effect'[a].status \in {"none", "payload_recorded"}
                                <=> effect'[a].preview = NoPreview
    <3> SUFFICES ASSUME NEW a \in Approvals
                 PROVE  effect'[a].status \in {"none", "payload_recorded"}
                            <=> effect'[a].preview = NoPreview
      OBVIOUS
    <3>1. effect[a].status \in {"none", "payload_recorded"}
              <=> effect[a].preview = NoPreview
      BY <1>0 DEF SideEffectTypeOK
    <3>2. CASE a = step[p].id
      BY <2>3, <2>5, <3>2
    <3>3. CASE a # step[p].id
      BY <2>5, <3>1, <3>3
    <3> QED
      BY <3>2, <3>3
  <2> QED
    BY <1>0, <2>2, <2>4, <2>6 DEF SideEffectTypeOK
<1>7. ASSUME NEW p \in Procs, NEW a \in Approvals, NEW again \in BOOLEAN, Prepare(p, a, again)
      PROVE  SideEffectTypeOK'
  <2>1. /\ step' = [step EXCEPT ![p] = [at |-> "snapshot", id |-> a, run |-> again, ok |-> FALSE,
                                        preview |-> NoPreview]]
        /\ effect' = [effect EXCEPT ![a].status = IF @ = "none" THEN "payload_recorded" ELSE @]
        /\ UNCHANGED <<now, approval, expires, attempt, file, crashes, writes, replaced, raced,
                       shown, unused>>
    BY <1>7 DEF Prepare, Begin, history
  <2>2. step' \in [Procs -> Step]
    BY <1>0, <2>1 DEF SideEffectTypeOK, Step, Busy, Places, Preview, NoPreview, Contents
  <2>3. effect' \in [Approvals -> [status : EffectStatus, preview : Preview]]
    BY <1>t, <2>1 DEF EffectStatus
  <2>4. \A b \in Approvals : effect'[b].status \in {"none", "payload_recorded"}
                                <=> effect'[b].preview = NoPreview
    BY <1>0, <1>t, <2>1 DEF SideEffectTypeOK
  <2> QED
    BY <1>0, <2>1, <2>2, <2>3, <2>4 DEF SideEffectTypeOK
<1> USE <1>0, SideEffectAssumption DEF FilePreviewInv, NoPreview, Contents, Preview,
    ApprovalStatus, Decided, EffectStatus, vars, stores, history, SideEffectTypeOK,
    Step, Busy, Idle, Places, Doing, Goto, Done
<1>1. ASSUME NEW a \in Approvals, Ask(a)
      PROVE  SideEffectTypeOK'
  BY <1>1 DEF Ask
<1>2. ASSUME NEW a \in Approvals, Abort(a)
      PROVE  SideEffectTypeOK'
  BY <1>2 DEF Abort
<1>3. ASSUME NEW a \in Approvals, NEW verdict \in {"approved", "denied"}, Decide(a, verdict)
      PROVE  SideEffectTypeOK'
  BY <1>3 DEF Decide
<1>4. ASSUME ExpirePending
      PROVE  SideEffectTypeOK'
  BY <1>4 DEF ExpirePending
<1>5. ASSUME NEW o \in Others, NEW f \in Files, Edit(o, f)
      PROVE  SideEffectTypeOK'
  BY <1>5 DEF Edit, Touch
<1>6. ASSUME Clock
      PROVE  SideEffectTypeOK'
  BY <1>6 DEF Clock
<1>8. ASSUME NEW p \in Procs, NEW a \in Approvals, Reuse(p, a)
      PROVE  SideEffectTypeOK'
  BY <1>8 DEF Reuse, Begin
<1>9. ASSUME NEW p \in Procs, NEW a \in Approvals, Rollback(p, a)
      PROVE  SideEffectTypeOK'
  BY <1>9 DEF Rollback, Begin
<1>10. ASSUME NEW p \in Procs, Snapshot(p)
      PROVE  SideEffectTypeOK'
  <2>1. SnapshotTo(p)
    BY <1>10, SnapshotShape
  <2> QED
    BY <2>1 DEF SnapshotTo, StepTo
<1>11. ASSUME NEW p \in Procs, PreviewFails(p)
      PROVE  SideEffectTypeOK'
  BY <1>11 DEF PreviewFails
<1>13. ASSUME NEW p \in Procs, Load(p)
      PROVE  SideEffectTypeOK'
  <2>1. LoadTo(p)
    BY <1>13, LoadShape
  <2> QED
    BY <2>1 DEF LoadTo, StepTo
<1>20. ASSUME NEW p \in Procs, Complete(p)
      PROVE  SideEffectTypeOK'
  BY <1>20 DEF Complete
<1>23. ASSUME NEW p \in Procs, Crash(p)
      PROVE  SideEffectTypeOK'
  BY <1>23 DEF Crash
<1>24. CASE UNCHANGED vars
  BY <1>24
<1> HIDE <1>0, SideEffectAssumption DEF FilePreviewInv, NoPreview, Contents, Preview,
    ApprovalStatus, Decided, EffectStatus, vars, stores, history, SideEffectTypeOK,
    Step, Busy, Idle, Places, Doing, Goto, Done
<1> QED
  BY <1>1, <1>2, <1>3, <1>4, <1>5, <1>6, <1>7, <1>8, <1>9, <1>10, <1>11, <1>12,
     <1>13, <1>14, <1>15, <1>16, <1>17, <1>18, <1>19, <1>20, <1>21, <1>22, <1>23,
     <1>24
  DEF Next, Command, Run

-------------------------------------------------------------------------------
LEMMA InitLemma == Init => IInv
<1> SUFFICES ASSUME Init PROVE IInv
  OBVIOUS
<1>1. {} \in Contents /\ NoPreview \in Preview
  BY DEF Contents, Preview, NoPreview
<1>2. /\ "none" \in ApprovalStatus /\ "none" \in EffectStatus
      /\ Idle \in Step
  BY DEF ApprovalStatus, EffectStatus, Step
<1>3. /\ now \in 0..MaxTime /\ crashes \in 0..MaxCrashes
      /\ unused \subseteq Others
  BY SideEffectAssumption DEF Init
<1>file. file \in [Files -> Contents]
  <2>1. SUBSET Others \subseteq Contents
    BY DEF Contents
  <2> QED
    BY <2>1 DEF Init
<1>4. SideEffectTypeOK
  BY <1>1, <1>2, <1>3, <1>file DEF Init, SideEffectTypeOK
<1>5. UseInv /\ OkInv /\ EndInv /\ StatusInv /\ FilePreviewInv
  BY DEF Init, UseInv, Uses, OkInv, EndInv, StatusInv, FilePreviewInv, Idle
<1> QED
  BY <1>4, <1>5 DEF IInv

\* The inductive invariant: at any moment at most one command has an approval in
\* hand, and the record says "consumed" for as long as it does.
THEOREM SideEffectInvariant == Spec => []IInv
<1>1. IInv /\ [Next]_vars => IInv'
  BY FileUseStep, OkStep, EndStep, StatusStep, PreviewStep, TypeStep DEF IInv
<1> QED
  BY InitLemma, <1>1, PTL DEF Spec

\* An effect has a preview as soon as its status says so, and every variable stays
\* in its type.
THEOREM SideEffectTypeCorrect == Spec => []SideEffectTypeOK
<1>1. IInv => SideEffectTypeOK
  BY DEF IInv
<1> QED
  BY SideEffectInvariant, <1>1, PTL

\* An approval changes its file at most once, and its record never claims a change
\* that was not made nor denies one that was, however many processes run commands
\* on it and wherever they die.
THEOREM ApprovalTruth == Spec => []ApprovalIsTruthful
<1>1. IInv => ApprovalIsTruthful
  <2> SUFFICES ASSUME IInv PROVE ApprovalIsTruthful
    OBVIOUS
  <2>1. StatusInv
    BY DEF IInv
  <2>2. ASSUME NEW a \in Approvals, writes[a] = 1
        PROVE  approval[a] \in {"consumed", "executed"}
    <3>1. approval[a] \notin {"consumed", "executed"} => writes[a] = 0
      BY <2>1, Zenon DEF StatusInv
    <3> QED
      BY <2>2, <3>1
  <2> QED
    BY <2>1, <2>2, Zenon DEF StatusInv, ApprovalIsTruthful
<1> QED
  BY SideEffectInvariant, <1>1, PTL

\* A task step that was completed through its approval has had its change made.
THEOREM CompletionIsReal == Spec => []CompletedIsExecuted
<1>1. IInv => CompletedIsExecuted
  BY DEF IInv, EndInv, StatusInv, CompletedIsExecuted
<1> QED
  BY SideEffectInvariant, <1>1, PTL

-------------------------------------------------------------------------------
(* One process that serves commands: what is shown, written and taken back *)

\* What the change of an approval replaced is what its preview says it replaces, unless
\* another program was in between.
Foreseen(a) == replaced[a] = effect[a].preview.before \/ raced[a]

Has(p, a) == step[p].at # "idle" /\ step[p].id = a

\* While a command is under way, its preview is the one in the store, and an approval that
\* is prepared has not been used.
HandOK(p, a) ==
    /\ step[p].at \in {"snapshot", "record"} =>
          approval[a] = "approved" /\ (step[p].run => effect[a].preview = NoPreview)
    /\ step[p].at \in {"consume", "check", "write", "finalize", "mark", "restore"} =>
          step[p].preview = effect[a].preview
    /\ step[p].at = "write" => file[Target[a]] = step[p].preview.before \/ raced[a]
    /\ step[p].at \in {"finalize", "mark"} /\ step[p].ok => Foreseen(a)
    /\ step[p].at = "mark" =>
          approval[a] = IF step[p].ok THEN "executed" ELSE "execution_failed"
    /\ step[p].at = "restore" => Foreseen(a)

ShownInv == \A a \in Approvals : shown[a] \in {NoPreview, effect[a].preview}

ExecutedInv ==
    \A a \in Approvals : effect[a].status = "executed" =>
        approval[a] = "executed" /\ Foreseen(a)

\* The inductive invariant of the process p, when there is no other.
SoloInv(p) ==
    /\ ShownInv /\ ExecutedInv
    /\ \A a \in Approvals : Has(p, a) => HandOK(p, a)

LEMMA SoloFacts ==
    ASSUME IInv, NEW p \in Procs, step[p].at # "idle"
    PROVE  /\ step[p] \in Busy /\ step[p].id \in Approvals /\ step[p].ok \in BOOLEAN
           /\ step[p].preview \in Preview
BY DEF IInv, SideEffectTypeOK, Step, Idle, Busy

\* What Goto, Done and Begin mean for the one process.
LEMMA Goes ==
    ASSUME IInv, NEW p \in Procs, NEW place \in Places, step[p].at # "idle", Goto(p, place)
    PROVE  /\ step'[p].at = place /\ step'[p].id = step[p].id /\ step'[p].run = step[p].run
           /\ step'[p].ok = step[p].ok /\ step'[p].preview = step[p].preview
BY SoloFacts DEF IInv, SideEffectTypeOK, Goto, Busy

LEMMA Ends ==
    ASSUME IInv, NEW p \in Procs, Done(p)
    PROVE  step'[p].at = "idle"
BY DEF IInv, SideEffectTypeOK, Done, Idle

LEMMA Begins ==
    ASSUME IInv, NEW p \in Procs, NEW a, NEW place, NEW again, NEW preview,
           Begin(p, a, place, again, preview)
    PROVE  /\ step[p].at = "idle" /\ step'[p].at = place /\ step'[p].id = a
           /\ step'[p].run = again /\ step'[p].ok = FALSE /\ step'[p].preview = preview
BY DEF IInv, SideEffectTypeOK, Begin, Doing

\* A race that was lost is never forgotten.
LEMMA TouchRaces ==
    ASSUME IInv, NEW f, NEW contents, NEW by, Touch(f, contents, by)
    PROVE  \A a \in Approvals : raced[a] => raced'[a]
BY DEF Touch

\* The command's own steps.
LEMMA HandStep ==
    ASSUME NEW p, NEW a \in Approvals, ShownInv', ExecutedInv',
           step'[p].at = "idle" \/ (step'[p].id = a /\ HandOK(p, a)')
    PROVE  SoloInv(p)'
BY DEF SoloInv, Has

\* The others' steps.
LEMMA OthersStep ==
    ASSUME NEW p \in Procs, SoloInv(p), IInv,
           UNCHANGED <<step, effect, shown, replaced>>,
           \A a \in Approvals : raced[a] => raced'[a],
           \A a \in Approvals :
              approval[a] \in {"approved", "executed", "execution_failed"} =>
                 approval'[a] = approval[a],
           \A a \in Approvals : Has(p, a) /\ step[p].at = "write" =>
              file'[Target[a]] = file[Target[a]] \/ raced'[a]
    PROVE  SoloInv(p)'
<1>1. ShownInv'
  BY DEF SoloInv, ShownInv
<1>2. ASSUME NEW a \in Approvals, Foreseen(a) PROVE Foreseen(a)'
  BY <1>2 DEF Foreseen
<1>3. ExecutedInv'
  BY <1>2 DEF SoloInv, ExecutedInv
<1>4. ASSUME NEW a \in Approvals, Has(p, a)' PROVE HandOK(p, a)'
  <2>1. Has(p, a) /\ HandOK(p, a)
    BY <1>4 DEF Has, SoloInv
  <2>2. step'[p] = step[p] /\ effect' = effect
    OBVIOUS
  <2>3. step[p].at = "write" => file'[Target[a]] = step[p].preview.before \/ raced'[a]
    BY <2>1 DEF HandOK
  <2>4. CASE step[p].at \in {"finalize", "mark", "restore"}
    BY <1>2, <2>1, <2>2, <2>4 DEF HandOK
  <2>5. CASE step[p].at \notin {"finalize", "mark", "restore"}
    BY <2>1, <2>2, <2>3, <2>5 DEF HandOK
  <2> QED
    BY <2>4, <2>5
<1> QED
  BY <1>1, <1>3, <1>4 DEF SoloInv

LEMMA SoloQuiet ==
    ASSUME NEW p, Procs = {p}, SoloInv(p), IInv,
           \/ \E a \in Approvals : Ask(a) \/ Abort(a)
           \/ \E a \in Approvals, verdict \in {"approved", "denied"} : Decide(a, verdict)
           \/ ExpirePending \/ Clock
           \/ \E o \in Others, f \in Files : Edit(o, f)
           \/ UNCHANGED vars
    PROVE  SoloInv(p)'
<1>0. p \in Procs /\ approval \in [Approvals -> ApprovalStatus]
  BY DEF IInv, SideEffectTypeOK
<1>1. CASE \/ \E a \in Approvals : Ask(a) \/ Abort(a)
           \/ \E a \in Approvals, verdict \in {"approved", "denied"} : Decide(a, verdict)
           \/ ExpirePending \/ Clock
           \/ UNCHANGED vars
  <2>1. UNCHANGED <<step, effect, shown, replaced, raced, file>>
    BY <1>1 DEF Ask, Abort, Decide, ExpirePending, Clock, stores, history, vars
  <2>2. ASSUME NEW a \in Approvals, approval[a] \in {"approved", "executed", "execution_failed"}
        PROVE  approval'[a] = approval[a]
    <3>1. CASE \E b \in Approvals : Ask(b)
      BY <2>2, <3>1 DEF Ask
    <3>2. CASE \E b \in Approvals, verdict \in {"approved", "denied"} : Decide(b, verdict)
      BY <1>0, <2>2, <3>2 DEF Decide
    <3>3. CASE ExpirePending
      BY <2>2, <3>3 DEF ExpirePending
    <3>4. CASE (\E b \in Approvals : Abort(b)) \/ Clock \/ UNCHANGED vars
      BY <3>4 DEF Abort, Clock, stores, vars
    <3> QED
      BY <1>1, <3>1, <3>2, <3>3, <3>4
  <2> QED
    BY <1>0, <2>1, <2>2, OthersStep
<1>2. ASSUME NEW o \in Others, NEW f \in Files, Edit(o, f) PROVE SoloInv(p)'
  <2>1. UNCHANGED <<approval, step, effect, shown, replaced>>
    BY <1>2 DEF Edit, stores
  <2>2. PICK c : Touch(f, c, o)
    BY <1>2 DEF Edit
  <2>3. ASSUME NEW a \in Approvals, Has(p, a), step[p].at = "write"
        PROVE  file'[Target[a]] = file[Target[a]] \/ raced'[a]
    <3>1. CASE Target[a] = f
      <4>1. p \in Procs \ {o}
        BY <1>0, SideEffectAssumption
      <4> QED
        BY <2>2, <2>3, <3>1, <4>1 DEF Touch, Doing, Has
    <3>2. CASE Target[a] # f
      <4>1. file \in [Files -> Contents] /\ Target[a] \in Files
        BY SideEffectAssumption DEF IInv, SideEffectTypeOK
      <4> QED
        BY <2>2, <3>2, <4>1 DEF Touch
    <3> QED
      BY <3>1, <3>2
  <2> QED
    BY <1>0, <2>1, <2>2, <2>3, TouchRaces, OthersStep
<1> QED
  BY <1>1, <1>2

\* What is shown and what is undoable stays, when the records and the file do.
LEMMA RecordsKept ==
    ASSUME NEW p, SoloInv(p), UNCHANGED <<effect, shown, replaced, raced>>,
           \A a \in Approvals : approval[a] = "executed" => approval'[a] = "executed"
    PROVE  ShownInv' /\ ExecutedInv'
BY DEF SoloInv, ShownInv, ExecutedInv, Foreseen

LEMMA FilePrepareSteps ==
    ASSUME NEW p, Procs = {p}, SoloInv(p), IInv, NEW a \in Approvals,
           Prepare(p, a, FALSE) \/ Run(p, a) \/ Rollback(p, a)
    PROVE  SoloInv(p)'
<1>0. /\ p \in Procs /\ effect \in [Approvals -> [status : EffectStatus, preview : Preview]]
  BY DEF IInv, SideEffectTypeOK
<1>1. ASSUME NEW again \in BOOLEAN, Prepare(p, a, again), again => effect[a].preview = NoPreview
      PROVE  SoloInv(p)'
  <2>1. /\ step'[p].at = "snapshot" /\ step'[p].id = a /\ step'[p].run = again
        /\ approval[a] = "approved" /\ UNCHANGED <<approval, shown, replaced, raced>>
        /\ effect' = [effect EXCEPT ![a].status = IF @ = "none" THEN "payload_recorded" ELSE @]
    <3>1. Begin(p, a, "snapshot", again, NoPreview)
      BY <1>1 DEF Prepare
    <3>2. /\ step'[p].at = "snapshot" /\ step'[p].id = a /\ step'[p].run = again
          /\ step'[p].preview = NoPreview
      BY <1>0, <3>1, Begins
    <3> QED
      BY <1>1, <3>2 DEF Prepare, history
  <2>2. \A b \in Approvals : /\ effect'[b].preview = effect[b].preview
                             /\ effect'[b].status = "executed" => effect[b].status = "executed"
    BY <1>0, <2>1
  <2>3. ShownInv' /\ ExecutedInv'
    BY <2>1, <2>2 DEF SoloInv, ShownInv, ExecutedInv, Foreseen
  <2>4. HandOK(p, a)'
    BY <1>1, <2>1, <2>2 DEF HandOK
  <2> QED
    BY <2>1, <2>3, <2>4, HandStep
<1>2. CASE Reuse(p, a)
  <2>1. /\ step'[p].at = "consume" /\ step'[p].id = a /\ step'[p].preview = effect[a].preview
        /\ UNCHANGED <<approval, effect, shown, replaced, raced>>
    <3>1. PICK v : v = effect[a].preview /\ Begin(p, a, "consume", TRUE, v)
      BY <1>2 DEF Reuse
    <3>2. step'[p].at = "consume" /\ step'[p].id = a /\ step'[p].preview = v
      BY <1>0, <3>1 DEF Begin, IInv, SideEffectTypeOK
    <3> QED
      BY <1>2, <3>1, <3>2 DEF Reuse, stores, history
  <2>2. HandOK(p, a)'
    BY <2>1 DEF HandOK
  <2> QED
    BY <2>1, <2>2, RecordsKept, HandStep
<1>3. CASE Rollback(p, a)
  <2>1. /\ step'[p].at = "restore" /\ step'[p].id = a /\ step'[p].preview = effect[a].preview
        /\ UNCHANGED <<approval, effect, shown, replaced, raced>>
        /\ effect[a].status = "executed"
    <3>1. PICK v : v = effect[a].preview /\ Begin(p, a, "restore", FALSE, v)
      BY <1>3 DEF Rollback
    <3>2. step'[p].at = "restore" /\ step'[p].id = a /\ step'[p].preview = v
      BY <1>0, <3>1 DEF Begin, IInv, SideEffectTypeOK
    <3> QED
      BY <1>3, <3>1, <3>2 DEF Rollback, stores, history
  <2>2. Foreseen(a)'
    BY <2>1 DEF SoloInv, ExecutedInv, Foreseen
  <2>3. HandOK(p, a)'
    BY <2>1, <2>2 DEF HandOK
  <2> QED
    BY <2>1, <2>3, RecordsKept, HandStep
<1> QED
  BY <1>1, <1>2, <1>3 DEF Run

LEMMA PreviewSteps ==
    ASSUME NEW p, Procs = {p}, SoloInv(p), IInv, Snapshot(p) \/ RecordPreview(p) \/ Load(p)
    PROVE  SoloInv(p)'
<1>0. p \in Procs /\ step \in [Procs -> Step] /\ shown \in [Approvals -> Preview]
      /\ effect \in [Approvals -> [status : EffectStatus, preview : Preview]]
  BY DEF IInv, SideEffectTypeOK
<1>1. step[p].at \in {"snapshot", "record", "load"}
  BY DEF Snapshot, RecordPreview, Load, Doing
<1>2. PICK a \in Approvals : step[p].id = a
  BY <1>0, <1>1, SoloFacts
<1>3. step[p] \in Busy /\ HandOK(p, a)
  BY <1>0, <1>1, <1>2, SoloFacts DEF SoloInv, Has
<1>4. CASE Snapshot(p)
  <2>1. PICK v : step' = [step EXCEPT ![p].at = "record", ![p].preview = v]
    BY <1>4 DEF Snapshot
  <2>2. step'[p].at = "record" /\ step'[p].id = a /\ step'[p].run = step[p].run
    BY <1>0, <1>2, <1>3, <2>1 DEF Busy
  <2>3. UNCHANGED <<approval, effect, shown, replaced, raced>> /\ step[p].at = "snapshot"
    BY <1>4 DEF Snapshot, Doing, stores, history
  <2>4. HandOK(p, a)'
    BY <1>3, <2>2, <2>3 DEF HandOK
  <2> QED
    BY <2>2, <2>3, <2>4, RecordsKept, HandStep
<1>5. CASE RecordPreview(p)
  <2>1. /\ step[p].at = "record" /\ UNCHANGED <<approval, replaced, raced>>
        /\ effect' = [effect EXCEPT ![a] =
                        [status |-> "preview_ready", preview |-> step[p].preview]]
        /\ \/ step[p].run /\ Goto(p, "load") /\ UNCHANGED shown
           \/ Done(p) /\ shown' = [shown EXCEPT ![a] = step[p].preview]
    BY <1>2, <1>5 DEF RecordPreview, Doing
  <2>2. /\ effect'[a].status = "preview_ready" /\ effect'[a].preview = step[p].preview
        /\ \A b \in Approvals : b # a => effect'[b] = effect[b]
    BY <1>0, <2>1
  <2>3. ExecutedInv'
    BY <2>1, <2>2 DEF SoloInv, ExecutedInv, Foreseen
  <2>4. CASE step[p].run /\ Goto(p, "load") /\ UNCHANGED shown
    <3>1. effect[a].preview = NoPreview
      BY <1>3, <2>1, <2>4 DEF HandOK
    <3>2. ShownInv'
      BY <2>2, <2>4, <3>1 DEF SoloInv, ShownInv
    <3>3. step'[p].at = "load" /\ step'[p].id = a
      BY <1>0, <1>2, <2>1, <2>4, Goes DEF Places
    <3>4. HandOK(p, a)'
      BY <3>3 DEF HandOK
    <3> QED
      BY <2>3, <3>2, <3>3, <3>4, HandStep
  <2>5. CASE Done(p) /\ shown' = [shown EXCEPT ![a] = step[p].preview]
    <3>1. ShownInv'
      BY <1>0, <2>2, <2>5 DEF SoloInv, ShownInv
    <3> QED
      BY <1>0, <2>3, <2>5, <3>1, Ends, HandStep
  <2> QED
    BY <2>1, <2>4, <2>5
<1>6. CASE Load(p)
  <2>1. /\ step' = [step EXCEPT ![p].at = "consume", ![p].preview = effect[a].preview]
        /\ UNCHANGED <<approval, effect, shown, replaced, raced>>
    BY <1>2, <1>6 DEF Load, stores, history
  <2>2. step'[p].at = "consume" /\ step'[p].id = a /\ step'[p].preview = effect[a].preview
    BY <1>0, <1>2, <1>3, <2>1 DEF Busy
  <2>3. HandOK(p, a)'
    BY <2>1, <2>2 DEF HandOK
  <2> QED
    BY <2>1, <2>2, <2>3, RecordsKept, HandStep
<1> QED
  BY <1>4, <1>5, <1>6

LEMMA ApplySteps ==
    ASSUME NEW p, Procs = {p}, SoloInv(p), IInv,
           Consume(p) \/ Check(p) \/ ApplyFails(p) \/ Write(p)
    PROVE  SoloInv(p)'
<1>0. p \in Procs /\ step \in [Procs -> Step] /\ approval \in [Approvals -> ApprovalStatus]
  BY DEF IInv, SideEffectTypeOK
<1>1. step[p].at \in {"consume", "check", "write"}
  BY DEF Consume, Check, ApplyFails, Write, Doing
<1>2. PICK a \in Approvals : step[p].id = a
  BY <1>0, <1>1, SoloFacts
<1>3. step[p] \in Busy /\ HandOK(p, a) /\ step[p].ok = FALSE
  BY <1>0, <1>1, <1>2, SoloFacts DEF SoloInv, Has, IInv, OkInv
<1>4. CASE Consume(p)
  <2>1. ConsumeTo(p)
    BY <1>0, <1>4, ConsumeShape
  <2>2. /\ UNCHANGED <<effect, shown, replaced, raced>>
        /\ \A b \in Approvals : approval[b] = "executed" => approval'[b] = "executed"
    BY <1>0, <1>2, <2>1 DEF ConsumeTo, history
  <2>3. CASE Done(p)
    BY <1>0, <2>2, <2>3, Ends, RecordsKept, HandStep
  <2>4. CASE Goto(p, "check")
    <3>1. /\ step'[p].at = "check" /\ step'[p].id = a /\ step'[p].preview = step[p].preview
      BY <1>0, <1>1, <1>2, <2>4, Goes DEF Places
    <3>2. HandOK(p, a)'
      BY <1>3, <1>4, <2>2, <3>1 DEF HandOK, Consume, Doing
    <3> QED
      BY <2>2, <3>1, <3>2, RecordsKept, HandStep
  <2> QED
    BY <1>4, <2>3, <2>4 DEF Consume
<1>5. CASE Check(p) \/ ApplyFails(p)
  <2>1. PICK place \in {"write", "finalize"} :
          /\ Goto(p, place) /\ (place = "write" => file[Target[a]] = step[p].preview.before)
          /\ UNCHANGED <<approval, effect, file, shown, replaced, raced>>
    BY <1>2, <1>5 DEF Check, ApplyFails, stores, history
  <2>2. /\ step'[p].at = place /\ step'[p].id = a /\ step'[p].preview = step[p].preview
        /\ step'[p].ok = FALSE
    BY <1>0, <1>1, <1>2, <1>3, <2>1, Goes DEF Places
  <2>3. step[p].preview = effect[a].preview
    BY <1>1, <1>3 DEF HandOK
  <2>4. HandOK(p, a)'
    BY <2>1, <2>2, <2>3 DEF HandOK
  <2> QED
    BY <2>1, <2>2, <2>4, RecordsKept, HandStep
<1>6. CASE Write(p)
  <2>1. /\ step' = [step EXCEPT ![p].at = "finalize", ![p].ok = TRUE]
        /\ replaced' = [replaced EXCEPT ![a] = file[Target[a]]]
        /\ UNCHANGED <<approval, effect, shown>> /\ step[p].at = "write"
        /\ Touch(Target[a], step[p].preview.after, p)
    BY <1>2, <1>6 DEF Write, stores, Doing
  <2>2. \A b \in Approvals : raced[b] => raced'[b]
    BY <2>1, TouchRaces
  <2>3. /\ step'[p].at = "finalize" /\ step'[p].id = a /\ step'[p].preview = step[p].preview
    BY <1>0, <1>2, <1>3, <2>1 DEF Busy
  <2>4. /\ replaced'[a] = file[Target[a]] /\ \A b \in Approvals : b # a => replaced'[b] = replaced[b]
    BY <2>1 DEF IInv, SideEffectTypeOK
  <2>5. /\ file[Target[a]] = step[p].preview.before \/ raced[a]
        /\ step[p].preview = effect[a].preview
    BY <1>3, <2>1 DEF HandOK
  <2>6. Foreseen(a)'
    BY <2>1, <2>2, <2>4, <2>5 DEF Foreseen
  <2>7. approval[a] = "consumed"
    BY <1>0, <1>2, <2>1 DEF IInv, UseInv, Uses
  <2>8. ShownInv'
    BY <2>1 DEF SoloInv, ShownInv
  <2>9. ExecutedInv'
    BY <2>1, <2>2, <2>4, <2>7 DEF SoloInv, ExecutedInv, Foreseen
  <2>10. HandOK(p, a)'
    BY <2>1, <2>3, <2>5, <2>6 DEF HandOK
  <2> QED
    BY <2>3, <2>8, <2>9, <2>10, HandStep
<1> QED
  BY <1>4, <1>5, <1>6

LEMMA SettleSteps ==
    ASSUME NEW p, Procs = {p}, SoloInv(p), IInv,
           Finalize(p) \/ Mark(p) \/ Restore(p) \/ MarkRolledBack(p)
    PROVE  SoloInv(p)'
<1>0. /\ p \in Procs /\ step \in [Procs -> Step] /\ approval \in [Approvals -> ApprovalStatus]
      /\ effect \in [Approvals -> [status : EffectStatus, preview : Preview]]
  BY DEF IInv, SideEffectTypeOK
<1>1. step[p].at \in {"finalize", "mark", "restore", "restored"}
  BY DEF Finalize, Mark, Restore, MarkRolledBack, Doing
<1>2. PICK a \in Approvals : step[p].id = a
  BY <1>0, <1>1, SoloFacts
<1>3. step[p] \in Busy /\ HandOK(p, a) /\ step[p].ok \in BOOLEAN
  BY <1>0, <1>1, <1>2, SoloFacts DEF SoloInv, Has
<1>4. CASE Finalize(p)
  <2>1. /\ approval' = [approval EXCEPT ![a] = IF @ # "consumed" THEN @
                            ELSE IF step[p].ok THEN "executed" ELSE "execution_failed"]
        /\ Goto(p, "mark") /\ UNCHANGED <<effect, shown, replaced, raced>>
        /\ step[p].at = "finalize"
    BY <1>2, <1>4 DEF Finalize, history, Doing
  <2>2. approval[a] = "consumed"
    BY <1>0, <1>2, <2>1 DEF IInv, UseInv, Uses
  <2>3. /\ approval'[a] = IF step[p].ok THEN "executed" ELSE "execution_failed"
        /\ \A b \in Approvals : b # a => approval'[b] = approval[b]
    BY <1>0, <2>1, <2>2
  <2>4. /\ step'[p].at = "mark" /\ step'[p].id = a /\ step'[p].preview = step[p].preview
        /\ step'[p].ok = step[p].ok
    BY <1>0, <1>1, <1>2, <2>1, Goes DEF Places
  <2>5. HandOK(p, a)'
    BY <1>3, <2>1, <2>3, <2>4 DEF HandOK, Foreseen
  <2> QED
    BY <2>1, <2>2, <2>3, <2>4, <2>5, RecordsKept, HandStep
<1>5. CASE Mark(p)
  <2>1. /\ effect' = [effect EXCEPT ![a].status =
                        IF step[p].ok THEN "executed" ELSE "execution_failed"]
        /\ UNCHANGED <<approval, shown, replaced, raced>> /\ step[p].at = "mark"
        /\ Goto(p, "complete") \/ Done(p)
    BY <1>2, <1>5 DEF Mark, history, Doing
  <2>2. /\ \A b \in Approvals : effect'[b].preview = effect[b].preview
        /\ \A b \in Approvals : b # a => effect'[b] = effect[b]
        /\ effect'[a].status = "executed" => step[p].ok
    BY <1>0, <2>1
  <2>3. step[p].ok => approval[a] = "executed" /\ Foreseen(a)
    BY <1>3, <2>1 DEF HandOK
  <2>4. ShownInv'
    BY <2>1, <2>2 DEF SoloInv, ShownInv
  <2>5. ExecutedInv'
    BY <2>1, <2>2, <2>3 DEF SoloInv, ExecutedInv, Foreseen
  <2>6. CASE Goto(p, "complete")
    <3>1. step'[p].at = "complete" /\ step'[p].id = a
      BY <1>0, <1>1, <1>2, <2>6, Goes DEF Places
    <3>2. HandOK(p, a)'
      BY <3>1 DEF HandOK
    <3> QED
      BY <2>4, <2>5, <3>1, <3>2, HandStep
  <2>7. CASE Done(p)
    BY <1>0, <2>4, <2>5, <2>7, Ends, HandStep
  <2> QED
    BY <2>1, <2>6, <2>7
<1>6. CASE Restore(p)
  <2>1. /\ Touch(Target[a], step[p].preview.before, p) /\ Goto(p, "restored")
        /\ UNCHANGED <<approval, effect, shown, replaced>>
    BY <1>2, <1>6 DEF Restore, stores
  <2>2. step'[p].at = "restored" /\ step'[p].id = a
    BY <1>0, <1>1, <1>2, <2>1, Goes DEF Places
  <2>3. ShownInv' /\ ExecutedInv'
    BY <2>1, TouchRaces DEF SoloInv, ShownInv, ExecutedInv, Foreseen
  <2>4. HandOK(p, a)'
    BY <2>2 DEF HandOK
  <2> QED
    BY <2>2, <2>3, <2>4, HandStep
<1>7. CASE MarkRolledBack(p)
  <2>1. /\ UNCHANGED <<approval, shown, replaced, raced>> /\ Done(p)
        /\ \/ effect' = [effect EXCEPT ![a].status = "rolled_back"]
           \/ effect' = [effect EXCEPT ![a].status = "rollback_failed"]
    BY <1>2, <1>7 DEF MarkRolledBack, history
  <2>2. \A b \in Approvals : /\ effect'[b].preview = effect[b].preview
                             /\ effect'[b].status = "executed" => effect[b].status = "executed"
    BY <1>0, <2>1
  <2>3. ShownInv' /\ ExecutedInv'
    BY <2>1, <2>2 DEF SoloInv, ShownInv, ExecutedInv, Foreseen
  <2> QED
    BY <1>0, <2>1, <2>3, Ends, HandStep
<1> QED
  BY <1>4, <1>5, <1>6, <1>7

LEMMA StopSteps ==
    ASSUME NEW p, Procs = {p}, SoloInv(p), IInv, PreviewFails(p) \/ Complete(p) \/ Crash(p)
    PROVE  SoloInv(p)'
<1>1. Done(p) /\ UNCHANGED <<approval, effect, shown, replaced, raced>>
  BY DEF PreviewFails, Complete, Crash, stores, history
<1>2. step'[p].at = "idle"
  BY <1>1, Ends
<1>3. ShownInv' /\ ExecutedInv'
  BY <1>1, RecordsKept
<1> QED
  BY <1>2, <1>3 DEF SoloInv, Has

LEMMA SoloStep ==
    ASSUME NEW p, Procs = {p}, SoloInv(p), IInv, [Next]_vars
    PROVE  SoloInv(p)'
<1>1. CASE Command(p)
  BY <1>1, FilePrepareSteps, PreviewSteps, ApplySteps, SettleSteps, StopSteps DEF Command
<1>2. \/ Command(p)
      \/ \E a \in Approvals : Ask(a) \/ Abort(a)
      \/ \E a \in Approvals, verdict \in {"approved", "denied"} : Decide(a, verdict)
      \/ ExpirePending \/ Clock
      \/ \E o \in Others, f \in Files : Edit(o, f)
      \/ UNCHANGED vars
  BY DEF Next
<1> QED
  BY <1>1, <1>2, SoloQuiet

LEMMA SoloStarts ==
    ASSUME NEW p, Procs = {p}, Init
    PROVE  SoloInv(p)
BY DEF Init, SoloInv, ShownInv, ExecutedInv, Has, Idle

\* The inductive invariant when one process serves the commands.
THEOREM SoloInvariant ==
    ASSUME NEW CONSTANT p, Procs = {p}
    PROVE  Spec => [](IInv /\ SoloInv(p))
<1>1. Init => SoloInv(p)
  BY SoloStarts
<1>2. IInv /\ SoloInv(p) /\ [Next]_vars => SoloInv(p)'
  BY SoloStep
<1> QED
  BY <1>1, <1>2, SideEffectInvariant, PTL DEF Spec

\* Only a write changes the count of writes.
LEMMA OnlyWrites ==
    ASSUME NEW p, Procs = {p}, [Next]_vars, writes' # writes
    PROVE  Write(p)
<1>1. CASE Command(p)
  BY <1>1 DEF Command, Prepare, Run, Reuse, Rollback, Snapshot, PreviewFails, RecordPreview, Load,
              Consume, Check, ApplyFails, Finalize, Mark, Complete, Restore, MarkRolledBack,
              Crash, history
<1>2. CASE ~Command(p)
  BY <1>2 DEF Next, Ask, Abort, Decide, ExpirePending, Edit, Clock, history, vars
<1> QED
  BY <1>1, <1>2

\* Only a rollback restores.
LEMMA OnlyRestores ==
    ASSUME NEW p, Procs = {p}, [Next]_vars, IInv, step[p].at = "restore",
           step'[p].at = "restored"
    PROVE  Restore(p)
<1>0. p \in Procs
  OBVIOUS
<1>1. step' # step /\ step'[p].at # "idle"
  OBVIOUS
<1>2. Command(p)
  BY <1>1 DEF Next, Ask, Abort, Decide, ExpirePending, Edit, Clock, vars
<1>3. ~Done(p)
  BY <1>0, <1>1, Ends
<1> QED
  BY <1>2, <1>3 DEF Command, Prepare, Run, Reuse, Rollback, Begin, Snapshot, PreviewFails,
        RecordPreview, Load, Consume, Check, ApplyFails, Write, Finalize, Mark, Complete,
        MarkRolledBack, Crash, Doing

\* Which steps change the record of an effect.
LEMMA OnlyEffects ==
    ASSUME NEW p, Procs = {p}, [Next]_vars, effect' # effect
    PROVE  \/ RecordPreview(p) \/ Mark(p) \/ MarkRolledBack(p)
           \/ \E a \in Approvals, again \in BOOLEAN : Prepare(p, a, again)
<1>1. CASE Command(p)
  BY <1>1 DEF Command, Run, Reuse, Rollback, Snapshot, PreviewFails, Load,
              Consume, Check, ApplyFails, Write, Finalize, Complete, Restore, Crash, stores
<1>2. CASE ~Command(p)
  BY <1>2 DEF Next, Ask, Abort, Decide, ExpirePending, Edit, Clock, stores, vars
<1> QED
  BY <1>1, <1>2

\* One process: an apply overwrites nothing that came after its preview, unless it came
\* between the comparison and the write, and what it writes is what the user was shown
\* last, if anything was shown (ApprovedSideEffectRuntime.apply).
THEOREM AppliedAsShown ==
    ASSUME NEW CONSTANT p, Procs = {p}
    PROVE  Spec => ApplyIsAsShown
<1>1. ASSUME IInv, SoloInv(p), [Next]_vars, NEW a \in Approvals, writes'[a] # writes[a]
      PROVE  /\ file[Target[a]] = effect[a].preview.before \/ raced[a]
             /\ shown[a] \in {NoPreview, effect[a].preview}
  <2>1. Write(p) /\ p \in Procs
    BY <1>1, OnlyWrites
  <2>2. step[p].at = "write" /\ writes' = [writes EXCEPT ![step[p].id] = @ + 1]
    BY <2>1 DEF Write, Doing
  <2>3. step[p].id = a
    BY <1>1, <2>2 DEF IInv, SideEffectTypeOK
  <2>4. HandOK(p, a)
    BY <1>1, <2>2, <2>3 DEF SoloInv, Has
  <2> QED
    BY <1>1, <2>2, <2>4 DEF HandOK, SoloInv, ShownInv
<1>2. IInv /\ SoloInv(p) /\ [Next]_vars =>
        [\A a \in Approvals : writes'[a] # writes[a] =>
            /\ file[Target[a]] = effect[a].preview.before \/ raced[a]
            /\ shown[a] \in {NoPreview, effect[a].preview}]_vars
  BY <1>1
<1> QED
  BY <1>2, SoloInvariant, PTL DEF Spec, ApplyIsAsShown

\* One process: a rollback puts back what the change replaced, unless another program was in
\* between, and until then nothing takes the handle of an executed change away
\* (ApprovedSideEffectRuntime.rollback, ApprovedSideEffectStore).
THEOREM ExecutedIsTakenBack ==
    ASSUME NEW CONSTANT p, Procs = {p}
    PROVE  Spec => ExecutedIsUndoable
<1>1. ASSUME IInv, SoloInv(p), [Next]_vars, NEW q \in Procs, Doing(q, "restore"),
             step'[q].at = "restored"
      PROVE  file'[Target[step[q].id]] = replaced[step[q].id] \/ raced[step[q].id]
  <2>1. q = p /\ step[p].at = "restore" /\ p \in Procs
    BY <1>1 DEF Doing
  <2>2. Restore(p)
    BY <1>1, <2>1, OnlyRestores
  <2>3. PICK a \in Approvals : step[p].id = a
    BY <1>1, <2>1, SoloFacts
  <2>4. file' = [file EXCEPT ![Target[a]] = step[p].preview.before]
    BY <2>2, <2>3 DEF Restore, Touch
  <2>5. file'[Target[a]] = step[p].preview.before
    BY <1>1, <2>4, SideEffectAssumption DEF IInv, SideEffectTypeOK
  <2>6. step[p].preview = effect[a].preview /\ Foreseen(a)
    BY <1>1, <2>1, <2>3 DEF SoloInv, Has, HandOK
  <2> QED
    BY <2>1, <2>3, <2>5, <2>6 DEF Foreseen
<1>2. ASSUME IInv, SoloInv(p), [Next]_vars, NEW a \in Approvals, effect[a].status = "executed"
      PROVE  /\ effect'[a].preview = effect[a].preview
             /\ effect'[a].status \in {"executed", "rolled_back", "rollback_failed"}
  <2>0. /\ p \in Procs /\ effect \in [Approvals -> [status : EffectStatus, preview : Preview]]
        /\ approval[a] = "executed"
    BY <1>1, <1>2 DEF IInv, SideEffectTypeOK, SoloInv, ExecutedInv
  <2>1. CASE effect' = effect
    BY <1>2, <2>1
  <2>2. ASSUME NEW b \in Approvals, NEW again \in BOOLEAN, Prepare(p, b, again)
        PROVE  effect'[a] = effect[a]
    BY <1>2, <2>0, <2>2 DEF Prepare
  <2>3. ASSUME step[p].at \in {"record", "mark"} PROVE HandOK(p, step[p].id)
    BY <1>2, <2>0, <2>3, SoloFacts DEF SoloInv, Has
  <2>4. ASSUME RecordPreview(p) PROVE effect'[a] = effect[a]
    <3>1. step[p].at = "record" /\ approval[step[p].id] = "approved"
      BY <2>3, <2>4 DEF RecordPreview, Doing, HandOK
    <3> QED
      BY <2>0, <2>4, <3>1 DEF RecordPreview
  <2>5. ASSUME Mark(p)
        PROVE  effect'[a].preview = effect[a].preview /\ effect'[a].status = "executed"
    <3>1. /\ step[p].at = "mark"
          /\ approval[step[p].id] = IF step[p].ok THEN "executed" ELSE "execution_failed"
      BY <2>3, <2>5 DEF Mark, Doing, HandOK
    <3>2. effect' = [effect EXCEPT ![step[p].id].status =
                        IF step[p].ok THEN "executed" ELSE "execution_failed"]
      BY <2>5 DEF Mark
    <3> QED
      BY <1>2, <2>0, <3>1, <3>2
  <2>6. ASSUME MarkRolledBack(p)
        PROVE  /\ effect'[a].preview = effect[a].preview
               /\ effect'[a].status \in {"executed", "rolled_back", "rollback_failed"}
    BY <1>2, <2>0, <2>6 DEF MarkRolledBack
  <2> QED
    BY <1>2, <2>1, <2>2, <2>4, <2>5, <2>6, OnlyEffects
<1>3. IInv /\ SoloInv(p) /\ [Next]_vars => [RestoresExactly /\ StaysUndoable]_vars
  BY <1>1, <1>2 DEF RestoresExactly, StaysUndoable
<1> QED
  BY <1>3, SoloInvariant, PTL DEF Spec, ExecutedIsUndoable
===============================================================================
