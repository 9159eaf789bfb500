------------------------------ MODULE Proactive ------------------------------
(***************************************************************************)
(* The proactive loop (proactive_v2/agent_tick.py, tools.py, gateway.py,   *)
(* anyaction.py, state.py, drift_runner.py, drift_tools.py and             *)
(* agent/turns/orchestrator.py).  A tick passes its gates, fetches what    *)
(* the sources offer, lets the model sort it and write a message, checks   *)
(* that the message is not a repetition, logs it, sends it, and only then  *)
(* records the delivery and tells the sources what became of their items.  *)
(* With nothing to tell, it may drift: a free run that may send one        *)
(* message of its own.  Time passes between ticks and not within one.      *)
(***************************************************************************)
EXTENDS Naturals, FiniteSets, Sequences, SequencesExt

CONSTANTS
    Alerts, Contents,   \* events of the sources
    Url,                \* the page each content is about
    Texts,              \* messages that cite nothing
    ContentLimit, Cooldown, DedupeHours, DriftHours,
    ContextHours, ContextDay,   \* least interval of two uncited messages; one a day
    QuotaMax, Day,      \* anyaction_daily_max_actions, in a window of Day hours
    MaxHours, MaxTicks, MaxPushes   \* bounds: time, ticks, messages of one drift

Items == Alerts \union Contents

ProactiveAssumption ==
    /\ {ContentLimit, Cooldown, DedupeHours, DriftHours, ContextHours, ContextDay} \subseteq Nat
    /\ {QuotaMax, MaxTicks, MaxPushes} \subseteq Nat
    /\ {Day, MaxHours} \subseteq Nat \ {0} /\ DOMAIN Url = Contents

VARIABLES
    hour,       \* the time
    ticks,      \* ticks begun
    stage,      \* where the tick is
    ctx,        \* AgentTickContext
    gone,       \* what each source was last told of its item
    deliveries, \* the deliveries table: when each key was sent last
    contextAt, driftAt,     \* session_state: context_only_last_at, drift_last_at
    quota,      \* proactive_quota.json
    chatLog,    \* the keys of the proactive messages of the session
    heard,      \* the messages that reached the user
    lost        \* ticks that died before they had recorded what they did

proVars == <<hour, ticks, stage, ctx, gone, deliveries, contextAt, driftAt,
             quota, chatLog, heard, lost>>

Fresh == [fallback |-> FALSE, alerts |-> {}, contents |-> {},
          interesting |-> {}, discarded |-> {}, drafted |-> FALSE,
          evidence |-> {}, text |-> "", decision |-> "none", acks |-> {}, pushes |-> 0,
          sent |-> FALSE]

Stages == {"idle", "fetch", "loop", "complete", "reflect", "decide", "post",
           "send", "sent", "ack", "drift"}

Never == 0
Phases == {"loop", "complete", "reflect"}

Within(at, hours) == at # Never /\ hour - at <= hours
Younger(at, hours) == at # Never /\ hour - at < hours

(***************************************************************************)
(* The gates.                                                              *)
(***************************************************************************)
Today == hour \div Day
Used == IF quota.day = Today THEN quota.used ELSE 0

CoolsDown == \E k \in DOMAIN deliveries : Within(deliveries[k], Cooldown)

ContextMay == ~Younger(contextAt, ContextHours) /\ ~Within(contextAt, ContextDay)

\* The gates that only refuse, no chat, a turn in progress, the draw of the
\* probability, are the choice not to take this step; the least interval of two
\* actions, minutes, is less than an hour.
Tick(fallback) ==
    /\ stage = "idle" /\ ticks < MaxTicks
    /\ ~CoolsDown
    /\ Used < QuotaMax
    /\ fallback => ContextMay
    /\ ticks' = ticks + 1
    /\ stage' = "fetch"
    /\ ctx' = [Fresh EXCEPT !.fallback = fallback]
    /\ quota' = [quota EXCEPT !.day = Today, !.used = Used]
    /\ UNCHANGED <<hour, gone, deliveries, contextAt, driftAt, chatLog, heard, lost>>

RecordAction == quota' = [day |-> Today, used |-> Used + 1]

(***************************************************************************)
(* The sources.  One that fails offers nothing.                            *)
(***************************************************************************)
Offered(S) == {i \in S : gone[i] = "no"}

DriftMay == ~Younger(driftAt, DriftHours)

Prefetch(alerts, contents) ==
    /\ stage = "fetch"
    /\ alerts \in {{}, Offered(Alerts)}
    /\ contents \subseteq Offered(Contents) /\ Cardinality(contents) <= ContentLimit
    /\ LET empty == alerts = {} /\ contents = {} /\ ~ctx.fallback
       IN  /\ stage' = IF ~empty THEN "loop" ELSE "decide"
           /\ ctx' = [ctx EXCEPT !.alerts = alerts, !.contents = contents,
                                 !.decision = IF empty THEN "skip" ELSE "none"]
    /\ UNCHANGED <<hour, ticks, gone, deliveries, contextAt, driftAt, quota, chatLog, heard, lost>>

\* Nothing came, and the drift is due and has a skill to use.
EnterDrift ==
    /\ stage = "fetch" /\ ~ctx.fallback /\ DriftMay
    /\ stage' = "drift"
    /\ UNCHANGED <<hour, ticks, ctx, gone, deliveries, contextAt, driftAt, quota, chatLog, heard, lost>>

(***************************************************************************)
(* The loop: one tool call of the model a step.                            *)
(***************************************************************************)
\* Ids that are not of this tick are refused, except when it has no content.
Markable == IF ctx.contents # {} THEN ctx.contents ELSE ctx.alerts

Deciding == stage \in Phases /\ ctx.decision = "none"

MarkInteresting(i) ==
    /\ Deciding /\ i \in Markable \ ctx.discarded
    /\ ctx' = [ctx EXCEPT !.interesting = @ \union {i}]
    /\ UNCHANGED <<hour, ticks, stage, gone, deliveries, contextAt, driftAt, quota, chatLog, heard, lost>>

MarkNotInteresting(i) ==
    /\ Deciding /\ i \in Markable
    /\ ctx' = [ctx EXCEPT !.discarded = @ \union {i}, !.interesting = @ \ {i}]
    /\ UNCHANGED <<hour, ticks, stage, gone, deliveries, contextAt, driftAt, quota, chatLog, heard, lost>>

Citable == ctx.contents \union ctx.alerts

MessagePush(evidence, text) ==
    /\ Deciding /\ ~ctx.drafted
    /\ evidence \subseteq Citable
    /\ ctx' = [ctx EXCEPT !.drafted = TRUE, !.evidence = evidence,
                          !.text = IF evidence = {} THEN text ELSE ""]
    /\ UNCHANGED <<hour, ticks, stage, gone, deliveries, contextAt, driftAt, quota, chatLog, heard, lost>>

FinishReply ==
    /\ Deciding /\ ctx.drafted
    /\ ctx' = [ctx EXCEPT !.decision = "reply",
                          !.interesting = @ \union ctx.evidence,
                          !.discarded = @ \ ctx.evidence]
    /\ UNCHANGED <<hour, ticks, stage, gone, deliveries, contextAt, driftAt, quota, chatLog, heard, lost>>

FinishSkip ==
    /\ Deciding /\ ~ctx.drafted
    /\ ctx' = [ctx EXCEPT !.decision = "skip"]
    /\ UNCHANGED <<hour, ticks, stage, gone, deliveries, contextAt, driftAt, quota, chatLog, heard, lost>>

\* A phase ends with a decision, with a tool that fails, with no call of the
\* model, or with its steps.  A skip that leaves contents unsorted is taken back
\* once; a model that found something and did not decide is reminded once.
Unsorted == ctx.contents \ (ctx.interesting \union ctx.discarded)

PhaseEnds ==
    /\ stage \in Phases
    /\ \/ /\ stage = "loop" /\ ctx.decision = "skip" /\ Unsorted # {}
          /\ stage' = "complete" /\ ctx' = [ctx EXCEPT !.decision = "none"]
       \/ /\ stage \in {"loop", "complete"} /\ ctx.decision = "none" /\ ctx.interesting # {}
          /\ stage' = "reflect" /\ UNCHANGED ctx
       \/ /\ ~(stage = "loop" /\ ctx.decision = "skip" /\ Unsorted # {})
          /\ stage' = "decide" /\ UNCHANGED ctx
    /\ UNCHANGED <<hour, ticks, gone, deliveries, contextAt, driftAt, quota, chatLog, heard, lost>>

Decide ==
    /\ stage = "decide"
    /\ stage' = "post"
    /\ IF ctx.decision = "reply" THEN RecordAction ELSE UNCHANGED quota
    /\ UNCHANGED <<hour, ticks, ctx, gone, deliveries, contextAt, driftAt, chatLog, heard, lost>>

(***************************************************************************)
(* After the loop.                                                         *)
(***************************************************************************)
\* build_delivery_key: the pages cited, the text of a message that cites nothing.
Pages(c) == {Url[i] : i \in c.evidence \intersect c.contents}
                \union (c.evidence \ c.contents)

\* With the ids of the contents in the place of their pages.
KeyOfIds(c) == IF c.evidence = {} THEN {c.text} ELSE c.evidence

Key(c) == IF c.evidence = {} THEN {c.text} ELSE Pages(c)

Uncited == (ctx.interesting \ ctx.evidence) \ ctx.alerts

Pair(S, kind) == S \X {kind}

AckDiscarded == Pair(ctx.discarded, "declined")

AckOnSuccess ==
    Pair(ctx.evidence \intersect ctx.contents, "cited")
    \union Pair(ctx.evidence \intersect ctx.alerts, "told")
    \union Pair(Uncited, "uncited") \union AckDiscarded

\* All alerts of a tick whose message is a repetition are cleared.
AckPostGuardFail ==
    Pair(ctx.evidence \union ctx.alerts \union Uncited, "repeated") \union AckDiscarded

\* As if it had been sent.
AckAnyhow == AckOnSuccess

AckOnFailure == AckDiscarded

Skipped(acks) == /\ stage' = "ack" /\ ctx' = [ctx EXCEPT !.acks = acks]
                 /\ UNCHANGED chatLog

IsRepeated == /\ Key(ctx) \in DOMAIN deliveries
              /\ Within(deliveries[Key(ctx)], DedupeHours)

\* The model compares with the last messages, when there are any.
MayRepeat == chatLog # {}

\* The message is in the session before it is sent.
PostLoop ==
    /\ stage = "post"
    /\ \/ ctx.decision # "reply" /\ Skipped(AckDiscarded)
       \/ ctx.decision = "reply" /\ IsRepeated /\ Skipped(AckPostGuardFail)
       \/ ctx.decision = "reply" /\ ~IsRepeated /\ MayRepeat /\ Skipped(AckPostGuardFail)
       \/ /\ ctx.decision = "reply" /\ ~IsRepeated
          /\ chatLog' = chatLog \union {Key(ctx)}
          /\ stage' = "send" /\ UNCHANGED ctx
    /\ UNCHANGED <<hour, ticks, gone, deliveries, contextAt, driftAt, quota, heard, lost>>

Hear(key, cited, pages, marked) ==
    heard' = Append(heard, [key |-> key, cited |-> cited, pages |-> pages, at |-> hour,
                            tick |-> ticks, drift |-> stage = "drift", marked |-> marked])

\* The channel may report a failure of what the user has received.
Dispatch(arrives, reported) ==
    /\ stage = "send" /\ (reported => arrives)
    /\ IF arrives THEN Hear(Key(ctx), ctx.evidence, Pages(ctx), FALSE) ELSE UNCHANGED heard
    /\ IF reported THEN stage' = "sent" /\ UNCHANGED ctx
                   ELSE stage' = "ack" /\ ctx' = [ctx EXCEPT !.acks = AckOnFailure]
    /\ UNCHANGED <<hour, ticks, gone, deliveries, contextAt, driftAt, quota, chatLog, lost>>

\* The table with the key sent now.
Recorded(key) == [k \in DOMAIN deliveries \union {key} |->
                     IF k = key THEN hour ELSE deliveries[k]]

MarkDelivery(key) == /\ deliveries' = Recorded(key)
                     /\ heard' = [heard EXCEPT ![Len(heard)].marked = TRUE]

\* The success effects up to the first call of a source.
MarkSent ==
    /\ stage = "sent"
    /\ MarkDelivery(Key(ctx))
    /\ contextAt' = IF ctx.fallback /\ ctx.evidence = {} THEN hour ELSE contextAt
    /\ stage' = "ack" /\ ctx' = [ctx EXCEPT !.acks = AckOnSuccess]
    /\ UNCHANGED <<hour, ticks, gone, driftAt, quota, chatLog, lost>>

\* A source that fails, or the death of the process, leaves an item as it was.
Ack(reach) ==
    /\ stage = "ack" /\ reach \subseteq ctx.acks
    /\ gone' = [i \in Items |-> IF \E p \in reach : p[1] = i
                                THEN (CHOOSE p \in reach : p[1] = i)[2] ELSE gone[i]]
    /\ stage' = "idle" /\ ctx' = Fresh
    /\ UNCHANGED <<hour, ticks, deliveries, contextAt, driftAt, quota, chatLog, heard, lost>>

(***************************************************************************)
(* The drift.                                                              *)
(***************************************************************************)
DriftMarks(text) == Recorded({text})

\* One message per run; one that failed may be tried again.  It is not compared
\* with what was sent before.
DriftPush(text, arrives, reported) ==
    /\ stage = "drift" /\ ~ctx.sent /\ ctx.pushes < MaxPushes /\ (reported => arrives)
    /\ chatLog' = chatLog \union {{text}}
    /\ IF arrives THEN Hear({text}, {}, {}, reported) ELSE UNCHANGED heard
    /\ deliveries' = IF reported THEN DriftMarks(text) ELSE deliveries
    /\ ctx' = [ctx EXCEPT !.pushes = @ + 1, !.sent = reported]
    /\ UNCHANGED <<hour, ticks, stage, gone, contextAt, driftAt, quota, lost>>

\* It finishes, or has no steps left, or a tool fails.
DriftEnds ==
    /\ stage = "drift"
    /\ driftAt' = hour
    /\ RecordAction
    /\ stage' = "idle" /\ ctx' = Fresh
    /\ UNCHANGED <<hour, ticks, gone, deliveries, contextAt, chatLog, heard, lost>>

(***************************************************************************)
(* Faults and time.                                                        *)
(***************************************************************************)
\* The process dies, or the call of the model raises and the tick is given up.
Dies ==
    /\ stage # "idle"
    /\ stage' = "idle" /\ ctx' = Fresh
    /\ lost' = lost \union {ticks}
    /\ UNCHANGED <<hour, ticks, gone, deliveries, contextAt, driftAt, quota, chatLog, heard>>

Passes ==
    /\ stage = "idle" /\ hour < MaxHours
    /\ hour' = hour + 1
    /\ UNCHANGED <<ticks, stage, ctx, gone, deliveries, contextAt, driftAt, quota, chatLog, heard, lost>>

\* The source offers an item again when the time it was told has passed.
OffersAgain(i) ==
    /\ stage = "idle" /\ gone[i] = "uncited"
    /\ gone' = [gone EXCEPT ![i] = "no"]
    /\ UNCHANGED <<hour, ticks, stage, ctx, deliveries, contextAt, driftAt, quota, chatLog, heard, lost>>

Init ==
    /\ hour = 1 /\ ticks = 0 /\ stage = "idle" /\ ctx = Fresh
    /\ gone = [i \in Items |-> "no"]
    /\ deliveries = << >>
    /\ contextAt = Never /\ driftAt = Never
    /\ quota = [day |-> 0, used |-> 0]
    /\ chatLog = {} /\ heard = << >> /\ lost = {}

Loop == \/ \E i \in Items : MarkInteresting(i) \/ MarkNotInteresting(i)
        \/ \E e \in SUBSET Items, t \in Texts : MessagePush(e, t)
        \/ FinishReply \/ FinishSkip \/ PhaseEnds

Next ==
    \/ \E f \in BOOLEAN : Tick(f)
    \/ \E a \in SUBSET Alerts, c \in SUBSET Contents : Prefetch(a, c)
    \/ Loop \/ Decide \/ PostLoop
    \/ \E a, r \in BOOLEAN : Dispatch(a, r)
    \/ MarkSent
    \/ \E reach \in SUBSET ctx.acks : Ack(reach)
    \/ EnterDrift \/ DriftEnds
    \/ \E t \in Texts, a, r \in BOOLEAN : DriftPush(t, a, r)
    \/ Dies \/ Passes \/ (\E i \in Items : OffersAgain(i))

Spec == Init /\ [][Next]_proVars

ProactiveTypeOK ==
    /\ hour \in 1..MaxHours /\ ticks \in 0..MaxTicks /\ stage \in Stages
    /\ gone \in [Items -> {"no", "cited", "told", "uncited", "declined", "repeated"}]
    /\ ctx.interesting \intersect ctx.discarded = {}
    /\ \A k \in DOMAIN deliveries : deliveries[k] \in 1..hour
    /\ {contextAt, driftAt} \subseteq 0..hour
    /\ quota.used \in 0..QuotaMax /\ lost \subseteq 1..ticks

\* Two messages of different ticks are at least the cooldown apart, whatever they
\* are, and two about the same pages or alerts the window of the check for repetitions,
\* whichever ids the pages come with, once the delivery of the first is recorded
\* (proactive_v2/agent_tick.py tick, _build_turn_result).
SpacedOut ==
    \A i, j \in DOMAIN heard : i < j /\ heard[i].marked /\ heard[i].tick # heard[j].tick =>
        /\ heard[j].at - heard[i].at > Cooldown
        /\ heard[i].pages = heard[j].pages /\ heard[j].pages # {} =>
               heard[j].at - heard[i].at > DedupeHours

\* The ticks of a day that reached the user are within the quota, those left
\* out that died on the way: the quota of a message is recorded before it is sent,
\* and of a drift only when it is over (proactive_v2/anyaction.py, agent_tick.py).
QuotaKept ==
    \A d \in 0..(MaxHours \div Day) :
        Cardinality({heard[i].tick : i \in {h \in DOMAIN heard :
                         heard[h].at \div Day = d /\ ~(heard[h].drift /\ heard[h].tick \in lost)}})
            <= QuotaMax

NotTooOften == SpacedOut /\ QuotaKept

\* A source is told that its item was sent only when a message that cites it has
\* reached the user: not when the sending failed, or the message was held back
\* (proactive_v2/agent_tick.py ack_on_success, agent/turns/orchestrator.py).
AcksAreEarned ==
    \A i \in Items : gone[i] \in {"cited", "told"} =>
        \E h \in DOMAIN heard : i \in heard[h].cited

\* What the user heard is in the session, whatever died after: the next turn, and
\* the next check for repetitions, read it there (agent/turns/orchestrator.py).
HeardIsLogged == \A h \in DOMAIN heard : heard[h].key \in chatLog

ToldTruly == ProactiveTypeOK /\ AcksAreEarned /\ HeardIsLogged
=============================================================================
