----------------------------- MODULE DeliveryProofs -----------------------------
(***************************************************************************)
(* Machine-checked proofs about Delivery, for any number of messages,      *)
(* completions, pushes, stops, exceptions of the channel and crashes: what *)
(* the chat is shown, it is shown once, and a message of the user is       *)
(* answered by one turn.                                                   *)
(***************************************************************************)
EXTENDS Delivery, SequenceTheorems, FiniteSetTheorems, TLAPS

\* Items that have come in, those that wait for their turn, and those whose turn is
\* still to end.
Come == {n \in Items : IF n \in Says THEN n <= MaxSays - left["says"]
                       ELSE n <= MaxSays + MaxDone - left["done"]}
Waiting == (Items \ Come) \cup ToSet(inbound)
Fresh == Waiting \cup (Items \cap {turn.item})

\* Messages of the user that a turn, now or later, can still answer.
OpenMessages == Waiting \cup active \cup interrupted.of

\* The budget is never exceeded; a dead process remembers nothing.
LifeInv ==
    /\ left["says"] <= MaxSays /\ left["done"] <= MaxDone /\ left["pushes"] <= MaxPushes
    /\ ~up => inbound = <<>> /\ turn = Idle /\ interrupted = Nothing /\ bus = <<>>
              /\ sending = Quiet /\ pushing = {}

\* Each item is taken once.
QueueInv ==
    /\ \A i \in DOMAIN inbound : inbound[i] \in Come
    /\ \A i, j \in DOMAIN inbound : inbound[i] = inbound[j] => i = j
    /\ turn.item # 0 => turn.item \in Come /\ turn.item \notin ToSet(inbound)

\* A message is held by the turn or by what was stopped, by both only when the turn has
\* taken that up.
TurnInv ==
    /\ turn.phase = "idle" => turn = Idle /\ active = {}
    /\ turn.phase # "idle" => turn.item # 0
    /\ turn.phase = "created" => ~turn.resumed
    /\ (active \cup interrupted.of) \cap Waiting = {}
    /\ turn.item \in Says => turn.item \in active
    /\ IF turn.resumed THEN interrupted.of \subseteq active
       ELSE active \cap interrupted.of = {}

\* A row has the reply of a turn that has written it, or a message that was pushed, and
\* is not in the outbox before the turn has answered.
LogInv ==
    \A i \in DOMAIN log :
        /\ \A n \in Items : log[i].text = Reply(n) =>
              /\ n \notin Waiting
              /\ turn.item = n =>
                    /\ turn.phase = "persisted" /\ outbox[i] = "none"
                    /\ log[i].of \subseteq active
                    /\ \A j \in DOMAIN log : i < j => log[j].of = {}
        /\ \A n \in 1..MaxPushes : log[i].text = Pushed(n) =>
              n <= MaxPushes - left["pushes"] /\ outbox[i] = "none"
        /\ log[i].text = Error => log[i].of = {}

\* At most one delivery of a reply is still to come: by the bus, by the dispatcher or
\* from a pending row; nothing of it has been shown before the dispatcher has it.
OwedInv ==
    \A n \in Items :
        LET t == Reply(n) IN
        /\ n \in Fresh => t \notin ToSet(bus) /\ sending.text # t /\ shown[t] = 0
        /\ t \in ToSet(bus) => sending.text # t /\ shown[t] = 0
        /\ sending.text = t => shown[t] <= raised[t]
        /\ \A i, j \in DOMAIN bus : bus[i] = t /\ bus[j] = t => i = j
        /\ \A i \in DOMAIN log : log[i].text = t /\ outbox[i] = "pending" =>
              /\ t \notin ToSet(bus) /\ sending.text # t /\ shown[t] = 0
              /\ \A j \in DOMAIN log : log[j].text = t /\ outbox[j] = "pending" => i = j

\* A proactive message goes to the channel directly, and once.
PushInv ==
    /\ \A n \in 1..MaxPushes :
          LET t == Pushed(n) IN
          /\ t \notin ToSet(bus) /\ sending.text # t
          /\ n > MaxPushes - left["pushes"] => t \notin pushing
          /\ n > MaxPushes - left["pushes"] \/ t \in pushing => shown[t] = 0
    /\ pushing \subseteq {Pushed(n) : n \in 1..MaxPushes}

\* What has been handed to the outbox answers messages that are closed.
ClosedInv ==
    \A i, k \in DOMAIN log :
        log[i].text = log[k].text /\ outbox[k] # "none" => log[i].of \cap OpenMessages = {}

DeliveryInv ==
    /\ DeliveryTypeOK /\ LifeInv /\ QueueInv /\ TurnInv /\ LogInv /\ OwedInv /\ PushInv
    /\ ClosedInv /\ ShownOnce /\ LoggedTwiceOnlyAcross /\ AnsweredOnce

-------------------------------------------------------------------------------
(* Sequences and texts *)

\* What a longer sequence holds.
LEMMA AppendPoints ==
    ASSUME NEW S, NEW s \in Seq(S), NEW e \in S
    PROVE  /\ Append(s, e) \in Seq(S) /\ Len(s) \in Nat /\ Len(Append(s, e)) = Len(s) + 1
           /\ DOMAIN s = 1..Len(s) /\ DOMAIN Append(s, e) = 1..(Len(s) + 1)
           /\ \A i \in DOMAIN s : Append(s, e)[i] = s[i]
           /\ Append(s, e)[Len(s) + 1] = e
           /\ ToSet(Append(s, e)) = ToSet(s) \cup {e}
<1>1. /\ Append(s, e) \in Seq(S) /\ Len(s) \in Nat /\ Len(Append(s, e)) = Len(s) + 1
      /\ DOMAIN s = 1..Len(s) /\ DOMAIN Append(s, e) = 1..(Len(s) + 1)
      /\ \A i \in DOMAIN s : Append(s, e)[i] = s[i]
      /\ Append(s, e)[Len(s) + 1] = e
  BY AppendProperties, LenProperties
<1>2. DOMAIN Append(s, e) = DOMAIN s \cup {Len(s) + 1}
  BY <1>1
<1> QED
  BY <1>1, <1>2 DEF ToSet

\* What is left of a sequence without its head.
LEMMA TailPoints ==
    ASSUME NEW S, NEW s \in Seq(S), s # <<>>
    PROVE  /\ Tail(s) \in Seq(S) /\ Head(s) \in S /\ 1 \in DOMAIN s /\ Head(s) = s[1]
           /\ \A i \in DOMAIN Tail(s) : i \in Nat /\ i + 1 \in DOMAIN s /\ Tail(s)[i] = s[i + 1]
           /\ ToSet(Tail(s)) \subseteq ToSet(s) /\ Head(s) \in ToSet(s)
           /\ ToSet(s) \subseteq ToSet(Tail(s)) \cup {Head(s)}
<1>1. /\ Tail(s) \in Seq(S) /\ Head(s) \in S /\ Len(Tail(s)) = Len(s) - 1
      /\ \A i \in 1..Len(Tail(s)) : Tail(s)[i] = s[i + 1]
  BY HeadTailProperties
<1>2. /\ Len(s) \in Nat /\ Len(s) # 0 /\ DOMAIN s = 1..Len(s)
      /\ DOMAIN Tail(s) = 1..Len(Tail(s))
  BY <1>1, EmptySeq, LenProperties
<1>3. 1 \in DOMAIN s /\ Head(s) = s[1]
  BY <1>2
<1>4. \A i \in DOMAIN Tail(s) : i \in Nat /\ i + 1 \in DOMAIN s /\ Tail(s)[i] = s[i + 1]
  BY <1>1, <1>2
<1>5. \A i \in DOMAIN s : i = 1 \/ (i - 1 \in DOMAIN Tail(s) /\ Tail(s)[i - 1] = s[i])
  BY <1>1, <1>2
<1> DEFINE t == Tail(s)
           h == Head(s)
<1>6. /\ 1 \in DOMAIN s /\ h = s[1]
      /\ \A i \in DOMAIN t : i + 1 \in DOMAIN s /\ t[i] = s[i + 1]
      /\ \A i \in DOMAIN s : i = 1 \/ (i - 1 \in DOMAIN t /\ t[i - 1] = s[i])
  BY <1>3, <1>4, <1>5
<1> HIDE DEF t, h
<1>7. ToSet(t) \subseteq ToSet(s) /\ h \in ToSet(s) /\ ToSet(s) \subseteq ToSet(t) \cup {h}
  BY <1>6 DEF ToSet
<1> QED
  BY <1>1, <1>3, <1>4, <1>7 DEF t, h

\* The texts of different origin differ.
LEMMA TextsDiffer ==
    /\ \A n, m : Reply(n) = Reply(m) => n = m
    /\ \A n, m : Pushed(n) = Pushed(m) => n = m
    /\ \A n, m : Reply(n) # Pushed(m)
    /\ \A n : Reply(n) # Error /\ Reply(n) # Notice /\ Pushed(n) # Error /\ Pushed(n) # Notice
    /\ Error # Notice
BY DEF Reply, Pushed, Error, Notice

\* The kinds of texts there are.
LEMMA TextKinds ==
    /\ Error \in Texts /\ Notice \in Texts
    /\ \A n \in Items : Reply(n) \in Texts
    /\ \A n \in 1..MaxPushes : Pushed(n) \in Texts
    /\ \A t \in Texts : \/ t = Error \/ t = Notice
                        \/ \E n \in Items : t = Reply(n)
                        \/ \E n \in 1..MaxPushes : t = Pushed(n)
BY DEF Texts

-------------------------------------------------------------------------------
(* What holds after a step that leaves its variables alone *)

\* The bounds are natural numbers.
LEMMA Bounds == /\ MaxSays \in Nat /\ MaxDone \in Nat /\ MaxPushes \in Nat
                /\ 0 \notin Items /\ Says \subseteq Items /\ Items \subseteq Nat
BY DeliveryAssumption DEF Items, Says

\* Nothing new is owed when fewer turns are to come.
LEMMA OwedKept ==
    ASSUME OwedInv, Fresh' \subseteq Fresh,
           UNCHANGED <<bus, sending, shown, raised, log, outbox>>
    PROVE  OwedInv'
BY DEF OwedInv

\* Pushes do not depend on turns.
LEMMA PushKept ==
    ASSUME PushInv, left'["pushes"] = left["pushes"], UNCHANGED <<bus, sending, shown, pushing>>
    PROVE  PushInv'
BY DEF PushInv

\* What is closed stays closed, and what the log says does not change.
LEMMA LogKept ==
    ASSUME ClosedInv, ShownOnce, LoggedTwiceOnlyAcross, AnsweredOnce,
           OpenMessages' \subseteq OpenMessages, UNCHANGED <<log, outbox, shown, raised>>
    PROVE  ClosedInv' /\ ShownOnce' /\ LoggedTwiceOnlyAcross' /\ AnsweredOnce'
<1>1. ClosedInv'
  BY DEF ClosedInv
<1>2. ShownOnce'
  BY DEF ShownOnce
<1>3. LoggedTwiceOnlyAcross' /\ AnsweredOnce'
  BY DEF LoggedTwiceOnlyAcross, AnsweredOnce
<1> QED
  BY <1>1, <1>2, <1>3

-------------------------------------------------------------------------------
(* What comes in *)

\* What a step spends of the budget.
LEMMA Spending ==
    ASSUME left \in [Budgeted -> Nat], NEW what \in Budgeted, Spend(what)
    PROVE  /\ left' \in [Budgeted -> Nat] /\ left[what] \in Nat
           /\ left[what] > 0 /\ left'[what] = left[what] - 1
           /\ \A b \in Budgeted \ {what} : left'[b] = left[b]
BY DEF Spend

\* A budget that is not exceeded is not exceeded after a step.
LEMMA BudgetKept ==
    ASSUME DeliveryTypeOK, LifeInv, NEW what \in Budgeted, Spend(what)
    PROVE  /\ left' \in [Budgeted -> Nat]
           /\ left'["says"] <= MaxSays /\ left'["done"] <= MaxDone
           /\ left'["pushes"] <= MaxPushes
<1>1. /\ left \in [Budgeted -> Nat] /\ left' \in [Budgeted -> Nat]
      /\ \A b \in Budgeted : left'[b] <= left[b]
  <2>1. left \in [Budgeted -> Nat]
    BY DEF DeliveryTypeOK
  <2>2. /\ left' \in [Budgeted -> Nat] /\ left'[what] = left[what] - 1
        /\ \A b \in Budgeted \ {what} : left'[b] = left[b]
    BY <2>1, Spending
  <2> QED
    BY <2>1, <2>2
<1>2. {"says", "done", "pushes"} \subseteq Budgeted
  BY DEF Budgeted
<1> QED
  BY <1>1, <1>2, Bounds DEF LifeInv

\* A new item waits, and is one that had not come.
LEMMA NewItem ==
    ASSUME DeliveryInv, Say \/ BackgroundEnds
    PROVE  \E n \in Items : /\ n \notin Come /\ Come' = Come \cup {n}
                            /\ inbound' = Append(inbound, n)
<1> USE Bounds
<1>1. /\ left \in [Budgeted -> Nat] /\ {"says", "done"} \subseteq Budgeted
      /\ left["says"] \in Nat /\ left["says"] <= MaxSays
      /\ left["done"] \in Nat /\ left["done"] <= MaxDone
  BY DEF DeliveryInv, DeliveryTypeOK, LifeInv, Budgeted
<1>2. CASE Say
  <2> DEFINE n == MaxSays - left'["says"]
  <2>1. Spend("says") /\ left["says"] > 0
    BY <1>2 DEF Say, Spend
  <2>2. left'["says"] = left["says"] - 1 /\ left'["done"] = left["done"]
    BY <1>1, <2>1, Spending
  <2>3. n \in Says /\ n \notin Come
    BY <1>1, <2>1, <2>2 DEF Says, Come
  <2>4. Come' = Come \cup {n}
    BY <1>1, <2>1, <2>2, <2>3 DEF Says, Come, Items
  <2> QED
    BY <1>2, <2>3, <2>4 DEF Say
<1>3. CASE BackgroundEnds
  <2> DEFINE n == MaxSays + MaxDone - left'["done"]
  <2>1. Spend("done") /\ left["done"] > 0
    BY <1>3 DEF BackgroundEnds, Spend
  <2>2. left'["done"] = left["done"] - 1 /\ left'["says"] = left["says"]
    BY <1>1, <2>1, Spending
  <2>3. n \in Items \ Says /\ n \notin Come
    BY <1>1, <2>1, <2>2 DEF Says, Come, Items
  <2>4. Come' = Come \cup {n}
    BY <1>1, <2>1, <2>2, <2>3 DEF Says, Come, Items
  <2> QED
    BY <1>3, <2>3, <2>4 DEF BackgroundEnds
<1> QED
  BY <1>2, <1>3

LEMMA ComesKeepsInv ==
    ASSUME DeliveryInv, Say \/ BackgroundEnds
    PROVE  DeliveryInv'
<1> USE DEF DeliveryInv
<1>1. PICK n \in Items : /\ n \notin Come /\ Come' = Come \cup {n}
                         /\ inbound' = Append(inbound, n)
  BY NewItem
<1>2. /\ up /\ UNCHANGED <<up, inLoop, turn, active, interrupted, bus, sending, pushing>>
      /\ UNCHANGED <<shown, raised, lost, log, outbox>>
  BY DEF Say, BackgroundEnds, chat, storage
<1>3. /\ left' \in [Budgeted -> Nat] /\ left'["says"] <= MaxSays /\ left'["done"] <= MaxDone
      /\ left'["pushes"] = left["pushes"]
  <2>1. PICK what \in {"says", "done"} : Spend(what)
    BY DEF Say, BackgroundEnds
  <2>2. what \in Budgeted /\ "pushes" \in Budgeted /\ what # "pushes"
    BY DEF Budgeted
  <2> QED
    BY <2>1, <2>2, BudgetKept, Spending DEF DeliveryTypeOK
<1>4. inbound \in Seq(Items) /\ \A i \in DOMAIN inbound : inbound[i] # n
  BY <1>1 DEF DeliveryTypeOK, QueueInv
<1>5. /\ inbound' \in Seq(Items) /\ ToSet(inbound') = ToSet(inbound) \cup {n}
      /\ DOMAIN inbound' = DOMAIN inbound \cup {Len(inbound) + 1}
      /\ \A i \in DOMAIN inbound : inbound'[i] = inbound[i]
      /\ inbound'[Len(inbound) + 1] = n
  <2>1. 1..(Len(inbound) + 1) = (1..Len(inbound)) \cup {Len(inbound) + 1}
    BY <1>4, LenProperties
  <2> QED
    BY <1>1, <1>4, <2>1, AppendPoints
<1>6. Waiting' = Waiting
  BY <1>1, <1>5 DEF Waiting
<1>7. Fresh' = Fresh /\ OpenMessages' = OpenMessages
  BY <1>2, <1>6 DEF Fresh, OpenMessages
<1>8. DeliveryTypeOK'
  BY <1>2, <1>3, <1>5 DEF DeliveryTypeOK
<1>9. LifeInv'
  BY <1>2, <1>3 DEF LifeInv
<1>10. QueueInv'
  <2>1. turn.item # n /\ n \in Come'
    BY <1>1, Bounds DEF QueueInv
  <2> QED
    BY <1>1, <1>2, <1>4, <1>5, <2>1 DEF QueueInv
<1>11. TurnInv'
  BY <1>2, <1>6 DEF TurnInv
<1>12. LogInv'
  BY <1>2, <1>3, <1>6 DEF LogInv
<1> QED
  BY <1>2, <1>3, <1>7, <1>8, <1>9, <1>10, <1>11, <1>12, OwedKept, PushKept, LogKept

LEMMA TakeKeepsInv == ASSUME DeliveryInv, Take PROVE DeliveryInv'
<1> USE DEF DeliveryInv
<1> DEFINE h == Head(inbound)
<1>1. /\ up /\ turn = Idle /\ inbound # <<>> /\ inbound' = Tail(inbound)
      /\ turn' = [phase |-> "created", item |-> h, resumed |-> FALSE]
      /\ active' = {h} \cap Says
      /\ UNCHANGED <<up, inLoop, interrupted, bus, sending, pushing, left>>
      /\ UNCHANGED <<shown, raised, lost, log, outbox>>
  BY DEF Take, chat, storage
<1>2. inbound \in Seq(Items)
  BY DEF DeliveryTypeOK
<1>3. /\ inbound' \in Seq(Items) /\ h \in Items /\ 1 \in DOMAIN inbound /\ h = inbound[1]
      /\ \A i \in DOMAIN inbound' :
            i \in Nat /\ i + 1 \in DOMAIN inbound /\ inbound'[i] = inbound[i + 1]
      /\ ToSet(inbound') \subseteq ToSet(inbound) /\ h \in ToSet(inbound)
  BY <1>1, <1>2, TailPoints
<1> HIDE DEF h
<1>4. Come' = Come /\ h \in Come
  BY <1>1, <1>3 DEF Come, QueueInv
<1>5. \A i \in DOMAIN inbound' : inbound'[i] # h
  BY <1>3 DEF QueueInv
<1>6. h \notin ToSet(inbound')
  BY <1>5 DEF ToSet
<1>7. Waiting' \subseteq Waiting /\ h \in Waiting /\ h \notin Waiting'
  BY <1>3, <1>4, <1>6 DEF Waiting
<1>8. Fresh' \subseteq Fresh /\ OpenMessages' \subseteq OpenMessages
  BY <1>1, <1>7 DEF Fresh, OpenMessages
<1>9. DeliveryTypeOK'
  BY <1>1, <1>3 DEF DeliveryTypeOK
<1>10. LifeInv'
  BY <1>1 DEF LifeInv
<1>11. QueueInv'
  <2>1. \A i, j \in DOMAIN inbound' : inbound'[i] = inbound'[j] => i = j
    BY <1>3 DEF QueueInv
  <2> QED
    BY <1>1, <1>3, <1>4, <1>6, <2>1 DEF QueueInv
<1>12. TurnInv'
  <2>1. h # 0
    BY <1>3, Bounds
  <2>2. h \notin interrupted.of
    BY <1>7 DEF TurnInv
  <2> QED
    BY <1>1, <1>7, <2>1, <2>2 DEF TurnInv
<1>13. LogInv'
  BY <1>1, <1>7 DEF LogInv
<1> QED
  BY <1>1, <1>8, <1>9, <1>10, <1>11, <1>12, <1>13, OwedKept, PushKept, LogKept

LEMMA EnterKeepsInv == ASSUME DeliveryInv, NEW old \in BOOLEAN, Enter(old) PROVE DeliveryInv'
<1> USE DEF DeliveryInv
<1>1. /\ up /\ turn.phase = "created"
      /\ UNCHANGED <<up, inLoop, inbound, bus, sending, pushing, left>>
      /\ UNCHANGED <<shown, raised, lost, log, outbox>>
  BY DEF Enter, chat, storage
<1>2. /\ turn \in [phase : {"idle", "created", "reasoning", "persisted"},
                   item : Items \cup {0}, resumed : BOOLEAN]
      /\ active \subseteq Says /\ interrupted \in [of : SUBSET Says, some : BOOLEAN]
  BY DEF DeliveryTypeOK
<1>3. active \cap interrupted.of = {}
  BY <1>1, <1>2 DEF TurnInv
<1>4. \/ /\ turn' = [turn EXCEPT !.phase = "reasoning", !.resumed = TRUE]
         /\ active' = active \cup interrupted.of /\ interrupted' = interrupted
      \/ /\ turn' = [turn EXCEPT !.phase = "reasoning", !.resumed = FALSE]
         /\ active' = active /\ interrupted' \in {interrupted, Nothing}
  BY <1>2 DEF Enter
<1>5. /\ turn' \in [phase : {"idle", "created", "reasoning", "persisted"},
                   item : Items \cup {0}, resumed : BOOLEAN]
      /\ turn'.phase = "reasoning" /\ turn'.item = turn.item
  BY <1>2, <1>4
<1>6. /\ interrupted' \in [of : SUBSET Says, some : BOOLEAN]
      /\ interrupted'.of \subseteq interrupted.of
  <2>1. Nothing \in [of : SUBSET Says, some : BOOLEAN] /\ Nothing.of = {}
    BY DEF Nothing
  <2> QED
    BY <1>2, <1>4, <2>1
<1>7. /\ active' \subseteq Says /\ active \subseteq active'
      /\ active' \subseteq active \cup interrupted.of
  BY <1>2, <1>4
<1>8. IF turn'.resumed THEN interrupted'.of \subseteq active' ELSE active' \cap interrupted'.of = {}
  <2>1. CASE active' = active \cup interrupted.of /\ interrupted' = interrupted
             /\ turn' = [turn EXCEPT !.phase = "reasoning", !.resumed = TRUE]
    BY <1>2, <2>1
  <2>2. CASE turn' = [turn EXCEPT !.phase = "reasoning", !.resumed = FALSE] /\ active' = active
    <3>1. active' \cap interrupted'.of = {}
      BY <1>3, <1>6, <2>2
    <3>2. ~turn'.resumed
      BY <1>2, <2>2
    <3> QED
      BY <3>1, <3>2
  <2> QED
    BY <1>4, <2>1, <2>2
<1>9. Waiting' = Waiting
  BY <1>1 DEF Waiting, Come
<1>10. Fresh' = Fresh
  BY <1>5, <1>9 DEF Fresh
<1>11. OpenMessages' \subseteq OpenMessages
  BY <1>6, <1>7, <1>9 DEF OpenMessages
<1>12. DeliveryTypeOK'
  BY <1>1, <1>5, <1>6, <1>7 DEF DeliveryTypeOK
<1>13. LifeInv'
  BY <1>1 DEF LifeInv
<1>14. QueueInv'
  BY <1>1, <1>5 DEF QueueInv, Come
<1>15. TurnInv'
  BY <1>1, <1>5, <1>6, <1>7, <1>8, <1>9 DEF TurnInv
<1>16. LogInv'
  BY <1>1, <1>5, <1>9 DEF LogInv
<1> QED
  BY <1>1, <1>10, <1>11, <1>12, <1>13, <1>14, <1>15, <1>16, OwedKept, PushKept, LogKept

-------------------------------------------------------------------------------
(* How turns end *)

\* What the end of a turn leaves behind, whatever becomes of its work.
LEMMA TurnIsOver ==
    ASSUME DeliveryInv, TurnEnds, inbound' = inbound, Come' = Come,
           interrupted' \in {interrupted, Nothing, [of |-> active, some |-> TRUE]}
    PROVE  /\ turn' = Idle /\ turn'.phase = "idle" /\ turn'.item = 0 /\ active' = {}
           /\ turn' \in [phase : {"idle", "created", "reasoning", "persisted"},
                         item : Items \cup {0}, resumed : BOOLEAN]
           /\ interrupted' \in [of : SUBSET Says, some : BOOLEAN]
           /\ Waiting' = Waiting /\ Fresh' = Waiting /\ OpenMessages' \subseteq OpenMessages
           /\ QueueInv' /\ TurnInv'
<1> USE DEF DeliveryInv
<1>1. /\ active \subseteq Says /\ interrupted \in [of : SUBSET Says, some : BOOLEAN]
      /\ (active \cup interrupted.of) \cap Waiting = {}
  BY DEF DeliveryTypeOK, TurnInv
<1>2. /\ turn' = Idle /\ turn'.phase = "idle" /\ turn'.item = 0 /\ ~turn'.resumed
      /\ active' = {}
      /\ turn' \in [phase : {"idle", "created", "reasoning", "persisted"},
                    item : Items \cup {0}, resumed : BOOLEAN]
  BY DEF TurnEnds, Idle
<1>3. /\ interrupted' \in [of : SUBSET Says, some : BOOLEAN]
      /\ interrupted'.of \subseteq active \cup interrupted.of
  <2>1. Nothing \in [of : SUBSET Says, some : BOOLEAN] /\ Nothing.of = {}
    BY DEF Nothing
  <2>2. CASE interrupted' = interrupted
    BY <1>1, <2>2
  <2>3. CASE interrupted' = Nothing
    BY <2>1, <2>3
  <2>4. CASE interrupted' = [of |-> active, some |-> TRUE]
    BY <1>1, <2>4
  <2> QED
    BY <2>2, <2>3, <2>4
<1>4. Waiting' = Waiting
  BY DEF Waiting
<1>5. Fresh' = Waiting /\ OpenMessages' \subseteq OpenMessages
  BY <1>2, <1>3, <1>4, Bounds DEF Fresh, OpenMessages
<1>6. QueueInv'
  BY <1>2 DEF QueueInv
<1>7. TurnInv'
  BY <1>1, <1>2, <1>3, <1>4, Bounds DEF TurnInv, Says
<1> QED
  BY <1>2, <1>3, <1>4, <1>5, <1>6, <1>7

\* A turn that ends without a row: the apology of the loop, the end of a command that
\* was told already, and a stop.
LEMMA QuietEndKeepsInv == ASSUME DeliveryInv, Fail \/ AlreadyTold \/ Stop PROVE DeliveryInv'
<1> USE DEF DeliveryInv
<1>1. /\ up /\ TurnEnds /\ UNCHANGED <<up, inLoop, inbound, sending, pushing>>
      /\ UNCHANGED <<shown, raised, lost, log, outbox>>
      /\ bus' = bus \/ bus' = Append(bus, Error)
      /\ interrupted' \in {interrupted, Nothing, [of |-> active, some |-> TRUE]}
  BY DEF Fail, AlreadyTold, Stop, Running, chat, storage
<1>2. /\ left' \in [Budgeted -> Nat] /\ left'["says"] = left["says"]
      /\ left'["done"] = left["done"] /\ left'["pushes"] = left["pushes"]
  <2>1. CASE left' = left
    BY <2>1 DEF DeliveryTypeOK
  <2>2. CASE Spend("stops")
    <3>1. {"says", "done", "pushes"} \subseteq Budgeted \ {"stops"} /\ "stops" \in Budgeted
      BY DEF Budgeted
    <3> QED
      BY <2>2, <3>1, Spending DEF DeliveryTypeOK
  <2> QED
    BY <2>1, <2>2 DEF Fail, AlreadyTold, Stop
<1>3. Come' = Come
  BY <1>2 DEF Come
<1>4. /\ turn' = Idle /\ turn'.phase = "idle" /\ turn'.item = 0 /\ active' = {}
      /\ turn' \in [phase : {"idle", "created", "reasoning", "persisted"},
                    item : Items \cup {0}, resumed : BOOLEAN]
      /\ interrupted' \in [of : SUBSET Says, some : BOOLEAN]
      /\ Waiting' = Waiting /\ Fresh' = Waiting /\ OpenMessages' \subseteq OpenMessages
      /\ QueueInv' /\ TurnInv'
  BY <1>1, <1>3, TurnIsOver
<1>5. /\ bus' \in Seq(Texts)
      /\ \A n \in Items : /\ Reply(n) \in ToSet(bus') => Reply(n) \in ToSet(bus)
                         /\ \A i \in DOMAIN bus' : bus'[i] = Reply(n) =>
                               i \in DOMAIN bus /\ bus[i] = Reply(n)
      /\ \A n \in 1..MaxPushes : Pushed(n) \in ToSet(bus') => Pushed(n) \in ToSet(bus)
  <2>1. CASE bus' = bus
    BY <2>1 DEF DeliveryTypeOK
  <2>2. CASE bus' = Append(bus, Error)
    <3>1. /\ bus' \in Seq(Texts) /\ ToSet(bus') = ToSet(bus) \cup {Error}
          /\ Len(bus) \in Nat /\ DOMAIN bus = 1..Len(bus)
          /\ DOMAIN bus' = 1..(Len(bus) + 1) /\ bus'[Len(bus) + 1] = Error
          /\ \A i \in DOMAIN bus : bus'[i] = bus[i]
      <4>1. bus \in Seq(Texts) /\ Error \in Texts
        BY TextKinds DEF DeliveryTypeOK
      <4> QED
        BY <2>2, <4>1, AppendPoints
    <3> QED
      BY <3>1, TextsDiffer
  <2> QED
    BY <1>1, <2>1, <2>2
<1>6. Fresh' \subseteq Fresh
  BY <1>4 DEF Fresh
<1>7. DeliveryTypeOK'
  BY <1>1, <1>2, <1>4, <1>5 DEF DeliveryTypeOK
<1>8. LifeInv'
  BY <1>1, <1>2 DEF LifeInv
<1>9. LogInv'
  BY <1>1, <1>2, <1>4, Bounds DEF LogInv
<1>10. OwedInv'
  BY <1>1, <1>5, <1>6 DEF OwedInv
<1>11. PushInv'
  BY <1>1, <1>2, <1>5 DEF PushInv
<1> QED
  BY <1>1, <1>4, <1>7, <1>8, <1>9, <1>10, <1>11, LogKept

-------------------------------------------------------------------------------
(* The dispatcher and the channel *)

\* What the dispatcher does concerns the bus, its own hands and the chat only.
LEMMA TurnsUntouched ==
    ASSUME DeliveryInv, UNCHANGED <<inbound, turn, active, interrupted, log, outbox>>,
           left' \in [Budgeted -> Nat], left'["says"] = left["says"],
           left'["done"] = left["done"], left'["pushes"] = left["pushes"]
    PROVE  /\ Fresh' = Fresh /\ QueueInv' /\ TurnInv' /\ LogInv' /\ ClosedInv'
           /\ LoggedTwiceOnlyAcross' /\ AnsweredOnce'
<1> USE DEF DeliveryInv
<1>1. Come' = Come /\ Waiting' = Waiting
  BY DEF Come, Waiting
<1>2. Fresh' = Fresh /\ OpenMessages' = OpenMessages
  BY <1>1 DEF Fresh, OpenMessages
<1>3. QueueInv' /\ TurnInv' /\ LogInv'
  BY <1>1 DEF QueueInv, TurnInv, LogInv
<1>4. ClosedInv' /\ LoggedTwiceOnlyAcross' /\ AnsweredOnce'
  BY <1>2 DEF ClosedInv, LoggedTwiceOnlyAcross, AnsweredOnce
<1> QED
  BY <1>2, <1>3, <1>4

LEMMA SendNextKeepsInv == ASSUME DeliveryInv, SendNext PROVE DeliveryInv'
<1> USE DEF DeliveryInv
<1> DEFINE h == Head(bus)
<1>1. /\ up /\ sending = Quiet /\ bus # <<>> /\ bus' = Tail(bus)
      /\ sending' = [text |-> h, left |-> 2]
      /\ UNCHANGED <<up, inLoop, inbound, turn, active, interrupted, pushing, left>>
      /\ UNCHANGED <<shown, raised, lost, log, outbox>>
  BY DEF SendNext, chat, storage
<1>2. bus \in Seq(Texts)
  BY DEF DeliveryTypeOK
<1>3. /\ bus' \in Seq(Texts) /\ h \in Texts /\ 1 \in DOMAIN bus /\ h = bus[1]
      /\ \A i \in DOMAIN bus' : i \in Nat /\ i + 1 \in DOMAIN bus /\ bus'[i] = bus[i + 1]
      /\ ToSet(bus') \subseteq ToSet(bus) /\ h \in ToSet(bus)
  BY <1>1, <1>2, TailPoints
<1> HIDE DEF h
<1>4. /\ Fresh' = Fresh /\ QueueInv' /\ TurnInv' /\ LogInv' /\ ClosedInv'
      /\ LoggedTwiceOnlyAcross' /\ AnsweredOnce'
  BY <1>1, TurnsUntouched DEF DeliveryTypeOK
<1>5. DeliveryTypeOK' /\ LifeInv'
  <2>1. LifeInv'
    BY <1>1 DEF LifeInv
  <2>2. sending' \in [text : Texts, left : 0..2]
    BY <1>1, <1>3
  <2>3. DeliveryTypeOK'
    BY <1>1, <1>3, <2>2 DEF DeliveryTypeOK
  <2> QED
    BY <2>1, <2>3
<1>6. OwedInv'
  <2> SUFFICES ASSUME NEW n \in Items
               PROVE  LET t == Reply(n) IN
                      /\ n \in Fresh => t \notin ToSet(bus') /\ h # t
                      /\ t \in ToSet(bus') => h # t /\ shown[t] = 0
                      /\ h = t => shown[t] <= raised[t]
                      /\ \A i, j \in DOMAIN bus' : bus'[i] = t /\ bus'[j] = t => i = j
                      /\ \A i \in DOMAIN log : log[i].text = t /\ outbox[i] = "pending" =>
                            t \notin ToSet(bus') /\ h # t
    BY <1>1, <1>4 DEF OwedInv
  <2> DEFINE t == Reply(n)
  <2>1. /\ n \in Fresh => t \notin ToSet(bus)
        /\ t \in ToSet(bus) => shown[t] = 0
        /\ \A i, j \in DOMAIN bus : bus[i] = t /\ bus[j] = t => i = j
        /\ \A i \in DOMAIN log : log[i].text = t /\ outbox[i] = "pending" => t \notin ToSet(bus)
    BY DEF OwedInv
  <2>2. raised[t] \in Nat
    BY TextKinds DEF DeliveryTypeOK
  <2> HIDE DEF t
  <2>3. \A i, j \in DOMAIN bus' : bus'[i] = t /\ bus'[j] = t => i = j
    BY <1>3, <2>1
  <2>4. t \in ToSet(bus') => h # t
    <3>1. \A i \in DOMAIN bus' : bus'[i] = t => h # t
      BY <1>3, <2>1
    <3> QED
      BY <3>1 DEF ToSet
  <2> QED
    BY <1>3, <2>1, <2>2, <2>3, <2>4 DEF t
<1>7. PushInv'
  BY <1>1, <1>3 DEF PushInv
<1>8. ShownOnce'
  BY <1>1 DEF ShownOnce
<1> QED
  BY <1>4, <1>5, <1>6, <1>7, <1>8

LEMMA SentKeepsInv == ASSUME DeliveryInv, Sent PROVE DeliveryInv'
<1> USE DEF DeliveryInv
<1>1. /\ up /\ sending' = Quiet /\ shown' = [shown EXCEPT ![sending.text] = @ + 1]
      /\ UNCHANGED <<up, inLoop, inbound, turn, active, interrupted, bus, pushing, left>>
      /\ UNCHANGED <<raised, lost, log, outbox>>
  BY DEF Sent, storage
<1>2. /\ sending \in [text : Texts, left : 0..2] /\ shown \in [Texts -> Nat]
      /\ raised \in [Texts -> Nat]
  BY DEF DeliveryTypeOK
<1>3. /\ shown' \in [Texts -> Nat] /\ sending'.text = Notice
      /\ sending' \in [text : Texts, left : 0..2]
      /\ shown'[sending.text] = shown[sending.text] + 1
      /\ \A t \in Texts \ {sending.text} : shown'[t] = shown[t]
  BY <1>1, <1>2, TextKinds DEF Quiet
<1>4. /\ Fresh' = Fresh /\ QueueInv' /\ TurnInv' /\ LogInv' /\ ClosedInv'
      /\ LoggedTwiceOnlyAcross' /\ AnsweredOnce'
  BY <1>1, TurnsUntouched DEF DeliveryTypeOK
<1>5. DeliveryTypeOK' /\ LifeInv'
  BY <1>1, <1>3 DEF DeliveryTypeOK, LifeInv
<1>6. OwedInv'
  BY <1>1, <1>3, <1>4, TextKinds, TextsDiffer DEF OwedInv
<1>7. PushInv'
  BY <1>1, <1>3, TextKinds, TextsDiffer DEF PushInv
<1>8. ShownOnce'
  <2>1. ASSUME NEW t \in Texts \ {Error, Notice} PROVE shown'[t] <= 1 + raised'[t]
    <3>1. shown[t] <= 1 + raised[t] /\ shown[t] \in Nat /\ raised[t] \in Nat
      BY <1>2 DEF ShownOnce
    <3>2. CASE t = sending.text
      <4>1. \A n \in Items : t = Reply(n) => shown[t] <= raised[t]
        BY <3>2 DEF OwedInv
      <4>2. \A n \in 1..MaxPushes : t # Pushed(n)
        BY <3>2 DEF PushInv
      <4>3. shown[t] <= raised[t]
        BY <4>1, <4>2, TextKinds
      <4> QED
        BY <1>1, <1>3, <3>1, <3>2, <4>3
    <3> QED
      BY <1>1, <1>3, <3>1, <3>2
  <2> QED
    BY <2>1 DEF ShownOnce
<1> QED
  BY <1>4, <1>5, <1>6, <1>7, <1>8

LEMMA RaisesKeepsInv == ASSUME DeliveryInv, NEW seen \in BOOLEAN, Raises(seen) PROVE DeliveryInv'
<1> USE DEF DeliveryInv
<1>1. /\ up /\ Spend("raises") /\ sending' = AfterRaise
      /\ raised' = [raised EXCEPT ![sending.text] = @ + 1]
      /\ shown' = shown \/ shown' = [shown EXCEPT ![sending.text] = @ + 1]
      /\ UNCHANGED <<up, inLoop, inbound, turn, active, interrupted, bus, pushing>>
      /\ UNCHANGED <<lost, log, outbox>>
  BY DEF Raises, storage
<1>2. /\ sending \in [text : Texts, left : 0..2] /\ shown \in [Texts -> Nat]
      /\ raised \in [Texts -> Nat]
  BY DEF DeliveryTypeOK
<1>3. /\ left' \in [Budgeted -> Nat] /\ left'["says"] = left["says"]
      /\ left'["done"] = left["done"] /\ left'["pushes"] = left["pushes"]
  <2>1. {"says", "done", "pushes"} \subseteq Budgeted \ {"raises"} /\ "raises" \in Budgeted
    BY DEF Budgeted
  <2> QED
    BY <1>1, <2>1, Spending DEF DeliveryTypeOK
<1>4. /\ sending' \in [text : Texts, left : 0..2]
      /\ sending'.text = sending.text \/ sending'.text = Notice
  BY <1>1, <1>2, TextKinds DEF AfterRaise, Quiet
<1>5. /\ shown' \in [Texts -> Nat] /\ raised' \in [Texts -> Nat]
      /\ raised'[sending.text] = raised[sending.text] + 1
      /\ shown'[sending.text] <= shown[sending.text] + 1
      /\ \A t \in Texts \ {sending.text} : shown'[t] = shown[t] /\ raised'[t] = raised[t]
  BY <1>1, <1>2
<1>6. /\ Fresh' = Fresh /\ QueueInv' /\ TurnInv' /\ LogInv' /\ ClosedInv'
      /\ LoggedTwiceOnlyAcross' /\ AnsweredOnce'
  BY <1>1, <1>3, TurnsUntouched
<1>7. DeliveryTypeOK' /\ LifeInv'
  BY <1>1, <1>3, <1>4, <1>5 DEF DeliveryTypeOK, LifeInv
<1>8. OwedInv'
  <2> SUFFICES ASSUME NEW n \in Items
               PROVE  LET t == Reply(n) IN
                      /\ n \in Fresh => t \notin ToSet(bus) /\ sending'.text # t /\ shown'[t] = 0
                      /\ t \in ToSet(bus) => sending'.text # t /\ shown'[t] = 0
                      /\ sending'.text = t => shown'[t] <= raised'[t]
                      /\ \A i, j \in DOMAIN bus : bus[i] = t /\ bus[j] = t => i = j
                      /\ \A i \in DOMAIN log : log[i].text = t /\ outbox[i] = "pending" =>
                            /\ t \notin ToSet(bus) /\ sending'.text # t /\ shown'[t] = 0
                            /\ \A j \in DOMAIN log :
                                  log[j].text = t /\ outbox[j] = "pending" => i = j
    BY <1>1, <1>6 DEF OwedInv
  <2> DEFINE t == Reply(n)
  <2>1. t \in Texts /\ t # Notice
    BY TextKinds, TextsDiffer
  <2>2. shown[t] \in Nat /\ raised[t] \in Nat /\ shown'[t] \in Nat /\ raised'[t] \in Nat
    BY <1>2, <1>5, <2>1
  <2>3. CASE sending.text = t
    <3>1. /\ n \notin Fresh /\ t \notin ToSet(bus) /\ shown[t] <= raised[t]
          /\ \A i, j \in DOMAIN bus : bus[i] = t /\ bus[j] = t => i = j
          /\ \A i \in DOMAIN log : ~(log[i].text = t /\ outbox[i] = "pending")
      BY <2>3 DEF OwedInv
    <3>2. shown'[t] <= raised'[t]
      BY <1>5, <2>2, <2>3, <3>1
    <3> QED
      BY <3>1, <3>2
  <2>4. CASE sending.text # t
    <3>1. sending'.text # t /\ shown'[t] = shown[t] /\ raised'[t] = raised[t]
      BY <1>4, <1>5, <2>1, <2>4
    <3> QED
      BY <3>1 DEF OwedInv
  <2> QED
    BY <2>3, <2>4
<1>9. PushInv'
  <2>1. \A n \in 1..MaxPushes : /\ sending'.text # Pushed(n)
                                /\ shown'[Pushed(n)] = shown[Pushed(n)]
    BY <1>4, <1>5, TextKinds, TextsDiffer DEF PushInv
  <2> QED
    BY <1>1, <1>3, <2>1 DEF PushInv
<1>10. ShownOnce'
  <2>1. ASSUME NEW t \in Texts \ {Error, Notice} PROVE shown'[t] <= 1 + raised'[t]
    <3>1. /\ shown[t] <= 1 + raised[t] /\ shown[t] \in Nat /\ raised[t] \in Nat
          /\ shown'[t] \in Nat /\ raised'[t] \in Nat
      BY <1>2, <1>5 DEF ShownOnce
    <3> QED
      BY <1>5, <3>1
  <2> QED
    BY <2>1 DEF ShownOnce
<1> QED
  BY <1>6, <1>7, <1>8, <1>9, <1>10

LEMMA PushEndsKeepsInv ==
    ASSUME DeliveryInv, NEW text \in pushing, NEW ok \in BOOLEAN, PushEnds(text, ok)
    PROVE  DeliveryInv'
<1> USE DEF DeliveryInv
<1>1. /\ up /\ pushing' = pushing \ {text}
      /\ shown' = shown \/ shown' = [shown EXCEPT ![text] = @ + 1]
      /\ UNCHANGED <<up, inLoop, inbound, turn, active, interrupted, bus, sending, left>>
      /\ UNCHANGED <<raised, lost, log, outbox>>
  BY DEF PushEnds, storage
<1>2. shown \in [Texts -> Nat] /\ raised \in [Texts -> Nat] /\ text \in Texts
  BY DEF DeliveryTypeOK
<1>3. PICK m \in 1..MaxPushes : text = Pushed(m)
  BY DEF PushInv
<1>4. /\ shown[text] = 0 /\ m <= MaxPushes - left["pushes"]
  <2>1. left["pushes"] \in Nat /\ m \in Nat
    BY DEF DeliveryTypeOK, Budgeted
  <2> QED
    BY <1>3, <2>1, Bounds DEF PushInv
<1>5. /\ shown' \in [Texts -> Nat] /\ shown'[text] <= 1
      /\ \A t \in Texts \ {text} : shown'[t] = shown[t]
  BY <1>1, <1>2, <1>4
<1>6. /\ Fresh' = Fresh /\ QueueInv' /\ TurnInv' /\ LogInv' /\ ClosedInv'
      /\ LoggedTwiceOnlyAcross' /\ AnsweredOnce'
  BY <1>1, TurnsUntouched DEF DeliveryTypeOK
<1>7. DeliveryTypeOK' /\ LifeInv'
  BY <1>1, <1>5 DEF DeliveryTypeOK, LifeInv
<1>8. OwedInv'
  <2>1. \A n \in Items : shown'[Reply(n)] = shown[Reply(n)]
    BY <1>3, <1>5, TextKinds, TextsDiffer
  <2> QED
    BY <1>1, <1>6, <2>1 DEF OwedInv
<1>9. PushInv'
  <2>1. \A n \in 1..MaxPushes : n # m => shown'[Pushed(n)] = shown[Pushed(n)]
    BY <1>3, <1>5, TextKinds, TextsDiffer
  <2>2. ~(m > MaxPushes - left["pushes"])
    BY <1>4, Bounds DEF DeliveryTypeOK, Budgeted
  <2> QED
    BY <1>1, <1>3, <2>1, <2>2 DEF PushInv
<1>10. ShownOnce'
  BY <1>1, <1>2, <1>5 DEF ShownOnce
<1> QED
  BY <1>6, <1>7, <1>8, <1>9, <1>10

-------------------------------------------------------------------------------
(* The log and the outbox *)

RowType == [text : Texts, of : SUBSET Says]
OutboxStatus == {"none", "pending", "sending", "sent"}

\* The log and the outbox have one index.
LEMMA OneIndex ==
    ASSUME DeliveryTypeOK
    PROVE  /\ Len(log) \in Nat /\ DOMAIN log = 1..Len(log) /\ DOMAIN outbox = DOMAIN log
           /\ Len(outbox) = Len(log) /\ log \in Seq(RowType) /\ outbox \in Seq(OutboxStatus)
           /\ \A i \in DOMAIN log : log[i] \in RowType /\ outbox[i] \in OutboxStatus
<1>1. log \in Seq(RowType) /\ outbox \in Seq(OutboxStatus) /\ Len(outbox) = Len(log)
  BY DEF DeliveryTypeOK, RowType, OutboxStatus
<1>2. Len(log) \in Nat /\ DOMAIN log = 1..Len(log) /\ DOMAIN outbox = 1..Len(outbox)
  BY <1>1, LenProperties
<1> QED
  BY <1>1, <1>2, ElementOfSeq

\* A row comes after all others.
LEMMA RowAdded ==
    ASSUME DeliveryTypeOK, NEW row \in RowType, NEW st \in OutboxStatus,
           log' = Append(log, row), outbox' = Append(outbox, st)
    PROVE  /\ log' \in Seq(RowType) /\ outbox' \in Seq(OutboxStatus)
           /\ Len(outbox') = Len(log') /\ Len(log') = Len(log) + 1 /\ Len(log') \notin DOMAIN log
           /\ DOMAIN log' = DOMAIN log \cup {Len(log')}
           /\ \A i \in DOMAIN log : log'[i] = log[i] /\ outbox'[i] = outbox[i] /\ i < Len(log')
           /\ log'[Len(log')] = row /\ outbox'[Len(log')] = st
<1>1. /\ log' \in Seq(RowType) /\ Len(log') = Len(log) + 1 /\ Len(log) \in Nat
      /\ DOMAIN log = 1..Len(log) /\ DOMAIN log' = 1..(Len(log) + 1)
      /\ \A i \in DOMAIN log : log'[i] = log[i]
      /\ log'[Len(log) + 1] = row
  BY OneIndex, AppendPoints
<1>2. /\ outbox' \in Seq(OutboxStatus) /\ Len(outbox') = Len(log) + 1
      /\ \A i \in DOMAIN log : outbox'[i] = outbox[i]
      /\ outbox'[Len(log) + 1] = st
  BY OneIndex, AppendPoints
<1> QED
  BY <1>1, <1>2

\* The row of a text after the port has written it: the last one of the log, written
\* before or now.
Written(text) ==
    LET last == Len(log') IN
    /\ log' \in Seq(RowType) /\ outbox' \in Seq(OutboxStatus) /\ Len(outbox') = Len(log')
    /\ DOMAIN log' = DOMAIN log \cup {last} /\ last \in DOMAIN log' /\ last \in Nat
    /\ log'[last].text = text
    /\ \A i \in DOMAIN log : log'[i] = log[i] /\ (i # last => i < last)
    /\ \A i \in DOMAIN log \ {last} : outbox'[i] = outbox[i]
    /\ last \notin DOMAIN log =>
          /\ log'[last].of = {}
          /\ \A i \in DOMAIN log : log[i].text = text =>
                \E k \in DOMAIN log : i < k /\ log[k].text # text

\* What LoggedFor and the outbox do together.
LEMMA PortWrites ==
    ASSUME DeliveryTypeOK, NEW text \in Texts, log' = LoggedFor(text),
           \/ /\ Len(log') > Len(outbox)
              /\ \E st \in OutboxStatus : outbox' = Append(outbox, st)
           \/ /\ Len(log') = Len(outbox)
              /\ \E st \in OutboxStatus : outbox' = [outbox EXCEPT ![Len(log')] = st]
    PROVE  Written(text)
<1>1. /\ Len(log) \in Nat /\ DOMAIN log = 1..Len(log) /\ DOMAIN outbox = DOMAIN log
      /\ Len(outbox) = Len(log) /\ log \in Seq(RowType) /\ outbox \in Seq(OutboxStatus)
  BY OneIndex
<1>2. CASE log # <<>> /\ log[Len(log)].text = text
  <2>1. log' = log /\ Len(log) # 0 /\ Len(log) \in DOMAIN log
    BY <1>1, <1>2, EmptySeq DEF LoggedFor, Last
  <2>2. PICK st \in OutboxStatus : outbox' = [outbox EXCEPT ![Len(log)] = st]
    BY <1>1, <2>1
  <2>3. /\ outbox' \in Seq(OutboxStatus) /\ Len(outbox') = Len(log)
        /\ \A i \in DOMAIN log \ {Len(log)} : outbox'[i] = outbox[i]
    <3>1. outbox \in Seq(OutboxStatus) /\ Len(log) \in DOMAIN outbox
      BY <1>1, <2>1
    <3>2. /\ outbox' \in Seq(OutboxStatus) /\ Len(outbox') = Len(outbox)
          /\ \A i \in DOMAIN outbox \ {Len(log)} : outbox'[i] = outbox[i]
      BY <2>2, <3>1, ExceptSeq
    <3> QED
      BY <1>1, <3>2
  <2>4. \A i \in DOMAIN log : i # Len(log) => i < Len(log)
    BY <1>1
  <2>5. log'[Len(log)].text = text
    BY <1>2, <2>1
  <2> QED
    BY <1>1, <2>1, <2>3, <2>4, <2>5 DEF Written
<1>3. CASE ~(log # <<>> /\ log[Len(log)].text = text)
  <2> DEFINE row == [text |-> text, of |-> {}]
  <2>1. log' = Append(log, row) /\ row \in RowType
    BY <1>3 DEF LoggedFor, Last, RowType
  <2> HIDE DEF row
  <2>2. Len(log') = Len(log) + 1
    <3>1. log \in Seq(RowType) /\ row \in RowType
      BY <1>1, <2>1
    <3> QED
      BY <2>1, <3>1, AppendPoints
  <2>3. PICK st \in OutboxStatus : outbox' = Append(outbox, st)
    <3> DEFINE l == Len(log)
               l1 == Len(log')
    <3>1. l \in Nat /\ Len(outbox) = l /\ l1 = l + 1
      BY <1>1, <2>2
    <3> HIDE DEF l, l1
    <3>2. l1 > Len(outbox) /\ l1 # Len(outbox)
      BY <3>1
    <3>3. Len(log') > Len(outbox) /\ Len(log') # Len(outbox)
      BY <3>2 DEF l1
    <3> QED
      BY <3>3
  <2>4. \A i \in DOMAIN log : log[i].text = text =>
            \E k \in DOMAIN log : i < k /\ log[k].text # text
    <3>1. ASSUME NEW i \in DOMAIN log, log[i].text = text
          PROVE  i < Len(log) /\ Len(log) \in DOMAIN log /\ log[Len(log)].text # text
      <4>1. log # <<>>
        BY <3>1
      <4> QED
        BY <1>1, <1>3, <3>1, <4>1
    <3> QED
      BY <3>1
  <2>5. /\ log' \in Seq(RowType) /\ outbox' \in Seq(OutboxStatus)
        /\ Len(outbox') = Len(log') /\ Len(log') = Len(log) + 1 /\ Len(log') \notin DOMAIN log
        /\ DOMAIN log' = DOMAIN log \cup {Len(log')}
        /\ \A i \in DOMAIN log : log'[i] = log[i] /\ outbox'[i] = outbox[i] /\ i < Len(log')
        /\ log'[Len(log')] = row
    BY <2>1, <2>3, RowAdded
  <2>6. row.text = text /\ row.of = {}
    BY DEF row
  <2>7. Len(log') \in DOMAIN log' /\ Len(log') \in Nat
    BY <2>5, LenProperties
  <2>8. log'[Len(log')].text = text /\ log'[Len(log')].of = {}
    BY <2>5, <2>6
  <2> QED
    BY <2>4, <2>5, <2>7, <2>8 DEF Written
<1> QED
  BY <1>2, <1>3

\* A first row of a text that is not yet in the outbox reopens nothing.
LEMMA FirstRow ==
    ASSUME DeliveryInv, NEW row \in RowType, log' = Append(log, row),
           outbox' = Append(outbox, "none"), \A i \in DOMAIN log : log[i].text # row.text,
           row.of \subseteq OpenMessages, OpenMessages' \subseteq OpenMessages,
           Fresh' \subseteq Fresh, UNCHANGED <<bus, sending, shown, raised>>
    PROVE  /\ OwedInv' /\ ClosedInv' /\ ShownOnce' /\ LoggedTwiceOnlyAcross' /\ AnsweredOnce'
<1> USE DEF DeliveryInv
<1> DEFINE last == Len(log')
<1>1. /\ DOMAIN log' = DOMAIN log \cup {last} /\ last \notin DOMAIN log
      /\ \A i \in DOMAIN log : log'[i] = log[i] /\ outbox'[i] = outbox[i] /\ i < last
      /\ log'[last] = row /\ outbox'[last] = "none"
  BY RowAdded DEF OutboxStatus
<1>2. DOMAIN log = 1..Len(log) /\ Len(log) \in Nat /\ last = Len(log) + 1
  <2>1. "none" \in OutboxStatus
    BY DEF OutboxStatus
  <2> QED
    BY <2>1, OneIndex, RowAdded
<1> HIDE DEF last
<1>3. OwedInv'
  <2>1. \A i \in DOMAIN log' : outbox'[i] = "pending" =>
            i \in DOMAIN log /\ outbox[i] = "pending" /\ log'[i] = log[i]
    BY <1>1
  <2>2. \A n \in Items, i \in DOMAIN log' :
            log'[i].text = Reply(n) /\ outbox'[i] = "pending" =>
              /\ Reply(n) \notin ToSet(bus) /\ sending.text # Reply(n) /\ shown[Reply(n)] = 0
              /\ \A j \in DOMAIN log' :
                    log'[j].text = Reply(n) /\ outbox'[j] = "pending" => i = j
    <3> SUFFICES ASSUME NEW n \in Items, NEW i \in DOMAIN log',
                        log'[i].text = Reply(n), outbox'[i] = "pending"
                 PROVE  /\ Reply(n) \notin ToSet(bus) /\ sending.text # Reply(n)
                        /\ shown[Reply(n)] = 0
                        /\ \A j \in DOMAIN log' :
                              log'[j].text = Reply(n) /\ outbox'[j] = "pending" => i = j
      OBVIOUS
    <3>1. i \in DOMAIN log /\ outbox[i] = "pending" /\ log[i].text = Reply(n)
      BY <2>1
    <3>2. /\ Reply(n) \notin ToSet(bus) /\ sending.text # Reply(n) /\ shown[Reply(n)] = 0
          /\ \A j \in DOMAIN log :
                log[j].text = Reply(n) /\ outbox[j] = "pending" => i = j
      BY <3>1 DEF OwedInv
    <3> QED
      BY <2>1, <3>2
  <2>3. /\ bus' = bus /\ sending' = sending /\ shown' = shown /\ raised' = raised
        /\ Fresh' \subseteq Fresh
    OBVIOUS
  <2> QED
    BY <2>2, <2>3 DEF OwedInv
<1>4. ClosedInv'
  <2> SUFFICES ASSUME NEW i \in DOMAIN log', NEW k \in DOMAIN log',
                      log'[i].text = log'[k].text, outbox'[k] # "none"
               PROVE  log'[i].of \cap OpenMessages' = {}
    BY DEF ClosedInv
  <2>1. k \in DOMAIN log /\ outbox[k] # "none" /\ log'[k] = log[k]
    BY <1>1
  <2>2. i \in DOMAIN log /\ log'[i] = log[i]
    BY <1>1, <2>1
  <2>3. log[i].of \cap OpenMessages = {}
    BY <2>1, <2>2 DEF ClosedInv
  <2> QED
    BY <2>2, <2>3
<1>5. LoggedTwiceOnlyAcross'
  <2> SUFFICES ASSUME NEW i \in DOMAIN log', NEW j \in DOMAIN log',
                      i < j, log'[i].text = log'[j].text, log'[i].text # Error
               PROVE  \E k \in i..j : log'[k].text # log'[i].text
    BY DEF LoggedTwiceOnlyAcross
  <2>1. i \in DOMAIN log /\ j \in DOMAIN log
    BY <1>1, <1>2
  <2>2. PICK k \in i..j : log[k].text # log[i].text
    BY <1>1, <2>1 DEF LoggedTwiceOnlyAcross
  <2>3. k \in DOMAIN log
    BY <1>2, <2>1
  <2> QED
    BY <1>1, <2>1, <2>2, <2>3
<1>6. AnsweredOnce'
  <2> SUFFICES ASSUME NEW i \in DOMAIN log', NEW j \in DOMAIN log', i < j,
                      log'[i].of \cap log'[j].of # {}, log'[i].text # log'[j].text,
                      NEW k \in DOMAIN log', log'[k].text = log'[i].text
               PROVE  outbox'[k] = "none"
    BY DEF AnsweredOnce
  <2>1. CASE k = last
    BY <1>1, <2>1
  <2>2. CASE k # last
    <3>1. k \in DOMAIN log /\ i \in DOMAIN log /\ log[k].text = log[i].text
          /\ log'[i] = log[i] /\ outbox'[k] = outbox[k]
      BY <1>1, <1>2, <2>2
    <3>2. CASE j = last
      <4>1. log[i].of \cap OpenMessages # {}
        BY <1>1, <3>1, <3>2
      <4> QED
        BY <3>1, <4>1 DEF ClosedInv
    <3>3. CASE j # last
      <4>1. j \in DOMAIN log /\ log'[j] = log[j]
        BY <1>1, <3>3
      <4> QED
        BY <3>1, <4>1 DEF AnsweredOnce
    <3> QED
      BY <3>2, <3>3
  <2> QED
    BY <2>1, <2>2
<1>7. ShownOnce'
  BY DEF ShownOnce
<1> QED
  BY <1>3, <1>4, <1>5, <1>6, <1>7

LEMMA PersistKeepsInv == ASSUME DeliveryInv, Persist PROVE DeliveryInv'
<1> USE DEF DeliveryInv
<1> DEFINE row == [text |-> Reply(turn.item), of |-> active]
<1>1. /\ up /\ turn.phase = "reasoning" /\ log' = Append(log, row)
      /\ outbox' = Append(outbox, "none") /\ turn' = [turn EXCEPT !.phase = "persisted"]
      /\ UNCHANGED <<up, inLoop, inbound, active, interrupted, bus, sending, pushing, left>>
      /\ UNCHANGED <<shown, raised, lost>>
  BY DEF Persist, chat
<1>2. /\ turn \in [phase : {"idle", "created", "reasoning", "persisted"},
                   item : Items \cup {0}, resumed : BOOLEAN]
      /\ active \subseteq Says /\ turn.item \in Items
  BY <1>1 DEF DeliveryTypeOK, TurnInv
<1>3. /\ turn' \in [phase : {"idle", "created", "reasoning", "persisted"},
                   item : Items \cup {0}, resumed : BOOLEAN]
      /\ turn'.phase = "persisted" /\ turn'.item = turn.item /\ turn'.resumed = turn.resumed
  BY <1>1, <1>2
<1>4. row \in RowType /\ row.text = Reply(turn.item) /\ row.of = active
  BY <1>2, TextKinds DEF RowType
<1> HIDE DEF row
<1>5. \A i \in DOMAIN log : log[i].text # row.text
  BY <1>1, <1>2, <1>4 DEF LogInv
<1>6. Waiting' = Waiting
  BY <1>1 DEF Waiting, Come
<1>7. Fresh' = Fresh /\ OpenMessages' = OpenMessages /\ active \subseteq OpenMessages
  BY <1>1, <1>3, <1>6 DEF Fresh, OpenMessages
<1>8. OwedInv' /\ ClosedInv' /\ ShownOnce' /\ LoggedTwiceOnlyAcross' /\ AnsweredOnce'
  BY <1>1, <1>4, <1>5, <1>7, FirstRow
<1>9. /\ log' \in Seq(RowType) /\ outbox' \in Seq(OutboxStatus) /\ Len(outbox') = Len(log')
      /\ Len(log') \notin DOMAIN log /\ DOMAIN log' = DOMAIN log \cup {Len(log')}
      /\ \A i \in DOMAIN log : log'[i] = log[i] /\ outbox'[i] = outbox[i] /\ i < Len(log')
      /\ log'[Len(log')] = row /\ outbox'[Len(log')] = "none"
  <2>1. "none" \in OutboxStatus
    BY DEF OutboxStatus
  <2> QED
    BY <1>1, <1>4, <2>1, RowAdded
<1>10. DeliveryTypeOK'
  BY <1>1, <1>3, <1>9 DEF DeliveryTypeOK, RowType, OutboxStatus
<1>11. LifeInv'
  BY <1>1 DEF LifeInv
<1>12. QueueInv' /\ TurnInv'
  BY <1>1, <1>3, <1>6 DEF QueueInv, TurnInv, Come
<1>13. LogInv'
  <2> DEFINE last == Len(log')
  <2>1. /\ DOMAIN log' = DOMAIN log \cup {last} /\ last \notin DOMAIN log
        /\ \A i \in DOMAIN log : log'[i] = log[i] /\ outbox'[i] = outbox[i] /\ i < last
        /\ log'[last] = row /\ outbox'[last] = "none"
    BY <1>9
  <2>2. last \in Nat
    BY <1>9, LenProperties
  <2> HIDE DEF last
  <2>3. turn.item \notin Waiting
    BY <1>2, Bounds DEF Waiting, QueueInv
  <2>4. \A j \in DOMAIN log' : ~(last < j)
    <3>1. \A j \in DOMAIN log : j \in Nat
      BY OneIndex
    <3> QED
      BY <2>1, <2>2, <3>1
  <2>5. /\ turn'.phase = "persisted" /\ turn'.item = turn.item /\ Waiting' = Waiting
        /\ active' = active /\ left' = left
    BY <1>1, <1>3, <1>6
  <2> SUFFICES ASSUME NEW i \in DOMAIN log'
               PROVE  /\ \A n \in Items : log'[i].text = Reply(n) =>
                            /\ n \notin Waiting
                            /\ turn.item = n =>
                                  /\ outbox'[i] = "none" /\ log'[i].of \subseteq active
                                  /\ \A j \in DOMAIN log' : i < j => log'[j].of = {}
                      /\ \A n \in 1..MaxPushes : log'[i].text = Pushed(n) =>
                            n <= MaxPushes - left["pushes"] /\ outbox'[i] = "none"
                      /\ log'[i].text = Error => log'[i].of = {}
    BY <2>5 DEF LogInv
  <2>6. CASE i = last
    BY <1>4, <2>1, <2>3, <2>4, <2>6, TextsDiffer
  <2>7. CASE i # last
    <3>1. i \in DOMAIN log /\ log'[i] = log[i] /\ outbox'[i] = outbox[i]
      BY <2>1, <2>7
    <3>2. log[i].text # Reply(turn.item)
      BY <1>4, <1>5, <3>1
    <3> QED
      BY <3>1, <3>2 DEF LogInv
  <2> QED
    BY <2>6, <2>7
<1>14. PushInv'
  BY <1>1, PushKept
<1> QED
  BY <1>8, <1>10, <1>11, <1>12, <1>13, <1>14

\* A message that is pushed is one that was never pushed before.
LEMMA NewPush ==
    ASSUME DeliveryInv, Push
    PROVE  \E m \in 1..MaxPushes :
              /\ m > MaxPushes - left["pushes"] /\ left' \in [Budgeted -> Nat]
              /\ left'["says"] = left["says"] /\ left'["done"] = left["done"]
              /\ left'["pushes"] <= MaxPushes
              /\ \A n \in 1..MaxPushes :
                    (n <= MaxPushes - left'["pushes"]) <=> (n <= MaxPushes - left["pushes"] \/ n = m)
              /\ log' = Append(log, [text |-> Pushed(m), of |-> {}])
              /\ outbox' = Append(outbox, "none") /\ pushing' = pushing \cup {Pushed(m)}
<1>1. "pushes" \in Budgeted /\ {"says", "done"} \subseteq Budgeted \ {"pushes"}
  BY DEF Budgeted
<1>2. left \in [Budgeted -> Nat] /\ Spend("pushes") /\ left["pushes"] <= MaxPushes
  BY DEF DeliveryInv, DeliveryTypeOK, LifeInv, Push
<1>3. /\ left' \in [Budgeted -> Nat] /\ left["pushes"] \in Nat /\ left["pushes"] > 0
      /\ left'["pushes"] = left["pushes"] - 1
      /\ left'["says"] = left["says"] /\ left'["done"] = left["done"]
  BY <1>1, <1>2, Spending
<1> DEFINE m == MaxPushes - left'["pushes"]
<1>4. m \in 1..MaxPushes /\ m = MaxPushes - left["pushes"] + 1 /\ left'["pushes"] <= MaxPushes
  BY <1>2, <1>3, Bounds
<1>5. \A n \in 1..MaxPushes :
         (n <= MaxPushes - left'["pushes"]) <=> (n <= MaxPushes - left["pushes"] \/ n = m)
  BY <1>2, <1>3, <1>4, Bounds
<1>6. m > MaxPushes - left["pushes"]
  BY <1>2, <1>3, <1>4, Bounds
<1>7. /\ log' = Append(log, [text |-> Pushed(m), of |-> {}])
      /\ outbox' = Append(outbox, "none") /\ pushing' = pushing \cup {Pushed(m)}
  BY DEF Push
<1> HIDE DEF m
<1> QED
  BY <1>3, <1>4, <1>5, <1>6, <1>7

LEMMA PushKeepsInv == ASSUME DeliveryInv, Push PROVE DeliveryInv'
<1> USE DEF DeliveryInv
<1>1. PICK m \in 1..MaxPushes :
         /\ m > MaxPushes - left["pushes"] /\ left' \in [Budgeted -> Nat]
         /\ left'["says"] = left["says"] /\ left'["done"] = left["done"]
         /\ left'["pushes"] <= MaxPushes
         /\ \A n \in 1..MaxPushes :
               (n <= MaxPushes - left'["pushes"]) <=> (n <= MaxPushes - left["pushes"] \/ n = m)
         /\ log' = Append(log, [text |-> Pushed(m), of |-> {}])
         /\ outbox' = Append(outbox, "none") /\ pushing' = pushing \cup {Pushed(m)}
  BY NewPush
<1> DEFINE row == [text |-> Pushed(m), of |-> {}]
<1>2. /\ up
      /\ UNCHANGED <<up, inLoop, inbound, turn, active, interrupted, bus, sending>>
      /\ UNCHANGED <<shown, raised, lost>>
  BY DEF Push, chat
<1>3. /\ left["pushes"] \in Nat /\ left'["pushes"] \in Nat
      /\ \A n \in 1..MaxPushes : (n > MaxPushes - left["pushes"]) <=> ~(n <= MaxPushes - left["pushes"])
      /\ \A n \in 1..MaxPushes : (n > MaxPushes - left'["pushes"]) <=> ~(n <= MaxPushes - left'["pushes"])
  <2>1. "pushes" \in Budgeted
    BY DEF Budgeted
  <2>2. left["pushes"] \in Nat /\ left'["pushes"] \in Nat
    BY <1>1, <2>1 DEF DeliveryTypeOK
  <2> QED
    BY <2>2, Bounds
<1>4. row \in RowType /\ row.text = Pushed(m) /\ row.of = {}
  BY TextKinds DEF RowType
<1>5. log' = Append(log, row)
  BY <1>1
<1> HIDE DEF row
<1>6. \A i \in DOMAIN log : log[i].text # row.text
  BY <1>1, <1>3, <1>4 DEF LogInv
<1>7. Waiting' = Waiting
  BY <1>1, <1>2 DEF Waiting, Come
<1>8. Fresh' = Fresh /\ OpenMessages' = OpenMessages
  BY <1>2, <1>7 DEF Fresh, OpenMessages
<1>9. OwedInv' /\ ClosedInv' /\ ShownOnce' /\ LoggedTwiceOnlyAcross' /\ AnsweredOnce'
  BY <1>1, <1>2, <1>4, <1>5, <1>6, <1>8, FirstRow
<1>10. /\ log' \in Seq(RowType) /\ outbox' \in Seq(OutboxStatus) /\ Len(outbox') = Len(log')
       /\ Len(log') \notin DOMAIN log /\ DOMAIN log' = DOMAIN log \cup {Len(log')}
       /\ \A i \in DOMAIN log : log'[i] = log[i] /\ outbox'[i] = outbox[i] /\ i < Len(log')
       /\ log'[Len(log')] = row /\ outbox'[Len(log')] = "none"
  <2>1. "none" \in OutboxStatus
    BY DEF OutboxStatus
  <2> QED
    BY <1>1, <1>4, <1>5, <2>1, RowAdded
<1>11. DeliveryTypeOK'
  <2>1. pushing' \subseteq Texts
    BY <1>1, TextKinds DEF DeliveryTypeOK
  <2> QED
    BY <1>1, <1>2, <1>10, <2>1 DEF DeliveryTypeOK, RowType, OutboxStatus
<1>12. LifeInv'
  BY <1>1, <1>2 DEF LifeInv
<1>13. QueueInv' /\ TurnInv'
  BY <1>1, <1>2, <1>7 DEF QueueInv, TurnInv, Come
<1>14. LogInv'
  <2> DEFINE last == Len(log')
  <2>1. /\ DOMAIN log' = DOMAIN log \cup {last} /\ last \notin DOMAIN log
        /\ \A i \in DOMAIN log : log'[i] = log[i] /\ outbox'[i] = outbox[i] /\ i < last
        /\ log'[last] = row /\ outbox'[last] = "none"
    BY <1>10
  <2> HIDE DEF last
  <2>2. /\ turn' = turn /\ Waiting' = Waiting /\ active' = active
    BY <1>2, <1>7
  <2> SUFFICES ASSUME NEW i \in DOMAIN log'
               PROVE  /\ \A n \in Items : log'[i].text = Reply(n) =>
                            /\ n \notin Waiting
                            /\ turn.item = n =>
                                  /\ turn.phase = "persisted"
                                  /\ outbox'[i] = "none" /\ log'[i].of \subseteq active
                                  /\ \A j \in DOMAIN log' : i < j => log'[j].of = {}
                      /\ \A n \in 1..MaxPushes : log'[i].text = Pushed(n) =>
                            n <= MaxPushes - left'["pushes"] /\ outbox'[i] = "none"
                      /\ log'[i].text = Error => log'[i].of = {}
    BY <2>2 DEF LogInv
  <2>3. CASE i = last
    <3>1. log'[i].text = Pushed(m) /\ log'[i].of = {} /\ outbox'[i] = "none"
      BY <1>4, <2>1, <2>3
    <3>2. m <= MaxPushes - left'["pushes"]
      BY <1>1
    <3>3. ASSUME NEW n \in Items PROVE log'[i].text # Reply(n)
      BY <3>1, TextsDiffer
    <3>4. ASSUME NEW n \in 1..MaxPushes, log'[i].text = Pushed(n) PROVE n = m
      BY <3>1, <3>4, TextsDiffer
    <3> QED
      BY <3>1, <3>2, <3>3, <3>4
  <2>4. CASE i # last
    <3>1. i \in DOMAIN log /\ log'[i] = log[i] /\ outbox'[i] = outbox[i]
      BY <2>1, <2>4
    <3>2. \A j \in DOMAIN log' : log'[j].of = {} \/ (j \in DOMAIN log /\ log'[j] = log[j])
      BY <1>4, <2>1
    <3>3. ASSUME NEW n \in Items, log[i].text = Reply(n)
          PROVE  /\ n \notin Waiting
                 /\ turn.item = n =>
                       /\ turn.phase = "persisted"
                       /\ outbox[i] = "none" /\ log[i].of \subseteq active
                       /\ \A j \in DOMAIN log : i < j => log[j].of = {}
      BY <3>1, <3>3 DEF LogInv
    <3>4. ASSUME NEW n \in 1..MaxPushes, log[i].text = Pushed(n)
          PROVE  n <= MaxPushes - left'["pushes"] /\ outbox[i] = "none"
      <4>1. n <= MaxPushes - left["pushes"] /\ outbox[i] = "none"
        BY <3>1, <3>4 DEF LogInv
      <4> QED
        BY <1>1, <4>1
    <3>5. log[i].text = Error => log[i].of = {}
      BY <3>1 DEF LogInv
    <3> QED
      BY <3>1, <3>2, <3>3, <3>4, <3>5
  <2> QED
    BY <2>3, <2>4
<1>15. PushInv'
  <2>1. shown[Pushed(m)] = 0 /\ Pushed(m) \notin pushing
    BY <1>1 DEF PushInv
  <2>2. \A n \in 1..MaxPushes : Pushed(n) \in pushing' => n = m \/ Pushed(n) \in pushing
    BY <1>1, TextsDiffer
  <2>3. \A n \in 1..MaxPushes : n > MaxPushes - left'["pushes"] =>
                                   n # m /\ n > MaxPushes - left["pushes"]
    BY <1>1, <1>3
  <2>4. pushing' \subseteq {Pushed(n) : n \in 1..MaxPushes}
    BY <1>1 DEF PushInv
  <2> QED
    BY <1>2, <2>1, <2>2, <2>3, <2>4 DEF PushInv
<1> QED
  BY <1>9, <1>11, <1>12, <1>13, <1>14, <1>15

\* What a turn writes through the port: the error text, or its own reply again.
PortText(text) ==
    \/ text = Error
    \/ turn.item \in Items /\ turn.phase = "persisted" /\ text = Reply(turn.item)

\* A row of another text is one the log had, with the status it had.
LEMMA OtherRows ==
    ASSUME NEW text, Written(text), NEW i \in DOMAIN log', log'[i].text # text
    PROVE  i \in DOMAIN log /\ i # Len(log') /\ log'[i] = log[i] /\ outbox'[i] = outbox[i]
BY DEF Written

\* A row of the text that is not the last one is not in the outbox, if it is a reply.
LEMMA OwnRows ==
    ASSUME DeliveryInv, NEW text, Written(text), PortText(text)
    PROVE  /\ text \in Texts /\ text # Notice /\ \A n : text # Pushed(n)
           /\ \A i \in DOMAIN log : log[i].text = text =>
                 /\ \A j \in DOMAIN log : i < j => log[i].of \cap log[j].of = {}
                 /\ log[i].of \subseteq active
           /\ \A i \in DOMAIN log' : log'[i].text = text =>
                 /\ log'[i].of \subseteq active
                 /\ text = Error => log'[i].of = {}
                 /\ text # Error /\ i # Len(log') => outbox'[i] = "none"
           /\ \A n \in Items : text = Reply(n) => turn.item = n
<1> USE DEF DeliveryInv
<1>1. CASE text = Error
  <2>1. \A i \in DOMAIN log : log[i].text = text => log[i].of = {}
    BY <1>1 DEF LogInv
  <2>2. \A i \in DOMAIN log' : log'[i].text = text => log'[i].of = {}
    BY <2>1 DEF Written
  <2> QED
    BY <1>1, <2>1, <2>2, TextKinds, TextsDiffer
<1>2. CASE turn.item \in Items /\ turn.phase = "persisted" /\ text = Reply(turn.item)
  <2>1. \A i \in DOMAIN log : log[i].text = text =>
           /\ outbox[i] = "none" /\ log[i].of \subseteq active
           /\ \A j \in DOMAIN log : i < j => log[j].of = {}
    BY <1>2 DEF LogInv
  <2>2. ASSUME NEW i \in DOMAIN log', log'[i].text = text
        PROVE  log'[i].of \subseteq active /\ (i # Len(log') => outbox'[i] = "none")
    <3>1. CASE i \in DOMAIN log
      <4>1. log[i].text = text /\ log'[i] = log[i] /\ (i # Len(log') => outbox'[i] = outbox[i])
        BY <2>2, <3>1 DEF Written
      <4> QED
        BY <2>1, <3>1, <4>1
    <3>2. CASE i \notin DOMAIN log
      <4>1. i = Len(log') /\ log'[i].of = {}
        BY <2>2, <3>2 DEF Written
      <4> QED
        BY <4>1
    <3> QED
      BY <3>1, <3>2
  <2>3. text # Error
    BY <1>2, TextsDiffer
  <2> QED
    BY <1>2, <2>1, <2>2, <2>3, TextKinds, TextsDiffer
<1> QED
  BY <1>1, <1>2 DEF PortText

\* Writing through the port at the end of a turn keeps what the log says.
LEMMA WriteKeepsLog ==
    ASSUME DeliveryInv, NEW text, Written(text), PortText(text), turn' = Idle, active' = {},
           Waiting' \subseteq Waiting, interrupted' \in {Nothing, Consumed},
           left'["pushes"] = left["pushes"]
    PROVE  LogInv' /\ ClosedInv' /\ LoggedTwiceOnlyAcross' /\ AnsweredOnce'
<1> USE DEF DeliveryInv
<1> DEFINE last == Len(log')
<1>1. /\ DOMAIN log' = DOMAIN log \cup {last} /\ last \in DOMAIN log' /\ last \in Nat
      /\ log'[last].text = text
      /\ \A i \in DOMAIN log : log'[i] = log[i] /\ (i # last => i < last)
      /\ \A i \in DOMAIN log \ {last} : outbox'[i] = outbox[i]
      /\ last \notin DOMAIN log =>
            /\ log'[last].of = {}
            /\ \A i \in DOMAIN log : log[i].text = text =>
                  \E k \in DOMAIN log : i < k /\ log[k].text # text
  BY DEF Written
<1>2. /\ text # Notice /\ \A n : text # Pushed(n)
      /\ \A i \in DOMAIN log : log[i].text = text =>
            \A j \in DOMAIN log : i < j => log[i].of \cap log[j].of = {}
      /\ \A i \in DOMAIN log' : log'[i].text = text =>
            log'[i].of \subseteq active /\ (text = Error => log'[i].of = {})
      /\ \A n \in Items : text = Reply(n) => turn.item = n
  BY OwnRows
<1>3. \A i \in DOMAIN log' : log'[i].text # text =>
         i \in DOMAIN log /\ i # last /\ log'[i] = log[i] /\ outbox'[i] = outbox[i]
  BY OtherRows
<1>4. /\ DOMAIN log = 1..Len(log) /\ Len(log) \in Nat
  BY OneIndex
<1> HIDE DEF last
<1>5. /\ active \cap Waiting = {} /\ (turn.item # 0 => turn.item \notin Waiting)
      /\ turn'.item = 0
  <2>1. turn.item # 0 => turn.item \notin Waiting
    BY DEF QueueInv, Waiting
  <2> QED
    BY <2>1 DEF TurnInv, Idle
<1>6. OpenMessages' \subseteq OpenMessages /\ active \cap OpenMessages' = {}
  <2>1. /\ interrupted'.of \subseteq interrupted.of
        /\ active \cap interrupted'.of = {}
    BY DEF Consumed, Nothing, TurnInv
  <2> QED
    BY <1>5, <2>1 DEF OpenMessages
<1>7. LogInv'
  <2> SUFFICES ASSUME NEW i \in DOMAIN log'
               PROVE  /\ \A n \in Items : log'[i].text = Reply(n) => n \notin Waiting' /\ n # 0
                      /\ \A n \in 1..MaxPushes : log'[i].text = Pushed(n) =>
                            n <= MaxPushes - left["pushes"] /\ outbox'[i] = "none"
                      /\ log'[i].text = Error => log'[i].of = {}
    BY <1>5 DEF LogInv
  <2>1. CASE log'[i].text = text
    BY <1>2, <1>5, <2>1, Bounds
  <2>2. CASE log'[i].text # text
    <3>1. i \in DOMAIN log /\ log'[i] = log[i] /\ outbox'[i] = outbox[i]
      BY <1>3, <2>2
    <3> QED
      BY <3>1, Bounds DEF LogInv
  <2> QED
    BY <2>1, <2>2
<1>8. ClosedInv'
  <2> SUFFICES ASSUME NEW i \in DOMAIN log', NEW k \in DOMAIN log',
                      log'[i].text = log'[k].text, outbox'[k] # "none"
               PROVE  log'[i].of \cap OpenMessages' = {}
    BY DEF ClosedInv
  <2>1. CASE log'[i].text = text
    BY <1>2, <1>6, <2>1
  <2>2. CASE log'[i].text # text
    <3>1. /\ i \in DOMAIN log /\ log'[i] = log[i] /\ k \in DOMAIN log /\ log'[k] = log[k]
          /\ outbox'[k] = outbox[k]
      BY <1>3, <2>2
    <3>2. log[i].of \cap OpenMessages = {}
      BY <3>1 DEF ClosedInv
    <3> QED
      BY <1>6, <3>1, <3>2
  <2> QED
    BY <2>1, <2>2
<1>9. LoggedTwiceOnlyAcross'
  <2> SUFFICES ASSUME NEW i \in DOMAIN log', NEW j \in DOMAIN log',
                      i < j, log'[i].text = log'[j].text, log'[i].text # Error
               PROVE  \E k \in i..j : log'[k].text # log'[i].text
    BY DEF LoggedTwiceOnlyAcross
  <2>1. CASE j \in DOMAIN log
    <3>1. i \in DOMAIN log
      BY <1>1, <1>4, <2>1
    <3>2. PICK k \in i..j : log[k].text # log[i].text
      BY <1>1, <2>1, <3>1 DEF LoggedTwiceOnlyAcross
    <3>3. k \in DOMAIN log
      BY <1>4, <2>1, <3>1
    <3> QED
      BY <1>1, <3>1, <3>2, <3>3
  <2>2. CASE j \notin DOMAIN log
    <3>1. j = last /\ i \in DOMAIN log /\ log[i].text = text
      BY <1>1, <2>2
    <3>2. PICK k \in DOMAIN log : i < k /\ log[k].text # text
      BY <1>1, <2>2, <3>1
    <3>3. k \in i..j /\ log'[k].text # log'[i].text
      BY <1>1, <1>4, <2>2, <3>1, <3>2
    <3> QED
      BY <3>3
  <2> QED
    BY <2>1, <2>2
<1>10. AnsweredOnce'
  <2> SUFFICES ASSUME NEW i \in DOMAIN log', NEW j \in DOMAIN log', i < j,
                      log'[i].of \cap log'[j].of # {}, log'[i].text # log'[j].text,
                      NEW k \in DOMAIN log', log'[k].text = log'[i].text
               PROVE  outbox'[k] = "none"
    BY DEF AnsweredOnce
  <2>1. /\ i \in DOMAIN log /\ log'[i] = log[i] /\ j \in DOMAIN log /\ log'[j] = log[j]
    BY <1>1
  <2>2. log[i].text # text
    BY <1>2, <2>1
  <2>3. k \in DOMAIN log /\ log'[k] = log[k] /\ outbox'[k] = outbox[k]
    BY <1>3, <2>1, <2>2
  <2> QED
    BY <2>1, <2>3 DEF AnsweredOnce
<1> QED
  BY <1>7, <1>8, <1>9, <1>10

\* The last status of a sequence can be written at once.
LEMMA AppendExcept ==
    ASSUME NEW S, NEW s \in Seq(S), NEW e \in S, NEW f \in S
    PROVE  [Append(s, e) EXCEPT ![Len(s) + 1] = f] = Append(s, f)
<1> DEFINE t == [Append(s, e) EXCEPT ![Len(s) + 1] = f]
           u == Append(s, f)
<1>1. /\ Append(s, e) \in Seq(S) /\ Len(s) + 1 \in DOMAIN Append(s, e)
      /\ Len(s) \in Nat /\ Len(Append(s, e)) = Len(s) + 1
      /\ DOMAIN Append(s, e) = 1..(Len(s) + 1) /\ DOMAIN s = 1..Len(s)
      /\ \A i \in DOMAIN s : Append(s, e)[i] = s[i]
  BY AppendPoints
<1>2. /\ u \in Seq(S) /\ Len(u) = Len(s) + 1 /\ DOMAIN u = 1..(Len(s) + 1)
      /\ \A i \in DOMAIN s : u[i] = s[i]
      /\ u[Len(s) + 1] = f
  BY AppendPoints
<1>3. /\ t \in Seq(S) /\ Len(t) = Len(s) + 1
      /\ \A i \in DOMAIN s : t[i] = s[i]
      /\ t[Len(s) + 1] = f
  <2> DEFINE b == Append(s, e)
             n == Len(s) + 1
  <2>1. b \in Seq(S) /\ n \in DOMAIN b
    BY <1>1
  <2>2. /\ [b EXCEPT ![n] = f] \in Seq(S) /\ Len([b EXCEPT ![n] = f]) = Len(b)
        /\ [b EXCEPT ![n] = f][n] = f
        /\ \A i \in DOMAIN b \ {n} : [b EXCEPT ![n] = f][i] = b[i]
    <3> HIDE DEF b, n
    <3> QED
      BY <2>1, ExceptSeq
  <2>3. \A i \in DOMAIN s : i \in DOMAIN b \ {n} /\ b[i] = s[i]
    BY <1>1
  <2>4. t = [b EXCEPT ![n] = f] /\ Len(b) = n
    BY <1>1
  <2> HIDE DEF b, n, t
  <2>5. t \in Seq(S) /\ Len(t) = n /\ (\A i \in DOMAIN s : t[i] = s[i]) /\ t[n] = f
    BY <2>2, <2>3, <2>4
  <2> QED
    BY <2>5 DEF n
<1> HIDE DEF t, u
<1>4. \A i \in 1..Len(t) : t[i] = u[i]
  BY <1>1, <1>2, <1>3
<1>5. t = u
  BY <1>2, <1>3, <1>4, SeqEqual
<1> QED
  BY <1>5 DEF t, u

\* The port writes a text as Written says, whether it gets as far as the queue or not.
LEMMA DispatchWrites ==
    ASSUME DeliveryTypeOK, NEW text \in Texts, log' = LoggedFor(text),
           outbox' \in {Marked(log'), Enqueued(log'),
                        IF Len(log') > Len(outbox) THEN Append(outbox, "none") ELSE outbox}
    PROVE  /\ Written(text)
           /\ outbox' = Marked(log') => outbox'[Len(log')] = "sent"
<1> DEFINE at == Len(log')
<1>1. /\ Len(log) \in Nat /\ DOMAIN log = 1..Len(log) /\ DOMAIN outbox = DOMAIN log
      /\ Len(outbox) = Len(log) /\ log \in Seq(RowType) /\ outbox \in Seq(OutboxStatus)
      /\ \A i \in DOMAIN log : outbox[i] \in OutboxStatus
  BY OneIndex
<1>2. \/ log' = log /\ log # <<>>
      \/ \E row \in RowType : log' = Append(log, row)
  BY DEF LoggedFor, RowType
<1>3. \/ at = Len(log) /\ at \in DOMAIN outbox
      \/ at = Len(log) + 1
  <2>1. CASE log' = log /\ log # <<>>
    <3>1. Len(log) # 0
      BY <1>1, <2>1, EmptySeq
    <3>2. Len(log) \in DOMAIN outbox
      BY <1>1, <3>1
    <3> QED
      BY <2>1, <3>2
  <2>2. ASSUME NEW row \in RowType, log' = Append(log, row) PROVE at = Len(log) + 1
    BY <1>1, <2>2, AppendPoints
  <2> QED
    BY <1>2, <2>1, <2>2
<1>4. {"none", "pending", "sent"} \subseteq OutboxStatus
  BY DEF OutboxStatus
<1> HIDE DEF at
<1>5. CASE at = Len(log) + 1
  <2>1. at > Len(outbox)
    BY <1>1, <1>5
  <2>2. Enqueued(log') = Append(outbox, "pending")
    BY <2>1 DEF Enqueued, at
  <2>3. Marked(log') = Append(outbox, "sent")
    <3>1. [Append(outbox, "pending") EXCEPT ![Len(outbox) + 1] = "sent"] = Append(outbox, "sent")
      BY <1>1, <1>4, AppendExcept
    <3>2. Len(log') = Len(outbox) + 1
      BY <1>1, <1>5 DEF at
    <3> QED
      BY <2>2, <3>1, <3>2 DEF Marked
  <2>4. \E st \in OutboxStatus : outbox' = Append(outbox, st)
    BY <1>4, <2>1, <2>2, <2>3 DEF at
  <2>5. Written(text)
    BY <2>1, <2>4, PortWrites DEF at
  <2>6. outbox' = Marked(log') => outbox'[at] = "sent"
    <3>1. Append(outbox, "sent")[Len(outbox) + 1] = "sent"
      BY <1>1, <1>4, AppendPoints
    <3> QED
      BY <1>1, <1>5, <2>3, <3>1
  <2> QED
    BY <2>5, <2>6 DEF at
<1>6. CASE at = Len(log) /\ at \in DOMAIN outbox
  <2>1. at = Len(outbox) /\ ~(at > Len(outbox)) /\ outbox[at] \in OutboxStatus
    BY <1>1, <1>6
  <2>2. Enqueued(log') = [outbox EXCEPT ![at] = IF @ = "none" THEN "pending" ELSE @]
    BY <2>1 DEF Enqueued, at
  <2>3. Marked(log') = [outbox EXCEPT ![at] = "sent"]
    BY <1>6, <2>2 DEF Marked, at
  <2>4. outbox = [outbox EXCEPT ![at] = outbox[at]]
    BY <1>1, <1>6
  <2>5. \E st \in OutboxStatus : outbox' = [outbox EXCEPT ![at] = st]
    <3>1. CASE outbox' = Marked(log')
      BY <1>4, <2>3, <3>1
    <3>2. CASE outbox' = Enqueued(log')
      BY <1>4, <2>1, <2>2, <3>2
    <3>3. CASE outbox' = outbox
      BY <2>1, <2>4, <3>3
    <3> QED
      BY <2>1, <3>1, <3>2, <3>3 DEF at
  <2>6. Written(text)
    BY <2>1, <2>5, PortWrites DEF at
  <2>7. outbox' = Marked(log') => outbox'[at] = "sent"
    BY <1>1, <1>6, <2>3
  <2> QED
    BY <2>6, <2>7 DEF at
<1> QED
  BY <1>3, <1>5, <1>6

\* A pending row of another text was pending before, and what is pending is owed as before.
LEMMA PendingKept ==
    ASSUME DeliveryInv, NEW text, Written(text), NEW n \in Items, Reply(n) # text
    PROVE  \A i \in DOMAIN log' : log'[i].text = Reply(n) /\ outbox'[i] = "pending" =>
              /\ Reply(n) \notin ToSet(bus) /\ sending.text # Reply(n) /\ shown[Reply(n)] = 0
              /\ \A j \in DOMAIN log' : log'[j].text = Reply(n) /\ outbox'[j] = "pending" => i = j
<1> USE DEF DeliveryInv
<1>1. \A i \in DOMAIN log' : log'[i].text = Reply(n) /\ outbox'[i] = "pending" =>
         i \in DOMAIN log /\ log[i].text = Reply(n) /\ outbox[i] = "pending"
  BY OtherRows
<1> QED
  BY <1>1 DEF OwedInv

LEMMA AnswerKeepsInv == ASSUME DeliveryInv, Answer \/ Apologise PROVE DeliveryInv'
<1> USE DEF DeliveryInv
<1>1. PICK text : PortText(text) /\ Dispatch(text)
  <2>1. turn.phase = "persisted" => turn.item \in Items
    BY DEF TurnInv, DeliveryTypeOK
  <2> QED
    BY <2>1 DEF Answer, Apologise, PortText
<1>2. /\ up /\ TurnEnds /\ interrupted' = Consumed
      /\ log' = LoggedFor(text) /\ outbox' = Marked(log') /\ bus' = Append(bus, text)
      /\ UNCHANGED <<up, inLoop, inbound, sending, pushing, left>>
      /\ UNCHANGED <<shown, raised, lost>>
  BY <1>1 DEF Answer, Apologise, Dispatch, chat
<1>3. text \in Texts
  BY <1>1, TextKinds DEF PortText
<1>4. Written(text) /\ outbox'[Len(log')] = "sent"
  BY <1>2, <1>3, DispatchWrites
<1>5. /\ text # Notice /\ \A n : text # Pushed(n)
      /\ \A i \in DOMAIN log' : log'[i].text = text /\ text # Error /\ i # Len(log') =>
            outbox'[i] = "none"
      /\ \A n \in Items : text = Reply(n) => turn.item = n
  BY <1>1, <1>4, OwnRows
<1>6. Come' = Come
  BY <1>2 DEF Come
<1>7. /\ turn' = Idle /\ turn'.phase = "idle" /\ turn'.item = 0 /\ active' = {}
      /\ turn' \in [phase : {"idle", "created", "reasoning", "persisted"},
                    item : Items \cup {0}, resumed : BOOLEAN]
      /\ interrupted' \in [of : SUBSET Says, some : BOOLEAN]
      /\ Waiting' = Waiting /\ Fresh' = Waiting /\ QueueInv' /\ TurnInv'
  BY <1>2, <1>6, TurnIsOver DEF Consumed
<1>8. LogInv' /\ ClosedInv' /\ LoggedTwiceOnlyAcross' /\ AnsweredOnce'
  BY <1>1, <1>2, <1>4, <1>7, WriteKeepsLog
<1>9. /\ bus' \in Seq(Texts) /\ ToSet(bus') = ToSet(bus) \cup {text}
      /\ DOMAIN bus' = DOMAIN bus \cup {Len(bus) + 1} /\ bus'[Len(bus) + 1] = text
      /\ \A i \in DOMAIN bus : bus'[i] = bus[i]
  <2>1. bus \in Seq(Texts)
    BY DEF DeliveryTypeOK
  <2>2. /\ bus' \in Seq(Texts) /\ ToSet(bus') = ToSet(bus) \cup {text}
        /\ Len(bus) \in Nat /\ DOMAIN bus = 1..Len(bus)
        /\ DOMAIN bus' = 1..(Len(bus) + 1) /\ bus'[Len(bus) + 1] = text
        /\ \A i \in DOMAIN bus : bus'[i] = bus[i]
    BY <1>2, <1>3, <2>1, AppendPoints
  <2> QED
    BY <2>2
<1>10. DeliveryTypeOK'
  BY <1>2, <1>4, <1>7, <1>9 DEF DeliveryTypeOK, Written, RowType, OutboxStatus
<1>11. LifeInv'
  BY <1>2 DEF LifeInv
<1>12. OwedInv'
  <2> SUFFICES ASSUME NEW n \in Items
               PROVE  LET t == Reply(n) IN
                      /\ n \in Waiting => t \notin ToSet(bus') /\ sending.text # t /\ shown[t] = 0
                      /\ t \in ToSet(bus') => sending.text # t /\ shown[t] = 0
                      /\ sending.text = t => shown[t] <= raised[t]
                      /\ \A i, j \in DOMAIN bus' : bus'[i] = t /\ bus'[j] = t => i = j
                      /\ \A i \in DOMAIN log' : log'[i].text = t /\ outbox'[i] = "pending" =>
                            /\ t \notin ToSet(bus') /\ sending.text # t /\ shown[t] = 0
                            /\ \A j \in DOMAIN log' :
                                  log'[j].text = t /\ outbox'[j] = "pending" => i = j
    BY <1>2, <1>7 DEF OwedInv
  <2> DEFINE t == Reply(n)
  <2>1. n \in Waiting => n \in Fresh
    BY DEF Fresh
  <2>2. CASE text = t
    <3>1. turn.item = n /\ n \in Fresh /\ n \notin Waiting
      BY <1>5, <2>2, Bounds DEF Fresh, Waiting, QueueInv
    <3>2. t \notin ToSet(bus) /\ sending.text # t /\ shown[t] = 0
      BY <3>1 DEF OwedInv
    <3>3. \A i \in DOMAIN bus : bus[i] # t
      BY <3>2 DEF ToSet
    <3>4. \A i, j \in DOMAIN bus' : bus'[i] = t /\ bus'[j] = t => i = j
      BY <1>9, <3>3
    <3>5. \A i \in DOMAIN log' : ~(log'[i].text = t /\ outbox'[i] = "pending")
      <4>1. text # Error
        BY <2>2, TextsDiffer
      <4> QED
        BY <1>4, <1>5, <2>2, <4>1
    <3> QED
      BY <3>1, <3>2, <3>4, <3>5
  <2>3. CASE text # t
    <3>1. t \in ToSet(bus') => t \in ToSet(bus)
      BY <1>9, <2>3
    <3>2. \A i \in DOMAIN bus' : bus'[i] = t => i \in DOMAIN bus /\ bus[i] = t
      BY <1>9, <2>3
    <3>3. \A i \in DOMAIN log' : log'[i].text = t /\ outbox'[i] = "pending" =>
             /\ t \notin ToSet(bus) /\ sending.text # t /\ shown[t] = 0
             /\ \A j \in DOMAIN log' : log'[j].text = t /\ outbox'[j] = "pending" => i = j
      BY <1>4, <2>3, PendingKept
    <3>4. /\ n \in Waiting => t \notin ToSet(bus) /\ sending.text # t /\ shown[t] = 0
          /\ t \in ToSet(bus) => sending.text # t /\ shown[t] = 0
          /\ sending.text = t => shown[t] <= raised[t]
          /\ \A i, j \in DOMAIN bus : bus[i] = t /\ bus[j] = t => i = j
      BY <2>1 DEF OwedInv
    <3> QED
      BY <3>1, <3>2, <3>3, <3>4
  <2> QED
    BY <2>2, <2>3
<1>13. PushInv'
  BY <1>2, <1>5, <1>9 DEF PushInv
<1>14. ShownOnce'
  BY <1>2 DEF ShownOnce
<1> QED
  BY <1>7, <1>8, <1>10, <1>11, <1>12, <1>13, <1>14

-------------------------------------------------------------------------------
(* Death and start *)

\* What the death of the process leaves behind.
LEMMA Dying ==
    ASSUME DeliveryInv, Die
    PROVE  /\ up' = FALSE /\ inLoop' = inLoop /\ inbound' = <<>> /\ bus' = <<>> /\ pushing' = {}
           /\ turn' = Idle /\ active' = {} /\ interrupted' = Nothing /\ sending' = Quiet
           /\ UNCHANGED <<shown, raised>> /\ lost' \subseteq Texts
           /\ left' \in [Budgeted -> Nat] /\ left'["says"] = left["says"]
           /\ left'["done"] = left["done"] /\ left'["pushes"] = left["pushes"]
           /\ Waiting' \subseteq Waiting /\ Fresh' \subseteq Fresh
           /\ OpenMessages' \subseteq OpenMessages
           /\ LifeInv' /\ QueueInv' /\ TurnInv' /\ PushInv' /\ ShownOnce'
<1> USE DEF DeliveryInv
<1>1. /\ up' = FALSE /\ inLoop' = inLoop /\ inbound' = <<>> /\ bus' = <<>> /\ pushing' = {}
      /\ turn' = Idle /\ active' = {} /\ interrupted' = Nothing /\ sending' = Quiet
      /\ UNCHANGED <<shown, raised>> /\ Spend("crashes")
      /\ lost' = lost \cup (ToSet(bus) \cup {sending.text})
  BY DEF Die, TurnEnds
<1>2. /\ left' \in [Budgeted -> Nat] /\ left'["says"] = left["says"]
      /\ left'["done"] = left["done"] /\ left'["pushes"] = left["pushes"]
  <2>1. {"says", "done", "pushes"} \subseteq Budgeted \ {"crashes"} /\ "crashes" \in Budgeted
    BY DEF Budgeted
  <2> QED
    BY <1>1, <2>1, Spending DEF DeliveryTypeOK
<1>3. lost' \subseteq Texts
  <2>1. bus \in Seq(Texts) /\ sending.text \in Texts /\ lost \subseteq Texts
    BY DEF DeliveryTypeOK
  <2>2. ToSet(bus) \subseteq Texts
    BY <2>1, ElementOfSeq, LenProperties DEF ToSet
  <2> QED
    BY <1>1, <2>1, <2>2
<1>4. /\ ToSet(inbound') = {} /\ ToSet(bus') = {} /\ DOMAIN inbound' = {}
      /\ turn'.item = 0 /\ turn'.phase = "idle" /\ ~turn'.resumed /\ interrupted'.of = {}
      /\ sending'.text = Notice
  BY <1>1 DEF ToSet, Idle, Nothing, Quiet
<1>5. Waiting' \subseteq Waiting
  BY <1>2, <1>4 DEF Waiting, Come
<1>6. Fresh' \subseteq Fresh /\ OpenMessages' \subseteq OpenMessages
  BY <1>1, <1>4, <1>5, Bounds DEF Fresh, OpenMessages
<1>7. LifeInv'
  BY <1>1, <1>2 DEF LifeInv
<1>8. QueueInv'
  BY <1>4 DEF QueueInv
<1>9. TurnInv'
  BY <1>1, <1>4, Bounds DEF TurnInv
<1>10. PushInv'
  BY <1>1, <1>2, <1>4, TextsDiffer DEF PushInv
<1>11. ShownOnce'
  BY <1>1 DEF ShownOnce
<1> QED
  BY <1>1, <1>2, <1>3, <1>5, <1>6, <1>7, <1>8, <1>9, <1>10, <1>11

LEMMA CrashKeepsInv == ASSUME DeliveryInv, Crash PROVE DeliveryInv'
<1> USE DEF DeliveryInv
<1>1. Die /\ log' = log /\ outbox' = outbox
  BY DEF Crash, storage
<1>2. /\ up' = FALSE /\ inLoop' = inLoop /\ inbound' = <<>> /\ bus' = <<>> /\ pushing' = {}
      /\ turn' = Idle /\ active' = {} /\ interrupted' = Nothing /\ sending' = Quiet
      /\ UNCHANGED <<shown, raised>> /\ lost' \subseteq Texts
      /\ left' \in [Budgeted -> Nat] /\ left'["pushes"] = left["pushes"]
      /\ Waiting' \subseteq Waiting /\ Fresh' \subseteq Fresh
      /\ OpenMessages' \subseteq OpenMessages
      /\ LifeInv' /\ QueueInv' /\ TurnInv' /\ PushInv' /\ ShownOnce'
  BY <1>1, Dying
<1>3. /\ ToSet(bus') = {} /\ DOMAIN bus' = {} /\ sending'.text = Notice /\ turn'.item = 0
      /\ turn' \in [phase : {"idle", "created", "reasoning", "persisted"},
                    item : Items \cup {0}, resumed : BOOLEAN]
      /\ interrupted' \in [of : SUBSET Says, some : BOOLEAN]
      /\ sending' \in [text : Texts, left : 0..2] /\ bus' \in Seq(Texts)
      /\ inbound' \in Seq(Items)
  BY <1>2, TextKinds DEF ToSet, Quiet, Idle, Nothing
<1>4. DeliveryTypeOK'
  BY <1>1, <1>2, <1>3 DEF DeliveryTypeOK
<1>5. LogInv'
  BY <1>1, <1>2, <1>3, Bounds DEF LogInv
<1>6. OwedInv'
  BY <1>1, <1>2, <1>3, TextsDiffer DEF OwedInv
<1> QED
  BY <1>1, <1>2, <1>4, <1>5, <1>6, LogKept

LEMMA CrashInDispatchKeepsInv ==
    ASSUME DeliveryInv, NEW enqueued \in BOOLEAN, CrashInDispatch(enqueued)
    PROVE  DeliveryInv'
<1> USE DEF DeliveryInv
<1>1. PICK text : /\ PortText(text) /\ log' = LoggedFor(text)
  <2>1. turn.phase = "persisted" => turn.item \in Items
    BY DEF TurnInv, DeliveryTypeOK
  <2> QED
    BY <2>1 DEF CrashInDispatch, PortText
<1>2. /\ Die
      /\ outbox' \in {Marked(log'), Enqueued(log'),
                      IF Len(log') > Len(outbox) THEN Append(outbox, "none") ELSE outbox}
  BY DEF CrashInDispatch
<1>3. text \in Texts
  BY <1>1, TextKinds DEF PortText
<1>4. Written(text)
  BY <1>1, <1>2, <1>3, DispatchWrites
<1>5. /\ text # Notice /\ \A n : text # Pushed(n)
      /\ \A i \in DOMAIN log' : log'[i].text = text /\ text # Error /\ i # Len(log') =>
            outbox'[i] = "none"
      /\ \A n \in Items : text = Reply(n) => turn.item = n
  BY <1>1, <1>4, OwnRows
<1>6. /\ up' = FALSE /\ inLoop' = inLoop /\ inbound' = <<>> /\ bus' = <<>> /\ pushing' = {}
      /\ turn' = Idle /\ active' = {} /\ interrupted' = Nothing /\ sending' = Quiet
      /\ UNCHANGED <<shown, raised>> /\ lost' \subseteq Texts
      /\ left' \in [Budgeted -> Nat] /\ left'["pushes"] = left["pushes"]
      /\ Waiting' \subseteq Waiting /\ Fresh' \subseteq Fresh
      /\ LifeInv' /\ QueueInv' /\ TurnInv' /\ PushInv' /\ ShownOnce'
  BY <1>2, Dying
<1>7. /\ ToSet(bus') = {} /\ DOMAIN bus' = {} /\ sending'.text = Notice /\ turn'.item = 0
      /\ turn' \in [phase : {"idle", "created", "reasoning", "persisted"},
                    item : Items \cup {0}, resumed : BOOLEAN]
      /\ interrupted' \in [of : SUBSET Says, some : BOOLEAN]
      /\ sending' \in [text : Texts, left : 0..2] /\ bus' \in Seq(Texts)
      /\ inbound' \in Seq(Items)
  BY <1>6, TextKinds DEF ToSet, Quiet, Idle, Nothing
<1>8. LogInv' /\ ClosedInv' /\ LoggedTwiceOnlyAcross' /\ AnsweredOnce'
  BY <1>1, <1>4, <1>6, WriteKeepsLog
<1>9. DeliveryTypeOK'
  BY <1>4, <1>6, <1>7 DEF DeliveryTypeOK, Written, RowType, OutboxStatus
<1>10. OwedInv'
  <2> SUFFICES ASSUME NEW n \in Items
               PROVE  LET t == Reply(n) IN
                      /\ n \in Fresh' => shown[t] = 0
                      /\ \A i \in DOMAIN log' : log'[i].text = t /\ outbox'[i] = "pending" =>
                            /\ shown[t] = 0
                            /\ \A j \in DOMAIN log' :
                                  log'[j].text = t /\ outbox'[j] = "pending" => i = j
    BY <1>6, <1>7, TextsDiffer DEF OwedInv
  <2> DEFINE t == Reply(n)
  <2>1. n \in Fresh' => shown[t] = 0
    BY <1>6 DEF OwedInv
  <2>2. CASE text = t
    <3>1. turn.item = n /\ shown[t] = 0
      BY <1>5, <2>2 DEF Fresh, OwedInv
    <3>2. \A i \in DOMAIN log' : log'[i].text = t /\ outbox'[i] = "pending" => i = Len(log')
      <4>1. text # Error
        BY <2>2, TextsDiffer
      <4> QED
        BY <1>5, <2>2, <4>1
    <3> QED
      BY <3>1, <3>2
  <2>3. CASE text # t
    BY <1>4, <2>1, <2>3, PendingKept
  <2> QED
    BY <2>2, <2>3
<1> QED
  BY <1>6, <1>8, <1>9, <1>10

\* Rows that leave the state "pending" for one in which the outbox has them.
LEMMA OutboxMoves ==
    ASSUME DeliveryInv, log' = log, outbox' = [i \in DOMAIN outbox |-> outbox'[i]],
           \A i \in DOMAIN outbox :
              outbox'[i] # outbox[i] => outbox[i] = "pending" /\ outbox'[i] \in {"sending", "sent"},
           UNCHANGED <<inbound, turn, active, interrupted, shown, raised>>,
           left'["says"] = left["says"], left'["done"] = left["done"],
           left'["pushes"] = left["pushes"]
    PROVE  /\ outbox' \in Seq(OutboxStatus) /\ Len(outbox') = Len(log')
           /\ Waiting' = Waiting /\ Fresh' = Fresh
           /\ \A i \in DOMAIN log : outbox'[i] = "pending" => outbox[i] = "pending"
           /\ QueueInv' /\ TurnInv' /\ LogInv' /\ ClosedInv'
           /\ ShownOnce' /\ LoggedTwiceOnlyAcross' /\ AnsweredOnce'
<1> USE DEF DeliveryInv
<1>1. /\ Len(log) \in Nat /\ DOMAIN log = 1..Len(log) /\ DOMAIN outbox = DOMAIN log
      /\ \A i \in DOMAIN log : outbox[i] \in OutboxStatus
  BY OneIndex
<1>2. \A i \in DOMAIN log :
         /\ outbox'[i] \in OutboxStatus
         /\ outbox'[i] = "none" <=> outbox[i] = "none"
         /\ outbox'[i] = "pending" => outbox[i] = "pending"
  BY <1>1 DEF OutboxStatus
<1>3. Come' = Come /\ Waiting' = Waiting
  BY DEF Come, Waiting
<1>4. Fresh' = Fresh /\ OpenMessages' = OpenMessages
  BY <1>3 DEF Fresh, OpenMessages
<1>5. QueueInv' /\ TurnInv'
  BY <1>3 DEF QueueInv, TurnInv
<1>6. LogInv'
  BY <1>2, <1>3 DEF LogInv
<1>7. ClosedInv'
  BY <1>2, <1>4 DEF ClosedInv
<1>8. AnsweredOnce' /\ LoggedTwiceOnlyAcross' /\ ShownOnce'
  BY <1>2 DEF AnsweredOnce, LoggedTwiceOnlyAcross, ShownOnce
<1>9. outbox' \in Seq(OutboxStatus) /\ Len(outbox') = Len(log')
  <2>1. outbox \in Seq(OutboxStatus) /\ Len(outbox) = Len(log)
    BY OneIndex
  <2>3. outbox' \in [1..Len(log) -> OutboxStatus]
    BY <1>1, <1>2
  <2>4. outbox' \in Seq(OutboxStatus)
    BY <1>1, <2>3, SeqDef
  <2>5. DOMAIN outbox' = 1..Len(outbox') /\ Len(outbox') \in Nat
    BY <2>4, LenProperties
  <2>6. 1..Len(outbox') = 1..Len(log)
    BY <2>3, <2>5
  <2>7. Len(outbox') = Len(log)
    BY <1>1, <2>5, <2>6
  <2> QED
    BY <2>4, <2>7
<1> QED
  BY <1>2, <1>3, <1>4, <1>5, <1>6, <1>7, <1>8, <1>9

\* What a start flushes: a sequence of pending rows, each of them once.
LEMMA Flushed ==
    ASSUME DeliveryTypeOK, NEW rows \in IF inLoop THEN {<<>>} ELSE FlushOrders
    PROVE  \E n \in Nat :
              /\ DOMAIN rows = 1..n
              /\ \A k \in 1..n : rows[k] \in DOMAIN outbox /\ outbox[rows[k]] = "pending"
              /\ \A k, l \in 1..n : rows[k] = rows[l] => k = l
<1>1. CASE inLoop
  <2>1. rows = <<>> /\ DOMAIN rows = 1..0
    BY <1>1
  <2> QED
    BY <2>1
<1>2. CASE ~inLoop
  <2> DEFINE found == {i \in DOMAIN outbox : Pending(i)}
             n == Cardinality(found)
  <2>1. rows \in [1..n -> found] /\ Ascending(rows)
    BY <1>2 DEF FlushOrders
  <2>2. Len(log) \in Nat /\ DOMAIN outbox = 1..Len(log)
    BY OneIndex
  <2>3. IsFiniteSet(DOMAIN outbox)
    BY <2>2, FS_Interval
  <2>4. IsFiniteSet(found)
    BY <2>3, FS_Subset
  <2>5. n \in Nat
    BY <2>4, FS_CardinalityType
  <2>6. \A i \in found : i \in DOMAIN outbox /\ outbox[i] = "pending" /\ i \in Nat
    BY <2>2 DEF Pending
  <2> HIDE DEF n, found
  <2>7. /\ DOMAIN rows = 1..n
        /\ \A k \in 1..n : rows[k] \in DOMAIN outbox /\ outbox[rows[k]] = "pending"
    BY <2>1, <2>6
  <2>8. ASSUME NEW k \in 1..n, NEW l \in 1..n, rows[k] = rows[l] PROVE k = l
    <3>1. rows[k] \in Nat /\ rows[l] \in Nat
      BY <2>1, <2>6
    <3>2. ~(k < l) /\ ~(l < k)
      BY <2>1, <2>7, <2>8, <3>1 DEF Ascending
    <3> QED
      BY <2>5, <3>2
  <2> QED
    BY <2>5, <2>7, <2>8
<1> QED
  BY <1>1, <1>2

LEMMA StartKeepsInv == ASSUME DeliveryInv, Start PROVE DeliveryInv'
<1> USE DEF DeliveryInv
<1>1. PICK rows \in IF inLoop THEN {<<>>} ELSE FlushOrders :
         /\ outbox' = [i \in DOMAIN outbox |-> IF i \in ToSet(rows) THEN "sent" ELSE outbox[i]]
         /\ bus' = [k \in DOMAIN rows |-> log[rows[k]].text]
  BY DEF Start
<1>2. PICK n \in Nat :
         /\ DOMAIN rows = 1..n
         /\ \A k \in 1..n : rows[k] \in DOMAIN outbox /\ outbox[rows[k]] = "pending"
         /\ \A k, l \in 1..n : rows[k] = rows[l] => k = l
  BY Flushed
<1>3. /\ ~up /\ up' = TRUE
      /\ UNCHANGED <<inLoop, inbound, turn, active, interrupted, sending, pushing, left>>
      /\ UNCHANGED <<shown, raised, lost, log>>
  BY DEF Start, chat
<1>4. /\ inbound = <<>> /\ turn = Idle /\ interrupted = Nothing /\ bus = <<>>
      /\ sending = Quiet /\ pushing = {}
  BY <1>3 DEF LifeInv
<1>5. \A i \in ToSet(rows) : i \in DOMAIN outbox /\ outbox[i] = "pending"
  BY <1>2 DEF ToSet
<1>6. /\ outbox' \in Seq(OutboxStatus) /\ Len(outbox') = Len(log')
      /\ Waiting' = Waiting /\ Fresh' = Fresh
      /\ \A i \in DOMAIN log : outbox'[i] = "pending" => outbox[i] = "pending"
      /\ QueueInv' /\ TurnInv' /\ LogInv' /\ ClosedInv'
      /\ ShownOnce' /\ LoggedTwiceOnlyAcross' /\ AnsweredOnce'
  <2>1. /\ outbox' = [i \in DOMAIN outbox |-> outbox'[i]]
        /\ \A i \in DOMAIN outbox :
              outbox'[i] # outbox[i] => outbox[i] = "pending" /\ outbox'[i] \in {"sending", "sent"}
    BY <1>1, <1>5
  <2> QED
    BY <1>3, <2>1, OutboxMoves
<1>7. /\ Len(log) \in Nat /\ DOMAIN log = 1..Len(log) /\ DOMAIN outbox = DOMAIN log
      /\ \A i \in DOMAIN log : log[i] \in RowType
  BY OneIndex
<1>8. /\ DOMAIN bus' = 1..n
      /\ \A k \in 1..n : /\ rows[k] \in DOMAIN log /\ outbox[rows[k]] = "pending"
                         /\ bus'[k] = log[rows[k]].text /\ bus'[k] \in Texts
                         /\ outbox'[rows[k]] = "sent"
  <2>1. \A k \in 1..n : rows[k] \in ToSet(rows) /\ rows[k] \in DOMAIN outbox
    BY <1>2 DEF ToSet
  <2>2. \A k \in 1..n : log[rows[k]].text \in Texts
    BY <1>2, <1>7 DEF RowType
  <2> QED
    BY <1>1, <1>2, <1>7, <2>1, <2>2
<1>9. bus' \in Seq(Texts)
  <2>1. bus' \in [1..n -> Texts]
    BY <1>1, <1>2, <1>8
  <2> QED
    BY <2>1, SeqDef
<1>10. \A t : t \in ToSet(bus') => \E k \in 1..n : bus'[k] = t
  BY <1>8 DEF ToSet
<1>11. DeliveryTypeOK'
  BY <1>3, <1>6, <1>9 DEF DeliveryTypeOK, RowType, OutboxStatus
<1>12. LifeInv'
  BY <1>3 DEF LifeInv
<1>13. OwedInv'
  <2> SUFFICES ASSUME NEW m \in Items
               PROVE  LET t == Reply(m) IN
                      /\ m \in Fresh => t \notin ToSet(bus') /\ sending.text # t /\ shown[t] = 0
                      /\ t \in ToSet(bus') => sending.text # t /\ shown[t] = 0
                      /\ sending.text = t => shown[t] <= raised[t]
                      /\ \A i, j \in DOMAIN bus' : bus'[i] = t /\ bus'[j] = t => i = j
                      /\ \A i \in DOMAIN log : log[i].text = t /\ outbox'[i] = "pending" =>
                            /\ t \notin ToSet(bus') /\ sending.text # t /\ shown[t] = 0
                            /\ \A j \in DOMAIN log :
                                  log[j].text = t /\ outbox'[j] = "pending" => i = j
    BY <1>3, <1>6 DEF OwedInv
  <2> DEFINE t == Reply(m)
  <2>1. /\ m \in Fresh => shown[t] = 0
        /\ \A i \in DOMAIN log : log[i].text = t /\ outbox[i] = "pending" =>
              /\ shown[t] = 0
              /\ \A j \in DOMAIN log : log[j].text = t /\ outbox[j] = "pending" => i = j
    BY DEF OwedInv
  <2>2. sending.text # t
    BY <1>4, TextsDiffer DEF Quiet
  <2>3. \A i \in DOMAIN log : log[i].text = t => m \notin Fresh
    <3>1. turn.item = 0
      BY <1>4 DEF Idle
    <3> QED
      BY <3>1, Bounds DEF LogInv, Fresh
  <2> HIDE DEF t
  <2>4. \A k \in 1..n : bus'[k] = t => shown[t] = 0 /\ m \notin Fresh
    BY <1>8, <2>1, <2>3
  <2>5. \A k, l \in 1..n : bus'[k] = t /\ bus'[l] = t => k = l
    BY <1>2, <1>8, <2>1
  <2>6. ASSUME NEW i \in DOMAIN log, log[i].text = t, outbox'[i] = "pending", NEW k \in 1..n
        PROVE  bus'[k] # t
    <3>1. outbox[i] = "pending" /\ outbox'[rows[k]] # outbox'[i]
      BY <1>6, <1>8, <2>6
    <3> QED
      BY <1>8, <2>1, <2>6, <3>1
  <2>7. /\ t \in ToSet(bus') => shown[t] = 0 /\ m \notin Fresh
        /\ \A i \in DOMAIN log : log[i].text = t /\ outbox'[i] = "pending" => t \notin ToSet(bus')
    BY <1>10, <2>4, <2>6
  <2> QED
    BY <1>6, <1>8, <2>1, <2>2, <2>5, <2>7 DEF t
<1>14. PushInv'
  <2>1. ASSUME NEW m \in 1..MaxPushes, NEW k \in 1..n PROVE bus'[k] # Pushed(m)
    BY <1>8 DEF LogInv
  <2>2. \A m \in 1..MaxPushes : Pushed(m) \notin ToSet(bus')
    BY <1>10, <2>1
  <2> QED
    BY <1>3, <2>2 DEF PushInv
<1> QED
  BY <1>6, <1>11, <1>12, <1>13, <1>14

LEMMA CrashInFlushKeepsInv ==
    ASSUME DeliveryInv, NEW i \in DOMAIN outbox, CrashInFlush(i)
    PROVE  DeliveryInv'
<1> USE DEF DeliveryInv
<1>1. /\ ~up /\ outbox[i] = "pending" /\ Spend("crashes")
      /\ outbox' = [j \in DOMAIN outbox |->
                      IF j = i THEN "sending"
                      ELSE IF j < i /\ outbox[j] = "pending" THEN "sent" ELSE outbox[j]]
      /\ UNCHANGED <<up, inLoop, inbound, turn, active, interrupted, bus, sending, pushing>>
      /\ UNCHANGED <<shown, raised, lost, log>>
  BY DEF CrashInFlush, Pending, memory, chat
<1>2. /\ left' \in [Budgeted -> Nat] /\ left'["says"] = left["says"]
      /\ left'["done"] = left["done"] /\ left'["pushes"] = left["pushes"]
  <2>1. {"says", "done", "pushes"} \subseteq Budgeted \ {"crashes"} /\ "crashes" \in Budgeted
    BY DEF Budgeted
  <2> QED
    BY <1>1, <2>1, Spending DEF DeliveryTypeOK
<1>3. /\ outbox' = [j \in DOMAIN outbox |-> outbox'[j]]
      /\ \A j \in DOMAIN outbox :
            outbox'[j] # outbox[j] => outbox[j] = "pending" /\ outbox'[j] \in {"sending", "sent"}
  BY <1>1
<1>4. /\ outbox' \in Seq(OutboxStatus) /\ Len(outbox') = Len(log')
      /\ Waiting' = Waiting /\ Fresh' = Fresh
      /\ \A j \in DOMAIN log : outbox'[j] = "pending" => outbox[j] = "pending"
      /\ QueueInv' /\ TurnInv' /\ LogInv' /\ ClosedInv'
      /\ ShownOnce' /\ LoggedTwiceOnlyAcross' /\ AnsweredOnce'
  BY <1>1, <1>2, <1>3, OutboxMoves
<1>5. DeliveryTypeOK'
  BY <1>1, <1>2, <1>4 DEF DeliveryTypeOK, OutboxStatus
<1>6. LifeInv'
  BY <1>1, <1>2 DEF LifeInv
<1>7. OwedInv'
  <2> SUFFICES ASSUME NEW n \in Items
               PROVE  LET t == Reply(n) IN
                      \A k \in DOMAIN log : log[k].text = t /\ outbox'[k] = "pending" =>
                         /\ t \notin ToSet(bus) /\ sending.text # t /\ shown[t] = 0
                         /\ \A j \in DOMAIN log : log[j].text = t /\ outbox'[j] = "pending" => k = j
    BY <1>1, <1>4 DEF OwedInv
  <2> QED
    BY <1>4 DEF OwedInv
<1>8. PushInv'
  BY <1>1, <1>2, PushKept
<1> QED
  BY <1>4, <1>5, <1>6, <1>7, <1>8

-------------------------------------------------------------------------------
(* The theorems *)

LEMMA InitHolds == ASSUME Init PROVE DeliveryInv
<1>1. /\ up = TRUE /\ inLoop \in BOOLEAN /\ inbound = <<>> /\ turn = Idle /\ active = {}
      /\ interrupted = Nothing /\ log = <<>> /\ outbox = <<>> /\ bus = <<>>
      /\ sending = Quiet /\ pushing = {} /\ lost = {} /\ left \in Budgets
      /\ shown = [t \in Texts |-> 0] /\ raised = [t \in Texts |-> 0]
  BY DEF Init
<1>2. /\ left \in [Budgeted -> Nat] /\ left["says"] <= MaxSays
      /\ left["done"] <= MaxDone /\ left["pushes"] <= MaxPushes
  BY <1>1, DeliveryAssumption
<1>3. /\ DOMAIN inbound = {} /\ DOMAIN log = {} /\ DOMAIN bus = {} /\ ToSet(inbound) = {}
      /\ ToSet(bus) = {} /\ turn.item = 0 /\ turn.phase = "idle" /\ ~turn.resumed
      /\ interrupted.of = {} /\ sending.text = Notice
  BY <1>1 DEF ToSet, Idle, Nothing, Quiet
<1>4. DeliveryTypeOK
  <2>1. /\ turn \in [phase : {"idle", "created", "reasoning", "persisted"},
                     item : Items \cup {0}, resumed : BOOLEAN]
        /\ interrupted \in [of : SUBSET Says, some : BOOLEAN]
        /\ sending \in [text : Texts, left : 0..2]
    BY <1>1, TextKinds DEF Idle, Nothing, Quiet
  <2>2. /\ inbound \in Seq(Items) /\ bus \in Seq(Texts)
        /\ log \in Seq([text : Texts, of : SUBSET Says])
        /\ outbox \in Seq({"none", "pending", "sending", "sent"})
        /\ Len(outbox) = Len(log)
    BY <1>1
  <2>3. shown \in [Texts -> Nat] /\ raised \in [Texts -> Nat]
    BY <1>1
  <2> QED
    BY <1>1, <1>2, <2>1, <2>2, <2>3 DEF DeliveryTypeOK
<1>5. LifeInv
  BY <1>1, <1>2 DEF LifeInv
<1>6. QueueInv /\ TurnInv /\ LogInv
  BY <1>1, <1>3, Bounds DEF QueueInv, TurnInv, LogInv
<1>7. OwedInv
  <2>1. \A n \in Items : shown[Reply(n)] = 0
    BY <1>1, TextKinds
  <2> QED
    BY <1>3, <2>1, TextsDiffer DEF OwedInv
<1>8. PushInv
  <2>1. \A n \in 1..MaxPushes : shown[Pushed(n)] = 0
    BY <1>1, TextKinds
  <2> QED
    BY <1>1, <1>3, <2>1, TextsDiffer DEF PushInv
<1>9. ClosedInv /\ LoggedTwiceOnlyAcross /\ AnsweredOnce
  BY <1>3 DEF ClosedInv, LoggedTwiceOnlyAcross, AnsweredOnce
<1>10. ShownOnce
  BY <1>1 DEF ShownOnce
<1> QED
  BY <1>4, <1>5, <1>6, <1>7, <1>8, <1>9, <1>10 DEF DeliveryInv

LEMMA NextKeepsInv == ASSUME DeliveryInv, [Next]_vars PROVE DeliveryInv'
<1>1. CASE Say \/ BackgroundEnds
  BY <1>1, ComesKeepsInv
<1>2. CASE Take
  BY <1>2, TakeKeepsInv
<1>3. CASE \E old \in BOOLEAN : Enter(old)
  BY <1>3, EnterKeepsInv
<1>4. CASE Persist
  BY <1>4, PersistKeepsInv
<1>5. CASE Answer \/ Apologise
  BY <1>5, AnswerKeepsInv
<1>6. CASE Fail \/ AlreadyTold \/ Stop
  BY <1>6, QuietEndKeepsInv
<1>7. CASE Push
  BY <1>7, PushKeepsInv
<1>8. CASE \E t \in pushing, ok \in BOOLEAN : PushEnds(t, ok)
  BY <1>8, PushEndsKeepsInv
<1>9. CASE SendNext
  BY <1>9, SendNextKeepsInv
<1>10. CASE Sent
  BY <1>10, SentKeepsInv
<1>11. CASE \E seen \in BOOLEAN : Raises(seen)
  BY <1>11, RaisesKeepsInv
<1>12. CASE Crash
  BY <1>12, CrashKeepsInv
<1>13. CASE \E e \in BOOLEAN : CrashInDispatch(e)
  BY <1>13, CrashInDispatchKeepsInv
<1>14. CASE Start
  BY <1>14, StartKeepsInv
<1>15. CASE \E i \in DOMAIN outbox : CrashInFlush(i)
  BY <1>15, CrashInFlushKeepsInv
<1>16. CASE UNCHANGED vars
  <2> USE DEF DeliveryInv
  <2>1. /\ UNCHANGED <<up, inLoop, inbound, turn, active, interrupted, bus, sending, pushing>>
        /\ UNCHANGED <<shown, raised, lost, log, outbox, left>>
    BY <1>16 DEF vars, memory, chat, storage
  <2>2. /\ Fresh' = Fresh /\ QueueInv' /\ TurnInv' /\ LogInv' /\ ClosedInv'
        /\ LoggedTwiceOnlyAcross' /\ AnsweredOnce'
    BY <2>1, TurnsUntouched DEF DeliveryTypeOK
  <2>3. DeliveryTypeOK' /\ LifeInv' /\ ShownOnce'
    BY <2>1 DEF DeliveryTypeOK, LifeInv, ShownOnce
  <2>4. OwedInv' /\ PushInv'
    BY <2>1, <2>2, OwedKept, PushKept
  <2> QED
    BY <2>2, <2>3, <2>4
<1> QED
  BY <1>1, <1>2, <1>3, <1>4, <1>5, <1>6, <1>7, <1>8, <1>9, <1>10, <1>11, <1>12, <1>13, <1>14,
     <1>15, <1>16 DEF Next, TurnStep, SendStep

\* In every reachable state: the queue, the turn, the log, the outbox and the chat agree
\* about what is still to be answered and what is still to be delivered.
THEOREM DeliveryInvariance == Spec => []DeliveryInv
<1>1. Init => DeliveryInv
  BY InitHolds
<1>2. DeliveryInv /\ [Next]_vars => DeliveryInv'
  BY NextKeepsInv
<1> QED
  BY <1>1, <1>2, PTL DEF Spec

\* What the chat is shown it is shown once, but for the exceptions of the channel: no
\* stop, crash, start or flush shows a reply or a proactive message again, and the log
\* holds a reply twice only with another row between (agent/turns/outbound.py dispatch
\* and flush_pending, bus/queue.py dispatch_outbound).
THEOREM RepliesReachOnce == Spec => []ReachesOnce
<1>1. DeliveryInv => ReachesOnce
  BY DEF DeliveryInv, ReachesOnce
<1> QED
  BY <1>1, DeliveryInvariance, PTL

\* A message of the user is answered by one turn: when the log holds the replies of two,
\* the first was never handed to the outbox, whatever was stopped, resumed or lost
\* (agent/looping/core.py _resume_interrupted_message, _process).
THEOREM MessagesAnsweredOnce == Spec => []AnsweredOnce
<1>1. DeliveryInv => AnsweredOnce
  BY DEF DeliveryInv
<1> QED
  BY <1>1, DeliveryInvariance, PTL
===============================================================================
