------------------------------ MODULE MemoryProofs ------------------------------
(***************************************************************************)
(* Machine-checked proofs about the three stores of the memory, in the     *)
(* module that TLC runs: the vector memory (V, VectorMemory), PENDING.md   *)
(* (P, PendingFacts) and the log with its consolidation (C, Consolidation),*)
(* for any number of texts, batches, messages, crashes and calls.          *)
(***************************************************************************)
EXTENDS MCMemory, FiniteSetTheorems, SequenceTheorems, WellFoundedInduction, TLAPS

-------------------------------------------------------------------------------
(* Counting *)

LEMMA AtMostOne ==
    ASSUME NEW T, T = {} \/ \E t : T = {t}
    PROVE  Cardinality(T) <= 1
<1>1. CASE T = {}
  BY <1>1, FS_EmptySet
<1>2. CASE \E t : T = {t}
  BY <1>2, FS_Singleton
<1> QED
  BY <1>1, <1>2

LEMMA SameCount ==
    ASSUME NEW T
    PROVE  V!Cardinality(T) = Cardinality(T)
BY DEF V!Cardinality, Cardinality

LEMMA SameCountP ==
    ASSUME NEW T
    PROVE  P!Cardinality(T) = Cardinality(T)
BY DEF P!Cardinality, Cardinality
-------------------------------------------------------------------------------
(* The vector memory *)

Item == [kind : {"preference", "procedure"}, summary : Seq(V!Texts),
         source : SUBSET Nat, active : BOOLEAN]

\* What an item says is a preference, or the rules merged into it; no two say the same.
ItemsInv ==
    /\ items \in Seq(Item) /\ seq \in Nat
    /\ \A i \in DOMAIN items :
          /\ items[i].kind = "preference" => \E p \in Preferences : items[i].summary = <<p>>
          /\ items[i].kind = "procedure" =>
                /\ V!ToSet(items[i].summary) \subseteq Rules
                /\ items[i].summary # <<>> /\ V!IsInjective(items[i].summary)
          /\ items[i].source \subseteq 0..seq
    /\ \A i, j \in DOMAIN items :
          items[i].kind = items[j].kind /\ items[i].summary = items[j].summary => i = j

\* A save knows its text and, past its search, a rule to rewrite.
SavingInv ==
    /\ saving \in [V!Savers -> [phase : {"idle", "embedding", "merging"},
                                text : V!Texts \cup {""}, source : SUBSET (0..seq),
                                target : Nat, summary : Seq(Rules)]]
    /\ \A a \in V!Savers :
          /\ saving[a].phase # "idle" => saving[a].text \in V!Texts
          /\ saving[a].phase = "merging" =>
                /\ saving[a].text \in Rules
                /\ saving[a].target \in DOMAIN items
                /\ items[saving[a].target].kind = "procedure"
                /\ saving[a].summary # <<>> /\ V!IsInjective(saving[a].summary)
                /\ saving[a].text \in V!ToSet(saving[a].summary)

\* The ids of the messages written before the next.
Below(n) == {k \in Nat : k < n}

\* The turns of the log have their messages to themselves, and none is undone.
TurnsInv ==
    /\ turn = {} \/ \E t : turn = {t}
    /\ \A t \in turn :
          /\ t = [predicted |-> t.predicted, said |-> t.said, own |-> t.own,
                  replaced |-> t.replaced]
          /\ t.predicted \subseteq 0..seq /\ t.replaced \subseteq Nat
    /\ turn = {} => saving["tool"].phase = "idle"
    /\ turns \in Seq([ids : SUBSET Below(seq), replaced : SUBSET Nat])
    /\ \A m, n \in DOMAIN turns : m # n => turns[m].ids \cap turns[n].ids = {}
    /\ undoneIds \subseteq Below(seq)
    /\ \A n \in DOMAIN turns : turns[n].ids \cap undoneIds = {}

\* The verdict asked for is about items that are there.
JudgingInv ==
    /\ judging = {} \/ \E j : judging = {j}
    /\ \A j \in judging : j = [ids |-> j.ids, seen |-> j.seen]

\* What is held is said by an active item, and a preference has no rival.
HeldInv ==
    /\ held \subseteq V!Texts
    /\ V!RememberedIsHeld
    /\ \A i, j \in V!Active :
          items[i].kind = "preference" /\ items[j].kind = "preference" => i = j

VectorInv == /\ ItemsInv /\ SavingInv /\ TurnsInv /\ JudgingInv /\ HeldInv
             /\ seq <= MaxSeq

LEMMA VectorBounds ==
    /\ Preferences \cap Rules = {} /\ "" \notin V!Texts /\ MaxSeq \in Nat
BY MemoryAssumption DEF V!VectorMemoryAssumption, V!Texts

\* What is said by some items.
LEMMA SaidBy ==
    ASSUME NEW ids, NEW x
    PROVE  x \in V!Said(ids) <=> \E i \in ids : x \in V!ToSet(items[i].summary)
BY DEF V!Said

LEMMA SaidByAfter ==
    ASSUME NEW CONSTANT ids, NEW CONSTANT x
    PROVE  x \in V!Said(ids)' <=> \E i \in ids : x \in V!ToSet(items'[i].summary)
BY DEF V!Said

LEMMA OneSaid ==
    ASSUME NEW p
    PROVE  V!ToSet(<<p>>) = {p} /\ V!IsInjective(<<p>>) /\ <<p>> # <<>> /\ Len(<<p>>) = 1
BY DEF V!ToSet, V!IsInjective

\* Retiring changes nothing but who is active.
LEMMA RetireFacts ==
    ASSUME NEW db \in Seq(Item), NEW ids, NEW new, new = V!Retire(db, ids)
    PROVE  /\ new \in Seq(Item) /\ DOMAIN new = DOMAIN db
           /\ \A i \in DOMAIN db :
                 /\ new[i].kind = db[i].kind /\ new[i].summary = db[i].summary
                 /\ new[i].source = db[i].source
                 /\ new[i].active <=> db[i].active /\ i \notin ids
<1>1. DOMAIN new = DOMAIN db /\ DOMAIN db = 1..Len(db) /\ Len(db) \in Nat
  BY DEF V!Retire
<1>2. ASSUME NEW i \in DOMAIN db
      PROVE  /\ new[i] \in Item
             /\ new[i].kind = db[i].kind /\ new[i].summary = db[i].summary
             /\ new[i].source = db[i].source
             /\ new[i].active <=> db[i].active /\ i \notin ids
  <2>1. db[i] \in Item
    BY <1>1, ElementOfSeq
  <2>2. new[i] = IF i \in ids THEN [db[i] EXCEPT !.active = FALSE] ELSE db[i]
    BY DEF V!Retire
  <2>3. CASE i \in ids
    <3>1. new[i] = [db[i] EXCEPT !.active = FALSE]
      BY <2>2, <2>3
    <3>2. /\ new[i] \in Item /\ new[i].active = FALSE
          /\ new[i].kind = db[i].kind /\ new[i].summary = db[i].summary
          /\ new[i].source = db[i].source
      BY <2>1, <3>1 DEF Item
    <3> QED
      BY <2>3, <3>2
  <2>4. CASE i \notin ids
    BY <2>1, <2>2, <2>4
  <2> QED
    BY <2>3, <2>4
<1>3. new = [i \in 1..Len(db) |-> new[i]]
  BY <1>1 DEF V!Retire
<1>4. new \in Seq(Item)
  BY <1>1, <1>2, <1>3, IsASeq
<1> QED
  BY <1>1, <1>2, <1>4

\* What is there once a summary is written: the item that says it is active, or added.
Written(new, db, kind, summary, source) ==
    /\ new \in Seq(Item) /\ DOMAIN db \subseteq DOMAIN new
    /\ \A i \in DOMAIN db :
          /\ new[i].kind = db[i].kind /\ new[i].summary = db[i].summary
          /\ new[i].source = db[i].source
          /\ new[i].active <=> \/ db[i].active
                               \/ db[i].kind = kind /\ db[i].summary = summary
    /\ \A i \in DOMAIN new \ DOMAIN db :
          /\ i = Len(db) + 1
          /\ new[i].kind = kind /\ new[i].summary = summary
          /\ new[i].source = source /\ new[i].active
          /\ \A j \in DOMAIN db : ~(db[j].kind = kind /\ db[j].summary = summary)
    /\ \E i \in DOMAIN new :
          new[i].kind = kind /\ new[i].summary = summary /\ new[i].active

LEMMA UpsertFacts ==
    ASSUME NEW db \in Seq(Item), NEW kind \in {"preference", "procedure"},
           NEW summary \in Seq(V!Texts), NEW source \in SUBSET Nat
    PROVE  Written(V!Upsert(db, kind, summary, source), db, kind, summary, source)
<1> DEFINE new == V!Upsert(db, kind, summary, source)
<1> SUFFICES Written(new, db, kind, summary, source)
  OBVIOUS
<1> DEFINE same == {i \in DOMAIN db : db[i].kind = kind /\ db[i].summary = summary}
           item == [kind |-> kind, summary |-> summary, source |-> source, active |-> TRUE]
<1>1. DOMAIN db = 1..Len(db) /\ Len(db) \in Nat /\ \A i \in DOMAIN db : db[i] \in Item
  BY ElementOfSeq
<1>2. item \in Item
  BY DEF Item
<1>3. CASE same # {}
  <2>1. new = [i \in DOMAIN db |->
                 IF i \in same THEN [db[i] EXCEPT !.active = TRUE] ELSE db[i]]
    BY <1>3 DEF V!Upsert
  <2>2. DOMAIN new = DOMAIN db
    BY <2>1
  <2>3. ASSUME NEW i \in DOMAIN db
        PROVE  /\ new[i] \in Item
               /\ new[i].kind = db[i].kind /\ new[i].summary = db[i].summary
               /\ new[i].source = db[i].source
               /\ new[i].active <=> db[i].active \/ i \in same
    <3>1. new[i] = IF i \in same THEN [db[i] EXCEPT !.active = TRUE] ELSE db[i]
      BY <2>1
    <3>2. db[i] \in Item
      BY <1>1
    <3> HIDE DEF same, new
    <3> QED
      BY <3>1, <3>2 DEF Item
  <2>4. new = [i \in 1..Len(db) |-> new[i]]
    BY <1>1, <2>1
  <2>5. new \in Seq(Item)
    BY <1>1, <2>3, <2>4, IsASeq
  <2> HIDE DEF new
  <2> QED
    BY <1>3, <2>2, <2>3, <2>5 DEF Written
<1>4. CASE same = {}
  <2>1. new = Append(db, item)
    BY <1>4 DEF V!Upsert
  <2>2. /\ new \in Seq(Item) /\ Len(new) = Len(db) + 1
        /\ \A i \in 1..Len(db) : new[i] = db[i]
        /\ new[Len(db) + 1] = item
    BY <1>2, <2>1, AppendProperties
  <2>3. DOMAIN new = 1..(Len(db) + 1)
    BY <2>2
  <2>4. Len(db) + 1 \in DOMAIN new
    BY <1>1, <2>3
  <2>5. /\ new[Len(db) + 1].kind = kind /\ new[Len(db) + 1].summary = summary
        /\ new[Len(db) + 1].source = source /\ new[Len(db) + 1].active
    BY <2>2
  <2>6. \A i \in DOMAIN new \ DOMAIN db : i = Len(db) + 1
    BY <1>1, <2>3
  <2>7. \A j \in DOMAIN db : ~(db[j].kind = kind /\ db[j].summary = summary)
    BY <1>4
  <2> HIDE DEF item, same, new
  <2> QED
    BY <1>1, <2>2, <2>3, <2>4, <2>5, <2>6, <2>7 DEF Written
<1> QED
  BY <1>3, <1>4
\* Saving a preference: the active preferences are retired and it is written.
LEMMA PreferenceSaved ==
    ASSUME VectorInv, NEW a \in V!Savers, V!SavePreference(a)
    PROVE  /\ saving[a].text \in Preferences /\ saving[a].source \subseteq 0..seq
           /\ \E mid \in Seq(Item) :
                 /\ DOMAIN mid = DOMAIN items
                 /\ \A i \in DOMAIN items :
                       /\ mid[i].kind = items[i].kind /\ mid[i].summary = items[i].summary
                       /\ mid[i].source = items[i].source
                       /\ mid[i].active <=> items[i].active /\ items[i].kind # "preference"
                 /\ Written(items', mid, "preference", <<saving[a].text>>, saving[a].source)
<1> DEFINE text == saving[a].text
           source == saving[a].source
           mid == V!Retire(items, V!RivalsOf(a))
<1>0. /\ saving[a].source \subseteq 0..seq /\ seq \in Nat
  BY DEF VectorInv, ItemsInv, SavingInv
<1>1. /\ text \in Preferences /\ source \subseteq 0..seq /\ source \in SUBSET Nat
      /\ items' = V!Upsert(mid, "preference", <<text>>, source)
  BY <1>0 DEF V!SavePreference
<1>2. \A i \in DOMAIN items : i \in V!RivalsOf(a) <=> items[i].kind = "preference" /\ items[i].active
  BY <1>1 DEF V!RivalsOf, V!Similar, V!Kind
<1>3. items \in Seq(Item) /\ <<text>> \in Seq(V!Texts)
  BY <1>1 DEF VectorInv, ItemsInv, V!Texts
<1>4. /\ mid \in Seq(Item) /\ DOMAIN mid = DOMAIN items
      /\ \A i \in DOMAIN items :
            /\ mid[i].kind = items[i].kind /\ mid[i].summary = items[i].summary
            /\ mid[i].source = items[i].source
            /\ mid[i].active <=> items[i].active /\ i \notin V!RivalsOf(a)
  BY <1>3, RetireFacts
<1> HIDE DEF mid
<1>5. \A i \in DOMAIN items :
         mid[i].active <=> items[i].active /\ items[i].kind # "preference"
  BY <1>2, <1>4
<1>6. Written(items', mid, "preference", <<text>>, source)
  BY <1>1, <1>3, <1>4, UpsertFacts
<1> QED
  BY <1>1, <1>4, <1>5, <1>6

\* Saving a rule that is like no other.
LEMMA RuleSaved ==
    ASSUME VectorInv, NEW a \in V!Savers, V!SaveRule(a)
    PROVE  /\ saving[a].text \in Rules /\ saving[a].source \subseteq 0..seq
           /\ Written(items', items, "procedure", <<saving[a].text>>, saving[a].source)
<1> DEFINE text == saving[a].text
           source == saving[a].source
<1>0. /\ saving[a].source \subseteq 0..seq /\ seq \in Nat
  BY DEF VectorInv, ItemsInv, SavingInv
<1>1. /\ text \in Rules /\ source \subseteq 0..seq /\ source \in SUBSET Nat
      /\ items' = V!Upsert(items, "procedure", <<text>>, source)
  BY <1>0 DEF V!SaveRule
<1>2. items \in Seq(Item) /\ <<text>> \in Seq(V!Texts)
  BY <1>1 DEF VectorInv, ItemsInv, V!Texts
<1> QED
  BY <1>1, <1>2, UpsertFacts

\* Writing a merged rule: the rule is rewritten or, when another says the same, gives way
\* to it.
LEMMA RuleMerged ==
    ASSUME VectorInv, NEW a \in V!Savers, V!WriteMerge(a)
    PROVE  /\ saving[a].text \in Rules /\ saving[a].target \in DOMAIN items
           /\ items[saving[a].target].kind = "procedure"
           /\ items' \in Seq(Item) /\ DOMAIN items' = DOMAIN items
           /\ \A i \in DOMAIN items :
                 /\ items'[i].kind = items[i].kind /\ items'[i].source = items[i].source
                 /\ items[i].active /\ i # saving[a].target => items'[i].active
                 /\ items'[i].active => items[i].active \/ items[i].kind = "procedure"
           /\ \/ /\ \A i \in DOMAIN items :
                       /\ items'[i].summary = items[i].summary
                       /\ items[i].summary = saving[a].summary /\ items[i].kind = "procedure" =>
                             items'[i].active
                 /\ \E i \in DOMAIN items : /\ items[i].kind = "procedure"
                                            /\ items[i].summary = saving[a].summary
              \/ /\ items' = [items EXCEPT ![saving[a].target].summary = saving[a].summary]
                 /\ items'[saving[a].target].active <=> items[saving[a].target].active
                 /\ items'[saving[a].target].summary = saving[a].summary
                 /\ \A i \in DOMAIN items \ {saving[a].target} :
                       /\ items'[i] = items[i]
                       /\ ~(/\ items[i].kind = "procedure"
                            /\ items[i].summary = saving[a].summary)
<1> DEFINE id == saving[a].target
           summary == saving[a].summary
<1>1. /\ saving[a].text \in Rules /\ id \in DOMAIN items /\ items[id].kind = "procedure"
      /\ summary \in Seq(Rules) /\ items' = V!Rewritten(id, summary)
  BY DEF VectorInv, SavingInv, V!WriteMerge
<1>2. items \in Seq(Item) /\ summary \in Seq(V!Texts) /\ \A i \in DOMAIN items : items[i] \in Item
  <2>1. summary \in Seq(V!Texts)
    BY <1>1 DEF V!Texts
  <2> QED
    BY <2>1, ElementOfSeq DEF VectorInv, ItemsInv
<1> HIDE DEF id, summary
<1>3. CASE \E i \in DOMAIN items \ {id} : items[i].kind = "procedure" /\ items[i].summary = summary
  <2> DEFINE mid == V!Retire(items, {id})
  <2>1. items' = V!Upsert(mid, "procedure", summary, {})
    BY <1>1, <1>3 DEF V!Rewritten
  <2>2. /\ mid \in Seq(Item) /\ DOMAIN mid = DOMAIN items
        /\ \A i \in DOMAIN items :
              /\ mid[i].kind = items[i].kind /\ mid[i].summary = items[i].summary
              /\ mid[i].source = items[i].source
              /\ mid[i].active <=> items[i].active /\ i \notin {id}
    BY <1>2, RetireFacts
  <2> HIDE DEF mid
  <2>3. Written(items', mid, "procedure", summary, {})
    BY <1>2, <2>1, <2>2, UpsertFacts
  <2>4. DOMAIN items' = DOMAIN items
    BY <1>3, <2>2, <2>3 DEF Written
  <2>5. \A i \in DOMAIN items :
              /\ items'[i].kind = items[i].kind /\ items'[i].source = items[i].source
              /\ items'[i].summary = items[i].summary
              /\ items'[i].active <=> \/ items[i].active /\ i # id
                                      \/ items[i].kind = "procedure" /\ items[i].summary = summary
    <3> SUFFICES ASSUME NEW i \in DOMAIN items
        PROVE  /\ items'[i].kind = items[i].kind /\ items'[i].source = items[i].source
               /\ items'[i].summary = items[i].summary
               /\ items'[i].active <=> \/ items[i].active /\ i # id
                                       \/ items[i].kind = "procedure" /\ items[i].summary = summary
      OBVIOUS
    <3>1. /\ items'[i].kind = mid[i].kind /\ items'[i].summary = mid[i].summary
          /\ items'[i].source = mid[i].source
          /\ items'[i].active <=> \/ mid[i].active
                                  \/ mid[i].kind = "procedure" /\ mid[i].summary = summary
      BY <2>2, <2>3 DEF Written
    <3> QED
      BY <2>2, <3>1
  <2>6. items' \in Seq(Item)
    BY <2>3 DEF Written
  <2> QED
    BY <1>1, <1>3, <2>4, <2>5, <2>6 DEF id, summary
<1>4. CASE ~\E i \in DOMAIN items \ {id} : items[i].kind = "procedure" /\ items[i].summary = summary
  <2>1. items' = [items EXCEPT ![id].summary = summary]
    BY <1>1, <1>4 DEF V!Rewritten
  <2>2. /\ DOMAIN items' = DOMAIN items
        /\ \A i \in DOMAIN items \ {id} : items'[i] = items[i]
        /\ items'[id] = [items[id] EXCEPT !.summary = summary]
    BY <1>1, <1>2, <2>1
  <2>3. /\ items'[id] \in Item /\ items'[id].kind = items[id].kind
        /\ items'[id].source = items[id].source /\ items'[id].summary = summary
        /\ items'[id].active <=> items[id].active
    BY <1>1, <1>2, <2>2 DEF Item
  <2>4. items' \in Seq(Item)
    BY <1>1, <1>2, <2>1, <2>2, <2>3, ExceptSeq
  <2> QED
    BY <1>1, <1>4, <2>1, <2>2, <2>3, <2>4 DEF id, summary
<1> QED
  BY <1>3, <1>4

\* A step of the vector memory keeps every item, its kind and its source, and the summary
\* of every preference.
Kept == /\ DOMAIN items \subseteq DOMAIN items'
        /\ \A i \in DOMAIN items :
              /\ items'[i].kind = items[i].kind /\ items'[i].source = items[i].source
              /\ items[i].kind = "preference" => items'[i].summary = items[i].summary

\* The steps that write no item: they leave the items, or retire some.
Retiring(ids) == items' = V!Retire(items, ids)

LEMMA VectorSteps ==
    ASSUME V!Next
    PROVE  \/ V!Push \/ V!StartTurn \/ V!CommitTurn \/ V!UndoTurn
           \/ \E text \in V!Texts : V!Remember(text)
           \/ \E text \in V!Texts : V!Extract(text)
           \/ \E a \in V!Savers : V!SavePreference(a)
           \/ \E a \in V!Savers : V!SaveRule(a)
           \/ \E a \in V!Savers : V!WriteMerge(a)
           \/ \E a \in V!Savers : \E target \in DOMAIN items : V!PickTarget(a, target)
           \/ \E id \in DOMAIN items : V!Forget(id)
           \/ \E ids \in SUBSET DOMAIN items : V!Judge(ids)
           \/ \E ids \in SUBSET DOMAIN items : V!Judged(ids)
BY DEF V!Next

LEMMA ItemFacts ==
    ASSUME VectorInv
    PROVE  /\ DOMAIN items = 1..Len(items) /\ Len(items) \in Nat
           /\ \A i \in DOMAIN items :
                 /\ items[i] \in Item
                 /\ items[i].kind \in {"preference", "procedure"}
                 /\ items[i].summary \in Seq(V!Texts)
                 /\ items[i].source \subseteq 0..seq
<1>1. items \in Seq(Item) /\ DOMAIN items = 1..Len(items) /\ Len(items) \in Nat
  BY DEF VectorInv, ItemsInv
<1>2. \A i \in DOMAIN items : items[i] \in Item
  BY <1>1, ElementOfSeq
<1> QED
  BY <1>1, <1>2 DEF Item, VectorInv, ItemsInv

\* Retiring keeps what is said of the items.
LEMMA RetiringItems ==
    ASSUME VectorInv, NEW ids, Retiring(ids), seq' = seq
    PROVE  ItemsInv' /\ Kept
<1>1. /\ items' \in Seq(Item) /\ DOMAIN items' = DOMAIN items
      /\ \A i \in DOMAIN items :
            /\ items'[i].kind = items[i].kind /\ items'[i].summary = items[i].summary
            /\ items'[i].source = items[i].source
  <2>1. items \in Seq(Item)
    BY DEF VectorInv, ItemsInv
  <2> QED
    BY <2>1, RetireFacts DEF Retiring
<1> QED
  BY <1>1 DEF VectorInv, ItemsInv, Kept

LEMMA SameItems ==
    ASSUME VectorInv, items' = items, seq' \in Nat, seq <= seq'
    PROVE  ItemsInv' /\ Kept
<1>1. 0..seq \subseteq 0..seq'
  BY DEF VectorInv, ItemsInv
<1> QED
  BY <1>1 DEF VectorInv, ItemsInv, Kept

\* Writing a new summary keeps what is said of the items.
LEMMA WritingItems ==
    ASSUME VectorInv, seq' = seq,
           NEW CONSTANT mid \in Seq(Item), DOMAIN mid = DOMAIN items,
           \A i \in DOMAIN items :
              /\ mid[i].kind = items[i].kind /\ mid[i].summary = items[i].summary
              /\ mid[i].source = items[i].source,
           NEW CONSTANT kind, NEW CONSTANT text, NEW CONSTANT source,
           source \subseteq 0..seq,
           \/ kind = "preference" /\ text \in Preferences
           \/ kind = "procedure" /\ text \in Rules,
           Written(items', mid, kind, <<text>>, source)
    PROVE  ItemsInv' /\ Kept
<1>1. /\ items' \in Seq(Item) /\ DOMAIN items \subseteq DOMAIN items'
      /\ \A i \in DOMAIN items :
            /\ items'[i].kind = items[i].kind /\ items'[i].summary = items[i].summary
            /\ items'[i].source = items[i].source
      /\ \A i \in DOMAIN items' \ DOMAIN items :
            /\ i = Len(mid) + 1
            /\ items'[i].kind = kind /\ items'[i].summary = <<text>>
            /\ items'[i].source = source
            /\ \A j \in DOMAIN items : ~(items[j].kind = kind /\ items[j].summary = <<text>>)
  BY DEF Written
<1>2. Kept
  BY <1>1 DEF Kept
<1>3. ASSUME NEW i \in DOMAIN items'
      PROVE  /\ items'[i].kind = "preference" => \E p \in Preferences : items'[i].summary = <<p>>
             /\ items'[i].kind = "procedure" =>
                  /\ V!ToSet(items'[i].summary) \subseteq Rules
                  /\ items'[i].summary # <<>> /\ V!IsInjective(items'[i].summary)
             /\ items'[i].source \subseteq 0..seq'
  <2>1. CASE i \in DOMAIN items
    BY <1>1, <2>1 DEF VectorInv, ItemsInv
  <2>2. CASE i \notin DOMAIN items
    <3>1. items'[i].kind = kind /\ items'[i].summary = <<text>> /\ items'[i].source = source
      BY <1>1, <2>2
    <3> QED
      BY <3>1, OneSaid
  <2> QED
    BY <2>1, <2>2
<1>4. ASSUME NEW i \in DOMAIN items', NEW j \in DOMAIN items',
             items'[i].kind = items'[j].kind /\ items'[i].summary = items'[j].summary
      PROVE  i = j
  <2>1. \A m, n \in DOMAIN items :
           items[m].kind = items[n].kind /\ items[m].summary = items[n].summary => m = n
    BY DEF VectorInv, ItemsInv
  <2>2. CASE i \in DOMAIN items /\ j \in DOMAIN items
    BY <1>1, <1>4, <2>1, <2>2
  <2>3. CASE i \notin DOMAIN items /\ j \notin DOMAIN items
    BY <1>1, <2>3
  <2>4. CASE i \in DOMAIN items /\ j \notin DOMAIN items
    BY <1>1, <1>4, <2>4
  <2>5. CASE i \notin DOMAIN items /\ j \in DOMAIN items
    BY <1>1, <1>4, <2>5
  <2> QED
    BY <2>2, <2>3, <2>4, <2>5
<1>5. seq' \in Nat
  BY DEF VectorInv, ItemsInv
<1> QED
  BY <1>1, <1>2, <1>3, <1>4, <1>5 DEF ItemsInv

LEMMA MergingItems ==
    ASSUME VectorInv, NEW a \in V!Savers, V!WriteMerge(a)
    PROVE  ItemsInv' /\ Kept
<1> DEFINE id == saving[a].target
           summary == saving[a].summary
<1>1. /\ id \in DOMAIN items /\ items[id].kind = "procedure"
      /\ summary # <<>> /\ V!IsInjective(summary) /\ V!ToSet(summary) \subseteq Rules
  <2>1. /\ id \in DOMAIN items /\ items[id].kind = "procedure"
        /\ summary # <<>> /\ V!IsInjective(summary) /\ summary \in Seq(Rules)
    BY DEF V!WriteMerge, VectorInv, SavingInv
  <2> QED
    BY <2>1 DEF V!ToSet
<1>2. seq' = seq
  BY DEF V!WriteMerge
<1>3. /\ items' \in Seq(Item) /\ DOMAIN items' = DOMAIN items
      /\ \A i \in DOMAIN items :
            items'[i].kind = items[i].kind /\ items'[i].source = items[i].source
  BY RuleMerged
<1>4. CASE \A i \in DOMAIN items : items'[i].summary = items[i].summary
  BY <1>2, <1>3, <1>4 DEF VectorInv, ItemsInv, Kept
<1>5. CASE /\ items'[id].summary = summary
           /\ \A i \in DOMAIN items \ {id} :
                 /\ items'[i] = items[i]
                 /\ ~(items[i].kind = "procedure" /\ items[i].summary = summary)
  <2> HIDE DEF id, summary
  <2>1. Kept
    BY <1>1, <1>3, <1>5 DEF Kept
  <2>2. \A i, j \in DOMAIN items' :
           items'[i].kind = items'[j].kind /\ items'[i].summary = items'[j].summary => i = j
    BY <1>1, <1>3, <1>5 DEF VectorInv, ItemsInv
  <2>3. ASSUME NEW i \in DOMAIN items'
        PROVE  /\ items'[i].kind = "preference" =>
                     \E p \in Preferences : items'[i].summary = <<p>>
               /\ items'[i].kind = "procedure" =>
                     /\ V!ToSet(items'[i].summary) \subseteq Rules
                     /\ items'[i].summary # <<>> /\ V!IsInjective(items'[i].summary)
               /\ items'[i].source \subseteq 0..seq'
    BY <1>1, <1>2, <1>3, <1>5 DEF VectorInv, ItemsInv
  <2> QED
    BY <1>2, <1>3, <2>1, <2>2, <2>3 DEF VectorInv, ItemsInv
<1>6. \/ \A i \in DOMAIN items : items'[i].summary = items[i].summary
      \/ /\ items'[id].summary = summary
         /\ \A i \in DOMAIN items \ {id} :
               /\ items'[i] = items[i]
               /\ ~(items[i].kind = "procedure" /\ items[i].summary = summary)
  BY RuleMerged
<1> QED
  BY <1>4, <1>5, <1>6

\* Undoing, forgetting and a verdict retire items, and nothing else.
LEMMA RetiringSteps ==
    ASSUME V!UndoTurn \/ (\E id \in DOMAIN items : V!Forget(id))
           \/ (\E ids \in SUBSET DOMAIN items : V!Judged(ids))
    PROVE  seq' = seq /\ \E ids : Retiring(ids)
<1>1. CASE V!UndoTurn
  BY <1>1 DEF V!UndoTurn, V!Retire, Retiring
<1>2. CASE \E id \in DOMAIN items : V!Forget(id)
  BY <1>2 DEF V!Forget, Retiring
<1>3. CASE \E ids \in SUBSET DOMAIN items : V!Judged(ids)
  BY <1>3 DEF V!Judged, Retiring
<1> QED
  BY <1>1, <1>2, <1>3

LEMMA ItemsStep ==
    ASSUME VectorInv, V!Next
    PROVE  /\ ItemsInv' /\ Kept
           /\ seq' \in Nat /\ seq <= seq' /\ seq' <= MaxSeq
<1>0. seq \in Nat /\ seq <= MaxSeq /\ MaxSeq \in Nat
  BY VectorBounds DEF VectorInv, ItemsInv
<1>1. CASE \/ V!Push \/ V!StartTurn \/ V!CommitTurn
           \/ (\E text \in V!Texts : V!Remember(text))
           \/ (\E text \in V!Texts : V!Extract(text))
           \/ (\E a \in V!Savers : \E target \in DOMAIN items : V!PickTarget(a, target))
           \/ (\E ids \in SUBSET DOMAIN items : V!Judge(ids))
  <2>1. items' = items /\ seq' \in Nat /\ seq <= seq' /\ seq' <= MaxSeq
    <3>1. CASE V!Push
      BY <1>0, <3>1 DEF V!Push
    <3>2. CASE V!CommitTurn
      BY <1>0, <3>2 DEF V!CommitTurn
    <3>3. CASE V!StartTurn
      BY <1>0, <3>3 DEF V!StartTurn
    <3>4. CASE \E text \in V!Texts : V!Remember(text)
      BY <1>0, <3>4 DEF V!Remember
    <3>5. CASE \E text \in V!Texts : V!Extract(text)
      BY <1>0, <3>5 DEF V!Extract
    <3>6. CASE \E a \in V!Savers : \E target \in DOMAIN items : V!PickTarget(a, target)
      BY <1>0, <3>6 DEF V!PickTarget
    <3>7. CASE \E ids \in SUBSET DOMAIN items : V!Judge(ids)
      BY <1>0, <3>7 DEF V!Judge
    <3> QED
      BY <1>1, <3>1, <3>2, <3>3, <3>4, <3>5, <3>6, <3>7
  <2> QED
    BY <2>1, SameItems
<1>2. CASE V!UndoTurn \/ (\E id \in DOMAIN items : V!Forget(id))
           \/ (\E ids \in SUBSET DOMAIN items : V!Judged(ids))
  <2>1. seq' = seq /\ \E ids : Retiring(ids)
    BY <1>2, RetiringSteps
  <2> QED
    BY <1>0, <2>1, RetiringItems
<1>3. ASSUME NEW a \in V!Savers, V!SavePreference(a)
      PROVE  ItemsInv' /\ Kept /\ seq' = seq
  <2>1. seq' = seq
    BY <1>3 DEF V!SavePreference
  <2>2. PICK text : text = saving[a].text
    OBVIOUS
  <2>3. PICK source : source = saving[a].source
    OBVIOUS
  <2>4. PICK mid \in Seq(Item) :
              /\ DOMAIN mid = DOMAIN items
              /\ \A i \in DOMAIN items :
                    /\ mid[i].kind = items[i].kind /\ mid[i].summary = items[i].summary
                    /\ mid[i].source = items[i].source
                    /\ mid[i].active <=> items[i].active /\ items[i].kind # "preference"
              /\ Written(items', mid, "preference", <<text>>, source)
    BY <1>3, <2>2, <2>3, PreferenceSaved
  <2>5. text \in Preferences /\ source \subseteq 0..seq
    BY <1>3, <2>2, <2>3, PreferenceSaved
  <2> QED
    BY <2>1, <2>4, <2>5, WritingItems
<1>4. ASSUME NEW a \in V!Savers, V!SaveRule(a)
      PROVE  ItemsInv' /\ Kept /\ seq' = seq
  <2>1. seq' = seq
    BY <1>4 DEF V!SaveRule
  <2>2. PICK text : text = saving[a].text
    OBVIOUS
  <2>3. PICK source : source = saving[a].source
    OBVIOUS
  <2>4. PICK mid : mid = items
    OBVIOUS
  <2>5. mid \in Seq(Item) /\ Written(items', mid, "procedure", <<text>>, source)
    BY <1>4, <2>2, <2>3, <2>4, RuleSaved DEF VectorInv, ItemsInv
  <2>6. text \in Rules /\ source \subseteq 0..seq
    BY <1>4, <2>2, <2>3, RuleSaved
  <2> QED
    BY <2>1, <2>4, <2>5, <2>6, WritingItems
<1>5. ASSUME NEW a \in V!Savers, V!WriteMerge(a)
      PROVE  ItemsInv' /\ Kept /\ seq' = seq
  BY <1>5, MergingItems DEF V!WriteMerge
<1> QED
  BY <1>0, <1>1, <1>2, <1>3, <1>4, <1>5, VectorSteps

\* What a save that has returned does to the turn: it stays the one it was, and what it
\* has said grows by the preference that was saved.
TurnGoesOn(a, text, replaced) ==
    \/ turn = {} /\ turn' = {}
    \/ \E t, u : /\ turn = {t} /\ turn' = {u}
                 /\ u = [predicted |-> u.predicted, said |-> u.said, own |-> u.own,
                         replaced |-> u.replaced]
                 /\ u.predicted = t.predicted
                 /\ u.replaced \subseteq t.replaced \cup replaced
                 /\ u.said = IF a = "tool" THEN t.said \cup ({text} \cap Preferences)
                             ELSE t.said

LEMMA ReportedTurn ==
    ASSUME TurnsInv, NEW a \in V!Savers, NEW CONSTANT text, NEW replaced,
           V!Reported(a, text, replaced)
    PROVE  TurnGoesOn(a, text, replaced)
<1> USE DEF TurnGoesOn
<1>1. CASE a # "tool"
  <2>1. turn' = turn
    BY <1>1 DEF V!Reported
  <2> QED
    BY <1>1, <2>1 DEF TurnsInv
<1>2. CASE a = "tool"
  <2> DEFINE mine == {i \in DOMAIN items' :
                         text \in V!ToSet(items'[i].summary) /\ items'[i].active}
             After(t) == [t EXCEPT !.said = @ \cup ({text} \cap Preferences),
                                   !.own = @ \cup mine, !.replaced = @ \cup replaced]
  <2>1. turn' = {After(t) : t \in turn}
    BY <1>2 DEF V!Reported
  <2>2. CASE turn = {}
    BY <2>1, <2>2
  <2>3. CASE \E t : turn = {t}
    <3>1. PICK t : turn = {t}
      BY <2>3
    <3>2. t = [predicted |-> t.predicted, said |-> t.said, own |-> t.own,
               replaced |-> t.replaced]
      BY <3>1 DEF TurnsInv
    <3>3. /\ After(t).predicted = t.predicted
          /\ After(t).said = t.said \cup ({text} \cap Preferences)
          /\ After(t).replaced = t.replaced \cup replaced
          /\ After(t) = [predicted |-> After(t).predicted, said |-> After(t).said,
                         own |-> After(t).own, replaced |-> After(t).replaced]
      <4> HIDE DEF mine
      <4>1. PICK p, s, o, r : t = [predicted |-> p, said |-> s, own |-> o, replaced |-> r]
        BY <3>2
      <4>2. After(t) = [predicted |-> p, said |-> s \cup ({text} \cap Preferences),
                        own |-> o \cup mine, replaced |-> r \cup replaced]
        <5>1. PICK x, m : x = s \cup ({text} \cap Preferences) /\ m = o \cup mine
          OBVIOUS
        <5>2. PICK q : q = r \cup replaced
          OBVIOUS
        <5>3. t.said = s /\ t.own = o /\ t.replaced = r
          BY <4>1
        <5>4. After(t) = [t EXCEPT !.said = x, !.own = m, !.replaced = q]
          BY <5>1, <5>2, <5>3
        <5>5. t \in [predicted : {p}, said : {s}, own : {o}, replaced : {r}]
          BY <4>1
        <5>6. [t EXCEPT !.said = x, !.own = m, !.replaced = q] \in
                [predicted : {p}, said : {x}, own : {m}, replaced : {q}]
          BY <5>5
        <5> HIDE DEF After
        <5> QED
          BY <5>1, <5>2, <5>4, <5>6
      <4> HIDE DEF After
      <4> QED
        BY <4>1, <4>2
    <3>4. turn' = {After(t)}
      BY <2>1, <3>1
    <3> HIDE DEF After
    <3> QED
      BY <1>2, <3>1, <3>3, <3>4
  <2> QED
    BY <2>2, <2>3 DEF TurnsInv
<1> QED
  BY <1>1, <1>2

\* The steps that end a save.
LEMMA Ending ==
    ASSUME NEW a \in V!Savers, V!SavePreference(a) \/ V!SaveRule(a) \/ V!WriteMerge(a)
    PROVE  /\ saving[a].phase # "idle"
           /\ UNCHANGED <<seq, turns, ingested, windows, calls, undoneIds>>
           /\ \E replaced \in SUBSET DOMAIN items : V!Reported(a, saving[a].text, replaced)
<1>1. CASE V!SavePreference(a)
  <2>1. PICK mine : mine = V!RivalsOf(a) \ V!Holder(items', "preference", <<saving[a].text>>)
    OBVIOUS
  <2>2. mine \in SUBSET DOMAIN items
    BY <2>1 DEF V!RivalsOf, V!Similar
  <2> QED
    BY <1>1, <2>1, <2>2 DEF V!SavePreference
<1>2. CASE V!SaveRule(a) \/ V!WriteMerge(a)
  BY <1>2 DEF V!SaveRule, V!WriteMerge
<1> QED
  BY <1>1, <1>2

LEMMA NoSaveFacts ==
    V!NoSave \in [phase : {"idle", "embedding", "merging"}, text : V!Texts \cup {""},
                  source : SUBSET (0..seq), target : Nat, summary : Seq(Rules)]
    /\ V!NoSave.phase = "idle"
<1>1. <<>> \in Seq(Rules)
  OBVIOUS
<1> QED
  BY <1>1 DEF V!NoSave

LEMMA SavingStep ==
    ASSUME VectorInv, V!Next
    PROVE  SavingInv'
<1> DEFINE Save == [phase : {"idle", "embedding", "merging"}, text : V!Texts \cup {""},
                    source : SUBSET (0..seq), target : Nat, summary : Seq(Rules)]
           Good(v) == /\ v \in Save
                      /\ v.phase # "idle" => v.text \in V!Texts
                      /\ v.phase = "merging" =>
                            /\ v.text \in Rules /\ v.target \in DOMAIN items
                            /\ items[v.target].kind = "procedure"
                            /\ v.summary # <<>> /\ V!IsInjective(v.summary)
                            /\ v.text \in V!ToSet(v.summary)
<1>1. /\ saving \in [V!Savers -> Save]
      /\ \A a \in V!Savers : Good(saving[a])
  BY DEF VectorInv, SavingInv
<1>2. /\ Kept /\ 0..seq \subseteq 0..seq'
  <2>1. seq \in Nat /\ seq' \in Nat /\ seq <= seq' /\ Kept
    BY ItemsStep DEF VectorInv, ItemsInv
  <2> QED
    BY <2>1
<1>3. ASSUME saving' \in [V!Savers -> Save], \A a \in V!Savers : Good(saving'[a])
      PROVE  SavingInv'
  <2>1. \A a \in V!Savers : saving'[a].source \in SUBSET (0..seq')
    BY <1>2, <1>3
  <2>2. saving' \in [V!Savers -> [phase : {"idle", "embedding", "merging"},
                                  text : V!Texts \cup {""}, source : SUBSET (0..seq'),
                                  target : Nat, summary : Seq(Rules)]]
    BY <1>2, <1>3
  <2>3. \A i \in DOMAIN items : i \in DOMAIN items' /\ items'[i].kind = items[i].kind
    BY <1>2 DEF Kept
  <2> QED
    BY <1>3, <2>2, <2>3 DEF SavingInv
<1>4. CASE saving' = saving
  BY <1>1, <1>3, <1>4
<1>5. ASSUME NEW a \in V!Savers, NEW CONSTANT v, Good(v), saving' = [saving EXCEPT ![a] = v]
      PROVE  SavingInv'
  <2> HIDE DEF Save
  <2>1. saving' \in [V!Savers -> Save] /\ \A b \in V!Savers : Good(saving'[b])
    BY <1>1, <1>5
  <2> QED
    BY <1>3, <2>1
<1>6. ASSUME NEW a \in V!Savers, NEW text \in V!Texts, NEW source \in SUBSET (0..seq),
             V!BeginSave(a, text, source)
      PROVE  SavingInv'
  <2>1. PICK v : /\ v = [V!NoSave EXCEPT !.phase = "embedding", !.text = text,
                                         !.source = source]
                 /\ saving' = [saving EXCEPT ![a] = v]
    BY <1>6 DEF V!BeginSave
  <2>2. v = [phase |-> "embedding", text |-> text, source |-> source, target |-> 0,
             summary |-> <<>>]
    BY <2>1 DEF V!NoSave
  <2>3. <<>> \in Seq(Rules)
    OBVIOUS
  <2>4. Good(v)
    BY <2>2, <2>3
  <2>5. saving' = [saving EXCEPT ![a] = v]
    BY <2>1
  <2> HIDE DEF Good
  <2> QED
    BY <1>5, <2>4, <2>5
<1>7. ASSUME NEW text \in V!Texts, V!Remember(text)
      PROVE  SavingInv'
  <2>1. PICK t \in turn : V!BeginSave("tool", text, t.predicted)
    BY <1>7 DEF V!Remember
  <2>2. PICK source : source = t.predicted
    OBVIOUS
  <2>3. source \in SUBSET (0..seq)
    BY <2>2 DEF VectorInv, TurnsInv
  <2> QED
    BY <1>6, <2>1, <2>2, <2>3 DEF V!Savers
<1>8. ASSUME NEW text \in V!Texts, V!Extract(text)
      PROVE  SavingInv'
  <2>1. PICK source : source = UNION {t.ids : t \in V!ToSet(turns)}
    OBVIOUS
  <2>2. V!BeginSave("window", text, source)
    BY <1>8, <2>1 DEF V!Extract
  <2>3. source \in SUBSET (0..seq)
    <3>1. turns \in Seq([ids : SUBSET Below(seq), replaced : SUBSET Nat]) /\ seq \in Nat
      BY DEF VectorInv, TurnsInv, ItemsInv
    <3>2. \A n \in DOMAIN turns : turns[n].ids \in SUBSET Below(seq)
      <4>1. \A n \in 1..Len(turns) : turns[n] \in [ids : SUBSET Below(seq),
                                                   replaced : SUBSET Nat]
        BY <3>1, ElementOfSeq
      <4> QED
        BY <3>1, <4>1
    <3>3. Below(seq) \subseteq 0..seq
      BY <3>1 DEF Below
    <3> QED
      BY <2>1, <3>2, <3>3 DEF V!ToSet
  <2> QED
    BY <1>6, <2>2, <2>3 DEF V!Savers
<1>9. ASSUME NEW a \in V!Savers, NEW target \in DOMAIN items, V!PickTarget(a, target)
      PROVE  SavingInv'
  <2>1. PICK summary : summary = V!MergedSummary(items[target].summary, saving[a].text)
    OBVIOUS
  <2>2. PICK v : v = [saving[a] EXCEPT !.phase = "merging", !.target = target,
                                       !.summary = summary]
    OBVIOUS
  <2>3. saving' = [saving EXCEPT ![a] = v]
    BY <1>1, <1>9, <2>1, <2>2 DEF V!PickTarget
  <2>4. saving[a].text \in Rules /\ items[target].kind = "procedure"
    <3>1. saving[a].text \in Rules /\ target \in V!Similar(saving[a].text)
      BY <1>9 DEF V!PickTarget
    <3> QED
      BY <3>1, VectorBounds DEF V!Similar, V!Kind
  <2>5. PICK old : old = items[target].summary
    OBVIOUS
  <2>6. old \in Seq(Rules) /\ old # <<>> /\ V!IsInjective(old)
    <3>1. V!ToSet(old) \subseteq Rules /\ old # <<>> /\ V!IsInjective(old)
      BY <2>4, <2>5 DEF VectorInv, ItemsInv
    <3>2. old \in Seq(V!Texts)
      BY <2>5, ItemFacts
    <3>3. \A i \in 1..Len(old) : old[i] \in Rules
      BY <3>1, <3>2 DEF V!ToSet
    <3> QED
      BY <3>1, <3>2, <3>3
  <2>7. /\ summary \in Seq(Rules) /\ summary # <<>> /\ V!IsInjective(summary)
        /\ saving[a].text \in V!ToSet(summary)
    <3>1. PICK text \in Rules : text = saving[a].text
      BY <2>4
    <3>2. CASE text \in V!ToSet(old)
      BY <2>1, <2>5, <2>6, <3>1, <3>2 DEF V!MergedSummary
    <3>3. CASE text \notin V!ToSet(old)
      <4>1. summary = Append(old, text)
        BY <2>1, <2>5, <3>1, <3>3 DEF V!MergedSummary
      <4>2. /\ summary \in Seq(Rules) /\ Len(summary) = Len(old) + 1
            /\ \A i \in 1..Len(old) : summary[i] = old[i]
            /\ summary[Len(old) + 1] = text
        BY <2>6, <4>1, AppendProperties
      <4>3. \A i \in 1..Len(old) : old[i] # text
        BY <2>6, <3>3 DEF V!ToSet
      <4>4. \A i, j \in 1..Len(old) : old[i] = old[j] => i = j
        BY <2>6 DEF V!IsInjective
      <4>5. DOMAIN summary = 1..(Len(old) + 1) /\ Len(old) \in Nat
        BY <2>6, <4>2
      <4>6. V!IsInjective(summary)
        BY <4>2, <4>3, <4>4, <4>5 DEF V!IsInjective
      <4>7. text \in V!ToSet(summary)
        BY <4>2, <4>5 DEF V!ToSet
      <4> QED
        BY <3>1, <4>2, <4>5, <4>6, <4>7
    <3> QED
      BY <3>2, <3>3
  <2>8. target \in Nat
    BY ItemFacts
  <2>9. Good(v)
    <3>1. saving[a] \in Save
      BY <1>1
    <3>2. /\ v.phase = "merging" /\ v.text = saving[a].text /\ v.source = saving[a].source
          /\ v.target = target /\ v.summary = summary /\ v \in Save
      BY <2>2, <2>7, <2>8, <3>1
    <3> HIDE DEF Save
    <3> QED
      BY <2>4, <2>7, <3>2 DEF V!Texts
  <2> HIDE DEF Good
  <2> QED
    BY <1>5, <2>3, <2>9
<1>10. ASSUME NEW a \in V!Savers, V!SavePreference(a) \/ V!SaveRule(a) \/ V!WriteMerge(a)
       PROVE  SavingInv'
  <2>1. saving' = [saving EXCEPT ![a] = V!NoSave]
    BY <1>10, Ending DEF V!Reported
  <2>2. PICK v : v = V!NoSave
    OBVIOUS
  <2>3. Good(v)
    BY <2>2, NoSaveFacts
  <2> HIDE DEF Good
  <2> QED
    BY <1>5, <2>1, <2>2, <2>3
<1>11. CASE \/ V!Push \/ V!StartTurn \/ V!CommitTurn \/ V!UndoTurn
            \/ (\E id \in DOMAIN items : V!Forget(id))
            \/ (\E ids \in SUBSET DOMAIN items : V!Judge(ids))
            \/ (\E ids \in SUBSET DOMAIN items : V!Judged(ids))
  <2>1. saving' = saving
    BY <1>11 DEF V!Push, V!StartTurn, V!CommitTurn, V!UndoTurn, V!Forget, V!Judge, V!Judged
  <2> QED
    BY <1>4, <2>1
<1> QED
  BY <1>7, <1>8, <1>9, <1>10, <1>11, VectorSteps

LEMMA JudgingStep ==
    ASSUME VectorInv, V!Next
    PROVE  JudgingInv'
<1>1. CASE judging' = judging
  BY <1>1 DEF VectorInv, JudgingInv
<1>2. CASE judging' = {}
  BY <1>2 DEF JudgingInv
<1>3. ASSUME NEW ids, V!Judge(ids)
      PROVE  JudgingInv'
  <2>1. CASE ids = {}
    BY <1>2, <1>3, <2>1 DEF V!Judge
  <2>2. CASE ids # {}
    <3>1. judging' = {[ids |-> ids, seen |-> V!Said(ids)]}
      BY <1>3, <2>2 DEF V!Judge
    <3> QED
      BY <3>1 DEF JudgingInv
  <2> QED
    BY <2>1, <2>2
<1>4. ASSUME NEW a \in V!Savers, V!SavePreference(a) \/ V!SaveRule(a) \/ V!WriteMerge(a)
      PROVE  JudgingInv'
  <2>1. PICK text : text = saving[a].text
    OBVIOUS
  <2>2. judging' = {[j EXCEPT !.seen = @ \ {text}] : j \in judging}
    <3>1. PICK replaced : V!Reported(a, text, replaced)
      BY <1>4, <2>1, Ending
    <3> QED
      BY <3>1 DEF V!Reported
  <2>3. CASE judging = {}
    BY <1>2, <2>2, <2>3
  <2>4. CASE \E j : judging = {j}
    <3>1. PICK j : judging = {j}
      BY <2>4
    <3>2. j = [ids |-> j.ids, seen |-> j.seen]
      BY <3>1 DEF VectorInv, JudgingInv
    <3>3. PICK k : k = [j EXCEPT !.seen = @ \ {text}]
      OBVIOUS
    <3>4. judging' = {k} /\ k = [ids |-> k.ids, seen |-> k.seen]
      BY <2>2, <3>1, <3>2, <3>3
    <3> QED
      BY <3>4 DEF JudgingInv
  <2> QED
    BY <2>3, <2>4 DEF VectorInv, JudgingInv
<1>5. CASE \/ V!Push \/ V!StartTurn \/ V!CommitTurn \/ V!UndoTurn
           \/ (\E text \in V!Texts : V!Remember(text))
           \/ (\E text \in V!Texts : V!Extract(text))
           \/ (\E a \in V!Savers : \E target \in DOMAIN items : V!PickTarget(a, target))
           \/ (\E id \in DOMAIN items : V!Forget(id))
           \/ (\E ids \in SUBSET DOMAIN items : V!Judged(ids))
  <2>1. judging' = judging \/ judging' = {}
    <3>1. CASE \/ V!Push \/ V!StartTurn \/ V!CommitTurn \/ V!UndoTurn
      BY <3>1 DEF V!Push, V!StartTurn, V!CommitTurn, V!UndoTurn
    <3>2. CASE \/ \E text \in V!Texts : V!Remember(text)
               \/ \E text \in V!Texts : V!Extract(text)
               \/ \E a \in V!Savers : \E target \in DOMAIN items : V!PickTarget(a, target)
      BY <3>2 DEF V!Remember, V!Extract, V!PickTarget
    <3>3. CASE \/ \E id \in DOMAIN items : V!Forget(id)
               \/ \E ids \in SUBSET DOMAIN items : V!Judged(ids)
      BY <3>3 DEF V!Forget, V!Judged
    <3> QED
      BY <1>5, <3>1, <3>2, <3>3
  <2> QED
    BY <1>1, <1>2, <2>1
<1> QED
  BY <1>3, <1>4, <1>5, VectorSteps

LEMMA TurnsStep ==
    ASSUME VectorInv, V!Next
    PROVE  TurnsInv'
<1> DEFINE Turn(n) == [ids : SUBSET Below(n), replaced : SUBSET Nat]
<1>0. /\ seq \in Nat /\ seq' \in Nat /\ seq <= seq' /\ TurnsInv
      /\ 0..seq \subseteq 0..seq' /\ Below(seq) \subseteq Below(seq')
  <2>1. seq \in Nat /\ seq' \in Nat /\ seq <= seq' /\ TurnsInv
    BY ItemsStep DEF VectorInv, ItemsInv
  <2>2. 0..seq \subseteq 0..seq'
    BY <2>1
  <2>3. Below(seq) \subseteq Below(seq')
    BY <2>1 DEF Below
  <2> QED
    BY <2>1, <2>2, <2>3
<1>1. /\ turns \in Seq(Turn(seq)) /\ DOMAIN turns = 1..Len(turns) /\ Len(turns) \in Nat
      /\ \A n \in DOMAIN turns : /\ turns[n] \in Turn(seq)
                                 /\ turns[n].ids \subseteq Below(seq)
                                 /\ turns[n].ids \cap undoneIds = {}
  <2>1. turns \in Seq(Turn(seq)) /\ DOMAIN turns = 1..Len(turns) /\ Len(turns) \in Nat
    BY <1>0 DEF TurnsInv
  <2>2. \A n \in DOMAIN turns : turns[n] \in Turn(seq)
    BY <2>1, ElementOfSeq
  <2> QED
    BY <1>0, <2>1, <2>2 DEF TurnsInv
<1>2. turns \in Seq(Turn(seq'))
  <2>1. \A n \in 1..Len(turns) : turns[n] \in Turn(seq')
    BY <1>0, <1>1
  <2> HIDE DEF Turn
  <2> QED
    BY <1>1, <2>1
<1>3. ASSUME turn' = turn, turns' = turns, undoneIds' = undoneIds,
             turn = {} => saving'["tool"].phase = "idle"
      PROVE  TurnsInv'
  BY <1>0, <1>2, <1>3 DEF TurnsInv
<1>4. CASE V!Push
  BY <1>0, <1>3, <1>4 DEF V!Push, TurnsInv
<1>5. CASE V!StartTurn
  <2>1. /\ turn' = {[predicted |-> {seq}, said |-> {}, own |-> {}, replaced |-> {}]}
        /\ UNCHANGED <<turns, undoneIds, saving>>
    BY <1>5 DEF V!StartTurn
  <2>2. seq \in 0..seq'
    BY <1>0
  <2>3. PICK t : t = [predicted |-> {seq}, said |-> {}, own |-> {}, replaced |-> {}]
    OBVIOUS
  <2>4. /\ turn' = {t} /\ t.predicted \subseteq 0..seq' /\ t.replaced \subseteq Nat
        /\ t = [predicted |-> t.predicted, said |-> t.said, own |-> t.own,
                replaced |-> t.replaced]
    BY <2>1, <2>2, <2>3
  <2> QED
    BY <1>0, <1>2, <2>1, <2>4 DEF TurnsInv
<1>6. CASE V!CommitTurn
  <2>1. PICK t \in turn : /\ saving["tool"].phase = "idle" /\ turn' = {} /\ seq' = seq + 2
                          /\ turns' = Append(turns, [ids |-> {seq, seq + 1},
                                                     replaced |-> t.replaced])
                          /\ UNCHANGED <<saving, undoneIds>>
    BY <1>6 DEF V!CommitTurn
  <2>2. PICK e : e = [ids |-> {seq, seq + 1}, replaced |-> t.replaced]
    OBVIOUS
  <2>3. e \in Turn(seq') /\ e.ids = {seq, seq + 1}
    <3>1. t.replaced \subseteq Nat
      BY <1>0 DEF TurnsInv
    <3>2. {seq, seq + 1} \subseteq Below(seq')
      BY <1>0, <2>1 DEF Below
    <3> QED
      BY <2>2, <3>1, <3>2
  <2> HIDE DEF Turn
  <2>4. /\ turns' \in Seq(Turn(seq')) /\ Len(turns') = Len(turns) + 1
        /\ \A n \in 1..Len(turns) : turns'[n] = turns[n]
        /\ turns'[Len(turns) + 1] = e
    BY <1>2, <2>1, <2>2, <2>3, AppendProperties
  <2>5. DOMAIN turns' = 1..(Len(turns) + 1)
    BY <2>4
  <2>6. \A n \in DOMAIN turns : turns[n].ids \cap e.ids = {}
    BY <1>0, <1>1, <2>3 DEF Below
  <2>7. \A n \in DOMAIN turns' : n \in DOMAIN turns \/ n = Len(turns) + 1
    BY <1>1, <2>5
  <2>8. \A m, n \in DOMAIN turns' : m # n => turns'[m].ids \cap turns'[n].ids = {}
    <3>1. \A m, n \in DOMAIN turns : m # n => turns[m].ids \cap turns[n].ids = {}
      BY <1>0 DEF TurnsInv
    <3>2. \A n \in DOMAIN turns : turns'[n] = turns[n]
      BY <1>1, <2>4
    <3> QED
      BY <2>4, <2>6, <2>7, <3>1, <3>2
  <2>9. undoneIds' \subseteq Below(seq') /\ undoneIds \cap e.ids = {}
    BY <1>0, <2>1, <2>3 DEF TurnsInv, Below
  <2>10. \A n \in DOMAIN turns' : turns'[n].ids \cap undoneIds' = {}
    BY <1>1, <2>1, <2>4, <2>7, <2>9
  <2> QED
    BY <2>1, <2>4, <2>8, <2>9, <2>10 DEF TurnsInv, Turn
<1>7. CASE V!UndoTurn
  <2>1. /\ turn = {} /\ turn' = turn /\ saving' = saving /\ seq' = seq /\ turns # <<>>
        /\ turns' = SubSeq(turns, 1, Len(turns) - 1)
        /\ undoneIds' = undoneIds \cup turns[Len(turns)].ids
    BY <1>7 DEF V!UndoTurn, V!Front, V!Last
  <2>2. Len(turns) # 0
    BY <1>1, <2>1, EmptySeq
  <2> HIDE DEF Turn
  <2>3. PICK k : k = Len(turns) - 1
    OBVIOUS
  <2>4. k \in Nat /\ k <= Len(turns) /\ Len(turns) \in DOMAIN turns
    BY <1>1, <2>2, <2>3
  <2>5. /\ turns' \in Seq(Turn(seq)) /\ Len(turns') = k
        /\ \A n \in 1..k : turns'[n] = turns[n]
    <3>1. \A n \in 1..k : n \in 1..Len(turns)
      BY <1>1, <2>3
    <3>2. turns' = [n \in 1..k |-> turns[n]]
      BY <1>1, <2>1, <2>3, <2>4 DEF SubSeq
    <3> QED
      BY <1>1, <2>4, <3>1, <3>2, IsASeq
  <2>6. \A n \in DOMAIN turns' : n \in DOMAIN turns /\ n # Len(turns) /\ turns'[n] = turns[n]
    BY <1>1, <2>3, <2>4, <2>5
  <2>7. \A m, n \in DOMAIN turns : m # n => turns[m].ids \cap turns[n].ids = {}
    BY <1>0 DEF TurnsInv
  <2>8. \A n \in DOMAIN turns' : turns'[n].ids \cap undoneIds' = {}
    BY <1>1, <2>1, <2>4, <2>6, <2>7
  <2>9. undoneIds' \subseteq Below(seq')
    BY <1>0, <1>1, <2>1, <2>4 DEF TurnsInv
  <2>10. turn' = {} /\ saving'["tool"].phase = "idle"
    BY <1>0, <2>1 DEF TurnsInv
  <2> QED
    BY <2>1, <2>5, <2>6, <2>7, <2>8, <2>9, <2>10 DEF TurnsInv, Turn
<1>8. ASSUME NEW text, V!Remember(text)
      PROVE  TurnsInv'
  BY <1>3, <1>8 DEF V!Remember
<1>9. ASSUME NEW text, V!Extract(text)
      PROVE  TurnsInv'
  <2>1. saving'["tool"] = saving["tool"]
    BY <1>9 DEF V!Extract, V!BeginSave, VectorInv, SavingInv, V!Savers
  <2> QED
    BY <1>0, <1>3, <1>9, <2>1 DEF V!Extract, TurnsInv
<1>10. ASSUME NEW a \in V!Savers, NEW target, V!PickTarget(a, target)
       PROVE  TurnsInv'
  <2>1. a = "tool" => turn # {}
    BY <1>0, <1>10 DEF V!PickTarget, TurnsInv
  <2>2. a = "window" => saving'["tool"] = saving["tool"]
    BY <1>10 DEF V!PickTarget, VectorInv, SavingInv, V!Savers
  <2> QED
    BY <1>0, <1>3, <1>10, <2>1, <2>2 DEF V!PickTarget, TurnsInv, V!Savers
<1>11. ASSUME NEW a \in V!Savers, V!SavePreference(a) \/ V!SaveRule(a) \/ V!WriteMerge(a)
       PROVE  TurnsInv'
  <2>1. saving[a].phase # "idle" /\ UNCHANGED <<seq, turns, undoneIds>>
    BY <1>11, Ending
  <2>2. PICK text : text = saving[a].text
    OBVIOUS
  <2>3. PICK replaced \in SUBSET DOMAIN items : V!Reported(a, text, replaced)
    BY <1>11, <2>2, Ending
  <2>4. replaced \subseteq Nat
    BY ItemFacts
  <2>5. saving' = [saving EXCEPT ![a] = V!NoSave]
    BY <2>3 DEF V!Reported
  <2>6. saving'["tool"].phase = "idle" \/ saving'["tool"] = saving["tool"]
    BY <2>5, NoSaveFacts DEF VectorInv, SavingInv, V!Savers
  <2>7. CASE turn = {} /\ turn' = {}
    BY <1>0, <1>3, <2>1, <2>6, <2>7 DEF TurnsInv
  <2>8. ASSUME NEW t, NEW u, turn = {t}, turn' = {u},
               u = [predicted |-> u.predicted, said |-> u.said, own |-> u.own,
                    replaced |-> u.replaced],
               u.predicted = t.predicted, u.replaced \subseteq t.replaced \cup replaced
        PROVE  TurnsInv'
    <3>1. u.predicted \subseteq 0..seq' /\ u.replaced \subseteq Nat
      BY <1>0, <2>4, <2>8 DEF TurnsInv
    <3> QED
      BY <1>0, <1>2, <2>1, <2>8, <3>1 DEF TurnsInv
  <2>9. \/ turn = {} /\ turn' = {}
        \/ \E t, u : /\ turn = {t} /\ turn' = {u}
                     /\ u = [predicted |-> u.predicted, said |-> u.said, own |-> u.own,
                             replaced |-> u.replaced]
                     /\ u.predicted = t.predicted
                     /\ u.replaced \subseteq t.replaced \cup replaced
    <3>1. TurnGoesOn(a, text, replaced)
      BY <1>0, <2>3, ReportedTurn
    <3> QED
      BY <3>1 DEF TurnGoesOn
  <2> QED
    BY <2>7, <2>8, <2>9
<1>12. CASE \/ \E id \in DOMAIN items : V!Forget(id)
            \/ \E ids \in SUBSET DOMAIN items : V!Judge(ids)
            \/ \E ids \in SUBSET DOMAIN items : V!Judged(ids)
  BY <1>0, <1>3, <1>12 DEF V!Forget, V!Judge, V!Judged, TurnsInv
<1> QED
  BY <1>4, <1>5, <1>6, <1>7, <1>8, <1>9, <1>10, <1>11, <1>12, VectorSteps

\* An active item that says it holds a text.
LEMMA HeldBy ==
    ASSUME NEW x
    PROVE  x \in V!Said(V!Active) <=>
             \E i \in DOMAIN items : items[i].active /\ x \in V!ToSet(items[i].summary)
BY DEF V!Said, V!Active

LEMMA HeldByAfter ==
    ASSUME NEW CONSTANT x
    PROVE  x \in V!Said(V!Active)' <=>
             \E i \in DOMAIN items' : items'[i].active /\ x \in V!ToSet(items'[i].summary)
BY DEF V!Said, V!Active

\* A preference says itself; a rule says rules.
LEMMA SaysItself ==
    ASSUME VectorInv, NEW i \in DOMAIN items, NEW x \in V!ToSet(items[i].summary)
    PROVE  /\ items[i].kind = "preference" => x \in Preferences /\ items[i].summary = <<x>>
           /\ items[i].kind = "procedure" => x \in Rules
           /\ x \in Preferences => items[i].kind = "preference"
<1>1. /\ items[i].kind = "preference" => \E p \in Preferences : items[i].summary = <<p>>
      /\ items[i].kind = "procedure" => V!ToSet(items[i].summary) \subseteq Rules
  BY DEF VectorInv, ItemsInv
<1>2. items[i].kind = "preference" => x \in Preferences /\ items[i].summary = <<x>>
  BY <1>1, OneSaid
<1>3. items[i].kind = "procedure" => x \in Rules
  BY <1>1
<1> QED
  BY <1>2, <1>3, ItemFacts, VectorBounds

\* Two preferences are not active at a time, when no step but a save makes one so.
LEMMA NoRivalAfter ==
    ASSUME VectorInv, ItemsInv', Kept,
           \A i \in DOMAIN items' : items'[i].kind = "preference" /\ items'[i].active =>
              i \in DOMAIN items /\ items[i].active
    PROVE  \A i, j \in V!Active' :
              items'[i].kind = "preference" /\ items'[j].kind = "preference" => i = j
<1>1. \A i, j \in DOMAIN items : /\ items[i].active /\ items[j].active
                                 /\ items[i].kind = "preference" /\ items[j].kind = "preference"
                                 => i = j
  BY DEF VectorInv, HeldInv, V!Active
<1>2. \A i \in DOMAIN items : items'[i].kind = items[i].kind
  BY DEF Kept
<1>3. ASSUME NEW i \in DOMAIN items', NEW j \in DOMAIN items',
             items'[i].active, items'[j].active,
             items'[i].kind = "preference", items'[j].kind = "preference"
      PROVE  i = j
  BY <1>1, <1>2, <1>3
<1> QED
  BY <1>3 DEF V!Active

LEMMA RetiringHeld ==
    ASSUME VectorInv, NEW CONSTANT ids, Retiring(ids), seq' = seq,
           held' \subseteq held,
           \A x \in held' \ raced' : x \in held \ raced /\ x \notin V!Said(ids \cap DOMAIN items)
    PROVE  HeldInv'
<1>1. /\ items' \in Seq(Item) /\ DOMAIN items' = DOMAIN items
      /\ \A i \in DOMAIN items :
            /\ items'[i].kind = items[i].kind /\ items'[i].summary = items[i].summary
            /\ items'[i].active <=> items[i].active /\ i \notin ids
  <2>1. items \in Seq(Item)
    BY DEF VectorInv, ItemsInv
  <2> QED
    BY <2>1, RetireFacts DEF Retiring
<1>2. ASSUME NEW CONSTANT x, x \in held' \ raced'
      PROVE  x \in V!Said(V!Active)'
  <2>1. x \in held \ raced /\ x \notin V!Said(ids \cap DOMAIN items)
    BY <1>2
  <2>2. PICK i \in DOMAIN items : items[i].active /\ x \in V!ToSet(items[i].summary)
    BY <2>1, HeldBy DEF VectorInv, HeldInv, V!RememberedIsHeld
  <2>3. i \notin ids
    BY <2>1, <2>2, SaidBy
  <2> QED
    BY <1>1, <2>2, <2>3, HeldByAfter
<1>3. (V!RememberedIsHeld)'
  BY <1>2 DEF V!RememberedIsHeld
<1>4. \A i, j \in V!Active' :
         items'[i].kind = "preference" /\ items'[j].kind = "preference" => i = j
  BY <1>1, NoRivalAfter, RetiringItems
<1> QED
  BY <1>3, <1>4 DEF HeldInv, VectorInv

LEMMA PreferenceHeld ==
    ASSUME VectorInv, NEW a \in V!Savers, V!SavePreference(a)
    PROVE  HeldInv'
<1>1. PICK text : text = saving[a].text
  OBVIOUS
<1>2. PICK source : source = saving[a].source
  OBVIOUS
<1>3. PICK mid \in Seq(Item) :
            /\ DOMAIN mid = DOMAIN items
            /\ \A i \in DOMAIN items :
                  /\ mid[i].kind = items[i].kind /\ mid[i].summary = items[i].summary
                  /\ mid[i].source = items[i].source
                  /\ mid[i].active <=> items[i].active /\ items[i].kind # "preference"
            /\ Written(items', mid, "preference", <<text>>, source)
  BY <1>1, <1>2, PreferenceSaved
<1>4. /\ text \in Preferences
      /\ held' = (held \ V!Said(V!RivalsOf(a))) \cup {text} /\ raced' = raced \ {text}
  BY <1>1 DEF V!SavePreference
<1>5. /\ DOMAIN items \subseteq DOMAIN items'
      /\ \A i \in DOMAIN items :
            /\ items'[i].kind = items[i].kind /\ items'[i].summary = items[i].summary
            /\ items'[i].active <=> \/ mid[i].active
                                    \/ items[i].kind = "preference" /\ items[i].summary = <<text>>
      /\ \A i \in DOMAIN items' \ DOMAIN items :
            items'[i].kind = "preference" /\ items'[i].summary = <<text>>
      /\ \E i \in DOMAIN items' :
            items'[i].kind = "preference" /\ items'[i].summary = <<text>> /\ items'[i].active
  BY <1>3 DEF Written
<1>6. ASSUME NEW CONSTANT x, x \in held' \ raced'
      PROVE  x \in V!Said(V!Active)'
  <2>1. CASE x = text
    BY <1>5, <2>1, OneSaid, HeldByAfter
  <2>2. CASE x # text
    <3>1. x \in held \ raced /\ x \notin V!Said(V!RivalsOf(a))
      BY <1>4, <1>6, <2>2
    <3>2. PICK i \in DOMAIN items : items[i].active /\ x \in V!ToSet(items[i].summary)
      BY <3>1, HeldBy DEF VectorInv, HeldInv, V!RememberedIsHeld
    <3>3. items[i].kind # "preference"
      <4>1. i \notin V!RivalsOf(a)
        BY <3>1, <3>2, SaidBy
      <4> QED
        BY <1>1, <1>4, <3>2, <4>1 DEF V!RivalsOf, V!Similar, V!Kind
    <3>4. i \in DOMAIN items' /\ items'[i].active /\ items'[i].summary = items[i].summary
      BY <1>3, <1>5, <3>2, <3>3
    <3> QED
      BY <3>2, <3>4, HeldByAfter
  <2> QED
    BY <2>1, <2>2
<1>7. \A i \in DOMAIN items' : items'[i].kind = "preference" /\ items'[i].active =>
                                  items'[i].summary = <<text>>
  BY <1>3, <1>5
<1>8. ItemsInv'
  BY ItemsStep DEF V!Next
<1>9. \A i, j \in V!Active' :
         items'[i].kind = "preference" /\ items'[j].kind = "preference" => i = j
  BY <1>7, <1>8 DEF ItemsInv, V!Active
<1>10. held' \subseteq V!Texts
  BY <1>4 DEF VectorInv, HeldInv, V!Texts
<1>11. (V!RememberedIsHeld)'
  BY <1>6 DEF V!RememberedIsHeld
<1> QED
  BY <1>9, <1>10, <1>11 DEF HeldInv

LEMMA RuleHeld ==
    ASSUME VectorInv, NEW a \in V!Savers, V!SaveRule(a)
    PROVE  HeldInv'
<1>1. PICK text : text = saving[a].text
  OBVIOUS
<1>2. PICK source : source = saving[a].source
  OBVIOUS
<1>3. Written(items', items, "procedure", <<text>>, source) /\ text \in Rules
  BY <1>1, <1>2, RuleSaved
<1>4. held' = held \cup {text} /\ raced' = raced \ {text}
  BY <1>1 DEF V!SaveRule
<1>5. /\ DOMAIN items \subseteq DOMAIN items'
      /\ \A i \in DOMAIN items :
            /\ items'[i].kind = items[i].kind /\ items'[i].summary = items[i].summary
            /\ items'[i].active <=> \/ items[i].active
                                    \/ items[i].kind = "procedure" /\ items[i].summary = <<text>>
      /\ \A i \in DOMAIN items' \ DOMAIN items : items'[i].kind = "procedure"
      /\ \E i \in DOMAIN items' :
            items'[i].kind = "procedure" /\ items'[i].summary = <<text>> /\ items'[i].active
  BY <1>3 DEF Written
<1>6. ASSUME NEW CONSTANT x, x \in held' \ raced'
      PROVE  x \in V!Said(V!Active)'
  <2>1. CASE x = text
    BY <1>5, <2>1, OneSaid, HeldByAfter
  <2>2. CASE x # text
    <3>1. x \in held \ raced
      BY <1>4, <1>6, <2>2
    <3>2. PICK i \in DOMAIN items : items[i].active /\ x \in V!ToSet(items[i].summary)
      BY <3>1, HeldBy DEF VectorInv, HeldInv, V!RememberedIsHeld
    <3> QED
      BY <1>5, <3>2, HeldByAfter
  <2> QED
    BY <2>1, <2>2
<1>7. ItemsInv' /\ Kept
  BY ItemsStep DEF V!Next
<1>8. \A i, j \in V!Active' :
         items'[i].kind = "preference" /\ items'[j].kind = "preference" => i = j
  BY <1>5, <1>7, NoRivalAfter
<1>9. held' \subseteq V!Texts
  BY <1>3, <1>4 DEF VectorInv, HeldInv, V!Texts
<1>10. (V!RememberedIsHeld)'
  BY <1>6 DEF V!RememberedIsHeld
<1> QED
  BY <1>8, <1>9, <1>10 DEF HeldInv

\* A merge that nothing has run into loses nothing; else what it loses is set down.
LEMMA MergeHeld ==
    ASSUME VectorInv, NEW a \in V!Savers, V!WriteMerge(a)
    PROVE  HeldInv'
<1>1. PICK text : text = saving[a].text
  OBVIOUS
<1>2. PICK id : id = saving[a].target
  OBVIOUS
<1>3. PICK summary : summary = saving[a].summary
  OBVIOUS
<1>4. /\ text \in Rules /\ id \in DOMAIN items /\ items[id].kind = "procedure"
      /\ items' \in Seq(Item) /\ DOMAIN items' = DOMAIN items
      /\ \A i \in DOMAIN items :
            /\ items'[i].kind = items[i].kind
            /\ items[i].active /\ i # id => items'[i].active
            /\ items'[i].active => items[i].active \/ items[i].kind = "procedure"
  BY <1>1, <1>2, RuleMerged
<1>5. text \in V!ToSet(summary)
  BY <1>1, <1>3 DEF V!WriteMerge, VectorInv, SavingInv
<1>6. held' = held \cup {text}
  BY <1>1 DEF V!WriteMerge
<1>7. ItemsInv' /\ Kept
  BY ItemsStep DEF V!Next
<1>8. \A i, j \in V!Active' :
         items'[i].kind = "preference" /\ items'[j].kind = "preference" => i = j
  <2>1. \A i \in DOMAIN items' : items'[i].kind = "preference" /\ items'[i].active =>
           i \in DOMAIN items /\ items[i].active
    BY <1>4
  <2> QED
    BY <1>7, <2>1, NoRivalAfter
<1>9. ASSUME NEW CONSTANT x, x \in held' \ raced'
      PROVE  x \in V!Said(V!Active)'
  <2>1. CASE items[id].active /\ V!ToSet(items[id].summary) \subseteq V!ToSet(summary)
    <3>1. raced' = raced \ {text}
      BY <1>1, <1>2, <1>3, <2>1 DEF V!WriteMerge
    <3>2. \E j \in DOMAIN items' : items'[j].active /\ items'[j].summary = summary
      <4>1. CASE /\ \A i \in DOMAIN items :
                       /\ items'[i].summary = items[i].summary
                       /\ items[i].summary = summary /\ items[i].kind = "procedure" =>
                             items'[i].active
                 /\ \E i \in DOMAIN items : items[i].kind = "procedure" /\ items[i].summary = summary
        BY <1>4, <4>1
      <4>2. CASE items'[id].active /\ items'[id].summary = summary
        BY <1>4, <4>2
      <4> QED
        BY <1>2, <1>3, <2>1, <4>1, <4>2, RuleMerged
    <3>3. \A i \in DOMAIN items \ {id} : items'[i].summary = items[i].summary
      <4>1. CASE \A i \in DOMAIN items : items'[i].summary = items[i].summary
        BY <4>1
      <4>2. CASE \A i \in DOMAIN items \ {id} : items'[i] = items[i]
        BY <4>2
      <4>3. \/ \A i \in DOMAIN items : items'[i].summary = items[i].summary
            \/ \A i \in DOMAIN items \ {id} : items'[i] = items[i]
        BY <1>2, RuleMerged
      <4> QED
        BY <4>1, <4>2, <4>3
    <3>4. CASE x \in V!ToSet(summary)
      BY <3>2, <3>4, HeldByAfter
    <3>5. CASE x \notin V!ToSet(summary)
      <4>1. x \in held \ raced
        BY <1>5, <1>6, <1>9, <3>1, <3>5
      <4>2. PICK i \in DOMAIN items : items[i].active /\ x \in V!ToSet(items[i].summary)
        BY <4>1, HeldBy DEF VectorInv, HeldInv, V!RememberedIsHeld
      <4>3. i # id
        BY <2>1, <3>5, <4>2
      <4>4. i \in DOMAIN items' /\ items'[i].active /\ items'[i].summary = items[i].summary
        BY <1>4, <3>3, <4>2, <4>3
      <4> QED
        BY <4>2, <4>4, HeldByAfter
    <3> QED
      BY <3>4, <3>5
  <2>2. CASE ~(items[id].active /\ V!ToSet(items[id].summary) \subseteq V!ToSet(summary))
    <3>1. PICK after : after = UNION {V!ToSet(items'[i].summary) :
                                        i \in {j \in DOMAIN items' : items'[j].active}}
      OBVIOUS
    <3>2. raced' = raced \cup ((held' \cap Rules) \ after)
      BY <1>2, <1>3, <2>2, <3>1 DEF V!WriteMerge
    <3>3. CASE x \in Rules
      <4>1. x \in after
        BY <1>9, <3>2, <3>3
      <4>2. \E i \in DOMAIN items' : items'[i].active /\ x \in V!ToSet(items'[i].summary)
        BY <3>1, <4>1
      <4> QED
        BY <4>2, HeldByAfter
    <3>4. CASE x \notin Rules
      <4>1. x \in held \ raced
        BY <1>4, <1>6, <1>9, <3>2, <3>4
      <4>2. PICK i \in DOMAIN items : items[i].active /\ x \in V!ToSet(items[i].summary)
        BY <4>1, HeldBy DEF VectorInv, HeldInv, V!RememberedIsHeld
      <4>3. items[i].kind = "preference"
        BY <3>4, <4>2, SaysItself, ItemFacts
      <4>4. /\ i # id /\ i \in DOMAIN items' /\ items'[i].active
            /\ items'[i].summary = items[i].summary
        BY <1>4, <1>7, <4>2, <4>3 DEF Kept
      <4> QED
        BY <4>2, <4>4, HeldByAfter
    <3> QED
      BY <3>3, <3>4
  <2> QED
    BY <2>1, <2>2
<1>10. held' \subseteq V!Texts
  BY <1>4, <1>6 DEF VectorInv, HeldInv, V!Texts
<1>11. (V!RememberedIsHeld)'
  BY <1>9 DEF V!RememberedIsHeld
<1> QED
  BY <1>8, <1>10, <1>11 DEF HeldInv

LEMMA HeldStep ==
    ASSUME VectorInv, V!Next
    PROVE  HeldInv'
<1>1. CASE UNCHANGED <<items, held, raced>>
  <2>1. V!Active' = V!Active
    BY <1>1 DEF V!Active
  <2>2. V!Said(V!Active)' = V!Said(V!Active)
    BY <1>1, <2>1 DEF V!Said
  <2> QED
    BY <1>1, <2>1, <2>2 DEF VectorInv, HeldInv, V!RememberedIsHeld
<1>2. CASE V!UndoTurn
  <2>1. PICK ids : /\ ids = {i \in DOMAIN items : V!Retracts(i, V!Last(turns).ids)}
                   /\ items' = V!Retire(items, ids) /\ held' = held \ V!Said(ids)
                   /\ raced' = raced /\ seq' = seq
    BY <1>2 DEF V!UndoTurn, V!Retire
  <2>2. ids \cap DOMAIN items = ids
    BY <2>1
  <2> QED
    BY <2>1, <2>2, RetiringHeld DEF Retiring
<1>3. ASSUME NEW id \in DOMAIN items, V!Forget(id)
      PROVE  HeldInv'
  <2>1. {id} \cap DOMAIN items = {id}
    OBVIOUS
  <2>2. /\ items' = V!Retire(items, {id}) /\ held' = held \ V!Said({id})
        /\ raced' = raced /\ seq' = seq
    BY <1>3 DEF V!Forget
  <2> QED
    BY <2>1, <2>2, RetiringHeld DEF Retiring
<1>4. ASSUME NEW ids \in SUBSET DOMAIN items, V!Judged(ids)
      PROVE  HeldInv'
  <2>1. PICK seen : /\ items' = V!Retire(items, ids) /\ seq' = seq
                    /\ held' = held \ (V!Said(ids) \cap seen)
                    /\ raced' = raced \cup (V!Said(ids) \ seen)
    BY <1>4 DEF V!Judged
  <2>2. ids \cap DOMAIN items = ids
    OBVIOUS
  <2> QED
    BY <2>1, <2>2, RetiringHeld DEF Retiring
<1>5. CASE \/ V!Push \/ V!StartTurn \/ V!CommitTurn
           \/ (\E text \in V!Texts : V!Remember(text))
           \/ (\E text \in V!Texts : V!Extract(text))
           \/ (\E a \in V!Savers : \E target \in DOMAIN items : V!PickTarget(a, target))
           \/ (\E ids \in SUBSET DOMAIN items : V!Judge(ids))
  <2>1. UNCHANGED <<items, held, raced>>
    <3>1. CASE V!Push \/ V!StartTurn \/ V!CommitTurn
      BY <3>1 DEF V!Push, V!StartTurn, V!CommitTurn
    <3>2. CASE \/ \E text \in V!Texts : V!Remember(text)
               \/ \E text \in V!Texts : V!Extract(text)
      BY <3>2 DEF V!Remember, V!Extract
    <3>3. CASE \/ \E a \in V!Savers : \E target \in DOMAIN items : V!PickTarget(a, target)
               \/ \E ids \in SUBSET DOMAIN items : V!Judge(ids)
      BY <3>3 DEF V!PickTarget, V!Judge
    <3> QED
      BY <1>5, <3>1, <3>2, <3>3
  <2> QED
    BY <1>1, <2>1
<1> QED
  BY <1>2, <1>3, <1>4, <1>5, PreferenceHeld, RuleHeld, MergeHeld, VectorSteps

\* Every item of a preference that is not astray comes from messages that are set down:
\* those of a turn in the log, or of the one that runs and has said it.
OriginsInv ==
    /\ origins \in [Preferences -> SUBSET SUBSET Nat]
    /\ \A i \in DOMAIN items : \A p \in Preferences \ astray :
          items[i].summary = <<p>> /\ items[i].kind = "preference" =>
             /\ \/ items[i].source \in origins[p]
                \/ \E t \in turn : p \in t.said /\ items[i].source = t.predicted
             /\ items[i].active => items[i].source \cap undoneIds = {}
    /\ saving["tool"].phase # "idle" =>
          \A t \in turn : saving["tool"].source = t.predicted

LEMMA OriginsHolds ==
    ASSUME VectorInv, OriginsInv
    PROVE  V!UndoTakesBack
<1> SUFFICES ASSUME NEW p \in Preferences \ astray,
                    \A o \in origins[p] : o \cap undoneIds # {},
                    \A t \in turn : p \notin t.said,
                    NEW i \in DOMAIN items, items[i].active,
                    p \in V!ToSet(items[i].summary)
             PROVE  FALSE
  BY HeldBy DEF V!UndoTakesBack
<1>1. items[i].kind = "preference" /\ items[i].summary = <<p>>
  BY SaysItself
<1>2. items[i].source \in origins[p] /\ items[i].source \cap undoneIds = {}
  BY <1>1 DEF OriginsInv
<1> QED
  BY <1>2

\* The items of preferences are the same, no more of them active, and their messages
\* still set down.
LEMMA SameOrigins ==
    ASSUME VectorInv, OriginsInv, Kept,
           \A i \in DOMAIN items' :
              items'[i].kind = "preference" =>
                 /\ i \in DOMAIN items
                 /\ items'[i].active =>
                       items[i].active /\ (items[i].source \cap undoneIds = {} =>
                                             items[i].source \cap undoneIds' = {}),
           origins' \in [Preferences -> SUBSET SUBSET Nat],
           astray \subseteq astray',
           \A p \in Preferences \ astray' :
              /\ origins[p] \subseteq origins'[p]
              /\ \A t \in turn : p \in t.said =>
                    \/ t.predicted \in origins'[p]
                    \/ \E u \in turn' : p \in u.said /\ u.predicted = t.predicted,
           saving'["tool"].phase # "idle" =>
              \A t \in turn' : saving'["tool"].source = t.predicted
    PROVE  OriginsInv'
<1>1. ASSUME NEW i \in DOMAIN items', NEW p \in Preferences \ astray',
             items'[i].summary = <<p>>, items'[i].kind = "preference"
      PROVE  /\ \/ items'[i].source \in origins'[p]
                \/ \E t \in turn' : p \in t.said /\ items'[i].source = t.predicted
             /\ items'[i].active => items'[i].source \cap undoneIds' = {}
  <2>1. /\ i \in DOMAIN items /\ items[i].kind = "preference"
        /\ items'[i].source = items[i].source /\ items'[i].summary = items[i].summary
    BY <1>1 DEF Kept
  <2>2. p \in Preferences \ astray
    BY <1>1
  <2>3. /\ \/ items[i].source \in origins[p]
           \/ \E t \in turn : p \in t.said /\ items[i].source = t.predicted
        /\ items[i].active => items[i].source \cap undoneIds = {}
    BY <1>1, <2>1, <2>2 DEF OriginsInv
  <2>4. items'[i].active => items'[i].source \cap undoneIds' = {}
    BY <1>1, <2>1, <2>3
  <2>5. \/ items'[i].source \in origins'[p]
        \/ \E t \in turn' : p \in t.said /\ items'[i].source = t.predicted
    BY <1>1, <2>1, <2>3
  <2> QED
    BY <2>4, <2>5
<1> QED
  BY <1>1 DEF OriginsInv

\* What the end of a save does to the messages set down and to the turn.
OriginsSetDown(text, source) ==
    /\ origins' \in [Preferences -> SUBSET SUBSET Nat]
    /\ astray \subseteq astray'
    /\ text \in Preferences /\ text \notin astray' =>
          /\ \/ source \in origins'[text]
             \/ \E u \in turn' : text \in u.said /\ source = u.predicted
          /\ source \cap undoneIds = {}
          /\ \A i \in DOMAIN items' :
                items'[i].summary = <<text>> => items'[i].source \cap undoneIds = {}
    /\ \A p \in Preferences :
          /\ origins[p] \subseteq origins'[p]
          /\ \A t \in turn : p \in t.said =>
                \E u \in turn' : p \in u.said /\ u.predicted = t.predicted
    /\ saving'["tool"].phase # "idle" =>
          \A t \in turn' : saving'["tool"].source = t.predicted

LEMMA ReportedOrigins ==
    ASSUME VectorInv, OriginsInv, NEW a \in V!Savers, saving[a].phase # "idle",
           NEW CONSTANT text, text = saving[a].text, NEW replaced,
           V!Reported(a, text, replaced)
    PROVE  OriginsSetDown(text, saving[a].source)
<1>0. PICK source : source = saving[a].source
  OBVIOUS
<1>1. source \in SUBSET Nat
  <2>1. saving[a].source \in SUBSET (0..seq) /\ seq \in Nat
    BY DEF VectorInv, SavingInv, ItemsInv
  <2> QED
    BY <1>0, <2>1
<1>2. origins' = IF a = "window" /\ text \in Preferences
                 THEN [origins EXCEPT ![text] = @ \cup {source}] ELSE origins
  BY <1>0 DEF V!Reported
<1>3. origins \in [Preferences -> SUBSET SUBSET Nat]
  BY DEF OriginsInv
<1>4. /\ origins' \in [Preferences -> SUBSET SUBSET Nat]
      /\ \A p \in Preferences : origins[p] \subseteq origins'[p]
      /\ a = "window" /\ text \in Preferences => source \in origins'[text]
  BY <1>1, <1>2, <1>3
<1>5. astray' = IF \/ source \cap undoneIds # {}
                   \/ \E i \in DOMAIN items' : /\ items'[i].source \cap undoneIds # {}
                                             /\ items'[i].summary = <<text>>
                THEN astray \cup ({text} \cap Preferences) ELSE astray
  BY <1>0 DEF V!Reported
<1>6. \/ turn = {} /\ turn' = {}
      \/ \E t, u : /\ turn = {t} /\ turn' = {u} /\ u.predicted = t.predicted
                   /\ u.said = IF a = "tool" THEN t.said \cup ({text} \cap Preferences)
                               ELSE t.said
  <2>1. TurnsInv
    BY DEF VectorInv
  <2>2. TurnGoesOn(a, text, replaced)
    BY <2>1, ReportedTurn
  <2> QED
    BY <2>2 DEF TurnGoesOn
<1>7. ASSUME NEW p \in Preferences, NEW t \in turn, p \in t.said
      PROVE  \E u \in turn' : p \in u.said /\ u.predicted = t.predicted
  BY <1>6, <1>7
<1>8. ASSUME text \in Preferences, a = "tool"
      PROVE  \E u \in turn' : text \in u.said /\ source = u.predicted
  <2>1. turn # {} /\ \A t \in turn : source = t.predicted
    BY <1>0, <1>8 DEF VectorInv, TurnsInv, OriginsInv
  <2>2. PICK t, u : /\ turn = {t} /\ turn' = {u} /\ u.predicted = t.predicted
                    /\ u.said = IF a = "tool" THEN t.said \cup ({text} \cap Preferences)
                                ELSE t.said
    BY <1>6, <2>1
  <2> QED
    BY <1>8, <2>1, <2>2
<1>9. ASSUME saving'["tool"].phase # "idle"
      PROVE  \A t \in turn' : saving'["tool"].source = t.predicted
  <2>1. saving' = [saving EXCEPT ![a] = V!NoSave]
    BY DEF V!Reported
  <2>2. a # "tool" /\ saving'["tool"] = saving["tool"]
    BY <1>9, <2>1, NoSaveFacts DEF VectorInv, SavingInv, V!Savers
  <2> QED
    BY <1>6, <1>9, <2>2 DEF OriginsInv
<1> QED
  BY <1>0, <1>4, <1>5, <1>7, <1>8, <1>9 DEF V!Savers, OriginsSetDown

LEMMA PreferenceOrigins ==
    ASSUME VectorInv, OriginsInv, NEW a \in V!Savers, V!SavePreference(a)
    PROVE  OriginsInv'
<1>1. PICK text : text = saving[a].text
  OBVIOUS
<1>2. PICK source : source = saving[a].source
  OBVIOUS
<1>3. PICK mid \in Seq(Item) :
            /\ DOMAIN mid = DOMAIN items
            /\ \A i \in DOMAIN items :
                  /\ mid[i].kind = items[i].kind /\ mid[i].summary = items[i].summary
                  /\ mid[i].source = items[i].source
                  /\ mid[i].active <=> items[i].active /\ items[i].kind # "preference"
            /\ Written(items', mid, "preference", <<text>>, source)
  BY <1>1, <1>2, PreferenceSaved
<1>4. text \in Preferences /\ undoneIds' = undoneIds /\ saving[a].phase # "idle"
  BY <1>1 DEF V!SavePreference
<1>5. /\ \A i \in DOMAIN items :
            /\ items'[i].kind = items[i].kind /\ items'[i].summary = items[i].summary
            /\ items'[i].source = items[i].source
            /\ items'[i].active <=> \/ mid[i].active
                                    \/ items[i].kind = "preference" /\ items[i].summary = <<text>>
      /\ \A i \in DOMAIN items' \ DOMAIN items :
            /\ items'[i].kind = "preference" /\ items'[i].summary = <<text>>
            /\ items'[i].source = source
  BY <1>3 DEF Written
<1>6. PICK replaced : V!Reported(a, text, replaced)
  BY <1>1 DEF V!SavePreference
<1>7. /\ origins' \in [Preferences -> SUBSET SUBSET Nat]
      /\ astray \subseteq astray'
      /\ text \notin astray' =>
            /\ \/ source \in origins'[text]
               \/ \E u \in turn' : text \in u.said /\ source = u.predicted
            /\ source \cap undoneIds = {}
            /\ \A i \in DOMAIN items' :
                  items'[i].summary = <<text>> => items'[i].source \cap undoneIds = {}
      /\ \A p \in Preferences :
            /\ origins[p] \subseteq origins'[p]
            /\ \A t \in turn : p \in t.said =>
                  \E u \in turn' : p \in u.said /\ u.predicted = t.predicted
      /\ saving'["tool"].phase # "idle" =>
            \A t \in turn' : saving'["tool"].source = t.predicted
  <2>1. OriginsSetDown(text, source)
    BY <1>1, <1>2, <1>4, <1>6, ReportedOrigins
  <2> QED
    BY <1>4, <2>1 DEF OriginsSetDown
<1>8. ASSUME NEW i \in DOMAIN items', NEW p \in Preferences \ astray',
             items'[i].summary = <<p>>, items'[i].kind = "preference"
      PROVE  /\ \/ items'[i].source \in origins'[p]
                \/ \E t \in turn' : p \in t.said /\ items'[i].source = t.predicted
             /\ items'[i].active => items'[i].source \cap undoneIds' = {}
  <2>1. CASE i \in DOMAIN items
    <3>1. \/ items[i].source \in origins[p]
          \/ \E t \in turn : p \in t.said /\ items[i].source = t.predicted
      BY <1>5, <1>7, <1>8, <2>1 DEF OriginsInv
    <3>2. items'[i].active => <<p>> = <<text>>
      BY <1>3, <1>5, <1>8, <2>1
    <3>3. items'[i].active => items'[i].source \cap undoneIds' = {}
      BY <1>4, <1>7, <1>8, <3>2
    <3>4. \/ items'[i].source \in origins'[p]
          \/ \E t \in turn' : p \in t.said /\ items'[i].source = t.predicted
      BY <1>5, <1>7, <2>1, <3>1
    <3> QED
      BY <3>3, <3>4
  <2>2. CASE i \notin DOMAIN items
    <3>1. items'[i].summary = <<text>> /\ items'[i].source = source
      BY <1>5, <2>2
    <3>2. p = text
      BY <1>8, <3>1
    <3> QED
      BY <1>4, <1>7, <1>8, <3>1, <3>2
  <2> QED
    BY <2>1, <2>2
<1> QED
  BY <1>7, <1>8 DEF OriginsInv

LEMMA OriginsStep ==
    ASSUME VectorInv, OriginsInv, V!Next
    PROVE  OriginsInv'
<1>0. Kept /\ VectorInv'
  BY ItemsStep, SavingStep, TurnsStep, JudgingStep, HeldStep DEF VectorInv
<1>1. /\ origins \in [Preferences -> SUBSET SUBSET Nat]
      /\ saving["tool"].phase # "idle" =>
            \A t \in turn : saving["tool"].source = t.predicted
      /\ saving \in [V!Savers -> [phase : {"idle", "embedding", "merging"},
                                  text : V!Texts \cup {""}, source : SUBSET (0..seq),
                                  target : Nat, summary : Seq(Rules)]]
  BY DEF OriginsInv, VectorInv, SavingInv
<1>2. CASE /\ UNCHANGED <<items, origins, astray, turn, undoneIds>>
           /\ saving' = saving \/ turn = {}
  <2>1. turn' = {} \/ saving'["tool"] = saving["tool"]
    BY <1>2
  <2> QED
    BY <1>0, <1>1, <1>2, <2>1, SameOrigins
<1>3. CASE V!Push \/ (\E ids \in SUBSET DOMAIN items : V!Judge(ids))
  BY <1>2, <1>3 DEF V!Push, V!Judge
<1>4. CASE V!StartTurn
  <2>1. /\ turn = {} /\ UNCHANGED <<items, origins, astray, undoneIds, saving>>
        /\ saving["tool"].phase = "idle"
    BY <1>4 DEF V!StartTurn, VectorInv, TurnsInv
  <2> QED
    BY <1>0, <1>1, <2>1, SameOrigins
<1>5. CASE V!CommitTurn
  <2>1. PICK t \in turn :
              /\ saving["tool"].phase = "idle" /\ turn' = {}
              /\ origins' = [p \in Preferences |->
                               origins[p] \cup (IF p \in t.said THEN {{seq}} ELSE {})]
              /\ astray' = IF t.predicted = {seq} THEN astray ELSE astray \cup t.said
              /\ UNCHANGED <<items, saving, undoneIds>>
    BY <1>5 DEF V!CommitTurn
  <2>2. {seq} \in SUBSET Nat
    BY DEF VectorInv, ItemsInv
  <2>3. /\ origins' \in [Preferences -> SUBSET SUBSET Nat]
        /\ \A p \in Preferences : /\ origins[p] \subseteq origins'[p]
                                  /\ p \in t.said => {seq} \in origins'[p]
    BY <1>1, <2>1, <2>2
  <2>4. turn = {t}
    BY DEF VectorInv, TurnsInv
  <2>5. astray \subseteq astray' /\ \A p \in t.said : p \notin astray' => t.predicted = {seq}
    BY <2>1
  <2>6. \A p \in Preferences \ astray' : p \in t.said => t.predicted \in origins'[p]
    BY <2>3, <2>5
  <2> QED
    BY <1>0, <2>1, <2>3, <2>4, <2>5, <2>6, SameOrigins
<1>6. CASE V!UndoTurn
  <2>1. PICK gone : gone = V!Last(turns).ids
    OBVIOUS
  <2>2. PICK retired : retired = {i \in DOMAIN items : items[i].source \cap gone # {}}
    OBVIOUS
  <2>3. /\ items' = V!Retire(items, retired) /\ undoneIds' = undoneIds \cup gone
        /\ UNCHANGED <<turn, saving, origins, astray>>
    BY <1>6, <2>1, <2>2 DEF V!UndoTurn, V!Retire, V!Retracts
  <2>4. /\ DOMAIN items' = DOMAIN items
        /\ \A i \in DOMAIN items : items'[i].active <=> items[i].active /\ i \notin retired
    <3>1. items \in Seq(Item)
      BY DEF VectorInv, ItemsInv
    <3> QED
      BY <2>3, <3>1, RetireFacts
  <2>5. \A i \in DOMAIN items : i \notin retired => items[i].source \cap gone = {}
    BY <2>2
  <2>6. \A i \in DOMAIN items' :
           /\ i \in DOMAIN items
           /\ items'[i].active =>
                 items[i].active /\ (items[i].source \cap undoneIds = {} =>
                                       items[i].source \cap undoneIds' = {})
    BY <2>3, <2>4, <2>5
  <2> QED
    BY <1>0, <1>1, <2>3, <2>6, SameOrigins
<1>7. ASSUME NEW text, V!Remember(text)
      PROVE  OriginsInv'
  <2>1. /\ UNCHANGED <<items, origins, astray, turn, undoneIds>>
        /\ \E t \in turn : V!BeginSave("tool", text, t.predicted)
    BY <1>7 DEF V!Remember
  <2>2. PICK t \in turn : V!BeginSave("tool", text, t.predicted)
    BY <2>1
  <2>3. turn = {t}
    BY DEF VectorInv, TurnsInv
  <2>4. saving'["tool"].source = t.predicted
    <3>1. PICK v : /\ v = [V!NoSave EXCEPT !.phase = "embedding", !.text = text,
                                           !.source = t.predicted]
                   /\ saving' = [saving EXCEPT !["tool"] = v]
      BY <2>2 DEF V!BeginSave
    <3>2. v.source = t.predicted
      BY <3>1 DEF V!NoSave
    <3> QED
      BY <1>1, <3>1, <3>2 DEF V!Savers
  <2> QED
    BY <1>0, <1>1, <2>1, <2>3, <2>4, SameOrigins
<1>8. ASSUME NEW text, V!Extract(text)
      PROVE  OriginsInv'
  <2>1. /\ UNCHANGED <<items, origins, astray, turn, undoneIds>>
        /\ saving'["tool"] = saving["tool"]
    BY <1>1, <1>8 DEF V!Extract, V!BeginSave, V!Savers
  <2> QED
    BY <1>0, <1>1, <2>1, SameOrigins
<1>9. ASSUME NEW a \in V!Savers, NEW target, V!PickTarget(a, target)
      PROVE  OriginsInv'
  <2>1. UNCHANGED <<items, origins, astray, turn, undoneIds>> /\ saving[a].phase # "idle"
    BY <1>9 DEF V!PickTarget
  <2>2. saving'["tool"].source = saving["tool"].source
    <3>1. PICK summary : summary = V!MergedSummary(items[target].summary, saving[a].text)
      OBVIOUS
    <3>2. saving' = [saving EXCEPT ![a].phase = "merging", ![a].target = target,
                                   ![a].summary = summary]
      BY <1>9, <3>1 DEF V!PickTarget
    <3> QED
      BY <1>1, <3>2 DEF V!Savers
  <2>3. saving'["tool"].phase # "idle" => saving["tool"].phase # "idle"
    <3>1. a # "tool" => saving'["tool"] = saving["tool"]
      BY <1>1, <1>9 DEF V!PickTarget, V!Savers
    <3> QED
      BY <2>1, <3>1
  <2> QED
    BY <1>0, <1>1, <2>1, <2>2, <2>3, SameOrigins
<1>10. ASSUME NEW a \in V!Savers, V!SaveRule(a) \/ V!WriteMerge(a)
       PROVE  OriginsInv'
  <2>1. \A i \in DOMAIN items' : items'[i].kind = "preference" =>
           i \in DOMAIN items /\ (items'[i].active => items[i].active)
    <3>1. CASE V!SaveRule(a)
      <4>1. Written(items', items, "procedure", <<saving[a].text>>, saving[a].source)
        BY <3>1, RuleSaved
      <4>2. /\ \A i \in DOMAIN items :
                  /\ items'[i].kind = items[i].kind
                  /\ items'[i].active <=> \/ items[i].active
                                          \/ /\ items[i].kind = "procedure"
                                             /\ items[i].summary = <<saving[a].text>>
            /\ \A i \in DOMAIN items' \ DOMAIN items : items'[i].kind = "procedure"
        BY <4>1 DEF Written
      <4> QED
        BY <4>2
    <3>2. CASE V!WriteMerge(a)
      BY <3>2, RuleMerged
    <3> QED
      BY <1>10, <3>1, <3>2
  <2>2. PICK text : text = saving[a].text
    OBVIOUS
  <2>3. saving[a].phase # "idle" /\ undoneIds' = undoneIds
    BY <1>10, Ending
  <2>4. PICK replaced : V!Reported(a, text, replaced)
    BY <1>10, <2>2, Ending
  <2>5. /\ origins' \in [Preferences -> SUBSET SUBSET Nat]
        /\ astray \subseteq astray'
        /\ \A p \in Preferences :
              /\ origins[p] \subseteq origins'[p]
              /\ \A t \in turn : p \in t.said =>
                    \E u \in turn' : p \in u.said /\ u.predicted = t.predicted
        /\ saving'["tool"].phase # "idle" =>
              \A t \in turn' : saving'["tool"].source = t.predicted
    <3>1. OriginsSetDown(text, saving[a].source)
      BY <2>2, <2>3, <2>4, ReportedOrigins
    <3> QED
      BY <3>1 DEF OriginsSetDown
  <2> QED
    BY <1>0, <2>1, <2>3, <2>5, SameOrigins
<1>11. CASE \/ \E id \in DOMAIN items : V!Forget(id)
            \/ \E ids \in SUBSET DOMAIN items : V!Judged(ids)
  <2>1. UNCHANGED <<origins, astray, turn, undoneIds, saving>>
    BY <1>11 DEF V!Forget, V!Judged
  <2>2. PICK ids : items' = V!Retire(items, ids)
    BY <1>11, RetiringSteps DEF Retiring
  <2>3. /\ DOMAIN items' = DOMAIN items
        /\ \A i \in DOMAIN items : items'[i].active <=> items[i].active /\ i \notin ids
    <3>1. items \in Seq(Item)
      BY DEF VectorInv, ItemsInv
    <3> QED
      BY <2>2, <3>1, RetireFacts
  <2> QED
    BY <1>0, <1>1, <2>1, <2>3, SameOrigins
<1> QED
  BY <1>3, <1>4, <1>5, <1>6, <1>7, <1>8, <1>9, <1>10, <1>11, PreferenceOrigins, VectorSteps

LEMMA VectorStart ==
    ASSUME V!Init
    PROVE  VectorInv /\ OriginsInv
<1>1. /\ items = <<>> /\ seq = 0 /\ turn = {} /\ turns = <<>>
      /\ saving = [a \in V!Savers |-> V!NoSave] /\ judging = {}
      /\ undoneIds = {} /\ held = {} /\ origins = [p \in Preferences |-> {}]
  BY DEF V!Init
<1>2. items \in Seq(Item) /\ DOMAIN items = {} /\ seq \in Nat
  BY <1>1
<1>3. ItemsInv
  BY <1>2 DEF ItemsInv
<1>4. SavingInv /\ saving["tool"].phase = "idle"
  BY <1>1, NoSaveFacts DEF SavingInv, V!Savers
<1>5. TurnsInv
  <2>1. turns \in Seq([ids : SUBSET Below(seq), replaced : SUBSET Nat]) /\ DOMAIN turns = {}
    BY <1>1
  <2> QED
    BY <1>1, <1>4, <2>1 DEF TurnsInv
<1>6. JudgingInv
  BY <1>1 DEF JudgingInv
<1>7. HeldInv
  BY <1>1, <1>2 DEF HeldInv, V!RememberedIsHeld, V!Active
<1>8. OriginsInv
  BY <1>1, <1>2, <1>4 DEF OriginsInv
<1> QED
  <2>1. seq <= MaxSeq
    <3>1. MaxSeq \in Nat
      BY VectorBounds
    <3> QED
      BY <1>1, <3>1
  <2> QED
    BY <1>3, <1>4, <1>5, <1>6, <1>7, <1>8, <2>1 DEF VectorInv

LEMMA VectorStep ==
    ASSUME VectorInv, OriginsInv, V!Next
    PROVE  VectorInv' /\ OriginsInv'
BY ItemsStep, SavingStep, TurnsStep, JudgingStep, HeldStep, OriginsStep DEF VectorInv

LEMMA VectorStutter ==
    ASSUME VectorInv, OriginsInv, UNCHANGED vectorVars
    PROVE  VectorInv' /\ OriginsInv'
<1>1. UNCHANGED <<items, seq, turn, turns, saving, judging, undoneIds, held, raced, origins,
                  astray>>
  BY DEF vectorVars
<1>2. ItemsInv' /\ SavingInv' /\ TurnsInv' /\ JudgingInv'
  BY <1>1 DEF VectorInv, ItemsInv, SavingInv, TurnsInv, JudgingInv
<1>3. HeldInv'
  <2>1. V!Active' = V!Active
    BY <1>1 DEF V!Active
  <2>2. V!Said(V!Active)' = V!Said(V!Active)
    BY <1>1, <2>1 DEF V!Said
  <2> QED
    BY <1>1, <2>1, <2>2 DEF VectorInv, HeldInv, V!RememberedIsHeld
<1>4. OriginsInv'
  BY <1>1 DEF OriginsInv
<1> QED
  BY <1>1, <1>2, <1>3, <1>4 DEF VectorInv

LEMMA VectorHolds ==
    ASSUME VectorInv
    PROVE  MemoryIsHeld
<1>1. V!VectorTypeOK
  <2>1. /\ \A i, j \in DOMAIN items :
              items[i].kind = items[j].kind /\ items[i].summary = items[j].summary => i = j
        /\ \A i \in DOMAIN items : items[i].source \subseteq 0..seq
    BY DEF VectorInv, ItemsInv
  <2>2. ASSUME NEW i \in DOMAIN items
        PROVE  /\ items[i].summary # <<>> /\ V!IsInjective(items[i].summary)
               /\ items[i].kind = "preference" => Len(items[i].summary) = 1
    <3>1. CASE items[i].kind = "preference"
      <4>1. PICK p \in Preferences : items[i].summary = <<p>>
        BY <3>1 DEF VectorInv, ItemsInv
      <4> QED
        BY <4>1, OneSaid
    <3>2. CASE items[i].kind = "procedure"
      BY <3>2 DEF VectorInv, ItemsInv
    <3> QED
      BY <3>1, <3>2, ItemFacts
  <2>3. /\ \A a \in V!Savers : saving[a].phase \in {"idle", "embedding", "merging"}
        /\ turn = {} => saving["tool"].phase = "idle"
    BY DEF VectorInv, SavingInv, TurnsInv
  <2>4. \A t \in V!ToSet(turns) : t.ids \cap undoneIds = {}
    BY DEF VectorInv, TurnsInv, V!ToSet
  <2>5. V!Cardinality(turn) <= 1 /\ V!Cardinality(judging) <= 1
    BY AtMostOne, SameCount DEF VectorInv, TurnsInv, JudgingInv
  <2>6. seq \in 0..MaxSeq
    <3>1. MaxSeq \in Nat
      BY VectorBounds
    <3>2. seq \in Nat /\ seq <= MaxSeq
      BY DEF VectorInv, ItemsInv
    <3> QED
      BY <3>1, <3>2
  <2> QED
    BY <2>1, <2>2, <2>3, <2>4, <2>5, <2>6 DEF V!VectorTypeOK
<1>2. V!RememberedIsHeld
  BY DEF VectorInv, HeldInv
<1>3. V!NoRivals
  <2> DEFINE both == {i \in V!Active : items[i].kind = "preference"}
  <2>1. \A i, j \in both : i = j
    BY DEF VectorInv, HeldInv
  <2>2. both = {} \/ \E i : both = {i}
    BY <2>1
  <2>3. Cardinality(both) <= 1
    BY <2>2, AtMostOne
  <2> QED
    BY <2>3, SameCount DEF V!NoRivals
<1> QED
  BY <1>1, <1>2, <1>3 DEF MemoryIsHeld

\* The invariant of the vector memory, in the behaviours TLC explores.
THEOREM VectorInvariant == Spec => [](VectorInv /\ OriginsInv)
<1>1. Init => VectorInv /\ OriginsInv
  BY VectorStart DEF Init
<1>2. ASSUME VectorInv, OriginsInv, [Next]_vars
      PROVE  VectorInv' /\ OriginsInv'
  <2>1. CASE V!Next
    BY <1>2, <2>1, VectorStep
  <2>2. CASE UNCHANGED vectorVars
    BY <1>2, <2>2, VectorStutter
  <2> QED
    BY <1>2, <2>1, <2>2 DEF Next, vars
<1> QED
  BY <1>1, <1>2, PTL DEF Spec

\* What a save has reported is said by an active item until it is retired on request or
\* two saves, or a save and a verdict, meet on one item; no two preferences are active at
\* a time (Memorizer.save_item_with_supersede, merge_item_raw, _handle_invalidations).
THEOREM MemoryIsHeldAlways == Spec => []MemoryIsHeld
<1>1. VectorInv => MemoryIsHeld
  BY VectorHolds
<1> QED
  BY <1>1, VectorInvariant, PTL

\* The undo of the turns a preference was saved from takes it back
\* (_undo_store_by_message_sources).
THEOREM UndoTakesBackAlways == Spec => []UndoTakesBack
<1>1. VectorInv /\ OriginsInv => UndoTakesBack
  BY OriginsHolds DEF UndoTakesBack
<1> QED
  BY <1>1, VectorInvariant, PTL

\* The same when preferences and rules are saved in one behaviour, which TLC's run leaves
\* out.
THEOREM BothKindsHeld == V!Spec => [](MemoryIsHeld /\ UndoTakesBack)
<1>1. ASSUME VectorInv, OriginsInv, [V!Next]_V!vmVars
      PROVE  VectorInv' /\ OriginsInv'
  <2>1. CASE V!Next
    BY <1>1, <2>1, VectorStep
  <2>2. CASE UNCHANGED V!vmVars
    <3>1. UNCHANGED vectorVars
      BY <2>2 DEF V!vmVars, vectorVars
    <3> QED
      BY <1>1, <3>1, VectorStutter
  <2> QED
    BY <1>1, <2>1, <2>2
<1>2. VectorInv /\ OriginsInv => MemoryIsHeld /\ UndoTakesBack
  BY VectorHolds, OriginsHolds DEF UndoTakesBack
<1> QED
  BY <1>1, <1>2, VectorStart, PTL DEF V!Spec

-------------------------------------------------------------------------------
(* PENDING.md *)

\* A batch is once in a file.
Once(s, b) == \A i, j \in DOMAIN s : s[i] = b /\ s[j] = b => i = j

\* One snapshot at most, and while it is being merged the model has just what is in it.
FilesInv ==
    /\ running \in BOOLEAN /\ torn \in BOOLEAN
    /\ pending \in Seq(Batches)
    /\ snapshot = {} \/ \E t : snapshot = {t} /\ t \in Seq(Batches) /\ t # <<>>
    /\ written \subseteq Batches /\ accepted \subseteq Batches /\ repeatable \subseteq Batches
    /\ longTerm \in [Batches -> Nat] /\ merging \subseteq Batches
    /\ optimizing \in {"idle", "merging", "settling"}
    /\ ~running => optimizing = "idle"
    /\ optimizing = "merging" => merging = P!InSnapshot

\* A batch that was not repeated is in one place, and in none before it is accepted.
PlacesInv ==
    \A b \in Batches \ repeatable :
        /\ Once(pending, b) /\ \A t \in snapshot : Once(t, b)
        /\ ~(P!Has(pending, b) /\ b \in P!InSnapshot)
        /\ P!Has(pending, b) \/ b \in P!InSnapshot => longTerm[b] = 0 /\ b \in accepted
        /\ longTerm[b] <= 1 /\ (longTerm[b] > 0 => b \in accepted)

PendingInv == FilesInv /\ PlacesInv /\ P!FactsSurvive

LEMMA SnapshotFacts ==
    ASSUME FilesInv
    PROVE  /\ \A b : b \in P!InSnapshot <=> \E t \in snapshot : P!Has(t, b)
           /\ P!InSnapshot \subseteq Batches
<1>1. \A b : b \in P!InSnapshot <=> \E t \in snapshot : P!Has(t, b)
  BY DEF P!InSnapshot, P!Has
<1>2. P!InSnapshot \subseteq Batches
  BY <1>1 DEF FilesInv, P!Has, P!ToSet
<1> QED
  BY <1>1, <1>2

\* What is in a file to which the snapshot was put back.
LEMMA PutBackFacts ==
    ASSUME FilesInv, NEW file \in Seq(Batches)
    PROVE  /\ P!PutBack(file) \in Seq(Batches)
           /\ \A b : P!Has(P!PutBack(file), b) <=> P!Has(file, b) \/ b \in P!InSnapshot
           /\ \A b : /\ Once(file, b) /\ \A t \in snapshot : Once(t, b)
                     /\ ~(P!Has(file, b) /\ b \in P!InSnapshot)
                     => Once(P!PutBack(file), b)
<1>1. CASE snapshot = {}
  <2>1. P!PutBack(file) = file /\ P!InSnapshot = {}
    BY <1>1 DEF P!PutBack, P!InSnapshot
  <2> QED
    BY <2>1
<1>2. CASE \E t : snapshot = {t} /\ t \in Seq(Batches) /\ t # <<>>
  <2>1. PICK t \in Seq(Batches) : snapshot = {t}
    BY <1>2
  <2>2. P!PutBack(file) = t \o file
    BY <2>1 DEF P!PutBack
  <2>3. \A b : b \in P!InSnapshot <=> P!Has(t, b)
    BY <2>1, SnapshotFacts
  <2>4. PICK new : new = t \o file
    OBVIOUS
  <2>5. /\ new \in Seq(Batches) /\ Len(new) = Len(t) + Len(file)
        /\ \A i \in 1..Len(new) : new[i] = IF i <= Len(t) THEN t[i] ELSE file[i - Len(t)]
    BY <2>1, <2>4, ConcatProperties
  <2>6. /\ Len(t) \in Nat /\ Len(file) \in Nat
        /\ DOMAIN t = 1..Len(t) /\ DOMAIN file = 1..Len(file)
        /\ DOMAIN new = 1..(Len(t) + Len(file))
    BY <2>1, <2>5
  <2>7. ASSUME NEW b
        PROVE  P!Has(new, b) <=> P!Has(t, b) \/ P!Has(file, b)
    <3>1. P!Has(new, b) => P!Has(t, b) \/ P!Has(file, b)
      <4>1. ASSUME NEW i \in DOMAIN new, new[i] = b
            PROVE  (\E k \in DOMAIN t : t[k] = b) \/ (\E k \in DOMAIN file : file[k] = b)
        <5>1. CASE i <= Len(t)
          BY <2>5, <2>6, <4>1, <5>1
        <5>2. CASE ~(i <= Len(t))
          <6>1. i - Len(t) \in DOMAIN file
            BY <2>6, <5>2
          <6> QED
            BY <2>5, <2>6, <4>1, <5>2, <6>1
        <5> QED
          BY <5>1, <5>2
      <4> QED
        BY <4>1 DEF P!Has, P!ToSet
    <3>2. ASSUME NEW k \in DOMAIN t, t[k] = b
          PROVE  \E i \in DOMAIN new : new[i] = b
      BY <2>5, <2>6, <3>2
    <3>3. ASSUME NEW k \in DOMAIN file, file[k] = b
          PROVE  \E i \in DOMAIN new : new[i] = b
      <4>1. k + Len(t) \in DOMAIN new /\ ~(k + Len(t) <= Len(t)) /\ (k + Len(t)) - Len(t) = k
        BY <2>6
      <4>2. new[k + Len(t)] = b
        BY <2>5, <2>6, <3>3, <4>1
      <4> QED
        BY <4>1, <4>2
    <3> QED
      BY <3>1, <3>2, <3>3 DEF P!Has, P!ToSet
  <2>8. ASSUME NEW b, Once(file, b), Once(t, b), ~(P!Has(file, b) /\ P!Has(t, b)),
               NEW i \in DOMAIN new, NEW j \in DOMAIN new, new[i] = b, new[j] = b
        PROVE  i = j
    <3>1. CASE i <= Len(t) /\ j <= Len(t)
      BY <2>5, <2>6, <2>8, <3>1 DEF Once
    <3>2. CASE ~(i <= Len(t)) /\ ~(j <= Len(t))
      <4>1. i - Len(t) \in DOMAIN file /\ j - Len(t) \in DOMAIN file
        BY <2>6, <3>2
      <4>2. file[i - Len(t)] = b /\ file[j - Len(t)] = b
        BY <2>5, <2>6, <2>8, <3>2
      <4>3. i - Len(t) = j - Len(t)
        BY <2>8, <4>1, <4>2 DEF Once
      <4> QED
        BY <2>6, <4>3
    <3>3. ASSUME NEW k \in DOMAIN new, NEW m \in DOMAIN new, new[k] = b, new[m] = b,
                 k <= Len(t), ~(m <= Len(t))
          PROVE  FALSE
      <4>1. k \in DOMAIN t /\ t[k] = b
        BY <2>5, <2>6, <3>3
      <4>2. m - Len(t) \in DOMAIN file /\ file[m - Len(t)] = b
        BY <2>5, <2>6, <3>3
      <4>3. P!Has(t, b) /\ P!Has(file, b)
        BY <4>1, <4>2 DEF P!Has, P!ToSet
      <4> QED
        BY <2>8, <4>3
    <3> QED
      BY <2>8, <3>1, <3>2, <3>3
  <2>9. ASSUME NEW b, Once(file, b), Once(t, b), ~(P!Has(file, b) /\ P!Has(t, b))
        PROVE  Once(new, b)
    BY <2>8, <2>9 DEF Once
  <2> QED
    BY <2>1, <2>2, <2>3, <2>4, <2>5, <2>7, <2>9
<1> QED
  BY <1>1, <1>2 DEF FilesInv

\* A batch is appended once, after what is there.
LEMMA AppendOnceFacts ==
    ASSUME FilesInv, NEW b \in Batches
    PROVE  /\ P!AppendOnce(b) \in Seq(Batches)
           /\ \A c : P!Has(P!AppendOnce(b), c) <=> P!Has(pending, c) \/ c = b
           /\ \A c : Once(pending, c) => Once(P!AppendOnce(b), c)
<1>1. CASE P!Has(pending, b)
  BY <1>1 DEF P!AppendOnce, FilesInv
<1>2. CASE ~P!Has(pending, b)
  <2>1. PICK new : new = Append(pending, b)
    OBVIOUS
  <2>2. P!AppendOnce(b) = new
    BY <1>2, <2>1 DEF P!AppendOnce
  <2>3. /\ new \in Seq(Batches) /\ Len(new) = Len(pending) + 1
        /\ \A i \in 1..Len(pending) : new[i] = pending[i]
        /\ new[Len(pending) + 1] = b
    BY <2>1, AppendProperties DEF FilesInv
  <2>4. /\ Len(pending) \in Nat /\ DOMAIN pending = 1..Len(pending)
        /\ DOMAIN new = 1..(Len(pending) + 1)
    BY <2>3 DEF FilesInv
  <2>5. \A i \in DOMAIN new : i \in DOMAIN pending \/ i = Len(pending) + 1
    BY <2>4
  <2>6. Len(pending) + 1 \in DOMAIN new /\ \A i \in DOMAIN pending : i \in DOMAIN new
    BY <2>4
  <2>7. \A c : P!Has(new, c) <=> P!Has(pending, c) \/ c = b
    BY <2>3, <2>4, <2>5, <2>6 DEF P!Has, P!ToSet
  <2>8. \A i \in DOMAIN pending : pending[i] # b
    BY <1>2 DEF P!Has, P!ToSet
  <2>9. ASSUME NEW c, Once(pending, c)
        PROVE  Once(new, c)
    BY <2>3, <2>4, <2>5, <2>8, <2>9 DEF Once
  <2> QED
    BY <2>2, <2>3, <2>7, <2>9
<1> QED
  BY <1>1, <1>2

LEMMA EmptyFile ==
    /\ <<>> \in Seq(Batches) /\ \A b : ~P!Has(<<>>, b) /\ Once(<<>>, b)
BY DEF P!Has, P!ToSet, Once

\* The snapshot of the next state.
LEMMA SnapshotAfter ==
    ASSUME FilesInv'
    PROVE  /\ snapshot' = {} => P!InSnapshot' = {}
           /\ \A t : snapshot' = {t} => P!InSnapshot' = P!ToSet(t)
BY DEF P!InSnapshot

LEMMA PendingAppend ==
    ASSUME PendingInv, NEW b \in Batches, P!AppendFacts(b) \/ P!CrashInAppend(b)
    PROVE  PendingInv'
<1>1. /\ pending' = P!AppendOnce(b) /\ UNCHANGED <<snapshot, longTerm, torn>>
      /\ written' \subseteq Batches
      /\ P!InSnapshot' = P!InSnapshot
  BY DEF P!AppendFacts, P!CrashInAppend, P!Dies, PendingInv, FilesInv, P!InSnapshot
<1>2. /\ pending' \in Seq(Batches)
      /\ \A c : P!Has(pending', c) <=> P!Has(pending, c) \/ c = b
      /\ \A c : Once(pending, c) => Once(pending', c)
  BY <1>1, AppendOnceFacts DEF PendingInv
<1>3. \/ /\ accepted' = accepted \cup {b}
         /\ repeatable' = IF b \in accepted THEN repeatable \cup {b} ELSE repeatable
         /\ UNCHANGED <<running, optimizing, merging>>
      \/ /\ accepted' = accepted /\ repeatable' = repeatable \cup {b}
         /\ running' = FALSE /\ optimizing' = "idle" /\ merging' = {}
  BY DEF P!AppendFacts, P!CrashInAppend, P!Dies
<1>4. FilesInv'
  <2>1. /\ accepted' \subseteq Batches /\ repeatable' \subseteq Batches /\ merging' \subseteq Batches
        /\ running' \in BOOLEAN /\ optimizing' \in {"idle", "merging", "settling"}
        /\ ~running' => optimizing' = "idle"
        /\ optimizing' = "merging" => merging' = P!InSnapshot
    BY <1>3 DEF PendingInv, FilesInv
  <2> QED
    BY <1>1, <1>2, <2>1 DEF PendingInv, FilesInv
<1>5. PlacesInv'
  <2> SUFFICES ASSUME NEW c \in Batches \ repeatable'
               PROVE  /\ Once(pending', c) /\ \A t \in snapshot : Once(t, c)
                      /\ ~(P!Has(pending', c) /\ c \in P!InSnapshot)
                      /\ P!Has(pending', c) \/ c \in P!InSnapshot =>
                            longTerm[c] = 0 /\ c \in accepted'
                      /\ longTerm[c] <= 1 /\ (longTerm[c] > 0 => c \in accepted')
    BY <1>1 DEF PlacesInv
  <2>1. c \notin repeatable /\ accepted \subseteq accepted'
    BY <1>3
  <2>2. /\ Once(pending, c) /\ \A t \in snapshot : Once(t, c)
        /\ ~(P!Has(pending, c) /\ c \in P!InSnapshot)
        /\ P!Has(pending, c) \/ c \in P!InSnapshot => longTerm[c] = 0 /\ c \in accepted
        /\ longTerm[c] <= 1 /\ (longTerm[c] > 0 => c \in accepted)
        /\ longTerm[c] \in Nat
    BY <2>1 DEF PendingInv, PlacesInv, FilesInv
  <2>3. CASE c # b
    BY <1>2, <2>1, <2>2, <2>3
  <2>4. CASE c = b
    <3>1. c \notin accepted /\ c \in accepted'
      BY <1>3, <2>4
    <3>2. c \notin P!InSnapshot /\ longTerm[c] = 0
      BY <2>2, <3>1
    <3> QED
      BY <1>2, <2>2, <3>1, <3>2
  <2> QED
    BY <2>3, <2>4
<1>6. (P!FactsSurvive)'
  <2>1. ASSUME ~torn', NEW c \in accepted'
        PROVE  P!Has(pending', c) \/ c \in P!InSnapshot \/ longTerm[c] > 0
    <3>1. CASE c = b
      BY <1>2, <3>1
    <3>2. CASE c # b
      <4>1. c \in accepted
        BY <1>3, <2>1, <3>2
      <4> QED
        BY <1>1, <1>2, <2>1, <4>1 DEF PendingInv, P!FactsSurvive
    <3> QED
      BY <3>1, <3>2
  <2> QED
    BY <1>1, <2>1 DEF P!FactsSurvive
<1> QED
  BY <1>4, <1>5, <1>6 DEF PendingInv

\* The file that the snapshot was put back into holds what the two held.
LEMMA PutBackPlaces ==
    ASSUME PendingInv
    PROVE  /\ P!PutBack(pending) \in Seq(Batches)
           /\ \A b : P!Has(P!PutBack(pending), b) <=> P!Has(pending, b) \/ b \in P!InSnapshot
           /\ \A b \in Batches \ repeatable :
                 /\ Once(P!PutBack(pending), b)
                 /\ P!Has(P!PutBack(pending), b) => longTerm[b] = 0 /\ b \in accepted
<1>1. pending \in Seq(Batches)
  BY DEF PendingInv, FilesInv
<1>2. /\ P!PutBack(pending) \in Seq(Batches)
      /\ \A b : P!Has(P!PutBack(pending), b) <=> P!Has(pending, b) \/ b \in P!InSnapshot
      /\ \A b : /\ Once(pending, b) /\ \A t \in snapshot : Once(t, b)
                /\ ~(P!Has(pending, b) /\ b \in P!InSnapshot)
                => Once(P!PutBack(pending), b)
  BY <1>1, PutBackFacts DEF PendingInv
<1> QED
  BY <1>2 DEF PendingInv, PlacesInv

\* The snapshot goes back: after a merge that failed, and when the process starts.
LEMMA PendingBack ==
    ASSUME PendingInv, P!MergeEmpty \/ P!Start
    PROVE  PendingInv'
<1>1. /\ pending' = P!PutBack(pending) /\ snapshot' = {} /\ P!InSnapshot' = {}
      /\ UNCHANGED <<written, longTerm, accepted, repeatable, torn>>
      /\ running' \in BOOLEAN /\ optimizing' \in {"idle", "settling"}
      /\ merging' \subseteq Batches
      /\ ~running' => optimizing' = "idle"
  BY DEF P!MergeEmpty, P!Start, PendingInv, FilesInv, P!InSnapshot
<1>2. FilesInv'
  BY <1>1, PutBackPlaces DEF PendingInv, FilesInv
<1>3. PlacesInv'
  BY <1>1, PutBackPlaces DEF PendingInv, PlacesInv
<1>4. (P!FactsSurvive)'
  BY <1>1, PutBackPlaces DEF PendingInv, P!FactsSurvive
<1> QED
  BY <1>2, <1>3, <1>4 DEF PendingInv

LEMMA PendingOptimize ==
    ASSUME PendingInv, P!Optimize
    PROVE  PendingInv'
<1>1. PICK file : file = P!PutBack(pending)
  OBVIOUS
<1>2. /\ snapshot' = (IF file = <<>> THEN {} ELSE {file})
      /\ pending' = <<>> /\ merging' = P!ToSet(file)
      /\ optimizing' \in {"idle", "merging"} /\ running
      /\ UNCHANGED <<running, written, longTerm, accepted, repeatable, torn>>
  BY <1>1 DEF P!Optimize
<1>3. file \in Seq(Batches) /\ \A b : P!Has(file, b) <=> P!Has(pending, b) \/ b \in P!InSnapshot
  BY <1>1, PutBackPlaces
<1>4. \A b \in Batches \ repeatable :
         Once(file, b) /\ (P!Has(file, b) => longTerm[b] = 0 /\ b \in accepted)
  BY <1>1, PutBackPlaces
<1>5. P!InSnapshot' = P!ToSet(file)
  <2>1. CASE file = <<>>
    BY <1>2, <2>1 DEF P!InSnapshot, P!ToSet
  <2>2. CASE file # <<>>
    BY <1>2, <2>2 DEF P!InSnapshot
  <2> QED
    BY <2>1, <2>2
<1>6. P!ToSet(file) \subseteq Batches
  BY <1>3 DEF P!ToSet
<1>7. FilesInv'
  <2>1. snapshot' = {} \/ \E t : snapshot' = {t} /\ t \in Seq(Batches) /\ t # <<>>
    BY <1>2, <1>3
  <2> QED
    BY <1>2, <1>5, <1>6, <2>1, EmptyFile DEF PendingInv, FilesInv
<1>8. PlacesInv'
  <2>1. \A t \in snapshot' : t = file
    BY <1>2
  <2>2. \A b : b \in P!InSnapshot' <=> P!Has(file, b)
    BY <1>5 DEF P!Has
  <2> QED
    BY <1>2, <1>4, <2>1, <2>2, EmptyFile DEF PendingInv, PlacesInv
<1>9. (P!FactsSurvive)'
  <2>1. \A b : b \in P!InSnapshot' <=> P!Has(file, b)
    BY <1>5 DEF P!Has
  <2> QED
    BY <1>2, <1>3, <2>1 DEF PendingInv, P!FactsSurvive
<1> QED
  BY <1>7, <1>8, <1>9 DEF PendingInv

\* What was sent to the model is in the long-term memory once more.
LEMMA MergedFacts ==
    ASSUME FilesInv
    PROVE  /\ P!Merged \in [Batches -> Nat]
           /\ \A b \in Batches : P!Merged[b] = IF b \in merging THEN longTerm[b] + 1
                                              ELSE longTerm[b]
<1>1. ASSUME NEW b \in Batches
      PROVE  P!Cardinality(merging \cap {b}) = IF b \in merging THEN 1 ELSE 0
  <2>1. CASE b \in merging
    <3>1. merging \cap {b} = {b}
      BY <2>1
    <3> QED
      BY <2>1, <3>1, FS_Singleton, SameCountP
  <2>2. CASE b \notin merging
    <3>1. merging \cap {b} = {}
      BY <2>2
    <3> QED
      BY <2>2, <3>1, FS_EmptySet, SameCountP
  <2> QED
    BY <2>1, <2>2
<1>2. P!Merged = [b \in Batches |-> longTerm[b] + P!Cardinality(merging \cap {b})]
  BY DEF P!Merged
<1>3. longTerm \in [Batches -> Nat]
  BY DEF FilesInv
<1>4. ASSUME NEW b \in Batches
      PROVE  P!Merged[b] = (IF b \in merging THEN longTerm[b] + 1 ELSE longTerm[b])
             /\ P!Merged[b] \in Nat
  BY <1>1, <1>2, <1>3
<1> QED
  BY <1>2, <1>4

LEMMA PendingMerge ==
    ASSUME PendingInv, P!MergeDone
    PROVE  PendingInv'
<1>1. /\ optimizing = "merging" /\ merging = P!InSnapshot /\ running
  BY DEF P!MergeDone, PendingInv, FilesInv
<1>2. /\ longTerm' = P!Merged /\ snapshot' = {} /\ merging' = {} /\ optimizing' = "settling"
      /\ P!InSnapshot' = {}
      /\ UNCHANGED <<running, pending, written, accepted, repeatable, torn>>
  BY DEF P!MergeDone, P!SnapshotGone, P!InSnapshot
<1>3. /\ longTerm' \in [Batches -> Nat]
      /\ \A b \in Batches : longTerm'[b] = IF b \in merging THEN longTerm[b] + 1
                                          ELSE longTerm[b]
  BY <1>2, MergedFacts DEF PendingInv
<1>4. longTerm \in [Batches -> Nat] /\ accepted \subseteq Batches
  BY DEF PendingInv, FilesInv
<1>5. FilesInv'
  BY <1>1, <1>2, <1>3 DEF PendingInv, FilesInv
<1>6. PlacesInv'
  <2> SUFFICES ASSUME NEW b \in Batches \ repeatable
               PROVE  /\ Once(pending, b)
                      /\ P!Has(pending, b) => longTerm'[b] = 0 /\ b \in accepted
                      /\ longTerm'[b] <= 1 /\ (longTerm'[b] > 0 => b \in accepted)
    BY <1>2 DEF PlacesInv
  <2>1. /\ Once(pending, b)
        /\ ~(P!Has(pending, b) /\ b \in P!InSnapshot)
        /\ P!Has(pending, b) \/ b \in P!InSnapshot => longTerm[b] = 0 /\ b \in accepted
        /\ longTerm[b] <= 1 /\ (longTerm[b] > 0 => b \in accepted)
    BY DEF PendingInv, PlacesInv
  <2>2. CASE b \in merging
    BY <1>1, <1>3, <2>1, <2>2
  <2>3. CASE b \notin merging
    BY <1>1, <1>3, <2>1, <2>3
  <2> QED
    BY <2>2, <2>3
<1>7. (P!FactsSurvive)'
  <2>1. ASSUME ~torn, NEW b \in accepted
        PROVE  P!Has(pending, b) \/ longTerm'[b] > 0
    <3>1. P!Has(pending, b) \/ b \in P!InSnapshot \/ longTerm[b] > 0
      BY <2>1 DEF PendingInv, P!FactsSurvive
    <3>2. longTerm[b] \in Nat /\ longTerm'[b] = IF b \in merging THEN longTerm[b] + 1
                                               ELSE longTerm[b]
      BY <1>3, <1>4
    <3> QED
      BY <1>1, <3>1, <3>2
  <2> QED
    BY <1>2, <2>1 DEF P!FactsSurvive
<1> QED
  BY <1>5, <1>6, <1>7 DEF PendingInv

LEMMA PendingCrashInMerge ==
    ASSUME PendingInv, P!CrashInMerge
    PROVE  PendingInv'
<1>1. /\ longTerm' = P!Merged /\ repeatable' = repeatable \cup merging
      /\ running' = FALSE /\ optimizing' = "idle" /\ merging' = {}
      /\ P!InSnapshot' = P!InSnapshot
      /\ UNCHANGED <<pending, snapshot, written, accepted, torn>>
  BY DEF P!CrashInMerge, P!Dies, P!InSnapshot
<1>2. /\ longTerm' \in [Batches -> Nat]
      /\ \A b \in Batches : longTerm'[b] = IF b \in merging THEN longTerm[b] + 1
                                          ELSE longTerm[b]
  BY <1>1, MergedFacts DEF PendingInv
<1>3. longTerm \in [Batches -> Nat] /\ accepted \subseteq Batches
  BY DEF PendingInv, FilesInv
<1>4. FilesInv'
  BY <1>1, <1>2 DEF PendingInv, FilesInv
<1>5. PlacesInv'
  <2>1. \A b \in Batches \ repeatable' : b \notin repeatable /\ longTerm'[b] = longTerm[b]
    BY <1>1, <1>2
  <2> QED
    BY <1>1, <2>1 DEF PendingInv, PlacesInv
<1>6. (P!FactsSurvive)'
  <2>1. \A b \in accepted : longTerm[b] > 0 => longTerm'[b] > 0
    BY <1>2, <1>3
  <2> QED
    BY <1>1, <2>1 DEF PendingInv, P!FactsSurvive
<1> QED
  BY <1>4, <1>5, <1>6 DEF PendingInv

LEMMA PendingCrashInRollback ==
    ASSUME PendingInv, NEW file, P!CrashInRollback(file)
    PROVE  PendingInv'
<1>1. /\ file \in {<<>>, P!PutBack(pending)} /\ pending' = file
      /\ torn' = (torn \/ (file = <<>> /\ pending # <<>>))
      /\ repeatable' = repeatable \cup P!InSnapshot
      /\ running' = FALSE /\ optimizing' = "idle" /\ merging' = {}
      /\ P!InSnapshot' = P!InSnapshot
      /\ UNCHANGED <<snapshot, written, longTerm, accepted>>
  BY DEF P!CrashInRollback, P!Dies, P!InSnapshot
<1>2. /\ pending' \in Seq(Batches)
      /\ \A b : P!Has(pending', b) => P!Has(pending, b) \/ b \in P!InSnapshot
      /\ \A b \in Batches \ repeatable : Once(pending', b)
  BY <1>1, PutBackPlaces, EmptyFile
<1>3. P!InSnapshot \subseteq Batches
  BY SnapshotFacts DEF PendingInv
<1>4. FilesInv'
  <2>1. torn' \in BOOLEAN
    BY <1>1 DEF PendingInv, FilesInv
  <2> QED
    BY <1>1, <1>2, <1>3, <2>1 DEF PendingInv, FilesInv
<1>5. PlacesInv'
  <2>1. \A b \in Batches \ repeatable' : b \notin repeatable /\ b \notin P!InSnapshot
    BY <1>1
  <2> QED
    BY <1>1, <1>2, <2>1 DEF PendingInv, PlacesInv
<1>6. (P!FactsSurvive)'
  <2>1. ASSUME ~torn', NEW b \in accepted
        PROVE  P!Has(pending', b) \/ b \in P!InSnapshot \/ longTerm[b] > 0
    <3>1. P!Has(pending, b) \/ b \in P!InSnapshot \/ longTerm[b] > 0
      BY <1>1, <2>1 DEF PendingInv, P!FactsSurvive
    <3>2. P!Has(pending, b) => P!Has(pending', b)
      <4>1. CASE file = <<>>
        BY <1>1, <2>1, <4>1, EmptyFile
      <4>2. CASE file = P!PutBack(pending)
        BY <1>1, <4>2, PutBackPlaces
      <4> QED
        BY <1>1, <4>1, <4>2
    <3> QED
      BY <3>1, <3>2
  <2> QED
    BY <1>1, <2>1 DEF P!FactsSurvive
<1> QED
  BY <1>4, <1>5, <1>6 DEF PendingInv

\* The steps that touch no file.
LEMMA PendingElse ==
    ASSUME PendingInv, P!MergeRaises \/ P!Settle \/ P!Crash \/ UNCHANGED pendingVars
    PROVE  PendingInv'
<1>1. /\ UNCHANGED <<pending, snapshot, written, longTerm, accepted, repeatable, torn>>
      /\ running' \in BOOLEAN /\ merging' \subseteq Batches
      /\ optimizing' \in {"idle", "merging", "settling"}
      /\ ~running' => optimizing' = "idle"
      /\ optimizing' = "merging" => merging' = P!InSnapshot
  <2>1. CASE P!MergeRaises \/ P!Settle
    BY <2>1 DEF P!MergeRaises, P!Settle, PendingInv, FilesInv
  <2>2. CASE P!Crash
    BY <2>2 DEF P!Crash, P!Dies
  <2>3. CASE UNCHANGED pendingVars
    BY <2>3 DEF pendingVars, PendingInv, FilesInv
  <2> QED
    BY <2>1, <2>2, <2>3
<1>2. P!InSnapshot' = P!InSnapshot
  BY <1>1 DEF P!InSnapshot
<1>3. FilesInv'
  BY <1>1, <1>2 DEF PendingInv, FilesInv
<1>4. PlacesInv'
  BY <1>1, <1>2 DEF PendingInv, PlacesInv
<1>5. (P!FactsSurvive)'
  BY <1>1, <1>2 DEF PendingInv, P!FactsSurvive
<1> QED
  BY <1>3, <1>4, <1>5 DEF PendingInv

LEMMA PendingStart ==
    ASSUME P!Init
    PROVE  PendingInv
<1>1. /\ running = TRUE /\ pending = <<>> /\ snapshot = {} /\ written = {}
      /\ longTerm = [b \in Batches |-> 0] /\ optimizing = "idle" /\ merging = {}
      /\ accepted = {} /\ repeatable = {} /\ torn = FALSE
  BY DEF P!Init
<1>2. P!InSnapshot = {}
  BY <1>1 DEF P!InSnapshot
<1>3. FilesInv
  BY <1>1, <1>2, EmptyFile DEF FilesInv
<1>4. PlacesInv
  BY <1>1, <1>2, EmptyFile DEF PlacesInv
<1>5. P!FactsSurvive
  BY <1>1 DEF P!FactsSurvive
<1> QED
  BY <1>3, <1>4, <1>5 DEF PendingInv

LEMMA PendingHolds ==
    ASSUME PendingInv
    PROVE  FactsKeptOnce
<1>1. P!PendingTypeOK
  <2>1. P!Cardinality(snapshot) <= 1 /\ \A t \in snapshot : t \in Seq(Batches) /\ t # <<>>
    BY AtMostOne, SameCountP DEF PendingInv, FilesInv
  <2> QED
    BY <2>1 DEF PendingInv, FilesInv, P!PendingTypeOK
<1>2. P!MergedOnce
  <2> SUFFICES ASSUME NEW b \in Batches \ repeatable
               PROVE  P!Count(pending, b) + P!Cardinality({t \in snapshot : P!Has(t, b)})
                         + longTerm[b] <= 1
    BY DEF P!MergedOnce
  <2>1. /\ Once(pending, b)
        /\ ~(P!Has(pending, b) /\ b \in P!InSnapshot)
        /\ P!Has(pending, b) \/ b \in P!InSnapshot => longTerm[b] = 0
        /\ longTerm[b] <= 1 /\ longTerm[b] \in Nat
    BY DEF PendingInv, PlacesInv, FilesInv
  <2>2. P!Count(pending, b) = IF P!Has(pending, b) THEN 1 ELSE 0
    <3> DEFINE at == {i \in DOMAIN pending : pending[i] = b}
    <3>1. CASE P!Has(pending, b)
      <4>1. \E i : at = {i}
        <5>1. PICK i \in DOMAIN pending : pending[i] = b
          BY <3>1 DEF P!Has, P!ToSet
        <5>2. \A j \in at : j = i
          BY <2>1, <5>1 DEF Once
        <5>3. at = {i}
          BY <5>1, <5>2
        <5> QED
          BY <5>3
      <4> QED
        BY <3>1, <4>1, FS_Singleton, SameCountP DEF P!Count
    <3>2. CASE ~P!Has(pending, b)
      <4>1. at = {}
        BY <3>2 DEF P!Has, P!ToSet
      <4> QED
        BY <3>2, <4>1, FS_EmptySet, SameCountP DEF P!Count
    <3> QED
      BY <3>1, <3>2
  <2>3. P!Cardinality({t \in snapshot : P!Has(t, b)}) = IF b \in P!InSnapshot THEN 1 ELSE 0
    <3> DEFINE those == {t \in snapshot : P!Has(t, b)}
    <3>1. CASE b \in P!InSnapshot
      <4>1. \E t : those = {t}
        <5>1. PICK t \in snapshot : P!Has(t, b)
          BY <3>1, SnapshotFacts DEF PendingInv
        <5>2. snapshot = {t}
          BY <5>1 DEF PendingInv, FilesInv
        <5>3. those = {t}
          BY <5>1, <5>2
        <5> QED
          BY <5>3
      <4> QED
        BY <3>1, <4>1, FS_Singleton, SameCountP
    <3>2. CASE b \notin P!InSnapshot
      <4>1. those = {}
        BY <3>2, SnapshotFacts DEF PendingInv
      <4> QED
        BY <3>2, <4>1, FS_EmptySet, SameCountP
    <3> QED
      BY <3>1, <3>2
  <2> QED
    BY <2>1, <2>2, <2>3
<1> QED
  BY <1>1, <1>2 DEF FactsKeptOnce, PendingInv

\* What an append has accepted is in PENDING.md, in the snapshot or in MEMORY.md, and is
\* merged once, through failed merges and crashes (MemoryStore.append_pending_once,
\* MemoryOptimizer).
THEOREM FactsKeptOnceAlways == Spec => []FactsKeptOnce
<1>1. Init => PendingInv
  BY PendingStart DEF Init
<1>2. PendingInv /\ [Next]_vars => PendingInv'
  <2> SUFFICES ASSUME PendingInv, [Next]_vars
               PROVE  PendingInv'
    OBVIOUS
  <2>1. CASE UNCHANGED pendingVars
    BY <2>1, PendingElse
  <2>2. CASE P!Next
    BY <2>2, PendingAppend, PendingBack, PendingOptimize, PendingMerge, PendingCrashInMerge,
       PendingCrashInRollback, PendingElse DEF P!Next
  <2> QED
    BY <2>1, <2>2 DEF Next, vars
<1>3. PendingInv => FactsKeptOnce
  BY PendingHolds
<1> QED
  BY <1>1, <1>2, <1>3, PTL DEF Spec
-------------------------------------------------------------------------------
(* The log and its consolidation *)

Msgs == [id : Nat, role : {"user", "reply", "push"}]
Drafts == [ids : SUBSET Nat, upTo : 0..MaxId]
WorkerAt == {"none", "waiting", "extracting", "emitting", "ending"}
ManualAt == {"none", "waiting", "extracting", "emitting", "saving"}

\* In the order of their ids; each once; those whose ids are odd come before what is newer.
Sorted(s) == \A i, j \in DOMAIN s : i < j => s[i].id < s[j].id
Distinct(s) == \A i, j \in DOMAIN s : i # j => s[i].id # s[j].id
OddFirst(s, odd) == \A i, j \in DOMAIN s : i < j /\ s[i].id \in odd => s[i].id < s[j].id

IdsTypes ==
    /\ alive \in BOOLEAN /\ nextSeq \in 0..MaxId
    /\ rows \in Seq(Msgs) /\ msgs \in Seq(Msgs) /\ ghosts \subseteq Nat
    /\ stream = {} \/ \E n \in Nat : stream = {n, n + 1} /\ n + 1 < nextSeq

LogTypes ==
    /\ cursor \in 0..MaxId /\ savedCursor \in 0..MaxId
    /\ queue \in 0..MaxQueue
    /\ phase \in [C!Callers -> WorkerAt \cup ManualAt]
    /\ phase["worker"] \in WorkerAt /\ phase["manual"] \in ManualAt
    /\ draft \in [C!Callers -> Drafts] /\ history \subseteq SUBSET Nat

\* The rows are in the order of their ids, and the cache holds each message once, and none
\* the database does not have; a reply that is streamed is in the database only.  A row of
\* a turn that never ended is in the cache only from a start on, and what follows it came
\* later.
IdsInv ==
    /\ IdsTypes
    /\ Sorted(rows) /\ Len(rows) <= nextSeq /\ \A i \in DOMAIN rows : rows[i].id < nextSeq
    /\ Distinct(msgs) /\ Len(msgs) + (IF stream = {} THEN 0 ELSE 2) <= nextSeq
    /\ C!Ids(msgs) \subseteq C!Ids(rows)
    /\ \A g \in ghosts : g < nextSeq
    /\ stream \subseteq C!Ids(rows) /\ stream \cap C!Ids(msgs) = {}
    /\ OddFirst(msgs, ghosts)
    /\ \A i \in DOMAIN msgs, n \in stream : msgs[i].id \in ghosts => msgs[i].id < n
    /\ ~alive => msgs = <<>> /\ stream = {}

\* Whoever extracts or emits holds the lock, and requests have a task to serve them.
LockInv ==
    /\ \A a \in C!Callers : C!Busy(a) <=> holder = {a}
    /\ holder = {} \/ \E a \in C!Callers : holder = {a}
    /\ ~alive => \A a \in C!Callers : phase[a] = "none"
    /\ queue > 0 => phase["worker"] # "none"

\* No window holds a message that is still to come, or being streamed.
Old(ids) == (\A n \in ids : n < nextSeq) /\ ids \cap stream = {}
OldInv == (\A w \in history : Old(w)) /\ \A a \in C!Callers : Old(draft[a].ids)

\* What need not be looked at again: it is summarised, or of a turn that never ended.
Done == C!Summarised \cup ghosts

\* All of the first c messages are in a set.
Low(s, c, done) == c <= Len(s) /\ \A i \in 1..c : s[i].id \in done

Extracting(a) == phase[a] = "extracting"

\* The cursors pass nothing that was not summarised, and will pass nothing that is not
\* in the window which is summarised now.
LowInv ==
    ~movedMidway /\ ~misread =>
        /\ alive => Low(msgs, cursor, Done) /\ Low(msgs, savedCursor, Done)
        /\ ~alive => cursor = 0 /\ Low(rows, savedCursor, Done)
        /\ \A a \in C!Callers : Extracting(a) =>
              Low(msgs, draft[a].upTo, draft[a].ids \cup Done)

\* What lies beyond the cursor was not summarised, unless the cursor was moved back over
\* it; nor was what is summarised now.
OnceInv ==
    ~movedMidway =>
        /\ \A v, w \in history : v # w => v \cap w \subseteq reopened
        /\ C!Beyond(msgs, cursor) \cap C!Summarised \subseteq reopened
        /\ \A a \in C!Callers : Extracting(a) =>
              /\ draft[a].ids \cap C!Summarised \subseteq reopened
              /\ draft[a].upTo # 0 =>
                    C!Beyond(msgs, draft[a].upTo) \cap (draft[a].ids \cup C!Summarised)
                        \subseteq reopened

\* The inductive invariant.
LogInv == IdsInv /\ LogTypes /\ LockInv /\ OldInv /\ LowInv /\ OnceInv

LEMMA MsgBounds ==
    ASSUME NEW s \in Seq(Msgs)
    PROVE  /\ Len(s) \in Nat /\ DOMAIN s = 1..Len(s)
           /\ \A i \in DOMAIN s : s[i] \in Msgs /\ s[i].id \in Nat
<1>1. \A m \in Msgs : m.id \in Nat
  BY DEF Msgs
<1>2. Len(s) \in Nat /\ DOMAIN s = 1..Len(s) /\ \A i \in DOMAIN s : s[i] \in Msgs
  OBVIOUS
<1> QED
  BY <1>1, <1>2

LEMMA LogBounds ==
    ASSUME IdsTypes, C!ConsolidationAssumption
    PROVE  /\ nextSeq \in Nat /\ MaxId \in Nat /\ nextSeq <= MaxId
           /\ Len(rows) \in Nat /\ Len(msgs) \in Nat
           /\ DOMAIN rows = 1..Len(rows) /\ DOMAIN msgs = 1..Len(msgs)
           /\ \A i \in DOMAIN rows : rows[i] \in Msgs /\ rows[i].id \in Nat
           /\ \A i \in DOMAIN msgs : msgs[i] \in Msgs /\ msgs[i].id \in Nat
<1>1. /\ MaxId \in Nat /\ nextSeq \in 0..MaxId
      /\ rows \in Seq(Msgs) /\ msgs \in Seq(Msgs)
  BY DEF IdsTypes, C!ConsolidationAssumption
<1> QED
  BY <1>1, MsgBounds

\* A turn is two messages with ids in a row.
LEMMA TurnFacts ==
    ASSUME NEW n \in Nat
    PROVE  /\ C!Turn(n) \in Seq(Msgs) /\ Len(C!Turn(n)) = 2 /\ C!Ids(C!Turn(n)) = {n, n + 1}
           /\ C!Turn(n)[1].id = n /\ C!Turn(n)[2].id = n + 1
<1>1. C!Turn(n) = <<[id |-> n, role |-> "user"], [id |-> n + 1, role |-> "reply"]>>
  BY DEF C!Turn, C!Message
<1>2. DOMAIN C!Turn(n) = {1, 2}
  BY <1>1
<1>3. C!Turn(n)[1] = [id |-> n, role |-> "user"] /\ C!Turn(n)[2] = [id |-> n + 1, role |-> "reply"]
  BY <1>1
<1>4. C!Turn(n) \in Seq(Msgs) /\ Len(C!Turn(n)) = 2
  BY <1>1 DEF Msgs
<1>5. C!Ids(C!Turn(n)) = {n, n + 1}
  BY <1>2, <1>3 DEF C!Ids
<1> QED
  BY <1>3, <1>4, <1>5

\* What is appended comes last, and nothing else changes.
LEMMA Joined ==
    ASSUME NEW s \in Seq(Msgs), NEW t \in Seq(Msgs)
    PROVE  /\ s \o t \in Seq(Msgs) /\ Len(s \o t) = Len(s) + Len(t)
           /\ \A i \in 1..Len(s) : (s \o t)[i] = s[i]
           /\ \A i \in 1..Len(t) : (s \o t)[Len(s) + i] = t[i]
           /\ \A i \in DOMAIN (s \o t) : i \in 1..Len(s) \/ \E j \in 1..Len(t) : i = Len(s) + j
           /\ C!Ids(s \o t) = C!Ids(s) \cup C!Ids(t)
<1>1. /\ s \o t \in Seq(Msgs) /\ Len(s \o t) = Len(s) + Len(t)
      /\ \A i \in 1..Len(s) : (s \o t)[i] = s[i]
  OBVIOUS
<1>2. \A i \in 1..Len(t) : (s \o t)[Len(s) + i] = t[i]
  OBVIOUS
<1>3. ASSUME NEW i \in DOMAIN (s \o t), i \notin 1..Len(s)
      PROVE  \E j \in 1..Len(t) : i = Len(s) + j
  <2>1. i \in 1..(Len(s) + Len(t)) /\ i - Len(s) \in 1..Len(t) /\ i = Len(s) + (i - Len(s))
    BY <1>1, <1>3
  <2> QED
    BY <2>1
<1>4. C!Ids(s \o t) \subseteq C!Ids(s) \cup C!Ids(t)
  <2> SUFFICES ASSUME NEW i \in DOMAIN (s \o t) PROVE (s \o t)[i].id \in C!Ids(s) \cup C!Ids(t)
    BY DEF C!Ids
  <2>1. CASE i \in 1..Len(s)
    BY <1>1, <2>1 DEF C!Ids
  <2>2. CASE i \notin 1..Len(s)
    BY <1>2, <1>3, <2>2 DEF C!Ids
  <2> QED
    BY <2>1, <2>2
<1>5. C!Ids(s) \subseteq C!Ids(s \o t)
  <2> SUFFICES ASSUME NEW i \in DOMAIN s PROVE s[i].id \in C!Ids(s \o t)
    BY DEF C!Ids
  <2>1. i \in DOMAIN (s \o t) /\ (s \o t)[i] = s[i]
    BY <1>1
  <2> QED
    BY <2>1 DEF C!Ids
<1>6. C!Ids(t) \subseteq C!Ids(s \o t)
  <2> SUFFICES ASSUME NEW i \in DOMAIN t PROVE t[i].id \in C!Ids(s \o t)
    BY DEF C!Ids
  <2>1. Len(s) + i \in DOMAIN (s \o t) /\ (s \o t)[Len(s) + i] = t[i]
    BY <1>1, <1>2
  <2> QED
    BY <2>1 DEF C!Ids
<1> QED
  BY <1>1, <1>2, <1>3, <1>4, <1>5, <1>6

\* The first messages of a log, and the last.
LEMMA FirstOnes ==
    ASSUME NEW s \in Seq(Msgs), NEW a \in 0..Len(s)
    PROVE  /\ SubSeq(s, 1, a) \in Seq(Msgs) /\ Len(SubSeq(s, 1, a)) = a
           /\ \A i \in 1..a : SubSeq(s, 1, a)[i] = s[i]
<1>1. Len(s) \in Nat /\ a \in Nat /\ a <= Len(s)
  OBVIOUS
<1> QED
  BY <1>1

LEMMA LastOnes ==
    ASSUME NEW s \in Seq(Msgs), NEW a \in Nat, a <= Len(s)
    PROVE  /\ SubSeq(s, a + 1, Len(s)) \in Seq(Msgs) /\ Len(SubSeq(s, a + 1, Len(s))) = Len(s) - a
           /\ \A i \in 1..(Len(s) - a) : SubSeq(s, a + 1, Len(s))[i] = s[a + i]
<1>1. Len(s) \in Nat
  OBVIOUS
<1> QED
  BY <1>1

\* A log that has lost the messages behind place a, as many as gap.
CutFrom(t, s, a, gap) ==
    /\ gap \in Nat /\ a + gap <= Len(s)
    /\ t \in Seq(Msgs) /\ Len(t) = Len(s) - gap
    /\ \A i \in 1..Len(t) : t[i] = IF i <= a THEN s[i] ELSE s[i + gap]

\* What stays when the messages between two places are taken out.
Cut(s, a, b) == SubSeq(s, 1, a) \o SubSeq(s, b + 1, Len(s))

LEMMA CutOut ==
    ASSUME NEW s \in Seq(Msgs), NEW a \in Nat, NEW b \in Nat, a <= b, b <= Len(s)
    PROVE  CutFrom(Cut(s, a, b), s, a, b - a)
<1> DEFINE t == Cut(s, a, b)
<1>1. PICK n \in Nat : n = Len(s)
  OBVIOUS
<1>2. PICK u \in Seq(Msgs) : /\ u = SubSeq(s, 1, a) /\ Len(u) = a
                             /\ \A i \in 1..a : u[i] = s[i]
  <2>1. a \in 0..Len(s)
    BY <1>1
  <2> QED
    BY <2>1, FirstOnes
<1>3. PICK v \in Seq(Msgs) : /\ v = SubSeq(s, b + 1, Len(s)) /\ Len(v) = n - b
                             /\ \A i \in 1..(n - b) : v[i] = s[b + i]
  BY <1>1, LastOnes
<1>4. t = u \o v
  BY <1>2, <1>3 DEF Cut
<1> HIDE DEF t
<1>5. /\ t \in Seq(Msgs) /\ Len(t) = Len(u) + Len(v)
      /\ \A i \in 1..Len(u) : t[i] = u[i]
      /\ \A i \in 1..Len(v) : t[Len(u) + i] = v[i]
  BY <1>4, Joined
<1>6. Len(t) = n - (b - a)
  BY <1>1, <1>2, <1>3, <1>5
<1>7. ASSUME NEW i \in 1..Len(t) PROVE t[i] = IF i <= a THEN s[i] ELSE s[i + (b - a)]
  <2>1. CASE i <= a
    BY <1>2, <1>5, <2>1
  <2>2. CASE i > a
    <3>1. PICK j \in Nat : j = i - a
      BY <2>2
    <3>2. j \in 1..(n - b) /\ a + j = i /\ b + j = i + (b - a) /\ b <= n
      BY <1>1, <1>6, <2>2, <3>1
    <3>3. t[a + j] = v[j] /\ v[j] = s[b + j]
      BY <1>2, <1>3, <1>5, <3>2
    <3>4. t[i] = s[i + (b - a)]
      BY <3>2, <3>3
    <3>5. ~(i <= a)
      BY <1>1, <1>6, <2>2
    <3> QED
      BY <3>4, <3>5
  <2> QED
    BY <2>1, <2>2
<1>8. b - a \in Nat /\ a + (b - a) <= Len(s)
  BY <1>1
<1> QED
  BY <1>1, <1>5, <1>6, <1>7, <1>8 DEF CutFrom, t

\* What stays when the message with an id is taken out.
LEMMA TakenOut ==
    ASSUME NEW s \in Seq(Msgs), Sorted(s), NEW n \in Nat, NEW t, t = C!Without(s, n)
    PROVE  /\ t \in Seq(Msgs) /\ Sorted(t) /\ Len(t) <= Len(s)
           /\ C!Ids(t) = C!Ids(s) \ {n}
<1>0. Len(s) \in Nat /\ DOMAIN s = 1..Len(s) /\ \A i \in DOMAIN s : s[i] \in Msgs /\ s[i].id \in Nat
  BY MsgBounds
<1>1. CASE n \notin C!Ids(s)
  BY <1>0, <1>1 DEF C!Without
<1>2. CASE n \in C!Ids(s)
  <2> DEFINE k == CHOOSE i \in DOMAIN s : s[i].id = n
  <2>1. \E i \in DOMAIN s : s[i].id = n
    BY <1>2 DEF C!Ids
  <2>2. k \in 1..Len(s) /\ s[k].id = n
    BY <1>0, <2>1
  <2>3. t = SubSeq(s, 1, k - 1) \o SubSeq(s, k + 1, Len(s))
    BY <1>2 DEF C!Without, C!RemoveAt
  <2> HIDE DEF k
  <2>4. k \in Nat /\ k >= 1 /\ k <= Len(s)
    BY <1>0, <2>2
  <2>8. /\ t \in Seq(Msgs) /\ Len(t) = Len(s) - 1
        /\ \A i \in 1..Len(t) : t[i] = IF i <= k - 1 THEN s[i] ELSE s[i + 1]
    <3>1. PICK a \in Nat : a = k - 1
      BY <2>4
    <3>2. t = Cut(s, a, k)
      BY <2>3, <3>1 DEF Cut
    <3>3. a <= k /\ k - a = 1 /\ k \in Nat /\ k <= Len(s)
      BY <2>4, <3>1
    <3>4. CutFrom(Cut(s, a, k), s, a, k - a)
      BY <3>3, CutOut
    <3>5. CutFrom(t, s, a, 1)
      BY <3>2, <3>3, <3>4
    <3> QED
      BY <3>1, <3>5 DEF CutFrom
  <2>9. ASSUME NEW i \in 1..Len(t) PROVE t[i] = IF i < k THEN s[i] ELSE s[i + 1]
    BY <1>0, <2>4, <2>8
  <2>10. Sorted(t)
    <3> SUFFICES ASSUME NEW i \in 1..Len(t), NEW j \in 1..Len(t), i < j
                 PROVE  t[i].id < t[j].id
      BY <2>8 DEF Sorted
    <3> DEFINE a == IF i < k THEN i ELSE i + 1
               b == IF j < k THEN j ELSE j + 1
    <3>1. t[i] = s[a] /\ t[j] = s[b]
      BY <2>9
    <3>2. a \in 1..Len(s) /\ b \in 1..Len(s) /\ a < b
      BY <1>0, <2>4, <2>8
    <3> HIDE DEF a, b
    <3> QED
      BY <1>0, <3>1, <3>2 DEF Sorted
  <2>11. C!Ids(t) = C!Ids(s) \ {n}
    <3>1. ASSUME NEW i \in DOMAIN t PROVE t[i].id \in C!Ids(s) \ {n}
      <4> DEFINE a == IF i < k THEN i ELSE i + 1
      <4>1. t[i] = s[a] /\ a \in 1..Len(s) /\ a # k
        BY <1>0, <2>4, <2>8, <2>9
      <4> HIDE DEF a
      <4>2. s[a].id # s[k].id
        <5>1. a < k \/ k < a
          BY <2>4, <4>1
        <5> QED
          BY <1>0, <2>2, <4>1, <5>1 DEF Sorted
      <4> QED
        BY <1>0, <2>2, <4>1, <4>2 DEF C!Ids
    <3>2. ASSUME NEW i \in DOMAIN s, s[i].id # n PROVE s[i].id \in C!Ids(t)
      <4>1. i # k /\ i \in 1..Len(s)
        BY <1>0, <2>2, <3>2
      <4>2. CASE i < k
        <5>1. i \in 1..Len(t) /\ t[i] = s[i]
          BY <1>0, <2>4, <2>8, <2>9, <4>1, <4>2
        <5> QED
          BY <2>8, <5>1 DEF C!Ids
      <4>3. CASE i > k
        <5>1. i - 1 \in 1..Len(t) /\ ~(i - 1 < k) /\ (i - 1) + 1 = i
          BY <1>0, <2>4, <2>8, <4>1, <4>3
        <5>2. t[i - 1] = s[i]
          BY <2>9, <5>1
        <5> QED
          BY <2>8, <5>1, <5>2 DEF C!Ids
      <4> QED
        BY <2>4, <4>1, <4>2, <4>3
    <3> QED
      BY <3>1, <3>2 DEF C!Ids
  <2> QED
    BY <1>0, <2>8, <2>10, <2>11
<1> QED
  BY <1>1, <1>2

\* A set of numbers that is not empty has a smallest one, and a largest one if it is bounded.
LEMMA LeastNat ==
    ASSUME NEW T, T \subseteq Nat, T # {}
    PROVE  \E x \in T : \A y \in T : x <= y
<1>1. IsWellFoundedOn({ss \in Nat \X Nat : ss[1] < ss[2]}, Nat)
  BY NatLessThanWellFounded DEF OpToRel
<1>2. PICK x \in T : \A y \in T : ~(<<y, x>> \in {ss \in Nat \X Nat : ss[1] < ss[2]})
  BY <1>1, WFMin
<1>3. ASSUME NEW y \in T PROVE x <= y
  <2>1. x \in Nat /\ y \in Nat
    OBVIOUS
  <2>2. ~(y < x)
    <3>1. <<y, x>> \in Nat \X Nat /\ <<y, x>>[1] = y /\ <<y, x>>[2] = x
      BY <2>1
    <3> QED
      BY <1>2, <3>1
  <2> QED
    BY <2>1, <2>2
<1> QED
  BY <1>3

LEMMA GreatestNat ==
    ASSUME NEW b \in Nat, NEW T, T \subseteq 0..b, T # {}
    PROVE  \E x \in T : \A y \in T : y <= x
<1> DEFINE U == {b - y : y \in T}
<1>1. U \subseteq Nat /\ U # {}
  <2>1. \A y \in T : b - y \in Nat
    OBVIOUS
  <2> QED
    BY <2>1
<1>2. PICK x \in U : \A y \in U : x <= y
  <2> HIDE DEF U
  <2> QED
    BY <1>1, LeastNat
<1>3. PICK z \in T : x = b - z
  OBVIOUS
<1>4. ASSUME NEW y \in T PROVE y <= z
  <2>1. b - y \in U /\ b - z <= b - y
    BY <1>2, <1>3
  <2>2. y \in Nat /\ z \in Nat
    OBVIOUS
  <2> QED
    BY <2>1, <2>2
<1> QED
  BY <1>4

\* The ids of a log and what they say of its messages.
LEMMA IdFacts ==
    ASSUME NEW s \in Seq(Msgs)
    PROVE  /\ \A i \in 1..Len(s) : s[i].id \in C!Ids(s)
           /\ \A n \in C!Ids(s) : \E i \in 1..Len(s) : s[i].id = n
           /\ C!Ids(s) \subseteq Nat
BY MsgBounds DEF C!Ids

\* One message or two with ids in a row, and a log they are appended to.
InARow(t, first) ==
    /\ t \in Seq(Msgs) /\ Len(t) \in 1..2
    /\ \A i \in 1..Len(t) : t[i].id = first + (i - 1)

Longer(s, t) == s \o t

LEMMA Extended ==
    ASSUME NEW s \in Seq(Msgs), NEW t, NEW first \in Nat, InARow(t, first), NEW u, u = Longer(s, t)
    PROVE  /\ u \in Seq(Msgs) /\ Len(u) = Len(s) + Len(t) /\ Len(t) \in 1..2
           /\ \A i \in 1..Len(s) : u[i] = s[i]
           /\ \A j \in (Len(s) + 1)..Len(u) :
                 u[j].id = first + (j - Len(s) - 1) /\ u[j].id \in C!Ids(t)
           /\ C!Ids(u) = C!Ids(s) \cup C!Ids(t)
           /\ \A n \in C!Ids(t) : n \in first..(first + Len(t) - 1)
<1>0. t \in Seq(Msgs) /\ Len(t) \in 1..2 /\ \A i \in 1..Len(t) : t[i].id = first + (i - 1)
  BY DEF InARow
<1>1. /\ u \in Seq(Msgs) /\ Len(u) = Len(s) + Len(t)
      /\ \A i \in 1..Len(s) : u[i] = s[i]
      /\ \A i \in 1..Len(t) : u[Len(s) + i] = t[i]
      /\ C!Ids(u) = C!Ids(s) \cup C!Ids(t)
  BY <1>0, Joined DEF Longer
<1>2. ASSUME NEW j \in (Len(s) + 1)..Len(u)
      PROVE  u[j].id = first + (j - Len(s) - 1) /\ u[j].id \in C!Ids(t)
  <2>1. Len(s) \in Nat
    BY MsgBounds
  <2>2. PICK i \in 1..Len(t) : j = Len(s) + i
    <3>1. j - Len(s) \in 1..Len(t) /\ j = Len(s) + (j - Len(s))
      BY <1>0, <1>1, <2>1
    <3> QED
      BY <3>1
  <2>3. u[j] = t[i] /\ t[i].id = first + (i - 1) /\ t[i].id \in C!Ids(t)
    BY <1>0, <1>1, <2>2, IdFacts
  <2> QED
    BY <1>0, <2>1, <2>2, <2>3
<1>3. ASSUME NEW n \in C!Ids(t) PROVE n \in first..(first + Len(t) - 1)
  <2>1. PICK i \in 1..Len(t) : t[i].id = n
    BY <1>0, IdFacts
  <2>2. n = first + (i - 1)
    BY <1>0, <2>1
  <2> QED
    BY <1>0, <2>2
<1> QED
  BY <1>0, <1>1, <1>2, <1>3

\* New rows at the end of the database.
LEMMA RowsGrow ==
    ASSUME NEW s \in Seq(Msgs), NEW t, NEW first \in Nat, InARow(t, first), NEW u, u = Longer(s, t),
           Sorted(s), Len(s) <= first, \A i \in DOMAIN s : s[i].id < first
    PROVE  /\ Len(u) <= first + Len(t) /\ Sorted(u)
           /\ \A i \in DOMAIN u : u[i].id < first + Len(t)
           /\ \A n \in C!Ids(t) : n \notin C!Ids(s) /\ n < first + Len(t)
<1>0. /\ u \in Seq(Msgs) /\ Len(u) = Len(s) + Len(t) /\ Len(t) \in 1..2
      /\ \A i \in 1..Len(s) : u[i] = s[i]
      /\ \A j \in (Len(s) + 1)..Len(u) :
            u[j].id = first + (j - Len(s) - 1) /\ u[j].id \in C!Ids(t)
  BY Extended
<1>1. /\ u \in Seq(Msgs) /\ Len(u) = Len(s) + Len(t) /\ Len(t) \in 1..2
      /\ \A i \in 1..Len(s) : u[i] = s[i]
      /\ \A j \in (Len(s) + 1)..Len(u) : u[j].id = first + (j - Len(s) - 1)
      /\ \A n \in C!Ids(t) : n \in first..(first + Len(t) - 1)
  <2>1. \A n \in C!Ids(t) : n \in first..(first + Len(t) - 1)
    BY Extended
  <2> QED
    BY <1>0, <2>1
<1>2. /\ Len(s) \in Nat /\ DOMAIN s = 1..Len(s) /\ \A i \in DOMAIN s : s[i].id \in Nat
      /\ DOMAIN u = 1..Len(u)
  BY <1>1, MsgBounds
<1>3. ASSUME NEW i \in DOMAIN u PROVE u[i].id < first + Len(t)
  <2>1. CASE i \in 1..Len(s)
    BY <1>1, <1>2, <2>1
  <2>2. CASE i \in (Len(s) + 1)..Len(u)
    <3>1. u[i].id = first + (i - Len(s) - 1)
      BY <1>1, <2>2
    <3> QED
      BY <1>1, <1>2, <2>2, <3>1
  <2> QED
    BY <1>1, <1>2, <2>1, <2>2
<1>4. ASSUME NEW i \in DOMAIN u, NEW j \in DOMAIN u, i < j PROVE u[i].id < u[j].id
  <2>1. CASE j \in 1..Len(s)
    <3>1. i \in 1..Len(s)
      BY <1>1, <1>2, <1>4, <2>1
    <3> QED
      BY <1>1, <1>2, <1>4, <2>1, <3>1 DEF Sorted
  <2>2. CASE j \in (Len(s) + 1)..Len(u)
    <3>1. u[j].id = first + (j - Len(s) - 1)
      BY <1>1, <2>2
    <3>2. CASE i \in 1..Len(s)
      <4>1. u[i].id < first /\ u[i].id \in Nat
        BY <1>1, <1>2, <3>2
      <4> QED
        BY <1>1, <1>2, <2>2, <3>1, <4>1
    <3>3. CASE i \in (Len(s) + 1)..Len(u)
      <4>1. u[i].id = first + (i - Len(s) - 1)
        BY <1>1, <3>3
      <4> QED
        BY <1>1, <1>2, <1>4, <2>2, <3>1, <3>3, <4>1
    <3> QED
      BY <1>1, <1>2, <3>2, <3>3
  <2> QED
    BY <1>1, <1>2, <2>1, <2>2
<1>5. ASSUME NEW n \in C!Ids(t) PROVE n \notin C!Ids(s) /\ n < first + Len(t)
  <2>1. n \in first..(first + Len(t) - 1)
    BY <1>1
  <2>2. \A m \in C!Ids(s) : m < first
    BY <1>2, IdFacts
  <2> QED
    BY <1>1, <2>1, <2>2
<1> QED
  BY <1>1, <1>2, <1>3, <1>4, <1>5 DEF Sorted

\* The cache takes messages it does not have.
LEMMA CacheGrows ==
    ASSUME NEW s \in Seq(Msgs), NEW t, NEW first \in Nat, InARow(t, first), NEW u, u = Longer(s, t),
           Distinct(s), NEW odd, OddFirst(s, odd), C!Ids(t) \cap C!Ids(s) = {},
           \A i \in DOMAIN s : s[i].id \in odd => s[i].id < first
    PROVE  Distinct(u) /\ OddFirst(u, odd)
<1>1. /\ u \in Seq(Msgs) /\ Len(u) = Len(s) + Len(t) /\ Len(t) \in 1..2
      /\ \A i \in 1..Len(s) : u[i] = s[i]
      /\ \A j \in (Len(s) + 1)..Len(u) :
            u[j].id = first + (j - Len(s) - 1) /\ u[j].id \in C!Ids(t)
  BY Extended
<1>2. /\ Len(s) \in Nat /\ DOMAIN s = 1..Len(s) /\ DOMAIN u = 1..Len(u)
      /\ \A i \in 1..Len(s) : s[i].id \in Nat /\ s[i].id \in C!Ids(s)
  BY <1>1, MsgBounds, IdFacts
<1>3. ASSUME NEW i \in DOMAIN u, NEW j \in DOMAIN u, i < j
      PROVE  u[i].id # u[j].id /\ (u[i].id \in odd => u[i].id < u[j].id)
  <2>1. CASE j \in 1..Len(s)
    <3>1. i \in 1..Len(s) /\ i # j
      BY <1>1, <1>2, <1>3, <2>1
    <3> QED
      BY <1>1, <1>2, <1>3, <2>1, <3>1 DEF Distinct, OddFirst
  <2>2. CASE j \in (Len(s) + 1)..Len(u)
    <3>1. u[j].id = first + (j - Len(s) - 1) /\ u[j].id \in C!Ids(t)
      BY <1>1, <2>2
    <3>2. CASE i \in 1..Len(s)
      <4>1. u[i].id = s[i].id /\ s[i].id \in C!Ids(s) /\ s[i].id \in Nat
            /\ (s[i].id \in odd => s[i].id < first)
        BY <1>1, <1>2, <3>2
      <4>2. u[i].id # u[j].id
        BY <3>1, <4>1
      <4>3. u[i].id \in odd => u[i].id < u[j].id
        BY <1>1, <1>2, <2>2, <3>1, <4>1
      <4> QED
        BY <4>2, <4>3
    <3>3. CASE i \in (Len(s) + 1)..Len(u)
      <4>1. u[i].id = first + (i - Len(s) - 1)
        BY <1>1, <3>3
      <4>2. u[i].id < u[j].id /\ u[i].id \in Nat /\ u[j].id \in Nat
        BY <1>1, <1>2, <1>3, <2>2, <3>1, <3>3, <4>1
      <4> QED
        BY <4>2
    <3> QED
      BY <1>1, <1>2, <3>2, <3>3
  <2> QED
    BY <1>1, <1>2, <2>1, <2>2
<1>4. Distinct(u)
  <2> SUFFICES ASSUME NEW i \in DOMAIN u, NEW j \in DOMAIN u, i # j PROVE u[i].id # u[j].id
    BY DEF Distinct
  <2>1. i < j \/ j < i
    BY <1>1, <1>2
  <2> QED
    BY <1>3, <2>1
<1> QED
  BY <1>3, <1>4 DEF OddFirst

LEMMA TurnInARow ==
    ASSUME NEW n \in Nat
    PROVE  InARow(C!Turn(n), n) /\ C!Ids(C!Turn(n)) = {n, n + 1} /\ Len(C!Turn(n)) = 2
<1>1. /\ C!Turn(n) \in Seq(Msgs) /\ Len(C!Turn(n)) = 2 /\ C!Ids(C!Turn(n)) = {n, n + 1}
      /\ C!Turn(n)[1].id = n /\ C!Turn(n)[2].id = n + 1
  BY TurnFacts
<1> QED
  BY <1>1 DEF InARow

LEMMA PushInARow ==
    ASSUME NEW n \in Nat
    PROVE  \E t : /\ InARow(t, n) /\ C!Ids(t) = {n} /\ Len(t) = 1
                  /\ \A s \in Seq(Msgs) : Append(s, C!Message(n, "push")) = Longer(s, t)
<1> DEFINE m == C!Message(n, "push")
           t == <<m>>
<1>1. m \in Msgs /\ m.id = n
  BY DEF C!Message, Msgs
<1> HIDE DEF m
<1>2. t \in Seq(Msgs) /\ Len(t) = 1 /\ t[1] = m /\ DOMAIN t = {1}
  BY <1>1
<1>3. \A s \in Seq(Msgs) : Append(s, m) = s \o t
  BY <1>1
<1>4. C!Ids(t) = {n}
  BY <1>1, <1>2 DEF C!Ids
<1>5. InARow(t, n)
  BY <1>1, <1>2 DEF InARow
<1>6. \A s \in Seq(Msgs) : Append(s, m) = Longer(s, t)
  BY <1>3 DEF Longer
<1> QED
  BY <1>2, <1>4, <1>5, <1>6 DEF m

\* A turn that ends and a push are written to the database and the cache.
LEMMA BothGrow ==
    ASSUME C!ConsolidationAssumption, IdsInv, NEW t, InARow(t, nextSeq), alive, alive' = alive,
           rows' = Longer(rows, t), msgs' = Longer(msgs, t), nextSeq' = nextSeq + Len(t),
           nextSeq' <= MaxId, stream' = stream, ghosts' = ghosts
    PROVE  IdsInv'
<1>1. /\ nextSeq \in Nat /\ MaxId \in Nat /\ rows \in Seq(Msgs) /\ msgs \in Seq(Msgs)
      /\ Len(rows) \in Nat /\ Len(msgs) \in Nat
      /\ \A i \in DOMAIN rows : rows[i].id < nextSeq
      /\ \A i \in DOMAIN msgs : msgs[i].id \in C!Ids(msgs)
  BY LogBounds DEF IdsInv, IdsTypes, C!Ids
<1>2. /\ rows' \in Seq(Msgs) /\ Len(t) \in 1..2 /\ C!Ids(rows') = C!Ids(rows) \cup C!Ids(t)
      /\ Len(rows') <= nextSeq + Len(t) /\ Sorted(rows')
      /\ \A i \in DOMAIN rows' : rows'[i].id < nextSeq + Len(t)
      /\ \A n \in C!Ids(t) : n \notin C!Ids(rows) /\ n < nextSeq + Len(t)
  <2>1. rows' \in Seq(Msgs) /\ Len(t) \in 1..2 /\ C!Ids(rows') = C!Ids(rows) \cup C!Ids(t)
    BY <1>1, Extended
  <2> QED
    BY <1>1, <2>1, RowsGrow DEF IdsInv
<1>3. \A m \in C!Ids(msgs) : m < nextSeq
  BY <1>1, IdFacts DEF IdsInv
<1>4. msgs' \in Seq(Msgs) /\ Len(msgs') = Len(msgs) + Len(t)
      /\ C!Ids(msgs') = C!Ids(msgs) \cup C!Ids(t)
  BY <1>1, Extended
<1>5. Distinct(msgs') /\ OddFirst(msgs', ghosts)
  <2>1. \A i \in DOMAIN msgs : msgs[i].id \in ghosts => msgs[i].id < nextSeq
    BY <1>1, <1>3
  <2>2. C!Ids(t) \cap C!Ids(msgs) = {}
    BY <1>2 DEF IdsInv
  <2> QED
    BY <1>1, <2>1, <2>2, CacheGrows DEF IdsInv
<1>6. IdsTypes'
  <2>1. alive' \in BOOLEAN /\ nextSeq' \in 0..MaxId /\ nextSeq <= nextSeq'
    BY <1>1, <1>2 DEF IdsTypes, IdsInv
  <2>2. stream' = {} \/ \E n \in Nat : stream' = {n, n + 1} /\ n + 1 < nextSeq'
    <3>1. CASE stream = {}
      BY <3>1
    <3>2. CASE stream # {}
      <4>1. PICK n \in Nat : stream = {n, n + 1} /\ n + 1 < nextSeq
        BY <3>2 DEF IdsTypes, IdsInv
      <4>2. n + 1 < nextSeq'
        BY <1>1, <2>1, <4>1
      <4> QED
        BY <4>1, <4>2
    <3> QED
      BY <3>1, <3>2
  <2> QED
    BY <1>2, <1>4, <2>1, <2>2 DEF IdsTypes, IdsInv
<1>7. C!Ids(rows)' = C!Ids(rows') /\ C!Ids(msgs)' = C!Ids(msgs')
  BY DEF C!Ids
<1>8. Len(msgs') + (IF stream' = {} THEN 0 ELSE 2) <= nextSeq' /\ Len(rows') <= nextSeq'
  BY <1>1, <1>2, <1>4 DEF IdsInv
<1>9. \A g \in ghosts' : g < nextSeq'
  BY <1>1, <1>2 DEF IdsInv, IdsTypes
<1>10. stream \cap C!Ids(msgs') = {} /\ stream \subseteq C!Ids(rows')
  BY <1>2, <1>4 DEF IdsInv
<1>12. \A n \in C!Ids(t) : n \notin ghosts
  <2>1. \A n \in C!Ids(t) : n \in nextSeq..(nextSeq + Len(t) - 1)
    BY <1>1, Extended
  <2>2. \A n \in C!Ids(t) : ~(n < nextSeq)
    BY <1>1, <1>2, <2>1
  <2> QED
    BY <2>2 DEF IdsInv
<1>11. \A i \in DOMAIN msgs', n \in stream : msgs'[i].id \in ghosts => msgs'[i].id < n
  <2> SUFFICES ASSUME NEW i \in DOMAIN msgs', NEW n \in stream, msgs'[i].id \in ghosts
               PROVE  msgs'[i].id < n
    OBVIOUS
  <2>1. msgs'[i].id \in C!Ids(msgs')
    BY DEF C!Ids
  <2>2. msgs'[i].id \notin C!Ids(t)
    BY <1>2, <1>12
  <2>3. PICK j \in DOMAIN msgs : msgs[j].id = msgs'[i].id
    BY <1>4, <2>1, <2>2 DEF C!Ids
  <2> QED
    BY <2>3 DEF IdsInv
<1> QED
  BY <1>1, <1>2, <1>4, <1>5, <1>6, <1>7, <1>8, <1>9, <1>10, <1>11 DEF IdsInv

\* Where the messages that are left were before.
Was(i, a, gap) == IF i <= a THEN i ELSE i + gap

LEMMA KeptFacts ==
    ASSUME NEW s \in Seq(Msgs), NEW t, NEW a \in Nat, NEW gap, CutFrom(t, s, a, gap)
    PROVE  /\ t \in Seq(Msgs) /\ Len(t) \in Nat /\ Len(t) <= Len(s)
           /\ \A i \in 1..Len(t) :
                 /\ Was(i, a, gap) \in 1..Len(s) /\ t[i] = s[Was(i, a, gap)]
                 /\ Was(i, a, gap) \notin (a + 1)..(a + gap)
           /\ \A i, j \in 1..Len(t) : i < j => Was(i, a, gap) < Was(j, a, gap)
           /\ C!Ids(t) \subseteq C!Ids(s)
<1>1. /\ gap \in Nat /\ t \in Seq(Msgs) /\ Len(t) = Len(s) - gap /\ a + gap <= Len(s)
      /\ \A i \in 1..Len(t) : t[i] = IF i <= a THEN s[i] ELSE s[i + gap]
  BY DEF CutFrom
<1>2. Len(s) \in Nat /\ Len(t) \in Nat /\ DOMAIN s = 1..Len(s) /\ DOMAIN t = 1..Len(t)
  BY <1>1, MsgBounds
<1>3. ASSUME NEW i \in 1..Len(t)
      PROVE  /\ Was(i, a, gap) \in 1..Len(s) /\ t[i] = s[Was(i, a, gap)]
             /\ Was(i, a, gap) \notin (a + 1)..(a + gap)
  <2>1. Was(i, a, gap) \in 1..Len(s) /\ Was(i, a, gap) \notin (a + 1)..(a + gap)
    BY <1>1, <1>2 DEF Was
  <2>2. t[i] = s[Was(i, a, gap)]
    BY <1>1 DEF Was
  <2> QED
    BY <2>1, <2>2
<1>4. ASSUME NEW i \in 1..Len(t), NEW j \in 1..Len(t), i < j
      PROVE  Was(i, a, gap) < Was(j, a, gap)
  BY <1>1, <1>2, <1>4 DEF Was
<1>5. C!Ids(t) \subseteq C!Ids(s)
  BY <1>2, <1>3 DEF C!Ids
<1> QED
  BY <1>1, <1>2, <1>3, <1>4, <1>5

LEMMA KeptInOrder ==
    ASSUME NEW s \in Seq(Msgs), NEW t, NEW a \in Nat, NEW gap, CutFrom(t, s, a, gap),
           Distinct(s), NEW odd, OddFirst(s, odd)
    PROVE  /\ Distinct(t) /\ OddFirst(t, odd)
           /\ \A j \in (a + 1)..(a + gap) : j \in 1..Len(s) /\ s[j].id \notin C!Ids(t)
<1>1. /\ t \in Seq(Msgs) /\ Len(t) \in Nat /\ Len(t) <= Len(s)
      /\ \A i \in 1..Len(t) :
            /\ Was(i, a, gap) \in 1..Len(s) /\ t[i] = s[Was(i, a, gap)]
            /\ Was(i, a, gap) \notin (a + 1)..(a + gap)
      /\ \A i, j \in 1..Len(t) : i < j => Was(i, a, gap) < Was(j, a, gap)
  BY KeptFacts
<1>2. Len(s) \in Nat /\ DOMAIN s = 1..Len(s) /\ DOMAIN t = 1..Len(t)
  BY <1>1, MsgBounds
<1>3. Distinct(t)
  <2> SUFFICES ASSUME NEW i \in 1..Len(t), NEW j \in 1..Len(t), i # j
               PROVE  t[i].id # t[j].id
    BY <1>2 DEF Distinct
  <2>1. i < j \/ j < i
    BY <1>1
  <2>2. Was(i, a, gap) # Was(j, a, gap)
    BY <1>1, <1>2, <2>1
  <2> QED
    BY <1>1, <1>2, <2>2 DEF Distinct
<1>4. OddFirst(t, odd)
  <2> SUFFICES ASSUME NEW i \in 1..Len(t), NEW j \in 1..Len(t), i < j, t[i].id \in odd
               PROVE  t[i].id < t[j].id
    BY <1>2 DEF OddFirst
  <2> QED
    BY <1>1, <1>2 DEF OddFirst
<1>5. ASSUME NEW j \in (a + 1)..(a + gap)
      PROVE  j \in 1..Len(s) /\ s[j].id \notin C!Ids(t)
  <2>1. j \in 1..Len(s)
    BY <1>2 DEF CutFrom
  <2>2. ASSUME NEW i \in 1..Len(t) PROVE t[i].id # s[j].id
    <3>1. Was(i, a, gap) # j /\ Was(i, a, gap) \in 1..Len(s) /\ t[i] = s[Was(i, a, gap)]
      BY <1>1
    <3> QED
      BY <1>2, <2>1, <3>1 DEF Distinct
  <2> QED
    BY <1>2, <2>1, <2>2 DEF C!Ids
<1> QED
  BY <1>3, <1>4, <1>5

\* The cache loses messages, and the database none or some of the same.
LEMMA BothShrink ==
    ASSUME C!ConsolidationAssumption, IdsInv, alive, alive' = alive,
           NEW a \in Nat, NEW gap, CutFrom(msgs', msgs, a, gap),
           rows' \in Seq(Msgs), Sorted(rows'), Len(rows') <= Len(rows),
           C!Ids(rows') \subseteq C!Ids(rows),
           C!Ids(msgs') \subseteq C!Ids(rows'), stream \subseteq C!Ids(rows'),
           nextSeq' = nextSeq, stream' = stream, ghosts' = ghosts
    PROVE  IdsInv'
<1>1. /\ nextSeq \in Nat /\ rows \in Seq(Msgs) /\ msgs \in Seq(Msgs)
      /\ Len(rows) \in Nat /\ Len(msgs) \in Nat
      /\ \A i \in DOMAIN rows : rows[i].id < nextSeq
  BY LogBounds DEF IdsInv, IdsTypes
<1>2. /\ msgs' \in Seq(Msgs) /\ Len(msgs') \in Nat /\ Len(msgs') <= Len(msgs)
      /\ C!Ids(msgs') \subseteq C!Ids(msgs)
  BY <1>1, KeptFacts
<1>3. Distinct(msgs') /\ OddFirst(msgs', ghosts)
  BY <1>1, KeptInOrder DEF IdsInv
<1>4. \A i \in DOMAIN rows' : rows'[i].id < nextSeq
  <2> SUFFICES ASSUME NEW i \in DOMAIN rows' PROVE rows'[i].id < nextSeq
    OBVIOUS
  <2>1. rows'[i].id \in C!Ids(rows)
    BY DEF C!Ids
  <2>2. PICK j \in DOMAIN rows : rows[j].id = rows'[i].id
    BY <2>1 DEF C!Ids
  <2> QED
    BY <1>1, <2>2
<1>5. Len(rows') <= nextSeq /\ Len(rows') \in Nat
  BY <1>1, MsgBounds DEF IdsInv
<1>6. Len(msgs') + (IF stream = {} THEN 0 ELSE 2) <= nextSeq
  BY <1>1, <1>2 DEF IdsInv
<1>7. stream \cap C!Ids(msgs') = {} /\ \A g \in ghosts : g < nextSeq
  BY <1>2 DEF IdsInv
<1>8. \A i \in DOMAIN msgs', n \in stream : msgs'[i].id \in ghosts => msgs'[i].id < n
  <2> SUFFICES ASSUME NEW i \in DOMAIN msgs', NEW n \in stream, msgs'[i].id \in ghosts
               PROVE  msgs'[i].id < n
    OBVIOUS
  <2>1. PICK j \in DOMAIN msgs : msgs[j].id = msgs'[i].id
    BY <1>2 DEF C!Ids
  <2> QED
    BY <2>1 DEF IdsInv
<1>9. C!Ids(rows)' = C!Ids(rows') /\ C!Ids(msgs)' = C!Ids(msgs')
  BY DEF C!Ids
<1>10. IdsTypes'
  BY <1>2 DEF IdsTypes, IdsInv
<1>11. Sorted(rows)' /\ Distinct(msgs)' /\ OddFirst(msgs, ghosts)'
  BY <1>3 DEF Sorted, Distinct, OddFirst
<1> QED
  BY <1>3, <1>4, <1>5, <1>6, <1>7, <1>8, <1>9, <1>10, <1>11 DEF IdsInv

\* Nothing of the log changes.
LEMMA IdsSame ==
    ASSUME IdsInv, UNCHANGED <<alive, C!log>>
    PROVE  IdsInv'
<1>1. /\ alive' = alive /\ rows' = rows /\ nextSeq' = nextSeq /\ msgs' = msgs
      /\ stream' = stream /\ ghosts' = ghosts
  BY DEF C!log
<1>2. C!Ids(rows)' = C!Ids(rows) /\ C!Ids(msgs)' = C!Ids(msgs)
  BY <1>1 DEF C!Ids
<1>3. Sorted(rows)' /\ Distinct(msgs)' /\ OddFirst(msgs, ghosts)'
  BY <1>1 DEF Sorted, Distinct, OddFirst, IdsInv
<1>4. IdsTypes'
  BY <1>1 DEF IdsTypes, IdsInv
<1> QED
  BY <1>1, <1>2, <1>3, <1>4 DEF IdsInv

LEMMA EndTurnIds ==
    ASSUME C!ConsolidationAssumption, IdsInv, NEW requests, C!EndTurn(requests)
    PROVE  IdsInv'
<1>1. /\ alive /\ alive' = alive /\ nextSeq + 2 <= MaxId
      /\ rows' = Longer(rows, C!Turn(nextSeq)) /\ msgs' = Longer(msgs, C!Turn(nextSeq))
      /\ nextSeq' = nextSeq + 2 /\ stream' = stream /\ ghosts' = ghosts
  BY DEF C!EndTurn, Longer
<1>2. nextSeq \in Nat
  BY LogBounds DEF IdsInv
<1>3. InARow(C!Turn(nextSeq), nextSeq) /\ Len(C!Turn(nextSeq)) = 2
  BY <1>2, TurnInARow
<1> QED
  BY <1>1, <1>3, BothGrow

LEMMA PushIds ==
    ASSUME C!ConsolidationAssumption, IdsInv, C!Push
    PROVE  IdsInv'
<1>1. /\ alive /\ alive' = alive /\ nextSeq + 1 <= MaxId
      /\ rows' = Append(rows, C!Message(nextSeq, "push"))
      /\ msgs' = Append(msgs, C!Message(nextSeq, "push"))
      /\ nextSeq' = nextSeq + 1 /\ stream' = stream /\ ghosts' = ghosts
  BY DEF C!Push
<1>2. nextSeq \in Nat /\ rows \in Seq(Msgs) /\ msgs \in Seq(Msgs)
  BY LogBounds DEF IdsInv, IdsTypes
<1>3. PICK t : /\ InARow(t, nextSeq) /\ Len(t) = 1
               /\ rows' = Longer(rows, t) /\ msgs' = Longer(msgs, t)
  BY <1>1, <1>2, PushInARow
<1> QED
  BY <1>1, <1>3, BothGrow

LEMMA StreamStartIds ==
    ASSUME C!ConsolidationAssumption, IdsInv, C!StreamStart
    PROVE  IdsInv'
<1>1. /\ alive /\ alive' = alive /\ nextSeq + 2 <= MaxId /\ stream = {}
      /\ rows' = Longer(rows, C!Turn(nextSeq)) /\ stream' = {nextSeq, nextSeq + 1}
      /\ nextSeq' = nextSeq + 2 /\ msgs' = msgs /\ ghosts' = ghosts
  BY DEF C!StreamStart, Longer
<1>2. /\ nextSeq \in Nat /\ rows \in Seq(Msgs) /\ msgs \in Seq(Msgs) /\ Len(msgs) \in Nat
      /\ MaxId \in Nat /\ \A i \in DOMAIN rows : rows[i].id < nextSeq
  BY LogBounds DEF IdsInv, IdsTypes
<1>3. InARow(C!Turn(nextSeq), nextSeq) /\ Len(C!Turn(nextSeq)) = 2
      /\ C!Ids(C!Turn(nextSeq)) = {nextSeq, nextSeq + 1}
  BY <1>2, TurnInARow
<1> DEFINE t == C!Turn(nextSeq)
<1> HIDE DEF t
<1>4. /\ rows' \in Seq(Msgs) /\ C!Ids(rows') = C!Ids(rows) \cup {nextSeq, nextSeq + 1}
      /\ Len(rows') <= nextSeq + 2 /\ Sorted(rows')
      /\ \A i \in DOMAIN rows' : rows'[i].id < nextSeq + 2
      /\ \A n \in {nextSeq, nextSeq + 1} : n \notin C!Ids(rows)
  <2>1. InARow(t, nextSeq) /\ Len(t) = 2 /\ C!Ids(t) = {nextSeq, nextSeq + 1}
        /\ rows' = Longer(rows, t)
    BY <1>1, <1>3 DEF t
  <2>2. rows' \in Seq(Msgs) /\ C!Ids(rows') = C!Ids(rows) \cup C!Ids(t)
    BY <1>2, <2>1, Extended
  <2>3. /\ Len(rows') <= nextSeq + Len(t) /\ Sorted(rows')
        /\ \A i \in DOMAIN rows' : rows'[i].id < nextSeq + Len(t)
        /\ \A n \in C!Ids(t) : n \notin C!Ids(rows) /\ n < nextSeq + Len(t)
    BY <1>2, <2>1, RowsGrow DEF IdsInv
  <2> QED
    BY <2>1, <2>2, <2>3
<1>5. \A i \in DOMAIN msgs : msgs[i].id \in Nat /\ msgs[i].id < nextSeq
  <2> SUFFICES ASSUME NEW i \in DOMAIN msgs
               PROVE  msgs[i].id \in Nat /\ msgs[i].id < nextSeq
    OBVIOUS
  <2>1. msgs[i].id \in C!Ids(rows)
    BY DEF IdsInv, C!Ids
  <2>2. PICK j \in DOMAIN rows : rows[j].id = msgs[i].id
    BY <2>1 DEF C!Ids
  <2> QED
    BY <1>2, <2>2, LogBounds DEF IdsInv
<1>6. IdsTypes'
  <2>1. nextSeq' \in 0..MaxId /\ nextSeq + 1 < nextSeq'
    BY <1>1, <1>2
  <2> QED
    BY <1>1, <1>2, <1>4, <2>1 DEF IdsTypes, IdsInv
<1>7. C!Ids(rows)' = C!Ids(rows') /\ C!Ids(msgs)' = C!Ids(msgs)
  BY <1>1 DEF C!Ids
<1>8. \A i \in DOMAIN msgs', n \in stream' : msgs'[i].id \in ghosts' => msgs'[i].id < n
  BY <1>1, <1>2, <1>5
<1>9. \A g \in ghosts' : g < nextSeq'
  BY <1>1, <1>2 DEF IdsInv, IdsTypes
<1>10. Len(msgs') + (IF stream' = {} THEN 0 ELSE 2) <= nextSeq'
  BY <1>1, <1>2 DEF IdsInv
<1>11. C!Ids(msgs) \subseteq C!Ids(rows') /\ stream' \subseteq C!Ids(rows')
       /\ stream' \cap C!Ids(msgs) = {}
  BY <1>1, <1>4 DEF IdsInv
<1>12. Sorted(rows)' /\ Distinct(msgs)' /\ OddFirst(msgs, ghosts)'
  BY <1>1, <1>4 DEF Sorted, Distinct, OddFirst, IdsInv
<1> QED
  BY <1>1, <1>4, <1>6, <1>7, <1>8, <1>9, <1>10, <1>11, <1>12 DEF IdsInv

LEMMA StreamEndIds ==
    ASSUME C!ConsolidationAssumption, IdsInv, C!StreamEnd
    PROVE  IdsInv' /\ \A i \in DOMAIN msgs' : i \in DOMAIN msgs \/ msgs'[i].id \in stream
<1> DEFINE k == CHOOSE n \in stream : n + 1 \in stream
<1>1. /\ alive /\ alive' = alive /\ stream # {} /\ stream' = {}
      /\ msgs' = Longer(msgs, C!Turn(k))
      /\ rows' = rows /\ nextSeq' = nextSeq /\ ghosts' = ghosts
  BY DEF C!StreamEnd, Longer
<1> HIDE DEF k
<1>2. /\ nextSeq \in Nat /\ rows \in Seq(Msgs) /\ msgs \in Seq(Msgs) /\ Len(msgs) \in Nat
      /\ MaxId \in Nat /\ \A i \in DOMAIN rows : rows[i].id < nextSeq
  BY LogBounds DEF IdsInv, IdsTypes
<1>3. k \in Nat /\ stream = {k, k + 1}
  <2>1. PICK n \in Nat : stream = {n, n + 1}
    BY <1>1 DEF IdsInv, IdsTypes
  <2>2. \A m \in stream : m + 1 \in stream => m = n
    BY <2>1
  <2>3. k \in stream /\ k + 1 \in stream
    BY <2>1 DEF k
  <2> QED
    BY <2>1, <2>2, <2>3
<1>4. InARow(C!Turn(k), k) /\ Len(C!Turn(k)) = 2 /\ C!Ids(C!Turn(k)) = stream
  BY <1>3, TurnInARow
<1> DEFINE t == C!Turn(k)
<1>5. InARow(t, k) /\ Len(t) = 2 /\ C!Ids(t) = stream /\ msgs' = Longer(msgs, t)
  BY <1>1, <1>4
<1> HIDE DEF t
<1>6. /\ msgs' \in Seq(Msgs) /\ Len(msgs') = Len(msgs) + 2
      /\ C!Ids(msgs') = C!Ids(msgs) \cup stream
      /\ \A i \in DOMAIN msgs' : i \in DOMAIN msgs \/ msgs'[i].id \in stream
  <2>1. /\ msgs' \in Seq(Msgs) /\ Len(msgs') = Len(msgs) + Len(t)
        /\ C!Ids(msgs') = C!Ids(msgs) \cup C!Ids(t)
        /\ \A j \in (Len(msgs) + 1)..Len(msgs') : msgs'[j].id \in C!Ids(t)
    BY <1>2, <1>3, <1>5, Extended
  <2>2. DOMAIN msgs' = 1..Len(msgs') /\ DOMAIN msgs = 1..Len(msgs)
    BY <1>2, <2>1, MsgBounds
  <2> QED
    BY <1>2, <1>5, <2>1, <2>2
<1>7. Distinct(msgs') /\ OddFirst(msgs', ghosts)
  <2>1. C!Ids(t) \cap C!Ids(msgs) = {} /\ \A i \in DOMAIN msgs : msgs[i].id \in ghosts => msgs[i].id < k
    BY <1>3, <1>5 DEF IdsInv
  <2> QED
    BY <1>2, <1>3, <1>5, <2>1, CacheGrows DEF IdsInv
<1>8. IdsTypes'
  BY <1>1, <1>2, <1>6 DEF IdsTypes, IdsInv
<1>9. C!Ids(rows)' = C!Ids(rows) /\ C!Ids(msgs)' = C!Ids(msgs')
  BY <1>1 DEF C!Ids
<1>10. Len(msgs') + (IF stream' = {} THEN 0 ELSE 2) <= nextSeq'
  BY <1>1, <1>2, <1>6 DEF IdsInv
<1>11. C!Ids(msgs') \subseteq C!Ids(rows)
  BY <1>6 DEF IdsInv
<1>12. Sorted(rows)' /\ Distinct(msgs)' /\ OddFirst(msgs, ghosts)'
  BY <1>1, <1>7 DEF Sorted, Distinct, OddFirst, IdsInv
<1>13. IdsInv'
  BY <1>1, <1>8, <1>9, <1>10, <1>11, <1>12 DEF IdsInv
<1> QED
  BY <1>6, <1>13

\* The turn that was streamed never ends, or the process dies.
LEMMA StreamStopIds ==
    ASSUME IdsInv, C!StreamStop
    PROVE  IdsInv'
<1>1. /\ alive' = alive /\ rows' = rows /\ nextSeq' = nextSeq /\ msgs' = msgs
      /\ stream' = {} /\ ghosts' = ghosts \cup stream
  BY DEF C!StreamStop
<1>2. stream \subseteq Nat /\ \A n \in stream : n < nextSeq
  BY DEF IdsInv, IdsTypes
<1>3. IdsTypes'
  BY <1>1, <1>2 DEF IdsInv, IdsTypes
<1>4. C!Ids(rows)' = C!Ids(rows) /\ C!Ids(msgs)' = C!Ids(msgs)
  BY <1>1 DEF C!Ids
<1>5. Sorted(rows)' /\ Distinct(msgs)'
  BY <1>1 DEF Sorted, Distinct, IdsInv
<1>6. OddFirst(msgs, ghosts)'
  <2>1. \A i \in DOMAIN msgs : msgs[i].id \notin stream
    BY DEF IdsInv, C!Ids
  <2> QED
    BY <1>1, <2>1 DEF OddFirst, IdsInv
<1>7. Len(msgs') + (IF stream' = {} THEN 0 ELSE 2) <= nextSeq'
  <2>1. Len(msgs) \in Nat /\ nextSeq \in Nat
    BY MsgBounds DEF IdsInv, IdsTypes
  <2> QED
    BY <1>1, <2>1 DEF IdsInv
<1> QED
  BY <1>1, <1>2, <1>3, <1>4, <1>5, <1>6, <1>7 DEF IdsInv

LEMMA CrashIds ==
    ASSUME IdsInv, NEW w, C!Crash(w)
    PROVE  IdsInv'
<1>1. /\ alive' = FALSE /\ rows' = rows /\ nextSeq' = nextSeq /\ msgs' = <<>>
      /\ stream' = {} /\ ghosts' = ghosts \cup stream
  BY DEF C!Crash
<1>2. stream \subseteq Nat /\ \A n \in stream : n < nextSeq
  BY DEF IdsInv, IdsTypes
<1>3. nextSeq \in Nat /\ DOMAIN <<>> = {} /\ Len(<<>>) = 0 /\ <<>> \in Seq(Msgs)
  BY DEF IdsInv, IdsTypes
<1>4. IdsTypes'
  BY <1>1, <1>2, <1>3 DEF IdsInv, IdsTypes
<1>5. C!Ids(rows)' = C!Ids(rows) /\ C!Ids(msgs)' = {}
  BY <1>1, <1>3 DEF C!Ids
<1>6. Sorted(rows)' /\ Distinct(msgs)' /\ OddFirst(msgs, ghosts)'
  BY <1>1, <1>3 DEF Sorted, Distinct, OddFirst, IdsInv
<1>7. Len(msgs') + (IF stream' = {} THEN 0 ELSE 2) <= nextSeq'
  BY <1>1, <1>3
<1> QED
  BY <1>1, <1>2, <1>3, <1>4, <1>5, <1>6, <1>7 DEF IdsInv

LEMMA RestartIds ==
    ASSUME C!ConsolidationAssumption, IdsInv, C!Restart
    PROVE  IdsInv'
<1>1. /\ alive' = TRUE /\ ~alive /\ rows' = rows /\ nextSeq' = nextSeq /\ msgs' = rows
      /\ stream' = stream /\ ghosts' = ghosts
  BY DEF C!Restart
<1>2. /\ rows \in Seq(Msgs) /\ DOMAIN rows = 1..Len(rows) /\ Len(rows) \in Nat /\ nextSeq \in Nat
      /\ \A i \in DOMAIN rows : rows[i].id \in Nat
  BY LogBounds DEF IdsInv, IdsTypes
<1>3. stream = {}
  BY <1>1 DEF IdsInv
<1>4. Distinct(rows) /\ OddFirst(rows, ghosts)
  <2>1. \A i, j \in DOMAIN rows : i < j => rows[i].id < rows[j].id
    BY DEF IdsInv, Sorted
  <2>2. \A i, j \in DOMAIN rows : i # j => rows[i].id # rows[j].id
    <3> SUFFICES ASSUME NEW i \in DOMAIN rows, NEW j \in DOMAIN rows, i # j
                 PROVE  rows[i].id # rows[j].id
      OBVIOUS
    <3>1. i < j \/ j < i
      BY <1>2
    <3> QED
      BY <1>2, <2>1, <3>1
  <2> QED
    BY <2>1, <2>2 DEF Distinct, OddFirst
<1>5. IdsTypes'
  BY <1>1, <1>2 DEF IdsInv, IdsTypes
<1>6. C!Ids(rows)' = C!Ids(rows) /\ C!Ids(msgs)' = C!Ids(rows)
  BY <1>1 DEF C!Ids
<1>7. Sorted(rows)' /\ Distinct(msgs)' /\ OddFirst(msgs, ghosts)'
  BY <1>1, <1>4 DEF Sorted, Distinct, OddFirst, IdsInv
<1>8. Len(msgs') + (IF stream' = {} THEN 0 ELSE 2) <= nextSeq'
  BY <1>1, <1>2, <1>3 DEF IdsInv
<1> QED
  BY <1>1, <1>3, <1>5, <1>6, <1>7, <1>8 DEF IdsInv

\* Where the cursor is after an undo of the turn whose question is at place a.
LEMMA CursorBack ==
    ASSUME NEW a \in Nat, NEW sources, cursor \in Nat, msgs \in Seq(Msgs),
           a >= 1, a + 1 <= Len(msgs),
           NEW c, c = C!CursorAfterUndo(a, sources)
    PROVE  c \in Nat /\ c <= cursor /\ c <= a - 1
<1> DEFINE first == {i \in DOMAIN msgs : msgs[i].id \in sources \/ i = a}
           back == CHOOSE i \in first : \A j \in first : i <= j
<1>1. Len(msgs) \in Nat /\ DOMAIN msgs = 1..Len(msgs)
  BY MsgBounds
<1>2. first \subseteq Nat /\ first \subseteq 1..Len(msgs) /\ a \in first
  BY <1>1
<1>3. c = IF a - 1 >= cursor THEN IF cursor < Len(msgs) - 2 THEN cursor ELSE Len(msgs) - 2
          ELSE back - 1
  BY DEF C!CursorAfterUndo
<1> HIDE DEF first
<1>4. \E i \in first : \A j \in first : i <= j
  BY <1>2, LeastNat
<1>5. back \in first /\ \A j \in first : back <= j
  BY <1>4
<1> HIDE DEF back
<1>6. back \in 1..Len(msgs) /\ back <= a
  BY <1>2, <1>5
<1>7. CASE a - 1 >= cursor
  <2>1. PICK n \in Nat : n = Len(msgs)
    BY <1>1
  <2>2. c = IF cursor < n - 2 THEN cursor ELSE n - 2
    BY <1>3, <1>7, <2>1
  <2>3. a + 1 <= n /\ a >= 1 /\ cursor \in Nat
    BY <2>1
  <2> QED
    BY <1>7, <2>2, <2>3
<1>8. CASE ~(a - 1 >= cursor)
  BY <1>1, <1>3, <1>6, <1>8
<1> QED
  BY <1>7, <1>8

\* The last turn goes: its two messages are next to each other, and go from both.
LEMMA UndoShape ==
    ASSUME C!ConsolidationAssumption, IdsInv, cursor \in Nat, NEW sources, C!Undo(sources)
    PROVE  /\ IdsInv'
           /\ \E a \in Nat : /\ CutFrom(msgs', msgs, a, 2)
                             /\ cursor' \in Nat /\ cursor' <= cursor /\ cursor' <= a
<1> DEFINE ends == C!TurnEnds(msgs)
           at == CHOOSE i \in ends : \A j \in ends : j <= i
           n1 == msgs[at - 1].id
           n2 == msgs[at].id
<1>1. /\ alive /\ alive' = alive /\ stream = {} /\ ends # {}
      /\ cursor' = C!CursorAfterUndo(at - 1, sources)
      /\ msgs' = Cut(msgs, at - 2, at)
      /\ rows' = C!Without(C!Without(rows, n1), n2)
      /\ nextSeq' = nextSeq /\ stream' = stream /\ ghosts' = ghosts
  BY DEF C!Undo, Cut
<1>2. /\ rows \in Seq(Msgs) /\ msgs \in Seq(Msgs) /\ Len(rows) \in Nat /\ Len(msgs) \in Nat
      /\ DOMAIN msgs = 1..Len(msgs) /\ \A i \in DOMAIN msgs : msgs[i].id \in Nat
  BY LogBounds DEF IdsInv, IdsTypes
<1>3. ends \subseteq 2..Len(msgs)
  BY DEF C!TurnEnds
<1> HIDE DEF ends
<1>4. at \in ends
  <2>1. ends \subseteq 0..Len(msgs)
    BY <1>2, <1>3
  <2>2. \E i \in ends : \A j \in ends : j <= i
    BY <1>1, <1>2, <2>1, GreatestNat
  <2> QED
    BY <2>2
<1> HIDE DEF at
<1>5. at \in Nat /\ at >= 2 /\ at <= Len(msgs)
  BY <1>2, <1>3, <1>4
<1>6. PICK a \in Nat : a = at - 2
  BY <1>5
<1>7. CutFrom(msgs', msgs, a, 2)
  <2>1. a \in Nat /\ at \in Nat /\ a <= at /\ at <= Len(msgs) /\ at - a = 2
    BY <1>5, <1>6
  <2>2. CutFrom(Cut(msgs, a, at), msgs, a, at - a)
    BY <1>2, <2>1, CutOut
  <2> QED
    BY <1>1, <1>6, <2>1, <2>2
<1>8. cursor' \in Nat /\ cursor' <= cursor /\ cursor' <= a
  <2>1. PICK q \in Nat : q = at - 1
    BY <1>5
  <2>2. cursor' = C!CursorAfterUndo(q, sources) /\ q >= 1 /\ q + 1 <= Len(msgs) /\ q - 1 = a
    BY <1>1, <1>5, <1>6, <2>1
  <2>3. \A c : c = C!CursorAfterUndo(q, sources) => c \in Nat /\ c <= cursor /\ c <= q - 1
    BY <1>2, <2>2, CursorBack
  <2> QED
    BY <2>2, <2>3
<1>9. n1 \in Nat /\ n2 \in Nat
  BY <1>2, <1>5
<1>10. n1 \notin C!Ids(msgs') /\ n2 \notin C!Ids(msgs') /\ C!Ids(msgs') \subseteq C!Ids(rows)
  <2>1. \A j \in (a + 1)..(a + 2) : msgs[j].id \notin C!Ids(msgs')
    BY <1>2, <1>6, <1>7, KeptInOrder DEF IdsInv
  <2>2. at - 1 \in (a + 1)..(a + 2) /\ at \in (a + 1)..(a + 2)
    BY <1>5, <1>6
  <2>3. C!Ids(msgs') \subseteq C!Ids(msgs)
    BY <1>2, <1>7, KeptFacts
  <2> QED
    BY <2>1, <2>2, <2>3 DEF IdsInv
<1> HIDE DEF n1, n2
<1>11. /\ rows' \in Seq(Msgs) /\ Sorted(rows') /\ Len(rows') <= Len(rows)
       /\ C!Ids(rows') = C!Ids(rows) \ {n1, n2}
  <2> DEFINE r == C!Without(rows, n1)
  <2>1. /\ r \in Seq(Msgs) /\ Sorted(r) /\ Len(r) <= Len(rows) /\ C!Ids(r) = C!Ids(rows) \ {n1}
    BY <1>2, <1>9, TakenOut DEF IdsInv
  <2>2. rows' = C!Without(r, n2)
    BY <1>1
  <2> HIDE DEF r
  <2>3. rows' \in Seq(Msgs) /\ Sorted(rows') /\ Len(rows') <= Len(r) /\ C!Ids(rows') = C!Ids(r) \ {n2}
    BY <1>9, <2>1, <2>2, TakenOut
  <2>4. Len(r) \in Nat /\ Len(rows') \in Nat
    BY <2>1, <2>3, MsgBounds
  <2> QED
    BY <1>2, <2>1, <2>3, <2>4
<1>12. IdsInv'
  BY <1>1, <1>6, <1>7, <1>10, <1>11, BothShrink
<1> QED
  BY <1>6, <1>7, <1>8, <1>12

LEMMA TrimShape ==
    ASSUME C!ConsolidationAssumption, IdsInv, NEW w \in 0..Len(msgs), C!Trim(w)
    PROVE  IdsInv' /\ CutFrom(msgs', msgs, 0, Len(msgs) - w)
<1>1. /\ alive /\ alive' = alive /\ msgs' = SubSeq(msgs, Len(msgs) - w + 1, Len(msgs))
      /\ rows' = rows /\ nextSeq' = nextSeq /\ stream' = stream /\ ghosts' = ghosts
  BY DEF C!Trim
<1>2. /\ rows \in Seq(Msgs) /\ msgs \in Seq(Msgs) /\ Len(msgs) \in Nat /\ Len(rows) \in Nat
      /\ Sorted(rows) /\ C!Ids(msgs) \subseteq C!Ids(rows) /\ stream \subseteq C!Ids(rows)
  BY LogBounds DEF IdsInv, IdsTypes
<1>3. PICK g \in Nat : g = Len(msgs) - w /\ g <= Len(msgs)
  <2>1. Len(msgs) - w \in Nat /\ Len(msgs) - w <= Len(msgs)
    BY <1>2
  <2> QED
    BY <2>1
<1>4. CutFrom(msgs', msgs, 0, g)
  <2>1. /\ msgs' \in Seq(Msgs) /\ Len(msgs') = Len(msgs) - g
        /\ \A i \in 1..(Len(msgs) - g) : msgs'[i] = msgs[g + i]
    BY <1>1, <1>2, <1>3, LastOnes
  <2>2. ASSUME NEW i \in 1..Len(msgs') PROVE msgs'[i] = IF i <= 0 THEN msgs[i] ELSE msgs[i + g]
    <3>1. ~(i <= 0) /\ i \in 1..(Len(msgs) - g) /\ g + i = i + g
      BY <1>2, <1>3, <2>1
    <3> QED
      BY <2>1, <3>1
  <2> QED
    BY <1>2, <1>3, <2>1, <2>2 DEF CutFrom
<1>5. C!Ids(msgs') \subseteq C!Ids(msgs)
  BY <1>2, <1>4, KeptFacts
<1>6. IdsInv'
  BY <1>1, <1>2, <1>4, <1>5, BothShrink
<1> QED
  BY <1>3, <1>4, <1>6

\* The log is well formed after every step.
LEMMA IdsStep ==
    ASSUME C!ConsolidationAssumption, IdsInv, cursor \in Nat, C!Next
    PROVE  IdsInv'
<1>1. ASSUME NEW requests, C!EndTurn(requests) PROVE IdsInv'
  BY <1>1, EndTurnIds
<1>2. CASE C!StreamStart
  BY <1>2, StreamStartIds
<1>3. CASE C!StreamEnd
  BY <1>3, StreamEndIds
<1>4. CASE C!StreamStop
  BY <1>4, StreamStopIds
<1>5. CASE C!Push
  BY <1>5, PushIds
<1>6. ASSUME NEW sources, C!Undo(sources) PROVE IdsInv'
  BY <1>6, UndoShape
<1>7. ASSUME NEW w \in 0..Len(msgs), C!Trim(w) PROVE IdsInv'
  BY <1>7, TrimShape
<1>8. CASE C!WorkerRun \/ C!WorkerEnd \/ C!ManualAsk \/ C!ManualSave \/ C!ManualTimeout
  BY <1>8, IdsSame DEF C!WorkerRun, C!WorkerEnd, C!ManualAsk, C!ManualSave, C!ManualTimeout
<1>9. ASSUME NEW kind, C!ManualRun(kind) PROVE IdsInv'
  BY <1>9, IdsSame DEF C!ManualRun
<1>10. ASSUME NEW a, C!Skip(a) \/ C!Commit(a) \/ C!Emitted(a) \/ C!EmitFails(a) PROVE IdsInv'
  BY <1>10, IdsSame DEF C!Skip, C!Commit, C!Emitted, C!EmitFails
<1>11. ASSUME NEW w, C!Crash(w) PROVE IdsInv'
  BY <1>11, CrashIds
<1>12. CASE C!Restart
  BY <1>12, RestartIds
<1> QED
  BY <1>1, <1>2, <1>3, <1>4, <1>5, <1>6, <1>7, <1>8, <1>9, <1>10, <1>11, <1>12 DEF C!Next

Kinds == {"plain", "force", "archive"}

\* A window holds messages of the cache: all, or those between the cursor and its end.
LEMMA WindowFacts ==
    ASSUME C!ConsolidationAssumption, IdsInv, cursor \in Nat, NEW kind \in Kinds,
           C!HasWindow(kind), NEW w, w = C!Window(kind)
    PROVE  /\ w \in Drafts /\ w.ids \subseteq C!Ids(msgs) /\ w.upTo <= Len(msgs)
           /\ kind = "archive" => w.upTo = 0
           /\ kind # "archive" =>
                 cursor < w.upTo /\ w.ids = {msgs[i].id : i \in (cursor + 1)..w.upTo}
<1>1. /\ Len(msgs) \in Nat /\ DOMAIN msgs = 1..Len(msgs) /\ Len(msgs) <= nextSeq
      /\ nextSeq <= MaxId /\ nextSeq \in Nat /\ MaxId \in Nat
      /\ \A i \in DOMAIN msgs : msgs[i].id \in Nat
  BY LogBounds DEF IdsInv, IdsTypes
<1>2. Keep \in Nat /\ MinNew \in Nat \ {0}
  BY DEF C!ConsolidationAssumption
<1>3. CASE kind = "archive"
  <2>1. w = [ids |-> {msgs[i].id : i \in 1..Len(msgs)}, upTo |-> 0]
    BY <1>3 DEF C!Window, C!UpTo
  <2>2. w.ids = C!Ids(msgs) /\ C!Ids(msgs) \subseteq Nat
    BY <1>1, <2>1 DEF C!Ids
  <2> QED
    BY <1>1, <1>3, <2>1, <2>2 DEF Drafts
<1>4. CASE kind # "archive"
  <2>1. PICK u : u = C!UpTo(kind)
    OBVIOUS
  <2>2. u \in Nat /\ u <= Len(msgs) /\ cursor < u
    BY <1>1, <1>2, <1>4, <2>1 DEF C!HasWindow, C!UpTo, Kinds
  <2>3. w = [ids |-> {msgs[i].id : i \in (cursor + 1)..u}, upTo |-> u]
    BY <1>4, <2>1 DEF C!Window
  <2>4. (cursor + 1)..u \subseteq DOMAIN msgs
    BY <1>1, <2>2
  <2>5. w.ids \subseteq C!Ids(msgs) /\ C!Ids(msgs) \subseteq Nat
    BY <1>1, <2>3, <2>4 DEF C!Ids
  <2>6. u \in 0..MaxId
    BY <1>1, <2>2
  <2>7. w \in Drafts
    BY <2>3, <2>5, <2>6 DEF Drafts
  <2> QED
    BY <1>4, <2>2, <2>3, <2>5, <2>7
<1> QED
  BY <1>3, <1>4

\* What a caller's step leaves alone.
Quiet == UNCHANGED <<alive, C!log>>

\* The phases a task and a call may be in.
LEMMA PhaseFacts ==
    ASSUME LogTypes, LockInv
    PROVE  /\ \A a \in C!Callers : a = "worker" \/ a = "manual"
           /\ "worker" \in C!Callers /\ "manual" \in C!Callers
           /\ holder \in {{}, {"worker"}, {"manual"}}
           /\ C!Busy("worker") <=> holder = {"worker"}
           /\ C!Busy("manual") <=> holder = {"manual"}
           /\ \A a \in C!Callers : Extracting(a) => holder = {a}
           /\ \A a, b \in C!Callers : Extracting(a) /\ Extracting(b) => a = b
<1>1. C!Callers = {"worker", "manual"}
  BY DEF C!Callers
<1>2. \A a \in C!Callers : Extracting(a) => holder = {a}
  BY DEF LockInv, C!Busy, Extracting
<1>3. \A a, b \in C!Callers : Extracting(a) /\ Extracting(b) => a = b
  BY <1>2
<1>4. /\ holder = {} \/ \E a \in C!Callers : holder = {a}
      /\ \A a \in C!Callers : C!Busy(a) <=> holder = {a}
  BY DEF LockInv
<1>5. holder \in {{}, {"worker"}, {"manual"}}
  BY <1>1, <1>4
<1> QED
  BY <1>1, <1>2, <1>3, <1>4, <1>5

LEMMA ServeTypes ==
    ASSUME C!ConsolidationAssumption, IdsInv, LogTypes, C!Serve(phase)
    PROVE  /\ queue' \in 0..MaxQueue
           /\ phase' \in [C!Callers -> WorkerAt \cup ManualAt]
           /\ phase'["worker"] \in {"extracting", "ending"} /\ phase'["manual"] = phase["manual"]
           /\ draft' \in [C!Callers -> Drafts] /\ draft'["manual"] = draft["manual"]
           /\ phase'["worker"] = "extracting" =>
                 holder' = {"worker"} /\ C!HasWindow("plain") /\ draft'["worker"] = C!Window("plain")
           /\ phase'["worker"] = "ending" => holder' = {} /\ draft'["worker"] = C!NoDraft
<1>1. /\ phase \in [C!Callers -> WorkerAt \cup ManualAt] /\ draft \in [C!Callers -> Drafts]
      /\ queue \in 0..MaxQueue /\ MaxQueue \in Nat /\ cursor \in Nat /\ MaxId \in Nat
      /\ C!Callers = {"worker", "manual"}
  BY DEF LogTypes, C!ConsolidationAssumption, C!Callers
<1>2. CASE queue > 0 /\ C!HasWindow("plain")
  <2>1. /\ queue' = queue - 1 /\ phase' = [phase EXCEPT !["worker"] = "extracting"]
        /\ draft' = [draft EXCEPT !["worker"] = C!Window("plain")] /\ holder' = {"worker"}
    BY <1>2 DEF C!Serve
  <2>2. C!Window("plain") \in Drafts
    BY <1>1, <1>2, WindowFacts DEF Kinds
  <2>3. queue' \in 0..MaxQueue
    BY <1>1, <1>2, <2>1
  <2>4. draft' \in [C!Callers -> Drafts] /\ draft'["manual"] = draft["manual"]
        /\ draft'["worker"] = C!Window("plain")
    BY <1>1, <2>1, <2>2
  <2>5. phase' \in [C!Callers -> WorkerAt \cup ManualAt]
        /\ phase'["worker"] = "extracting" /\ phase'["manual"] = phase["manual"]
    BY <1>1, <2>1 DEF WorkerAt
  <2> QED
    BY <1>2, <2>1, <2>3, <2>4, <2>5
<1>3. CASE ~(queue > 0 /\ C!HasWindow("plain"))
  <2>1. /\ queue' = 0 /\ phase' = [phase EXCEPT !["worker"] = "ending"]
        /\ draft' = [draft EXCEPT !["worker"] = C!NoDraft] /\ holder' = {}
    BY <1>3 DEF C!Serve
  <2>2. C!NoDraft \in Drafts
    BY <1>1 DEF C!NoDraft, Drafts
  <2>3. queue' \in 0..MaxQueue
    BY <1>1, <2>1
  <2>4. draft' \in [C!Callers -> Drafts] /\ draft'["manual"] = draft["manual"]
        /\ draft'["worker"] = C!NoDraft
    BY <1>1, <2>1, <2>2
  <2>5. phase' \in [C!Callers -> WorkerAt \cup ManualAt]
        /\ phase'["worker"] = "ending" /\ phase'["manual"] = phase["manual"]
    BY <1>1, <2>1 DEF WorkerAt
  <2> QED
    BY <2>1, <2>3, <2>4, <2>5
<1> QED
  BY <1>2, <1>3

LEMMA RequestTypes ==
    ASSUME C!ConsolidationAssumption, LogTypes, LockInv, C!Request
    PROVE  /\ queue' \in 0..MaxQueue /\ queue' > 0
           /\ phase' \in [C!Callers -> WorkerAt \cup ManualAt]
           /\ phase'["manual"] = phase["manual"] /\ phase'["worker"] \in WorkerAt \ {"none"}
           /\ \A a \in C!Callers : Extracting(a)' <=> Extracting(a)
           /\ \A a \in C!Callers : C!Busy(a)' <=> C!Busy(a)
<1>1. /\ phase \in [C!Callers -> WorkerAt \cup ManualAt] /\ phase["worker"] \in WorkerAt
      /\ queue \in 0..MaxQueue /\ MaxQueue \in Nat /\ C!Callers = {"worker", "manual"}
  BY DEF LogTypes, C!ConsolidationAssumption, C!Callers
<1>2. /\ queue < MaxQueue /\ queue' = queue + 1
      /\ phase' = [phase EXCEPT !["worker"] = IF @ = "none" THEN "waiting" ELSE @]
  BY DEF C!Request
<1>3. queue' \in 0..MaxQueue /\ queue' > 0
  BY <1>1, <1>2
<1>4. /\ phase' \in [C!Callers -> WorkerAt \cup ManualAt]
      /\ phase'["manual"] = phase["manual"] /\ phase'["worker"] \in WorkerAt \ {"none"}
      /\ phase'["worker"] = IF phase["worker"] = "none" THEN "waiting" ELSE phase["worker"]
  BY <1>1, <1>2 DEF WorkerAt
<1>5. \A a \in C!Callers : phase'[a] = phase[a] \/ (phase[a] = "none" /\ phase'[a] = "waiting")
  <2> SUFFICES ASSUME NEW a \in C!Callers
               PROVE  phase'[a] = phase[a] \/ (phase[a] = "none" /\ phase'[a] = "waiting")
    OBVIOUS
  <2> QED
    BY <1>1, <1>4
<1> QED
  BY <1>3, <1>4, <1>5 DEF Extracting, C!Busy

LEMMA LeaveTypes ==
    ASSUME C!ConsolidationAssumption, LogTypes, LockInv, NEW a \in C!Callers, NEW to,
           to \in (IF a = "worker" THEN WorkerAt ELSE ManualAt) \ {"extracting", "emitting"},
           C!Leave(a, to)
    PROVE  /\ phase' \in [C!Callers -> WorkerAt \cup ManualAt]
           /\ phase'["worker"] \in WorkerAt /\ phase'["manual"] \in ManualAt
           /\ draft' \in [C!Callers -> Drafts]
           /\ phase'[a] = to /\ draft'[a] = C!NoDraft /\ ~Extracting(a)'
           /\ \A b \in C!Callers \ {a} : phase'[b] = phase[b] /\ draft'[b] = draft[b]
           /\ holder' = {} \/ \E b \in C!Callers : holder' = {b}
           /\ \A b \in C!Callers : C!Busy(b)' <=> holder' = {b}
<1>1. /\ phase \in [C!Callers -> WorkerAt \cup ManualAt] /\ draft \in [C!Callers -> Drafts]
      /\ phase["worker"] \in WorkerAt /\ phase["manual"] \in ManualAt
      /\ MaxId \in Nat /\ C!Callers = {"worker", "manual"}
  BY DEF LogTypes, C!ConsolidationAssumption, C!Callers
<1>2. /\ phase' = [phase EXCEPT ![a] = to] /\ draft' = [draft EXCEPT ![a] = C!NoDraft]
      /\ holder' = holder \ {a}
  BY DEF C!Leave
<1>3. C!NoDraft \in Drafts
  BY <1>1 DEF C!NoDraft, Drafts
<1>4. /\ draft' \in [C!Callers -> Drafts] /\ draft'[a] = C!NoDraft
      /\ \A b \in C!Callers \ {a} : draft'[b] = draft[b]
  BY <1>1, <1>2, <1>3
<1>5. /\ phase'[a] = to /\ to # "extracting" /\ to # "emitting"
      /\ \A b \in C!Callers \ {a} : phase'[b] = phase[b]
  BY <1>1, <1>2
<1>6. to \in WorkerAt \cup ManualAt /\ (a = "worker" => to \in WorkerAt) /\ (a = "manual" => to \in ManualAt)
  BY <1>1
<1>7. /\ phase' \in [C!Callers -> WorkerAt \cup ManualAt]
      /\ phase'["worker"] \in WorkerAt /\ phase'["manual"] \in ManualAt
  BY <1>1, <1>2, <1>5, <1>6
<1>8. \A b \in C!Callers : C!Busy(b) <=> holder = {b}
  BY DEF LockInv
<1>10. holder = {} \/ \E b \in C!Callers : holder = {b}
  BY DEF LockInv
<1>11. holder' = {} \/ \E b \in C!Callers : holder' = {b}
  BY <1>2, <1>10
<1>9. ASSUME NEW b \in C!Callers PROVE C!Busy(b)' <=> holder' = {b}
  <2>1. CASE b = a
    <3>1. ~(phase'[b] \in {"extracting", "emitting"})
      BY <1>5, <2>1
    <3> QED
      BY <1>2, <2>1, <3>1 DEF C!Busy
  <2>2. CASE b # a
    <3>1. C!Busy(b)' <=> C!Busy(b)
      BY <1>5, <2>2 DEF C!Busy
    <3>2. holder \ {a} = {b} <=> holder = {b}
      BY <1>10, <2>2
    <3> QED
      BY <1>2, <1>8, <3>1, <3>2
  <2> QED
    BY <2>1, <2>2
<1> QED
  BY <1>4, <1>5, <1>7, <1>9, <1>11 DEF Extracting

\* A caller whose phase is not "none" is in a process that runs.
LEMMA PhasesAlive ==
    ASSUME LockInv, NEW a \in C!Callers, phase[a] # "none", alive \in BOOLEAN
    PROVE  alive
BY DEF LockInv

LEMMA SameControl ==
    ASSUME LogTypes, LockInv, UNCHANGED <<alive, phase, draft, holder, queue, history>>,
           cursor' \in 0..MaxId, savedCursor' \in 0..MaxId
    PROVE  LogTypes' /\ LockInv'
<1>1. LogTypes'
  BY DEF LogTypes
<1>2. LockInv'
  BY DEF LockInv, C!Busy
<1> QED
  BY <1>1, <1>2

LEMMA RequestControl ==
    ASSUME C!ConsolidationAssumption, LogTypes, LockInv, C!Request,
           UNCHANGED <<draft, holder, history>>, alive, alive' = alive,
           cursor' \in 0..MaxId, savedCursor' \in 0..MaxId
    PROVE  LogTypes' /\ LockInv'
<1>1. /\ queue' \in 0..MaxQueue /\ queue' > 0
      /\ phase' \in [C!Callers -> WorkerAt \cup ManualAt]
      /\ phase'["manual"] = phase["manual"] /\ phase'["worker"] \in WorkerAt \ {"none"}
      /\ \A a \in C!Callers : C!Busy(a)' <=> C!Busy(a)
  BY RequestTypes
<1>2. LogTypes'
  BY <1>1 DEF LogTypes
<1>3. LockInv'
  BY <1>1 DEF LockInv
<1> QED
  BY <1>2, <1>3

LEMMA ServeControl ==
    ASSUME C!ConsolidationAssumption, IdsInv, LogTypes, LockInv, C!Serve(phase),
           holder = {} \/ holder = {"worker"}, history' = history, alive, alive' = alive,
           cursor' \in 0..MaxId, savedCursor' \in 0..MaxId
    PROVE  LogTypes' /\ LockInv'
<1>1. /\ queue' \in 0..MaxQueue
      /\ phase' \in [C!Callers -> WorkerAt \cup ManualAt]
      /\ phase'["worker"] \in {"extracting", "ending"} /\ phase'["manual"] = phase["manual"]
      /\ draft' \in [C!Callers -> Drafts]
      /\ phase'["worker"] = "extracting" => holder' = {"worker"}
      /\ phase'["worker"] = "ending" => holder' = {}
  BY ServeTypes
<1>2. LogTypes'
  BY <1>1 DEF LogTypes, WorkerAt
<1>3. C!Callers = {"worker", "manual"} /\ ~C!Busy("manual")
  <2>1. C!Callers = {"worker", "manual"} /\ (C!Busy("manual") <=> holder = {"manual"})
    BY DEF LockInv, C!Callers
  <2> QED
    BY <2>1
<1>4. /\ ~C!Busy("manual")' /\ (C!Busy("worker")' <=> phase'["worker"] = "extracting")
  BY <1>1, <1>3 DEF C!Busy
<1>5. \A a \in C!Callers : C!Busy(a)' <=> holder' = {a}
  <2>1. C!Busy("worker")' <=> holder' = {"worker"}
    BY <1>1, <1>4
  <2>2. ~(holder' = {"manual"})
    BY <1>1
  <2> QED
    BY <1>3, <1>4, <2>1, <2>2
<1>6. holder' = {} \/ \E a \in C!Callers : holder' = {a}
  BY <1>1, <1>3
<1>7. phase'["worker"] # "none"
  BY <1>1
<1> QED
  BY <1>2, <1>5, <1>6, <1>7 DEF LockInv

\* The types of the rest, and the lock.
LEMMA ControlStep ==
    ASSUME C!ConsolidationAssumption, IdsInv, LogTypes, LockInv, C!Next
    PROVE  LogTypes' /\ LockInv'
<1>1. /\ cursor \in 0..MaxId /\ savedCursor \in 0..MaxId /\ MaxId \in Nat /\ MaxQueue \in Nat
      /\ alive \in BOOLEAN /\ C!Callers = {"worker", "manual"}
      /\ phase \in [C!Callers -> WorkerAt \cup ManualAt] /\ draft \in [C!Callers -> Drafts]
      /\ phase["worker"] \in WorkerAt /\ phase["manual"] \in ManualAt
      /\ queue \in 0..MaxQueue /\ history \subseteq SUBSET Nat /\ cursor \in Nat
  BY DEF LogTypes, IdsInv, IdsTypes, C!ConsolidationAssumption, C!Callers
<1> DEFINE Goal == LogTypes' /\ LockInv'
<1>2. ASSUME NEW requests \in BOOLEAN, C!EndTurn(requests) PROVE Goal
  <2>1. CASE requests
    BY <1>1, <1>2, <2>1, RequestControl DEF C!EndTurn
  <2>2. CASE ~requests
    BY <1>1, <1>2, <2>2, SameControl DEF C!EndTurn
  <2> QED
    BY <2>1, <2>2
<1>3. CASE C!StreamStart \/ C!StreamStop \/ C!Push
  BY <1>1, <1>3, SameControl DEF C!StreamStart, C!StreamStop, C!Push
<1>4. CASE C!StreamEnd
  BY <1>1, <1>4, RequestControl DEF C!StreamEnd
<1>5. ASSUME NEW sources, C!Undo(sources) PROVE Goal
  <2>1. cursor' \in Nat /\ cursor' <= cursor
    BY <1>1, <1>5, UndoShape
  <2>2. cursor' \in 0..MaxId
    BY <1>1, <2>1
  <2>3. UNCHANGED <<alive, phase, draft, holder, queue, history>> /\ savedCursor' = cursor'
    BY <1>5 DEF C!Undo
  <2> QED
    BY <2>2, <2>3, SameControl
<1>6. ASSUME NEW w, C!Trim(w) PROVE Goal
  BY <1>1, <1>6, SameControl DEF C!Trim
<1>7. CASE C!WorkerRun
  BY <1>1, <1>7, ServeControl, PhasesAlive DEF C!WorkerRun, C!Unlocked
<1>8. CASE C!WorkerEnd
  <2>1. /\ phase["worker"] = "ending" /\ UNCHANGED <<alive, draft, holder, queue, history, cursor, savedCursor>>
        /\ phase' = [phase EXCEPT !["worker"] = IF queue > 0 THEN "waiting" ELSE "none"]
    BY <1>8 DEF C!WorkerEnd
  <2>2. /\ phase' \in [C!Callers -> WorkerAt \cup ManualAt] /\ phase'["manual"] = phase["manual"]
        /\ phase'["worker"] = (IF queue > 0 THEN "waiting" ELSE "none")
    BY <1>1, <2>1 DEF WorkerAt
  <2>3. \A a \in C!Callers : C!Busy(a)' <=> C!Busy(a)
    BY <1>1, <2>1, <2>2 DEF C!Busy
  <2>4. alive
    BY <1>1, <2>1, PhasesAlive
  <2>5. LogTypes'
    BY <2>1, <2>2 DEF LogTypes, WorkerAt
  <2>6. LockInv'
    BY <2>1, <2>2, <2>3, <2>4 DEF LockInv
  <2> QED
    BY <2>5, <2>6
<1>9. CASE C!ManualAsk
  <2>1. /\ alive /\ phase["manual"] = "none"
        /\ UNCHANGED <<alive, draft, holder, queue, history, cursor, savedCursor>>
        /\ phase' = [phase EXCEPT !["manual"] = "waiting"]
    BY <1>9 DEF C!ManualAsk
  <2>2. /\ phase' \in [C!Callers -> WorkerAt \cup ManualAt] /\ phase'["worker"] = phase["worker"]
        /\ phase'["manual"] = "waiting"
    BY <1>1, <2>1 DEF ManualAt
  <2>3. \A a \in C!Callers : C!Busy(a)' <=> C!Busy(a)
    BY <1>1, <2>1, <2>2 DEF C!Busy
  <2>5. LogTypes'
    BY <2>1, <2>2 DEF LogTypes, ManualAt
  <2>6. LockInv'
    BY <2>1, <2>2, <2>3 DEF LockInv
  <2> QED
    BY <2>5, <2>6
<1>10. ASSUME NEW kind \in Kinds, C!ManualRun(kind) PROVE Goal
  <2>0. /\ phase["manual"] = "waiting" /\ holder = {} /\ alive
        /\ UNCHANGED <<alive, queue, history, cursor, savedCursor>>
    BY <1>1, <1>10, PhasesAlive DEF C!ManualRun, C!Unlocked
  <2>1. CASE C!HasWindow(kind)
    <3>1. /\ phase' = [phase EXCEPT !["manual"] = "extracting"]
          /\ draft' = [draft EXCEPT !["manual"] = C!Window(kind)] /\ holder' = {"manual"}
      BY <1>10, <2>0, <2>1 DEF C!ManualRun
    <3>2. C!Window(kind) \in Drafts
      BY <1>1, <2>1, WindowFacts
    <3>3. draft' \in [C!Callers -> Drafts]
      BY <1>1, <3>1, <3>2
    <3>4. /\ phase' \in [C!Callers -> WorkerAt \cup ManualAt] /\ phase'["worker"] = phase["worker"]
          /\ phase'["manual"] = "extracting"
      BY <1>1, <3>1 DEF ManualAt
    <3>5. LogTypes'
      BY <2>0, <3>3, <3>4 DEF LogTypes, ManualAt
    <3>6. ~C!Busy("worker")
      <4>1. C!Busy("worker") <=> holder = {"worker"}
        BY <1>1 DEF LockInv
      <4> QED
        BY <2>0, <4>1
    <3>7. \A a \in C!Callers : C!Busy(a)' <=> holder' = {a}
      <4>1. C!Busy("manual")' /\ ~C!Busy("worker")'
        BY <3>4, <3>6 DEF C!Busy
      <4>2. holder' = {"manual"} /\ ~(holder' = {"worker"})
        BY <3>1
      <4> QED
        BY <1>1, <4>1, <4>2
    <3>8. LockInv'
      BY <1>1, <2>0, <3>1, <3>4, <3>7 DEF LockInv
    <3> QED
      BY <3>5, <3>8
  <2>2. CASE ~C!HasWindow(kind)
    <3>1. C!Leave("manual", "none")
      BY <1>10, <2>2 DEF C!ManualRun
    <3>2. /\ phase' \in [C!Callers -> WorkerAt \cup ManualAt]
          /\ phase'["worker"] \in WorkerAt /\ phase'["manual"] \in ManualAt
          /\ draft' \in [C!Callers -> Drafts] /\ phase'["worker"] = phase["worker"]
          /\ holder' = {} \/ \E b \in C!Callers : holder' = {b}
          /\ \A b \in C!Callers : C!Busy(b)' <=> holder' = {b}
      BY <1>1, <3>1, LeaveTypes DEF ManualAt
    <3>3. LogTypes'
      BY <2>0, <3>2 DEF LogTypes
    <3>4. LockInv'
      BY <2>0, <3>2 DEF LockInv
    <3> QED
      BY <3>3, <3>4
  <2> QED
    BY <2>1, <2>2
<1>11. ASSUME NEW a \in C!Callers, NEW to, C!Leave(a, to), phase[a] # "none",
              to \in (IF a = "worker" THEN {"ending"} ELSE {"none", "saving"}),
              UNCHANGED <<alive, queue, history, cursor, savedCursor>>
       PROVE  Goal
  <2>1. /\ phase' \in [C!Callers -> WorkerAt \cup ManualAt]
        /\ phase'["worker"] \in WorkerAt /\ phase'["manual"] \in ManualAt
        /\ draft' \in [C!Callers -> Drafts] /\ phase'[a] = to
        /\ \A b \in C!Callers \ {a} : phase'[b] = phase[b]
        /\ holder' = {} \/ \E b \in C!Callers : holder' = {b}
        /\ \A b \in C!Callers : C!Busy(b)' <=> holder' = {b}
    <3>1. to \in (IF a = "worker" THEN WorkerAt ELSE ManualAt) \ {"extracting", "emitting"}
      BY <1>11 DEF WorkerAt, ManualAt
    <3> QED
      BY <1>11, <3>1, LeaveTypes
  <2>2. alive
    BY <1>1, <1>11, PhasesAlive
  <2>3. queue' > 0 => phase'["worker"] # "none"
    <3>1. CASE a = "worker"
      BY <1>11, <2>1, <3>1
    <3>2. CASE a = "manual"
      BY <1>1, <1>11, <2>1, <3>2 DEF LockInv
    <3> QED
      BY <1>1, <3>1, <3>2
  <2>4. LogTypes'
    BY <1>11, <2>1 DEF LogTypes
  <2>5. LockInv'
    BY <1>11, <2>1, <2>2, <2>3 DEF LockInv
  <2> QED
    BY <2>4, <2>5
<1>12. ASSUME NEW a \in C!Callers, C!Skip(a) PROVE Goal
  <2>1. CASE a = "worker"
    <3>1. holder = {"worker"} /\ alive
      BY <1>1, <1>12, <2>1, PhasesAlive DEF C!Skip, LockInv, C!Busy
    <3> QED
      BY <1>1, <1>12, <2>1, <3>1, ServeControl DEF C!Skip
  <2>2. CASE a = "manual"
    BY <1>11, <1>12, <2>2 DEF C!Skip
  <2> QED
    BY <1>1, <2>1, <2>2
<1>13. ASSUME NEW a \in C!Callers, C!Commit(a) PROVE Goal
  <2>1. /\ phase[a] = "extracting" /\ phase' = [phase EXCEPT ![a] = "emitting"]
        /\ cursor' = draft[a].upTo /\ history' = history \cup {draft[a].ids}
        /\ UNCHANGED <<alive, savedCursor, queue, draft, holder>>
    BY <1>13 DEF C!Commit, C!CursorOf
  <2>2. draft[a] \in Drafts /\ draft[a].upTo \in 0..MaxId /\ draft[a].ids \in SUBSET Nat
    BY <1>1 DEF Drafts
  <2>3. /\ phase' \in [C!Callers -> WorkerAt \cup ManualAt] /\ phase'[a] = "emitting"
        /\ \A b \in C!Callers \ {a} : phase'[b] = phase[b]
    BY <1>1, <2>1 DEF WorkerAt
  <2>4. phase'["worker"] \in WorkerAt /\ phase'["manual"] \in ManualAt
    BY <1>1, <2>3 DEF WorkerAt, ManualAt
  <2>5. LogTypes'
    BY <1>1, <2>1, <2>2, <2>3, <2>4 DEF LogTypes
  <2>6. \A b \in C!Callers : C!Busy(b)' <=> C!Busy(b)
    BY <2>1, <2>3 DEF C!Busy
  <2>7. alive
    BY <1>1, <2>1, PhasesAlive
  <2>8. queue' > 0 => phase'["worker"] # "none"
    BY <1>1, <2>1, <2>3 DEF LockInv
  <2>9. LockInv'
    BY <2>1, <2>6, <2>7, <2>8 DEF LockInv
  <2> QED
    BY <2>5, <2>9
<1>14. ASSUME NEW a \in C!Callers, C!Emitted(a) PROVE Goal
  <2>1. CASE a = "worker"
    <3>1. holder = {"worker"} /\ alive
      BY <1>1, <1>14, <2>1, PhasesAlive DEF C!Emitted, LockInv, C!Busy
    <3> QED
      BY <1>1, <1>14, <2>1, <3>1, ServeControl DEF C!Emitted
  <2>2. CASE a = "manual"
    BY <1>11, <1>14, <2>2 DEF C!Emitted
  <2> QED
    BY <1>1, <2>1, <2>2
<1>15. ASSUME NEW a \in C!Callers, C!EmitFails(a) PROVE Goal
  <2>1. CASE a = "worker"
    BY <1>11, <1>15, <2>1 DEF C!EmitFails
  <2>2. CASE a = "manual"
    BY <1>11, <1>15, <2>2 DEF C!EmitFails
  <2> QED
    BY <1>1, <2>1, <2>2
<1>16. CASE C!ManualSave
  <2>1. /\ phase["manual"] = "saving" /\ savedCursor' = cursor
        /\ UNCHANGED <<alive, draft, holder, queue, history, cursor>>
        /\ phase' = [phase EXCEPT !["manual"] = "none"]
    BY <1>16 DEF C!ManualSave
  <2>2. /\ phase' \in [C!Callers -> WorkerAt \cup ManualAt] /\ phase'["worker"] = phase["worker"]
        /\ phase'["manual"] = "none"
    BY <1>1, <2>1 DEF ManualAt
  <2>3. \A a \in C!Callers : C!Busy(a)' <=> C!Busy(a)
    BY <1>1, <2>1, <2>2 DEF C!Busy
  <2>4. alive
    BY <1>1, <2>1, PhasesAlive
  <2>5. LogTypes'
    BY <1>1, <2>1, <2>2 DEF LogTypes, ManualAt
  <2>6. LockInv'
    BY <2>1, <2>2, <2>3, <2>4 DEF LockInv
  <2> QED
    BY <2>5, <2>6
<1>17. CASE C!ManualTimeout
  BY <1>1, <1>11, <1>17 DEF C!ManualTimeout
<1>18. ASSUME NEW w, C!Crash(w) PROVE Goal
  <2>1. /\ w \subseteq {draft[a].ids : a \in C!Callers}
        /\ alive' = FALSE /\ history' = history \cup w /\ cursor' = 0 /\ queue' = 0
        /\ phase' = [a \in C!Callers |-> "none"] /\ draft' = [a \in C!Callers |-> C!NoDraft]
        /\ holder' = {} /\ savedCursor' = savedCursor
    <3>1. {draft[a].ids : a \in {b \in C!Callers : phase[b] = "extracting"}}
            \subseteq {draft[a].ids : a \in C!Callers}
      OBVIOUS
    <3> QED
      BY <1>18, <3>1 DEF C!Crash
  <2>2. \A a \in C!Callers : draft[a].ids \in SUBSET Nat
    BY <1>1 DEF Drafts
  <2>3. history' \subseteq SUBSET Nat
    <3> SUFFICES ASSUME NEW h \in history' PROVE h \in SUBSET Nat
      OBVIOUS
    <3>1. h \in history \/ \E a \in C!Callers : h = draft[a].ids
      BY <2>1
    <3> QED
      BY <1>1, <2>2, <3>1
  <2>4. C!NoDraft \in Drafts
    BY <1>1 DEF C!NoDraft, Drafts
  <2>5. LogTypes'
    BY <1>1, <2>1, <2>3, <2>4 DEF LogTypes, WorkerAt, ManualAt
  <2>6. \A a \in C!Callers : phase'[a] = "none" /\ ~C!Busy(a)' /\ holder' # {a}
    BY <2>1 DEF C!Busy
  <2>7. LockInv'
    BY <2>1, <2>6 DEF LockInv
  <2> QED
    BY <2>5, <2>7
<1>19. CASE C!Restart
  <2>1. /\ UNCHANGED <<phase, draft, holder, queue, history, savedCursor>>
        /\ cursor' = savedCursor /\ alive' = TRUE
    BY <1>19 DEF C!Restart
  <2>2. LogTypes'
    BY <1>1, <2>1 DEF LogTypes
  <2>3. LockInv'
    BY <2>1 DEF LockInv, C!Busy
  <2> QED
    BY <2>2, <2>3
<1> QED
  BY <1>2, <1>3, <1>4, <1>5, <1>6, <1>7, <1>8, <1>9, <1>10, <1>12, <1>13, <1>14, <1>15, <1>16,
     <1>17, <1>18, <1>19 DEF C!Next, Kinds

\* Ids are given once: those that come are not smaller than next_seq was.
LEMMA SeqGrows ==
    ASSUME C!ConsolidationAssumption, IdsInv, C!Next
    PROVE  /\ nextSeq' \in Nat /\ nextSeq <= nextSeq'
           /\ \A n \in stream' : n \in stream \/ n >= nextSeq
<1>1. nextSeq \in Nat
  BY LogBounds DEF IdsInv
<1>2. CASE UNCHANGED <<nextSeq, stream>>
  BY <1>1, <1>2
<1>3. ASSUME NEW requests, C!EndTurn(requests) PROVE nextSeq' = nextSeq + 2 /\ stream' = stream
  BY <1>3 DEF C!EndTurn
<1>4. CASE C!StreamStart
  <2>1. nextSeq' = nextSeq + 2 /\ stream' = {nextSeq, nextSeq + 1}
    BY <1>4 DEF C!StreamStart
  <2> QED
    BY <1>1, <2>1
<1>5. CASE C!StreamEnd \/ C!StreamStop
  <2>1. nextSeq' = nextSeq /\ stream' = {}
    BY <1>5 DEF C!StreamEnd, C!StreamStop
  <2> QED
    BY <1>1, <2>1
<1>6. C!Push => nextSeq' = nextSeq + 1 /\ stream' = stream
  BY DEF C!Push
<1>7. ASSUME NEW w, C!Crash(w) PROVE nextSeq' = nextSeq /\ stream' = {}
  BY <1>7 DEF C!Crash
<1>8. ASSUME NEW x, C!Undo(x) \/ C!Trim(x) \/ C!ManualRun(x) \/ C!Skip(x) \/ C!Commit(x)
                    \/ C!Emitted(x) \/ C!EmitFails(x)
      PROVE  UNCHANGED <<nextSeq, stream>>
  BY <1>8 DEF C!Undo, C!Trim, C!ManualRun, C!Skip, C!Commit, C!Emitted, C!EmitFails, C!log
<1>9. C!WorkerRun \/ C!WorkerEnd \/ C!ManualAsk \/ C!ManualSave \/ C!ManualTimeout \/ C!Restart
        => UNCHANGED <<nextSeq, stream>>
  BY DEF C!WorkerRun, C!WorkerEnd, C!ManualAsk, C!ManualSave, C!ManualTimeout, C!Restart, C!log
<1>10. CASE nextSeq' = nextSeq + 2 /\ stream' = stream
  BY <1>1, <1>10
<1>11. CASE nextSeq' = nextSeq + 1 /\ stream' = stream
  BY <1>1, <1>11
<1>12. CASE nextSeq' = nextSeq /\ stream' = {}
  BY <1>1, <1>12
<1> QED
  BY <1>2, <1>3, <1>4, <1>5, <1>6, <1>7, <1>8, <1>9, <1>10, <1>11, <1>12 DEF C!Next

\* Windows are taken from the cache, and come into the history from the drafts.
NewDraft(a) == UNCHANGED C!log /\ draft'[a].ids \subseteq C!Ids(msgs)

LEMMA ServeDrafts ==
    ASSUME C!ConsolidationAssumption, IdsInv, LogTypes, C!Serve(phase), UNCHANGED C!log
    PROVE  \A a \in C!Callers : draft'[a].ids \in {draft[a].ids, {}} \/ NewDraft(a)
<1>1. /\ phase'["worker"] \in {"extracting", "ending"} /\ draft'["manual"] = draft["manual"]
      /\ phase'["worker"] = "extracting" =>
            C!HasWindow("plain") /\ draft'["worker"] = C!Window("plain")
      /\ phase'["worker"] = "ending" => draft'["worker"] = C!NoDraft
  BY ServeTypes
<1>2. C!NoDraft.ids = {} /\ C!Callers = {"worker", "manual"} /\ cursor \in Nat
  BY DEF C!NoDraft, C!Callers, LogTypes, C!ConsolidationAssumption
<1>3. CASE phase'["worker"] = "extracting"
  <2>1. draft'["worker"].ids \subseteq C!Ids(msgs)
    BY <1>1, <1>2, <1>3, WindowFacts DEF Kinds
  <2> QED
    BY <1>1, <1>2, <2>1 DEF NewDraft
<1>4. CASE phase'["worker"] = "ending"
  BY <1>1, <1>2, <1>4
<1> QED
  BY <1>1, <1>3, <1>4

LEMMA WindowsCome ==
    ASSUME C!ConsolidationAssumption, IdsInv, LogTypes, LockInv, C!Next
    PROVE  /\ \A w \in history' : w \in history \/ \E a \in C!Callers : w = draft[a].ids
           /\ \A a \in C!Callers : draft'[a].ids \in {draft[a].ids, {}} \/ NewDraft(a)
<1>1. /\ C!NoDraft.ids = {} /\ C!Callers = {"worker", "manual"} /\ cursor \in Nat
      /\ draft \in [C!Callers -> Drafts]
  BY DEF C!NoDraft, C!Callers, LogTypes, C!ConsolidationAssumption
<1> DEFINE Goal == /\ \A w \in history' : w \in history \/ \E a \in C!Callers : w = draft[a].ids
                   /\ \A a \in C!Callers : draft'[a].ids \in {draft[a].ids, {}} \/ NewDraft(a)
<1>2. CASE UNCHANGED <<history, draft>>
  BY <1>2
<1>3. ASSUME NEW requests, C!EndTurn(requests) PROVE UNCHANGED <<history, draft>>
  BY <1>3 DEF C!EndTurn
<1>4. C!StreamStart \/ C!StreamEnd \/ C!StreamStop \/ C!Push \/ C!WorkerEnd \/ C!ManualAsk
        \/ C!ManualSave \/ C!Restart => UNCHANGED <<history, draft>>
  BY DEF C!StreamStart, C!StreamEnd, C!StreamStop, C!Push, C!WorkerEnd, C!ManualAsk,
         C!ManualSave, C!Restart
<1>5. ASSUME NEW x, C!Undo(x) \/ C!Trim(x) PROVE UNCHANGED <<history, draft>>
  BY <1>5 DEF C!Undo, C!Trim
<1>6. ASSUME history' = history, C!Serve(phase), UNCHANGED C!log PROVE Goal
  BY <1>6, ServeDrafts
<1>7. ASSUME NEW a \in C!Callers, NEW to, C!Leave(a, to), history' = history PROVE Goal
  <2>1. draft' = [draft EXCEPT ![a] = C!NoDraft]
    BY <1>7 DEF C!Leave
  <2>2. \A b \in C!Callers : draft'[b].ids \in {draft[b].ids, {}}
    BY <1>1, <2>1
  <2> QED
    BY <1>7, <2>2
<1>8. CASE C!WorkerRun
  BY <1>6, <1>8 DEF C!WorkerRun
<1>9. ASSUME NEW kind \in Kinds, C!ManualRun(kind) PROVE Goal
  <2>0. history' = history /\ UNCHANGED C!log
    BY <1>9 DEF C!ManualRun
  <2>1. CASE C!HasWindow(kind)
    <3>1. draft' = [draft EXCEPT !["manual"] = C!Window(kind)]
      BY <1>9, <2>1 DEF C!ManualRun
    <3>2. C!Window(kind).ids \subseteq C!Ids(msgs)
      BY <1>1, <2>1, WindowFacts
    <3>3. draft'["manual"] = C!Window(kind) /\ draft'["worker"] = draft["worker"]
      BY <1>1, <3>1
    <3> QED
      BY <1>1, <2>0, <3>2, <3>3 DEF NewDraft
  <2>2. CASE ~C!HasWindow(kind)
    BY <1>1, <1>7, <1>9, <2>0, <2>2 DEF C!ManualRun
  <2> QED
    BY <2>1, <2>2
<1>10. ASSUME NEW a \in C!Callers, C!Skip(a) PROVE Goal
  BY <1>6, <1>7, <1>10 DEF C!Skip
<1>11. ASSUME NEW a \in C!Callers, C!Emitted(a) PROVE Goal
  BY <1>6, <1>7, <1>11 DEF C!Emitted
<1>12. ASSUME NEW a \in C!Callers, C!EmitFails(a) PROVE Goal
  BY <1>7, <1>12 DEF C!EmitFails
<1>13. CASE C!ManualTimeout
  BY <1>1, <1>7, <1>13 DEF C!ManualTimeout
<1>14. ASSUME NEW a \in C!Callers, C!Commit(a) PROVE Goal
  BY <1>14 DEF C!Commit
<1>15. ASSUME NEW w, C!Crash(w) PROVE Goal
  <2>1. /\ w \subseteq {draft[a].ids : a \in {b \in C!Callers : phase[b] = "extracting"}}
        /\ history' = history \cup w /\ draft' = [a \in C!Callers |-> C!NoDraft]
    BY <1>15 DEF C!Crash
  <2>2. \A v \in w : \E a \in C!Callers : v = draft[a].ids
    BY <2>1
  <2>3. \A a \in C!Callers : draft'[a].ids = {}
    BY <1>1, <2>1
  <2> QED
    BY <2>1, <2>2, <2>3
<1> HIDE DEF Goal
<1>16. Goal
  BY <1>2, <1>3, <1>4, <1>5, <1>8, <1>9, <1>10, <1>11, <1>12, <1>13, <1>14, <1>15
  DEF C!Next, Kinds, Goal
<1> QED
  BY <1>16 DEF Goal

LEMMA OldStep ==
    ASSUME C!ConsolidationAssumption, IdsInv, LogTypes, LockInv, OldInv, C!Next
    PROVE  OldInv'
<1>1. /\ nextSeq' \in Nat /\ nextSeq \in Nat /\ nextSeq <= nextSeq'
      /\ \A n \in stream' : n \in stream \/ n >= nextSeq
  BY SeqGrows, LogBounds DEF IdsInv
<1>2. /\ \A w \in history : w \subseteq Nat
      /\ \A a \in C!Callers : draft[a].ids \subseteq Nat
  <2>1. \A d \in Drafts : d.ids \subseteq Nat
    BY DEF Drafts
  <2> QED
    BY <2>1 DEF LogTypes
<1>3. ASSUME NEW ids, Old(ids), ids \subseteq Nat PROVE Old(ids)'
  <2>1. \A n \in ids : n \in Nat /\ n < nextSeq /\ n \notin stream
    BY <1>3 DEF Old
  <2>2. \A n \in ids : n < nextSeq' /\ n \notin stream'
    BY <1>1, <2>1
  <2> QED
    BY <2>2 DEF Old
<1>4. \A w \in history' : w \in history \/ \E a \in C!Callers : w = draft[a].ids
  BY WindowsCome
<1>5. \A a \in C!Callers : draft'[a].ids \in {draft[a].ids, {}} \/ NewDraft(a)
  BY WindowsCome
<1>6. ASSUME NEW w \in history' PROVE Old(w)'
  BY <1>2, <1>3, <1>4 DEF OldInv
<1>7. \A n \in C!Ids(msgs) : n < nextSeq /\ n \notin stream
  <2>1. C!Ids(msgs) \subseteq C!Ids(rows) /\ stream \cap C!Ids(msgs) = {}
        /\ \A i \in DOMAIN rows : rows[i].id < nextSeq
    BY DEF IdsInv
  <2>2. \A n \in C!Ids(rows) : n < nextSeq
    BY <2>1 DEF C!Ids
  <2> QED
    BY <2>1, <2>2
<1>8. ASSUME NEW a \in C!Callers
      PROVE  \A n \in draft'[a].ids : n < nextSeq' /\ n \notin stream'
  <2>1. CASE draft'[a].ids = draft[a].ids
    <3>1. Old(draft[a].ids) /\ draft[a].ids \subseteq Nat
      BY <1>2 DEF OldInv
    <3>2. PICK d : d = draft[a].ids
      OBVIOUS
    <3>3. \A n \in d : n \in Nat /\ n < nextSeq /\ n \notin stream
      BY <3>1, <3>2 DEF Old
    <3>4. \A n \in d : n < nextSeq' /\ n \notin stream'
      BY <1>1, <3>3
    <3> QED
      BY <2>1, <3>2, <3>4
  <2>2. CASE draft'[a].ids = {}
    BY <2>2
  <2>3. CASE NewDraft(a)
    <3>1. nextSeq' = nextSeq /\ stream' = stream /\ draft'[a].ids \subseteq C!Ids(msgs)
      BY <2>3 DEF NewDraft, C!log
    <3> QED
      BY <1>7, <3>1
  <2> QED
    BY <1>5, <2>1, <2>2, <2>3
<1>9. \A w \in history' : Old(w)'
  BY <1>6
<1>10. ASSUME NEW a \in C!Callers PROVE Old(draft[a].ids)'
  BY <1>8 DEF Old
<1> QED
  BY <1>9, <1>10 DEF OldInv

\* The messages that come into the cache come last, and are new to every window.
LEMMA NewMessages ==
    ASSUME C!ConsolidationAssumption, IdsInv,
           (\E requests : C!EndTurn(requests)) \/ C!Push \/ C!StreamEnd
    PROVE  /\ Len(msgs) <= Len(msgs') /\ \A i \in 1..Len(msgs) : msgs'[i] = msgs[i]
           /\ \A i \in (Len(msgs) + 1)..Len(msgs') :
                 msgs'[i].id >= nextSeq \/ msgs'[i].id \in stream
<1>1. nextSeq \in Nat /\ msgs \in Seq(Msgs) /\ Len(msgs) \in Nat
  BY LogBounds DEF IdsInv, IdsTypes
<1>2. ASSUME NEW t, NEW first \in Nat, InARow(t, first), msgs' = Longer(msgs, t),
             first >= nextSeq \/ \A n \in C!Ids(t) : n \in stream
      PROVE  /\ Len(msgs) <= Len(msgs') /\ \A i \in 1..Len(msgs) : msgs'[i] = msgs[i]
             /\ \A i \in (Len(msgs) + 1)..Len(msgs') :
                   msgs'[i].id >= nextSeq \/ msgs'[i].id \in stream
  <2>1. /\ Len(msgs') = Len(msgs) + Len(t) /\ Len(t) \in 1..2
        /\ \A i \in 1..Len(msgs) : msgs'[i] = msgs[i]
        /\ \A j \in (Len(msgs) + 1)..Len(msgs') :
              msgs'[j].id = first + (j - Len(msgs) - 1) /\ msgs'[j].id \in C!Ids(t)
    BY <1>1, <1>2, Extended
  <2>2. Len(msgs) <= Len(msgs')
    BY <1>1, <2>1
  <2>3. ASSUME NEW j \in (Len(msgs) + 1)..Len(msgs')
        PROVE  msgs'[j].id >= nextSeq \/ msgs'[j].id \in stream
    <3>1. CASE first >= nextSeq
      <4>1. msgs'[j].id = first + (j - Len(msgs) - 1)
        BY <2>1
      <4> QED
        BY <1>1, <2>1, <3>1, <4>1
    <3>2. CASE \A n \in C!Ids(t) : n \in stream
      BY <2>1, <3>2
    <3> QED
      BY <1>2, <3>1, <3>2
  <2> QED
    BY <2>1, <2>2, <2>3
<1>3. ASSUME NEW requests, C!EndTurn(requests)
      PROVE  msgs' = Longer(msgs, C!Turn(nextSeq)) /\ InARow(C!Turn(nextSeq), nextSeq)
  BY <1>1, <1>3, TurnInARow DEF C!EndTurn, Longer
<1>4. CASE \E requests : C!EndTurn(requests)
  <2>1. PICK t : t = C!Turn(nextSeq)
    OBVIOUS
  <2>2. msgs' = Longer(msgs, t) /\ InARow(t, nextSeq) /\ nextSeq >= nextSeq
    BY <1>1, <1>3, <1>4, <2>1
  <2> QED
    BY <1>1, <1>2, <2>2
<1>5. CASE C!Push
  <2>1. msgs' = Append(msgs, C!Message(nextSeq, "push"))
    BY <1>5 DEF C!Push
  <2>2. PICK t : InARow(t, nextSeq) /\ msgs' = Longer(msgs, t)
    BY <1>1, <2>1, PushInARow
  <2>3. nextSeq >= nextSeq
    BY <1>1
  <2> QED
    BY <1>1, <1>2, <2>2, <2>3
<1>6. CASE C!StreamEnd
  <2> DEFINE k == CHOOSE n \in stream : n + 1 \in stream
  <2>1. stream # {} /\ msgs' = Longer(msgs, C!Turn(k))
    BY <1>6 DEF C!StreamEnd, Longer
  <2> HIDE DEF k
  <2>2. k \in Nat /\ stream = {k, k + 1}
    <3>1. PICK n \in Nat : stream = {n, n + 1}
      BY <2>1 DEF IdsInv, IdsTypes
    <3>2. \A m \in stream : m + 1 \in stream => m = n
      BY <3>1
    <3>3. k \in stream /\ k + 1 \in stream
      BY <3>1 DEF k
    <3> QED
      BY <3>1, <3>2, <3>3
  <2>3. PICK t : t = C!Turn(k)
    OBVIOUS
  <2>4. InARow(t, k) /\ C!Ids(t) = stream
    BY <2>2, <2>3, TurnInARow
  <2>5. msgs' = Longer(msgs, t) /\ \A n \in C!Ids(t) : n \in stream
    BY <2>1, <2>3, <2>4
  <2> QED
    BY <1>2, <2>2, <2>4, <2>5
<1> QED
  BY <1>4, <1>5, <1>6

\* A window that is taken now; taking all of it moves the cursor back.
Started(a) ==
    \E kind \in Kinds :
        /\ C!HasWindow(kind) /\ draft'[a] = C!Window(kind)
        /\ kind = "archive" => C!Ids(msgs) \cap C!Summarised \subseteq reopened'

\* A step of the task or of the call that writes nothing.
CallerStep ==
    /\ alive /\ UNCHANGED <<alive, C!log, C!notes, cursor, history>>
    /\ savedCursor' \in {savedCursor, cursor} /\ reopened \subseteq reopened'
    /\ \A a \in C!Callers : Extracting(a)' =>
          (Extracting(a) /\ draft'[a] = draft[a]) \/ Started(a)

LEMMA CallerSteps ==
    ASSUME C!ConsolidationAssumption, IdsInv, LogTypes, LockInv,
           \/ C!WorkerRun \/ C!WorkerEnd \/ C!ManualAsk \/ C!ManualSave \/ C!ManualTimeout
           \/ \E kind \in Kinds : C!ManualRun(kind)
           \/ \E a \in C!Callers : C!Skip(a) \/ C!Emitted(a) \/ C!EmitFails(a)
    PROVE  CallerStep
<1>1. /\ C!Callers = {"worker", "manual"} /\ alive \in BOOLEAN
      /\ phase \in [C!Callers -> WorkerAt \cup ManualAt] /\ draft \in [C!Callers -> Drafts]
  BY DEF LogTypes, IdsInv, IdsTypes, C!Callers
<1>2. ASSUME C!Serve(phase), alive, UNCHANGED <<alive, C!log, C!notes, cursor, history, reopened>>,
             savedCursor' \in {savedCursor, cursor}
      PROVE  CallerStep
  <2>1. /\ phase'["worker"] \in {"extracting", "ending"} /\ phase'["manual"] = phase["manual"]
        /\ draft'["manual"] = draft["manual"]
        /\ phase'["worker"] = "extracting" =>
              C!HasWindow("plain") /\ draft'["worker"] = C!Window("plain")
    BY <1>2, ServeTypes
  <2>2. Extracting("manual")' => Extracting("manual") /\ draft'["manual"] = draft["manual"]
    BY <2>1 DEF Extracting
  <2>3. Extracting("worker")' => Started("worker")
    BY <2>1 DEF Extracting, Started, Kinds
  <2> QED
    BY <1>1, <1>2, <2>2, <2>3 DEF CallerStep
<1>3. ASSUME NEW a \in C!Callers, NEW to, C!Leave(a, to), to # "extracting", alive,
             UNCHANGED <<alive, C!log, C!notes, cursor, history>>, reopened \subseteq reopened',
             savedCursor' \in {savedCursor, cursor}
      PROVE  CallerStep
  <2>1. phase' = [phase EXCEPT ![a] = to] /\ draft' = [draft EXCEPT ![a] = C!NoDraft]
    BY <1>3 DEF C!Leave
  <2>2. /\ phase'[a] = to
        /\ \A b \in C!Callers \ {a} : phase'[b] = phase[b] /\ draft'[b] = draft[b]
    BY <1>1, <2>1
  <2>3. \A b \in C!Callers : Extracting(b)' => Extracting(b) /\ draft'[b] = draft[b]
    BY <1>3, <2>2 DEF Extracting
  <2> QED
    BY <1>3, <2>3 DEF CallerStep
<1>4. ASSUME NEW a \in C!Callers, NEW to, phase' = [phase EXCEPT ![a] = to], to # "extracting",
             alive, UNCHANGED <<alive, C!log, C!notes, cursor, history, draft, reopened>>,
             savedCursor' \in {savedCursor, cursor}
      PROVE  CallerStep
  <2>1. phase'[a] = to /\ \A b \in C!Callers \ {a} : phase'[b] = phase[b]
    BY <1>1, <1>4
  <2>2. \A b \in C!Callers : Extracting(b)' => Extracting(b) /\ draft'[b] = draft[b]
    BY <1>4, <2>1 DEF Extracting
  <2> QED
    BY <1>4, <2>2 DEF CallerStep
<1>5. CASE C!WorkerRun
  BY <1>1, <1>2, <1>5, PhasesAlive DEF C!WorkerRun
<1>6. CASE C!WorkerEnd
  <2>1. /\ phase["worker"] = "ending"
        /\ UNCHANGED <<alive, C!log, C!notes, cursor, history, draft, reopened, savedCursor>>
        /\ phase' = [phase EXCEPT !["worker"] = IF queue > 0 THEN "waiting" ELSE "none"]
    BY <1>6 DEF C!WorkerEnd
  <2>2. alive
    BY <1>1, <2>1, PhasesAlive
  <2>3. PICK to : to = (IF queue > 0 THEN "waiting" ELSE "none") /\ to # "extracting"
    OBVIOUS
  <2> QED
    BY <1>1, <1>4, <2>1, <2>2, <2>3
<1>7. CASE C!ManualAsk
  BY <1>1, <1>4, <1>7 DEF C!ManualAsk
<1>8. CASE C!ManualSave
  BY <1>1, <1>4, <1>8, PhasesAlive DEF C!ManualSave
<1>9. CASE C!ManualTimeout
  BY <1>1, <1>3, <1>9, PhasesAlive DEF C!ManualTimeout
<1>10. ASSUME NEW kind \in Kinds, C!ManualRun(kind) PROVE CallerStep
  <2>1. /\ alive /\ UNCHANGED <<alive, C!log, C!notes, cursor, history, savedCursor>>
        /\ reopened \subseteq reopened'
        /\ kind = "archive" => C!Ids(msgs) \cap C!Summarised \subseteq reopened'
    <3>1. phase["manual"] = "waiting"
      BY <1>10 DEF C!ManualRun
    <3>2. alive
      BY <1>1, <3>1, PhasesAlive
    <3> QED
      BY <1>10, <3>2 DEF C!ManualRun
  <2>2. CASE C!HasWindow(kind)
    <3>1. /\ phase' = [phase EXCEPT !["manual"] = "extracting"]
          /\ draft' = [draft EXCEPT !["manual"] = C!Window(kind)]
      BY <1>10, <2>2 DEF C!ManualRun
    <3>2. /\ phase'["worker"] = phase["worker"] /\ draft'["worker"] = draft["worker"]
          /\ draft'["manual"] = C!Window(kind)
      BY <1>1, <3>1
    <3>3. Started("manual")
      BY <2>1, <2>2, <3>2 DEF Started
    <3>4. Extracting("worker")' => Extracting("worker") /\ draft'["worker"] = draft["worker"]
      BY <3>2 DEF Extracting
    <3> QED
      BY <1>1, <2>1, <3>3, <3>4 DEF CallerStep
  <2>3. CASE ~C!HasWindow(kind)
    <3>1. C!Leave("manual", "none")
      BY <1>10, <2>3 DEF C!ManualRun
    <3> QED
      BY <1>1, <1>3, <2>1, <3>1
  <2> QED
    BY <2>2, <2>3
<1>11. ASSUME NEW a \in C!Callers, C!Skip(a) PROVE CallerStep
  <2>1. phase[a] = "extracting" /\ alive
    BY <1>1, <1>11, PhasesAlive DEF C!Skip
  <2>2. CASE a = "worker"
    BY <1>2, <1>11, <2>1, <2>2 DEF C!Skip
  <2>3. CASE a # "worker"
    BY <1>3, <1>11, <2>1, <2>3 DEF C!Skip
  <2> QED
    BY <2>2, <2>3
<1>12. ASSUME NEW a \in C!Callers, C!Emitted(a) PROVE CallerStep
  <2>1. phase[a] = "emitting" /\ alive
    BY <1>1, <1>12, PhasesAlive DEF C!Emitted
  <2>2. CASE a = "worker"
    BY <1>2, <1>12, <2>1, <2>2 DEF C!Emitted
  <2>3. CASE a # "worker"
    BY <1>3, <1>12, <2>1, <2>3 DEF C!Emitted
  <2> QED
    BY <2>2, <2>3
<1>13. ASSUME NEW a \in C!Callers, C!EmitFails(a) PROVE CallerStep
  <2>1. phase[a] = "emitting" /\ alive
    BY <1>1, <1>13, PhasesAlive DEF C!EmitFails
  <2>2. PICK to : to = (IF a = "worker" THEN "ending" ELSE "none") /\ to # "extracting"
    OBVIOUS
  <2>3. C!Leave(a, to) /\ UNCHANGED <<alive, C!log, C!notes, cursor, history, reopened, savedCursor>>
    BY <1>13, <2>2 DEF C!EmitFails
  <2> QED
    BY <1>3, <2>1, <2>2, <2>3
<1> QED
  BY <1>5, <1>6, <1>7, <1>8, <1>9, <1>10, <1>11, <1>12, <1>13

\* The first p messages of s are among the first n of r.
Among(s, p, r, n) == \A q \in 1..p : \E j \in 1..n : r[j].id = s[q].id

\* Different messages have different places.
LEMMA Places ==
    ASSUME NEW s \in Seq(Msgs), NEW r \in Seq(Msgs), Distinct(s),
           NEW p \in Nat, p <= Len(s), NEW n \in Nat,
           Among(s, p, r, n)
    PROVE  p <= n
<1> DEFINE f == [q \in 1..p |-> CHOOSE j \in 1..n : r[j].id = s[q].id]
<1>1. \A q \in 1..p : f[q] \in 1..n /\ r[f[q]].id = s[q].id
  BY DEF Among
<1>2. f \in [1..p -> 1..n]
  BY <1>1
<1> HIDE DEF f
<1>3. Len(s) \in Nat /\ DOMAIN s = 1..Len(s)
  BY MsgBounds
<1>4. \A x, y \in 1..p : x # y => f[x] # f[y]
  <2> SUFFICES ASSUME NEW x \in 1..p, NEW y \in 1..p, x # y, f[x] = f[y] PROVE FALSE
    OBVIOUS
  <2>1. s[x].id = s[y].id
    BY <1>1
  <2>2. x \in DOMAIN s /\ y \in DOMAIN s
    BY <1>3
  <2> QED
    BY <2>1, <2>2 DEF Distinct
<1>5. /\ IsFiniteSet(1..p) /\ Cardinality(1..p) = p
      /\ IsFiniteSet(1..n) /\ Cardinality(1..n) = n
  <2>1. p \in Int /\ n \in Int /\ 1 \in Int
    OBVIOUS
  <2>2. Cardinality(1..p) = (IF 1 > p THEN 0 ELSE p - 1 + 1)
        /\ Cardinality(1..n) = (IF 1 > n THEN 0 ELSE n - 1 + 1)
        /\ IsFiniteSet(1..p) /\ IsFiniteSet(1..n)
    BY <2>1, FS_Interval
  <2> QED
    BY <2>2
<1>6. ~(Cardinality(1..n) < Cardinality(1..p))
  <2> SUFFICES ASSUME Cardinality(1..n) < Cardinality(1..p) PROVE FALSE
    OBVIOUS
  <2> DEFINE S == 1..p
             T == 1..n
  <2>0. /\ IsFiniteSet(S) /\ IsFiniteSet(T) /\ Cardinality(T) < Cardinality(S)
        /\ f \in [S -> T]
    BY <1>2, <1>5
  <2> HIDE DEF S, T
  <2>2. \E x, y \in S : x # y /\ f[x] = f[y]
    BY <2>0, FS_PigeonHole
  <2>1. \E x, y \in 1..p : x # y /\ f[x] = f[y]
    BY <2>2 DEF S
  <2> QED
    BY <1>4, <2>1
<1> QED
  BY <1>5, <1>6

\* A message is not later in the database than in the cache: what was below the cursor
\* in the one is so in the other.
LEMMA CrashLow ==
    ASSUME C!ConsolidationAssumption, IdsInv, C!CacheIsRight, NEW c \in Nat, Low(msgs, c, Done)
    PROVE  Low(rows, c, Done \cup stream)
<1>1. /\ rows \in Seq(Msgs) /\ msgs \in Seq(Msgs) /\ Len(rows) \in Nat /\ Len(msgs) \in Nat
      /\ DOMAIN rows = 1..Len(rows) /\ DOMAIN msgs = 1..Len(msgs)
      /\ \A i \in DOMAIN rows : rows[i].id \in Nat
      /\ \A i \in DOMAIN msgs : msgs[i].id \in Nat
      /\ Distinct(msgs) /\ Sorted(rows) /\ OddFirst(msgs, ghosts)
  BY LogBounds DEF IdsInv, IdsTypes
<1>2. \A q \in 1..Len(msgs) : msgs[q].id \notin stream /\ \E j \in 1..Len(rows) : rows[j].id = msgs[q].id
  <2> SUFFICES ASSUME NEW q \in 1..Len(msgs)
               PROVE  msgs[q].id \notin stream /\ \E j \in 1..Len(rows) : rows[j].id = msgs[q].id
    OBVIOUS
  <2>1. msgs[q].id \in C!Ids(msgs)
    BY <1>1 DEF C!Ids
  <2>2. msgs[q].id \in C!Ids(rows) /\ msgs[q].id \notin stream
    BY <2>1 DEF IdsInv
  <2> QED
    BY <1>1, <2>2 DEF C!Ids
<1>3. Len(msgs) <= Len(rows)
  <2>1. Among(msgs, Len(msgs), rows, Len(rows)) /\ Len(msgs) <= Len(msgs)
    BY <1>1, <1>2 DEF Among
  <2> QED
    BY <1>1, <2>1, Places
<1>4. c <= Len(msgs) /\ \A i \in 1..c : msgs[i].id \in Done
  BY DEF Low
<1>5. ASSUME NEW i \in 1..c, rows[i].id \notin stream, rows[i].id \notin ghosts
      PROVE  rows[i].id \in Done
  <2>1. i \in 1..Len(rows)
    BY <1>1, <1>3, <1>4
  <2>2. i \in C!Settled(rows)
    BY <1>1, <1>5, <2>1 DEF C!Settled
  <2>3. PICK p \in C!Settled(msgs) : msgs[p].id = rows[i].id
    BY <2>2 DEF C!CacheIsRight
  <2>4. p \in 1..Len(msgs)
    BY <1>1, <2>3 DEF C!Settled
  <2>5. ASSUME NEW q \in 1..p PROVE \E j \in 1..i : rows[j].id = msgs[q].id
    <3>1. q \in 1..Len(msgs) /\ (q = p \/ q < p)
      BY <1>1, <2>4
    <3>2. CASE q = p
      <4>1. i \in 1..i /\ rows[i].id = msgs[q].id
        BY <2>3, <3>2
      <4> QED
        BY <4>1
    <3>3. CASE q < p
      <4>1. msgs[q].id < msgs[p].id
        <5>1. CASE msgs[q].id \in ghosts
          BY <1>1, <2>4, <3>1, <3>3, <5>1 DEF OddFirst
        <5>2. CASE msgs[q].id \notin ghosts
          <6>1. q \in C!Settled(msgs)
            BY <1>1, <1>2, <3>1, <5>2 DEF C!Settled
          <6> QED
            BY <2>3, <3>3, <6>1 DEF C!CacheIsRight
        <5> QED
          BY <5>1, <5>2
      <4>2. PICK j \in 1..Len(rows) : rows[j].id = msgs[q].id
        BY <1>2, <3>1
      <4>3. rows[j].id < rows[i].id
        BY <2>3, <4>1, <4>2
      <4>4. ~(i < j) /\ i # j
        <5>1. i < j => rows[i].id < rows[j].id
          BY <1>1, <2>1, <4>2 DEF Sorted
        <5>2. rows[i].id \in Nat /\ rows[j].id \in Nat
          BY <1>1, <2>1
        <5> QED
          BY <4>3, <5>1, <5>2
      <4>5. j \in 1..i
        BY <1>1, <2>1, <4>4
      <4> QED
        BY <4>2, <4>5
    <3> QED
      BY <3>1, <3>2, <3>3
  <2>6. p <= i
    <3>1. p \in Nat /\ p <= Len(msgs) /\ i \in Nat
      BY <1>1, <2>4
    <3>2. Among(msgs, p, rows, i)
      BY <2>5 DEF Among
    <3> QED
      BY <1>1, <3>1, <3>2, Places
  <2>7. p \in 1..c
    BY <1>1, <2>4, <2>6
  <2> QED
    BY <1>4, <2>3, <2>7
<1>6. \A i \in 1..c : rows[i].id \in Done \cup stream
  BY <1>5 DEF Done
<1>7. c <= Len(rows)
  BY <1>1, <1>3, <1>4
<1> QED
  BY <1>6, <1>7 DEF Low

LEMMA LowKept ==
    ASSUME NEW s, NEW u, NEW c, NEW d, NEW e, Low(s, c, d), d \subseteq e, c <= Len(u),
           \A i \in 1..c : u[i] = s[i]
    PROVE  Low(u, c, e)
BY DEF Low

\* The cursors pass nothing that was not summarised, after every step.
LEMMA LowStep ==
    ASSUME C!ConsolidationAssumption, IdsInv, LogTypes, LockInv, LowInv, C!Next
    PROVE  LowInv'
<1>1. /\ C!Callers = {"worker", "manual"} /\ alive \in BOOLEAN
      /\ cursor \in Nat /\ savedCursor \in Nat /\ MaxId \in Nat
      /\ draft \in [C!Callers -> Drafts] /\ phase \in [C!Callers -> WorkerAt \cup ManualAt]
      /\ msgs \in Seq(Msgs) /\ Len(msgs) \in Nat /\ DOMAIN msgs = 1..Len(msgs)
      /\ \A a \in C!Callers : draft[a].upTo \in Nat
  <2>1. /\ C!Callers = {"worker", "manual"} /\ alive \in BOOLEAN
        /\ cursor \in Nat /\ savedCursor \in Nat /\ MaxId \in Nat
        /\ draft \in [C!Callers -> Drafts] /\ phase \in [C!Callers -> WorkerAt \cup ManualAt]
        /\ msgs \in Seq(Msgs) /\ Len(msgs) \in Nat /\ DOMAIN msgs = 1..Len(msgs)
    BY LogBounds DEF LogTypes, IdsInv, IdsTypes, C!Callers, C!ConsolidationAssumption
  <2>2. \A d \in Drafts : d.upTo \in Nat
    BY DEF Drafts, C!ConsolidationAssumption
  <2> QED
    BY <2>1, <2>2
<1> SUFFICES ASSUME ~movedMidway', ~misread'
             PROVE  /\ alive' => Low(msgs', cursor', Done') /\ Low(msgs', savedCursor', Done')
                    /\ ~alive' => cursor' = 0 /\ Low(rows', savedCursor', Done')
                    /\ \A a \in C!Callers : Extracting(a)' =>
                          Low(msgs', draft'[a].upTo, draft'[a].ids \cup Done')
  BY DEF LowInv, Low
<1> DEFINE Goal == /\ alive' => Low(msgs', cursor', Done') /\ Low(msgs', savedCursor', Done')
                   /\ ~alive' => cursor' = 0 /\ Low(rows', savedCursor', Done')
                   /\ \A a \in C!Callers : Extracting(a)' =>
                         Low(msgs', draft'[a].upTo, draft'[a].ids \cup Done')
<1>2. ASSUME ~movedMidway, ~misread
      PROVE  /\ alive => Low(msgs, cursor, Done) /\ Low(msgs, savedCursor, Done)
             /\ ~alive => cursor = 0 /\ Low(rows, savedCursor, Done)
             /\ \A a \in C!Callers : Extracting(a) =>
                   Low(msgs, draft[a].upTo, draft[a].ids \cup Done)
  BY <1>2 DEF LowInv
\* The first messages of the cache stay where they are.
<1>3. ASSUME alive, UNCHANGED <<alive, cursor, history, draft, movedMidway, misread>>,
             savedCursor' \in {savedCursor, cursor}, ghosts \subseteq ghosts',
             Len(msgs) <= Len(msgs'), Len(msgs') \in Nat,
             \A i \in 1..Len(msgs) : msgs'[i] = msgs[i],
             \A a \in C!Callers : Extracting(a)' <=> Extracting(a)
      PROVE  Goal
  <2>1. Done \subseteq Done'
    BY <1>3 DEF Done, C!Summarised
  <2>2. ASSUME NEW c \in Nat, NEW d, NEW e, Low(msgs, c, d), d \subseteq e PROVE Low(msgs', c, e)
    <3>1. c <= Len(msgs) /\ c <= Len(msgs')
      BY <1>1, <1>3, <2>2 DEF Low
    <3>2. \A i \in 1..c : msgs'[i] = msgs[i]
      BY <1>1, <1>3, <3>1
    <3> QED
      BY <2>2, <3>1, <3>2, LowKept
  <2>3. Low(msgs, cursor, Done) /\ Low(msgs, savedCursor, Done)
    BY <1>2, <1>3
  <2>4. Low(msgs', cursor', Done') /\ Low(msgs', savedCursor', Done')
    BY <1>1, <1>3, <2>1, <2>2, <2>3
  <2>5. ASSUME NEW a \in C!Callers, Extracting(a)'
        PROVE  Low(msgs', draft'[a].upTo, draft'[a].ids \cup Done')
    <3>1. Low(msgs, draft[a].upTo, draft[a].ids \cup Done)
      BY <1>2, <1>3, <2>5
    <3>2. draft[a].ids \cup Done \subseteq draft[a].ids \cup Done'
      BY <2>1
    <3> QED
      BY <1>1, <1>3, <2>2, <3>1, <3>2
  <2> QED
    BY <1>3, <2>4, <2>5
<1>4. ASSUME CallerStep PROVE Goal
  <2>1. /\ alive /\ alive' = alive /\ msgs' = msgs /\ rows' = rows /\ ghosts' = ghosts
        /\ cursor' = cursor /\ savedCursor' \in {savedCursor, cursor} /\ history' = history
        /\ ~movedMidway /\ ~misread
        /\ \A a \in C!Callers : Extracting(a)' =>
              (Extracting(a) /\ draft'[a] = draft[a]) \/ Started(a)
    BY <1>4 DEF CallerStep, C!log, C!notes
  <2>2. Done' = Done
    BY <2>1 DEF Done, C!Summarised
  <2>3. Low(msgs, cursor, Done) /\ Low(msgs, savedCursor, Done)
    BY <1>2, <2>1
  <2>4. ASSUME NEW a \in C!Callers, Started(a)
        PROVE  Low(msgs, draft'[a].upTo, draft'[a].ids \cup Done)
    <3>1. PICK kind \in Kinds : C!HasWindow(kind) /\ draft'[a] = C!Window(kind)
      BY <2>4 DEF Started
    <3>2. PICK w : w = draft'[a]
      OBVIOUS
    <3>3. /\ w \in Drafts /\ w.upTo <= Len(msgs)
          /\ kind = "archive" => w.upTo = 0
          /\ kind # "archive" =>
                cursor < w.upTo /\ w.ids = {msgs[i].id : i \in (cursor + 1)..w.upTo}
      BY <1>1, <3>1, <3>2, WindowFacts
    <3>4. CASE kind = "archive"
      BY <1>1, <3>2, <3>3, <3>4 DEF Low
    <3>5. CASE kind # "archive"
      <4>1. w.upTo \in Nat
        BY <1>1, <3>3 DEF Drafts
      <4>2. \A i \in 1..cursor : msgs[i].id \in Done
        BY <2>3 DEF Low
      <4>3. ASSUME NEW i \in 1..w.upTo PROVE msgs[i].id \in w.ids \cup Done
        <5>1. i \in 1..cursor \/ i \in (cursor + 1)..w.upTo
          BY <1>1, <4>1
        <5> QED
          BY <3>3, <3>5, <4>2, <5>1
      <4> QED
        BY <3>2, <3>3, <4>3 DEF Low
    <3> QED
      BY <3>4, <3>5
  <2>5. ASSUME NEW a \in C!Callers, Extracting(a)'
        PROVE  Low(msgs, draft'[a].upTo, draft'[a].ids \cup Done)
    BY <1>2, <2>1, <2>4, <2>5
  <2> QED
    BY <2>1, <2>2, <2>3, <2>5
<1>5. ASSUME NEW requests \in BOOLEAN, C!EndTurn(requests) PROVE Goal
  <2>1. /\ alive /\ UNCHANGED <<alive, cursor, history, draft, movedMidway, misread>>
        /\ savedCursor' = cursor /\ ghosts' = ghosts
    BY <1>5 DEF C!EndTurn, C!notes
  <2>2. Len(msgs) <= Len(msgs') /\ \A i \in 1..Len(msgs) : msgs'[i] = msgs[i]
    BY <1>5, NewMessages
  <2>3. \A a \in C!Callers : Extracting(a)' <=> Extracting(a)
    <3>1. CASE requests
      BY <1>5, <3>1, RequestTypes DEF C!EndTurn
    <3>2. CASE ~requests
      BY <1>5, <3>2 DEF C!EndTurn, Extracting
    <3> QED
      BY <3>1, <3>2
  <2>4. Len(msgs') \in Nat
    <3>1. IdsInv'
      BY <1>5, EndTurnIds
    <3> QED
      BY <3>1, MsgBounds DEF IdsInv, IdsTypes
  <2> QED
    BY <1>3, <2>1, <2>2, <2>3, <2>4
<1>6. CASE C!Push
  <2>1. /\ alive /\ UNCHANGED <<alive, cursor, history, draft, movedMidway, misread, phase>>
        /\ savedCursor' = cursor /\ ghosts' = ghosts
    BY <1>6 DEF C!Push, C!notes
  <2>2. Len(msgs) <= Len(msgs') /\ \A i \in 1..Len(msgs) : msgs'[i] = msgs[i]
    BY <1>6, NewMessages
  <2>3. \A a \in C!Callers : Extracting(a)' <=> Extracting(a)
    BY <2>1 DEF Extracting
  <2>4. Len(msgs') \in Nat
    <3>1. IdsInv'
      BY <1>6, PushIds
    <3> QED
      BY <3>1, MsgBounds DEF IdsInv, IdsTypes
  <2> QED
    BY <1>3, <2>1, <2>2, <2>3, <2>4
<1>7. CASE C!StreamEnd
  <2>1. /\ alive /\ UNCHANGED <<alive, cursor, history, draft, movedMidway, misread>>
        /\ savedCursor' = cursor /\ ghosts' = ghosts
    BY <1>7 DEF C!StreamEnd, C!notes
  <2>2. Len(msgs) <= Len(msgs') /\ \A i \in 1..Len(msgs) : msgs'[i] = msgs[i]
    BY <1>7, NewMessages
  <2>3. \A a \in C!Callers : Extracting(a)' <=> Extracting(a)
    BY <1>7, RequestTypes DEF C!StreamEnd
  <2>4. Len(msgs') \in Nat
    <3>1. IdsInv'
      BY <1>7, StreamEndIds
    <3> QED
      BY <3>1, MsgBounds DEF IdsInv, IdsTypes
  <2> QED
    BY <1>3, <2>1, <2>2, <2>3, <2>4
<1>8. CASE C!StreamStart \/ C!StreamStop
  <2>1. /\ alive /\ UNCHANGED <<alive, cursor, history, draft, movedMidway, misread, phase, msgs>>
        /\ savedCursor' \in {savedCursor, cursor} /\ ghosts \subseteq ghosts'
    BY <1>8 DEF C!StreamStart, C!StreamStop, C!notes
  <2>2. \A a \in C!Callers : Extracting(a)' <=> Extracting(a)
    BY <2>1 DEF Extracting
  <2>3. Len(msgs) <= Len(msgs') /\ Len(msgs') \in Nat /\ \A i \in 1..Len(msgs) : msgs'[i] = msgs[i]
    BY <1>1, <2>1
  <2> QED
    BY <1>3, <2>1, <2>2, <2>3
<1>9. ASSUME NEW sources, C!Undo(sources) PROVE Goal
  <2>1. /\ alive /\ alive' = alive /\ savedCursor' = cursor' /\ ghosts' = ghosts
        /\ history' = history /\ phase' = phase /\ ~movedMidway /\ ~misread /\ ~C!Midway
    BY <1>9 DEF C!Undo
  <2>2. \A a \in C!Callers : ~Extracting(a)'
    BY <2>1 DEF C!Midway, Extracting
  <2>3. PICK a \in Nat : /\ CutFrom(msgs', msgs, a, 2)
                         /\ cursor' \in Nat /\ cursor' <= cursor /\ cursor' <= a
    BY <1>1, <1>9, UndoShape
  <2>4. /\ a + 2 <= Len(msgs) /\ Len(msgs') = Len(msgs) - 2
        /\ \A i \in 1..Len(msgs') : msgs'[i] = IF i <= a THEN msgs[i] ELSE msgs[i + 2]
    BY <2>3 DEF CutFrom
  <2>5. cursor' <= Len(msgs')
    BY <1>1, <2>3, <2>4
  <2>6. \A i \in 1..cursor' : i \in 1..Len(msgs') /\ i <= a /\ i \in 1..cursor
    BY <1>1, <2>3, <2>4, <2>5
  <2>7. Done' = Done
    BY <2>1 DEF Done, C!Summarised
  <2>8. \A i \in 1..cursor : msgs[i].id \in Done
    BY <1>2, <2>1 DEF Low
  <2>9. Low(msgs', cursor', Done')
    BY <2>4, <2>5, <2>6, <2>7, <2>8 DEF Low
  <2> QED
    BY <2>1, <2>2, <2>9
<1>10. ASSUME NEW w \in 0..Len(msgs), C!Trim(w) PROVE Goal
  <2>1. /\ alive /\ alive' = alive /\ cursor' = 0 /\ savedCursor' = 0
        /\ phase' = phase /\ ~C!Midway
    BY <1>10 DEF C!Trim
  <2>2. \A a \in C!Callers : ~Extracting(a)'
    BY <2>1 DEF C!Midway, Extracting
  <2>3. Len(msgs') \in Nat
    <3>1. IdsInv'
      BY <1>10, TrimShape
    <3> QED
      BY <3>1, MsgBounds DEF IdsInv, IdsTypes
  <2>4. Low(msgs', 0, Done')
    BY <2>3 DEF Low
  <2> QED
    BY <2>1, <2>2, <2>4
<1>11. ASSUME NEW a \in C!Callers, C!Commit(a) PROVE Goal
  <2>1. /\ phase[a] = "extracting" /\ history' = history \cup {draft[a].ids}
        /\ cursor' = draft[a].upTo /\ phase' = [phase EXCEPT ![a] = "emitting"]
        /\ UNCHANGED <<alive, savedCursor, msgs, ghosts, movedMidway, misread>>
    BY <1>11 DEF C!Commit, C!CursorOf, C!log, C!notes
  <2>2. alive
    BY <1>1, <2>1, PhasesAlive
  <2>3. Done' = Done \cup draft[a].ids
    BY <2>1 DEF Done, C!Summarised
  <2>4. Low(msgs, savedCursor, Done) /\ Low(msgs, draft[a].upTo, draft[a].ids \cup Done)
    BY <1>2, <2>1, <2>2 DEF Extracting
  <2>5. Low(msgs', cursor', Done') /\ Low(msgs', savedCursor', Done')
    BY <2>1, <2>3, <2>4 DEF Low
  <2>6. ASSUME NEW b \in C!Callers PROVE ~Extracting(b)'
    <3>1. b # a => ~Extracting(b)
      BY <2>1, PhaseFacts DEF Extracting
    <3> QED
      BY <1>1, <2>1, <3>1 DEF Extracting
  <2> QED
    BY <2>1, <2>2, <2>5, <2>6
<1>12. ASSUME NEW w, C!Crash(w) PROVE Goal
  <2>1. /\ alive /\ alive' = FALSE /\ cursor' = 0 /\ savedCursor' = savedCursor /\ rows' = rows
        /\ history' = history \cup w /\ ghosts' = ghosts \cup stream
        /\ phase' = [a \in C!Callers |-> "none"]
        /\ ~movedMidway /\ ~misread /\ C!CacheIsRight
    BY <1>12 DEF C!Crash
  <2>2. Low(rows, savedCursor, Done \cup stream)
    BY <1>1, <1>2, <2>1, CrashLow
  <2>3. Done \cup stream \subseteq Done'
    BY <2>1 DEF Done, C!Summarised
  <2>4. Low(rows', savedCursor', Done')
    BY <2>1, <2>2, <2>3 DEF Low
  <2>5. \A a \in C!Callers : ~Extracting(a)'
    BY <2>1 DEF Extracting
  <2> QED
    BY <2>1, <2>4, <2>5
<1>13. CASE C!Restart
  <2>1. /\ ~alive /\ alive' = TRUE /\ msgs' = rows /\ cursor' = savedCursor
        /\ savedCursor' = savedCursor /\ history' = history /\ ghosts' = ghosts /\ phase' = phase
        /\ ~movedMidway /\ ~misread
    BY <1>13 DEF C!Restart, C!notes
  <2>2. Low(rows, savedCursor, Done)
    BY <1>2, <2>1
  <2>3. Done' = Done
    BY <2>1 DEF Done, C!Summarised
  <2>4. \A a \in C!Callers : ~Extracting(a)'
    BY <2>1 DEF Extracting, LockInv
  <2> QED
    BY <2>1, <2>2, <2>3, <2>4
<1>14. CASE \/ C!WorkerRun \/ C!WorkerEnd \/ C!ManualAsk \/ C!ManualSave \/ C!ManualTimeout
            \/ \E kind \in Kinds : C!ManualRun(kind)
            \/ \E a \in C!Callers : C!Skip(a) \/ C!Emitted(a) \/ C!EmitFails(a)
  BY <1>4, <1>14, CallerSteps
<1> QED
  BY <1>5, <1>6, <1>7, <1>8, <1>9, <1>10, <1>11, <1>12, <1>13, <1>14 DEF C!Next, Kinds

\* No message is summarised twice but for the exceptions, after every step.
LEMMA OnceStep ==
    ASSUME C!ConsolidationAssumption, IdsInv, LogTypes, LockInv, OldInv, OnceInv, C!Next
    PROVE  OnceInv'
<1>1. /\ C!Callers = {"worker", "manual"} /\ alive \in BOOLEAN /\ cursor \in Nat
      /\ draft \in [C!Callers -> Drafts] /\ phase \in [C!Callers -> WorkerAt \cup ManualAt]
      /\ msgs \in Seq(Msgs) /\ Len(msgs) \in Nat /\ DOMAIN msgs = 1..Len(msgs)
      /\ nextSeq \in Nat
      /\ \A a \in C!Callers : draft[a].upTo \in Nat /\ draft[a].ids \subseteq Nat
  <2>1. /\ C!Callers = {"worker", "manual"} /\ alive \in BOOLEAN /\ cursor \in Nat
        /\ draft \in [C!Callers -> Drafts] /\ phase \in [C!Callers -> WorkerAt \cup ManualAt]
        /\ msgs \in Seq(Msgs) /\ Len(msgs) \in Nat /\ DOMAIN msgs = 1..Len(msgs)
        /\ nextSeq \in Nat
    BY LogBounds DEF LogTypes, IdsInv, IdsTypes, C!Callers, C!ConsolidationAssumption
  <2>2. \A d \in Drafts : d.upTo \in Nat /\ d.ids \subseteq Nat
    BY DEF Drafts, C!ConsolidationAssumption
  <2> QED
    BY <2>1, <2>2
<1> DEFINE Pairs == \A v, w \in history : v # w => v \cap w \subseteq reopened
           Drawn(a) == /\ draft[a].ids \cap C!Summarised \subseteq reopened
                       /\ draft[a].upTo # 0 =>
                             C!Beyond(msgs, draft[a].upTo) \cap (draft[a].ids \cup C!Summarised)
                                 \subseteq reopened
           Pairs1 == \A v, w \in history' : v # w => v \cap w \subseteq reopened'
           Drawn1(a) == /\ draft'[a].ids \cap C!Summarised' \subseteq reopened'
                        /\ draft'[a].upTo # 0 =>
                              C!Beyond(msgs', draft'[a].upTo) \cap (draft'[a].ids \cup C!Summarised')
                                  \subseteq reopened'
           Goal == /\ Pairs1
                   /\ C!Beyond(msgs', cursor') \cap C!Summarised' \subseteq reopened'
                   /\ \A a \in C!Callers : Extracting(a)' => Drawn1(a)
<1> SUFFICES ASSUME ~movedMidway' PROVE Goal
  BY DEF OnceInv, C!Beyond
<1>2. ASSUME ~movedMidway
      PROVE  /\ Pairs /\ C!Beyond(msgs, cursor) \cap C!Summarised \subseteq reopened
             /\ \A a \in C!Callers : Extracting(a) => Drawn(a)
  BY <1>2 DEF OnceInv
<1>3. C!Summarised = UNION history /\ C!Summarised' = UNION history'
  BY DEF C!Summarised
<1>4. \A n \in C!Summarised : n \in Nat /\ n < nextSeq /\ n \notin stream
  BY <1>3 DEF OldInv, Old, LogTypes
<1>5. \A a \in C!Callers : \A n \in draft[a].ids : n \in Nat /\ n < nextSeq /\ n \notin stream
  BY <1>1 DEF OldInv, Old
\* What comes into the cache is new to every window.
<1>6. ASSUME NEW c \in Nat, NEW X, \A n \in X : n \in Nat /\ n < nextSeq /\ n \notin stream,
             C!Beyond(msgs, c) \cap X \subseteq reopened,
             Len(msgs) <= Len(msgs'), \A i \in 1..Len(msgs) : msgs'[i] = msgs[i],
             \A i \in (Len(msgs) + 1)..Len(msgs') :
                msgs'[i].id >= nextSeq \/ msgs'[i].id \in stream,
             Len(msgs') \in Nat
      PROVE  C!Beyond(msgs', c) \cap X \subseteq reopened
  <2> SUFFICES ASSUME NEW i \in (c + 1)..Len(msgs'), msgs'[i].id \in X
               PROVE  msgs'[i].id \in reopened
    BY DEF C!Beyond
  <2>1. msgs'[i].id \in Nat /\ msgs'[i].id < nextSeq /\ msgs'[i].id \notin stream
    BY <1>6
  <2>2. ~(i \in (Len(msgs) + 1)..Len(msgs'))
    BY <1>1, <1>6, <2>1
  <2>3. i \in (c + 1)..Len(msgs) /\ i \in 1..Len(msgs)
    BY <1>1, <1>6, <2>2
  <2>4. msgs[i].id \in C!Beyond(msgs, c) /\ msgs'[i] = msgs[i]
    BY <1>6, <2>3 DEF C!Beyond
  <2> QED
    BY <1>6, <2>4
<1>7. ASSUME UNCHANGED <<cursor, history, draft, movedMidway, reopened>>,
             Len(msgs) <= Len(msgs'), \A i \in 1..Len(msgs) : msgs'[i] = msgs[i],
             \A i \in (Len(msgs) + 1)..Len(msgs') :
                msgs'[i].id >= nextSeq \/ msgs'[i].id \in stream,
             Len(msgs') \in Nat, \A a \in C!Callers : Extracting(a)' <=> Extracting(a)
      PROVE  Goal
  <2>1. C!Summarised' = C!Summarised /\ Pairs /\ Pairs1
    BY <1>2, <1>3, <1>7
  <2>2. C!Beyond(msgs', cursor) \cap C!Summarised \subseteq reopened
    <3>1. C!Beyond(msgs, cursor) \cap C!Summarised \subseteq reopened
      BY <1>2, <1>7
    <3> QED
      BY <1>1, <1>4, <1>6, <1>7, <3>1
  <2>3. ASSUME NEW a \in C!Callers, Extracting(a)' PROVE Drawn1(a)
    <3>1. Drawn(a)
      BY <1>2, <1>7, <2>3
    <3>2. PICK d \in Drafts : d = draft[a]
      BY <1>1
    <3>3. PICK X : X = d.ids \cup C!Summarised
      OBVIOUS
    <3>4. \A n \in X : n \in Nat /\ n < nextSeq /\ n \notin stream
      BY <1>4, <1>5, <3>2, <3>3
    <3>5. d.upTo \in Nat /\ (d.upTo # 0 => C!Beyond(msgs, d.upTo) \cap X \subseteq reopened)
      BY <1>1, <3>1, <3>2, <3>3
    <3>6. d.upTo # 0 => C!Beyond(msgs', d.upTo) \cap X \subseteq reopened
      BY <1>6, <1>7, <3>4, <3>5
    <3> QED
      BY <1>7, <2>1, <3>1, <3>2, <3>3, <3>6
  <2> QED
    BY <1>7, <2>1, <2>2, <2>3
<1>8. ASSUME NEW requests \in BOOLEAN, C!EndTurn(requests) PROVE Goal
  <2>1. UNCHANGED <<cursor, history, draft, movedMidway, reopened>>
    BY <1>8 DEF C!EndTurn, C!notes
  <2>2. /\ Len(msgs) <= Len(msgs') /\ \A i \in 1..Len(msgs) : msgs'[i] = msgs[i]
        /\ \A i \in (Len(msgs) + 1)..Len(msgs') :
              msgs'[i].id >= nextSeq \/ msgs'[i].id \in stream
    BY <1>8, NewMessages
  <2>3. \A a \in C!Callers : Extracting(a)' <=> Extracting(a)
    <3>1. CASE requests
      BY <1>8, <3>1, RequestTypes DEF C!EndTurn
    <3>2. CASE ~requests
      BY <1>8, <3>2 DEF C!EndTurn, Extracting
    <3> QED
      BY <3>1, <3>2
  <2>4. Len(msgs') \in Nat
    <3>1. IdsInv'
      BY <1>8, EndTurnIds
    <3> QED
      BY <3>1, MsgBounds DEF IdsInv, IdsTypes
  <2> HIDE DEF Goal
  <2> QED
    BY <1>7, <2>1, <2>2, <2>3, <2>4
<1>9. CASE C!Push
  <2>1. UNCHANGED <<cursor, history, draft, movedMidway, reopened, phase>>
    BY <1>9 DEF C!Push, C!notes
  <2>2. /\ Len(msgs) <= Len(msgs') /\ \A i \in 1..Len(msgs) : msgs'[i] = msgs[i]
        /\ \A i \in (Len(msgs) + 1)..Len(msgs') :
              msgs'[i].id >= nextSeq \/ msgs'[i].id \in stream
    BY <1>9, NewMessages
  <2>3. \A a \in C!Callers : Extracting(a)' <=> Extracting(a)
    BY <2>1 DEF Extracting
  <2>4. Len(msgs') \in Nat
    <3>1. IdsInv'
      BY <1>9, PushIds
    <3> QED
      BY <3>1, MsgBounds DEF IdsInv, IdsTypes
  <2> HIDE DEF Goal
  <2> QED
    BY <1>7, <2>1, <2>2, <2>3, <2>4
<1>10. CASE C!StreamEnd
  <2>1. UNCHANGED <<cursor, history, draft, movedMidway, reopened>>
    BY <1>10 DEF C!StreamEnd, C!notes
  <2>2. /\ Len(msgs) <= Len(msgs') /\ \A i \in 1..Len(msgs) : msgs'[i] = msgs[i]
        /\ \A i \in (Len(msgs) + 1)..Len(msgs') :
              msgs'[i].id >= nextSeq \/ msgs'[i].id \in stream
    BY <1>10, NewMessages
  <2>3. \A a \in C!Callers : Extracting(a)' <=> Extracting(a)
    BY <1>10, RequestTypes DEF C!StreamEnd
  <2>4. Len(msgs') \in Nat
    <3>1. IdsInv'
      BY <1>10, StreamEndIds
    <3> QED
      BY <3>1, MsgBounds DEF IdsInv, IdsTypes
  <2> HIDE DEF Goal
  <2> QED
    BY <1>7, <2>1, <2>2, <2>3, <2>4
<1>11. CASE C!StreamStart \/ C!StreamStop
  <2>1. UNCHANGED <<cursor, history, draft, movedMidway, reopened, phase, msgs>>
    BY <1>11 DEF C!StreamStart, C!StreamStop, C!notes
  <2>2. \A a \in C!Callers : Extracting(a)' <=> Extracting(a)
    BY <2>1 DEF Extracting
  <2>3. /\ Len(msgs) <= Len(msgs') /\ Len(msgs') \in Nat
        /\ \A i \in 1..Len(msgs) : msgs'[i] = msgs[i]
        /\ \A i \in (Len(msgs) + 1)..Len(msgs') :
              msgs'[i].id >= nextSeq \/ msgs'[i].id \in stream
    BY <1>1, <2>1
  <2> HIDE DEF Goal
  <2> QED
    BY <1>7, <2>1, <2>2, <2>3
<1>12. ASSUME NEW sources, C!Undo(sources) PROVE Goal
  <2>1. /\ history' = history /\ phase' = phase /\ ~movedMidway /\ ~C!Midway
        /\ reopened' = reopened \cup (C!Beyond(msgs', cursor') \cap C!Summarised)
    BY <1>12 DEF C!Undo
  <2>2. \A a \in C!Callers : ~Extracting(a)'
    BY <2>1 DEF C!Midway, Extracting
  <2>3. C!Summarised' = C!Summarised /\ Pairs1
    BY <1>2, <1>3, <2>1
  <2> QED
    BY <2>1, <2>2, <2>3
<1>13. ASSUME NEW w \in 0..Len(msgs), C!Trim(w) PROVE Goal
  <2>1. /\ history' = history /\ phase' = phase /\ ~movedMidway /\ ~C!Midway /\ cursor' = 0
        /\ reopened' = reopened \cup (C!Ids(msgs') \cap C!Summarised)
    BY <1>13 DEF C!Trim
  <2>2. \A a \in C!Callers : ~Extracting(a)'
    BY <2>1 DEF C!Midway, Extracting
  <2>3. C!Summarised' = C!Summarised /\ Pairs1
    BY <1>2, <1>3, <2>1
  <2>4. C!Beyond(msgs', 0) = C!Ids(msgs')
    <3>1. IdsInv'
      BY <1>13, TrimShape
    <3>2. DOMAIN msgs' = 1..Len(msgs')
      BY <3>1, MsgBounds DEF IdsInv, IdsTypes
    <3> QED
      BY <3>2 DEF C!Beyond, C!Ids
  <2> QED
    BY <2>1, <2>2, <2>3, <2>4
<1>14. ASSUME NEW a \in C!Callers, C!Commit(a) PROVE Goal
  <2>1. /\ phase[a] = "extracting" /\ history' = history \cup {draft[a].ids}
        /\ cursor' = draft[a].upTo /\ phase' = [phase EXCEPT ![a] = "emitting"]
        /\ msgs' = msgs /\ ~movedMidway
        /\ reopened' = IF draft[a].upTo = 0
                       THEN reopened \cup (C!Beyond(msgs, 0) \cap UNION history') ELSE reopened
    BY <1>14 DEF C!Commit, C!CursorOf, C!log, C!notes
  <2>2. Pairs /\ Drawn(a)
    BY <1>2, <2>1 DEF Extracting
  <2>3. ASSUME NEW b \in C!Callers PROVE ~Extracting(b)'
    <3>1. b # a => ~Extracting(b)
      BY <2>1, PhaseFacts DEF Extracting
    <3> QED
      BY <1>1, <2>1, <3>1 DEF Extracting
  <2>4. reopened \subseteq reopened' /\ C!Summarised' = C!Summarised \cup draft[a].ids
    BY <1>3, <2>1
  <2>5. Pairs1
    <3> SUFFICES ASSUME NEW v \in history', NEW w \in history', v # w
                 PROVE  v \cap w \subseteq reopened'
      OBVIOUS
    <3>1. CASE v \in history /\ w \in history
      BY <2>2, <2>4, <3>1
    <3>2. CASE v = draft[a].ids /\ w \in history
      BY <1>3, <2>2, <2>4, <3>2
    <3>3. CASE w = draft[a].ids /\ v \in history
      BY <1>3, <2>2, <2>4, <3>3
    <3> QED
      BY <2>1, <3>1, <3>2, <3>3
  <2>6. C!Beyond(msgs', cursor') \cap C!Summarised' \subseteq reopened'
    <3>1. CASE draft[a].upTo = 0
      BY <1>3, <2>1, <3>1
    <3>2. CASE draft[a].upTo # 0
      BY <2>1, <2>2, <2>4, <3>2
    <3> QED
      BY <3>1, <3>2
  <2> QED
    BY <2>3, <2>5, <2>6
<1>15. ASSUME NEW w, C!Crash(w) PROVE Goal
  <2>1. /\ w \subseteq {draft[a].ids : a \in {b \in C!Callers : phase[b] = "extracting"}}
        /\ history' = history \cup w /\ msgs' = <<>> /\ cursor' = 0 /\ reopened' = reopened
        /\ phase' = [a \in C!Callers |-> "none"] /\ ~movedMidway
    BY <1>15 DEF C!Crash
  <2>2. \A a \in C!Callers : ~Extracting(a)'
    BY <2>1 DEF Extracting
  <2>3. C!Beyond(msgs', cursor') = {}
    BY <2>1 DEF C!Beyond
  <2>4. Pairs1
    <3> SUFFICES ASSUME NEW v \in history', NEW u \in history', v # u
                 PROVE  v \cap u \subseteq reopened
      BY <2>1
    <3>1. ASSUME NEW x \in w PROVE x \cap C!Summarised \subseteq reopened
      <4>1. PICK a \in C!Callers : phase[a] = "extracting" /\ x = draft[a].ids
        BY <2>1, <3>1
      <4> QED
        BY <1>2, <2>1, <4>1 DEF Extracting
    <3>2. CASE v \in history /\ u \in history
      BY <1>2, <2>1, <3>2
    <3>3. CASE v \in w /\ u \in history
      BY <1>3, <3>1, <3>3
    <3>4. CASE u \in w /\ v \in history
      BY <1>3, <3>1, <3>4
    <3>5. CASE u \in w /\ v \in w
      <4>1. PICK a \in C!Callers : phase[a] = "extracting" /\ v = draft[a].ids
        BY <2>1, <3>5
      <4>2. PICK b \in C!Callers : phase[b] = "extracting" /\ u = draft[b].ids
        BY <2>1, <3>5
      <4>3. a = b
        BY <4>1, <4>2, PhaseFacts DEF Extracting
      <4> QED
        BY <4>1, <4>2, <4>3
    <3> QED
      BY <2>1, <3>2, <3>3, <3>4, <3>5
  <2> QED
    BY <2>2, <2>3, <2>4
<1>16. CASE C!Restart
  <2>1. /\ ~alive /\ msgs' = rows /\ cursor' = savedCursor /\ history' = history
        /\ phase' = phase /\ ~movedMidway
        /\ reopened' = reopened \cup (C!Beyond(rows, savedCursor) \cap C!Summarised)
    BY <1>16 DEF C!Restart, C!notes
  <2>2. \A a \in C!Callers : ~Extracting(a)'
    BY <2>1 DEF Extracting, LockInv
  <2>3. C!Summarised' = C!Summarised /\ Pairs1
    BY <1>2, <1>3, <2>1
  <2> QED
    BY <2>1, <2>2, <2>3
<1>17. ASSUME CallerStep PROVE Goal
  <2>1. /\ msgs' = msgs /\ cursor' = cursor /\ history' = history /\ ~movedMidway
        /\ reopened \subseteq reopened'
        /\ \A a \in C!Callers : Extracting(a)' =>
              (Extracting(a) /\ draft'[a] = draft[a]) \/ Started(a)
    BY <1>17 DEF CallerStep, C!log, C!notes
  <2>2. C!Summarised' = C!Summarised /\ Pairs1
    BY <1>2, <1>3, <2>1
  <2>3. C!Beyond(msgs, cursor) \cap C!Summarised \subseteq reopened'
    BY <1>2, <2>1
  <2>4. ASSUME NEW a \in C!Callers, Started(a) PROVE Drawn1(a)
    <3>1. PICK kind \in Kinds : /\ C!HasWindow(kind) /\ draft'[a] = C!Window(kind)
                                /\ kind = "archive" =>
                                      C!Ids(msgs) \cap C!Summarised \subseteq reopened'
      BY <2>4 DEF Started
    <3>2. PICK w : w = draft'[a]
      OBVIOUS
    <3>3. /\ w \in Drafts /\ w.ids \subseteq C!Ids(msgs) /\ w.upTo <= Len(msgs)
          /\ kind = "archive" => w.upTo = 0
          /\ kind # "archive" =>
                cursor < w.upTo /\ w.ids = {msgs[i].id : i \in (cursor + 1)..w.upTo}
      BY <1>1, <3>1, <3>2, WindowFacts
    <3>4. CASE kind = "archive"
      BY <2>2, <3>1, <3>2, <3>3, <3>4
    <3>5. CASE kind # "archive"
      <4>1. w.upTo \in Nat
        BY <1>1, <3>3 DEF Drafts, LogTypes, C!ConsolidationAssumption
      <4>2. w.ids \subseteq C!Beyond(msgs, cursor)
        <5>1. (cursor + 1)..w.upTo \subseteq (cursor + 1)..Len(msgs)
          BY <1>1, <3>3, <4>1
        <5> QED
          BY <3>3, <3>5, <5>1 DEF C!Beyond
      <4>3. C!Beyond(msgs, w.upTo) \subseteq C!Beyond(msgs, cursor)
        <5>1. (w.upTo + 1)..Len(msgs) \subseteq (cursor + 1)..Len(msgs)
          BY <1>1, <3>3, <3>5, <4>1
        <5> QED
          BY <5>1 DEF C!Beyond
      <4>4. C!Beyond(msgs, w.upTo) \cap w.ids = {}
        <5> SUFFICES ASSUME NEW i \in (w.upTo + 1)..Len(msgs), NEW j \in (cursor + 1)..w.upTo,
                            msgs[i].id = msgs[j].id
                     PROVE  FALSE
          BY <3>3, <3>5 DEF C!Beyond
        <5>1. i \in DOMAIN msgs /\ j \in DOMAIN msgs /\ i # j
          BY <1>1, <3>3, <4>1
        <5> QED
          BY <5>1 DEF IdsInv, Distinct
      <4> QED
        BY <2>2, <2>3, <3>2, <4>2, <4>3, <4>4, <2>1
    <3> QED
      BY <3>4, <3>5
  <2>5. ASSUME NEW a \in C!Callers, Extracting(a)' PROVE Drawn1(a)
    <3>1. CASE Extracting(a) /\ draft'[a] = draft[a]
      <4>1. Drawn(a)
        BY <1>2, <2>1, <3>1
      <4> QED
        BY <2>1, <2>2, <3>1, <4>1
    <3> QED
      BY <2>1, <2>4, <2>5, <3>1
  <2> QED
    BY <2>1, <2>2, <2>3, <2>5
<1>18. CASE \/ C!WorkerRun \/ C!WorkerEnd \/ C!ManualAsk \/ C!ManualSave \/ C!ManualTimeout
            \/ \E kind \in Kinds : C!ManualRun(kind)
            \/ \E a \in C!Callers : C!Skip(a) \/ C!Emitted(a) \/ C!EmitFails(a)
  <2>1. CallerStep
    BY <1>18, CallerSteps
  <2> QED
    BY <1>17, <2>1
<1> HIDE DEF Goal
<1> QED
  BY <1>8, <1>9, <1>10, <1>11, <1>12, <1>13, <1>14, <1>15, <1>16, <1>18 DEF C!Next, Kinds

LEMMA LogStart ==
    ASSUME C!ConsolidationAssumption, C!Init
    PROVE  LogInv
<1>1. /\ alive = TRUE /\ rows = <<>> /\ savedCursor = 0 /\ nextSeq = 0
      /\ msgs = <<>> /\ cursor = 0 /\ stream = {} /\ queue = 0
      /\ phase = [a \in C!Callers |-> "none"] /\ draft = [a \in C!Callers |-> C!NoDraft]
      /\ holder = {} /\ history = {} /\ ghosts = {}
      /\ movedMidway = FALSE /\ misread = FALSE /\ reopened = {}
  BY DEF C!Init
<1>2. /\ MaxId \in Nat /\ MaxQueue \in Nat /\ C!Callers = {"worker", "manual"}
      /\ <<>> \in Seq(Msgs) /\ DOMAIN <<>> = {} /\ Len(<<>>) = 0
  BY DEF C!ConsolidationAssumption, C!Callers
<1>3. IdsInv
  <2>1. IdsTypes
    BY <1>1, <1>2 DEF IdsTypes
  <2>2. Sorted(rows) /\ Distinct(msgs) /\ OddFirst(msgs, ghosts) /\ C!Ids(msgs) = {} /\ C!Ids(rows) = {}
    BY <1>1, <1>2 DEF Sorted, Distinct, OddFirst, C!Ids
  <2> QED
    BY <1>1, <1>2, <2>1, <2>2 DEF IdsInv
<1>4. C!NoDraft \in Drafts /\ C!NoDraft.ids = {}
  BY <1>2 DEF C!NoDraft, Drafts
<1>5. LogTypes
  BY <1>1, <1>2, <1>4 DEF LogTypes, WorkerAt, ManualAt
<1>6. LockInv
  BY <1>1, <1>2 DEF LockInv, C!Busy
<1>7. OldInv
  BY <1>1, <1>4 DEF OldInv, Old
<1>8. LowInv
  BY <1>1, <1>2 DEF LowInv, Low, Extracting
<1>9. OnceInv
  BY <1>1, <1>2 DEF OnceInv, C!Beyond, Extracting, C!Summarised
<1> QED
  BY <1>3, <1>5, <1>6, <1>7, <1>8, <1>9 DEF LogInv

LEMMA LogStutter ==
    ASSUME LogInv, UNCHANGED logVars
    PROVE  LogInv'
<1>1. /\ alive' = alive /\ rows' = rows /\ savedCursor' = savedCursor /\ nextSeq' = nextSeq
      /\ msgs' = msgs /\ cursor' = cursor /\ stream' = stream /\ queue' = queue
      /\ phase' = phase /\ draft' = draft /\ holder' = holder /\ history' = history
      /\ ghosts' = ghosts /\ movedMidway' = movedMidway /\ misread' = misread
      /\ reopened' = reopened
  BY DEF logVars
<1>2. IdsInv'
  <2>1. UNCHANGED <<alive, C!log>>
    BY DEF logVars, C!log
  <2> QED
    BY <2>1, IdsSame DEF LogInv
<1>3. LogTypes'
  BY <1>1 DEF LogTypes, LogInv
<1>4. LockInv'
  BY <1>1 DEF LockInv, LogInv, C!Busy
<1>5. OldInv'
  BY <1>1 DEF OldInv, Old, LogInv
<1>6. LowInv'
  <2>1. Done' = Done
    BY <1>1 DEF Done, C!Summarised
  <2>2. \A a \in C!Callers : Extracting(a)' <=> Extracting(a)
    BY <1>1 DEF Extracting
  <2> QED
    BY <1>1, <2>1, <2>2 DEF LowInv, Low, LogInv
<1>7. OnceInv'
  <2>1. C!Summarised' = C!Summarised
    BY <1>1 DEF C!Summarised
  <2>2. \A a \in C!Callers : Extracting(a)' <=> Extracting(a)
    BY <1>1 DEF Extracting
  <2> QED
    BY <1>1, <2>1, <2>2 DEF OnceInv, C!Beyond, LogInv
<1> QED
  BY <1>2, <1>3, <1>4, <1>5, <1>6, <1>7 DEF LogInv

LEMMA LogStep ==
    ASSUME C!ConsolidationAssumption, LogInv, C!Next
    PROVE  LogInv'
<1>1. IdsInv /\ LogTypes /\ LockInv /\ OldInv /\ LowInv /\ OnceInv /\ cursor \in Nat
  BY DEF LogInv, LogTypes, C!ConsolidationAssumption
<1>2. IdsInv'
  BY <1>1, IdsStep
<1>3. LogTypes' /\ LockInv'
  BY <1>1, ControlStep
<1>4. OldInv'
  BY <1>1, OldStep
<1>5. LowInv'
  BY <1>1, LowStep
<1>6. OnceInv'
  BY <1>1, OnceStep
<1> QED
  BY <1>2, <1>3, <1>4, <1>5, <1>6 DEF LogInv

LEMMA LogHolds ==
    ASSUME C!ConsolidationAssumption, LogInv
    PROVE  SummarisedExactlyOnce
<1>1. /\ nextSeq \in Nat /\ MaxId \in Nat /\ Len(rows) \in Nat
      /\ DOMAIN rows = 1..Len(rows) /\ \A i \in DOMAIN rows : rows[i].id \in Nat
  BY LogBounds DEF LogInv, IdsInv
<1>2. C!Ids(rows) \subseteq 0..(nextSeq - 1)
  <2> SUFFICES ASSUME NEW i \in DOMAIN rows PROVE rows[i].id \in 0..(nextSeq - 1)
    BY DEF C!Ids
  <2>1. rows[i].id \in Nat /\ rows[i].id < nextSeq
    BY <1>1 DEF LogInv, IdsInv
  <2> QED
    BY <1>1, <2>1
<1>3. history \subseteq SUBSET (0..(nextSeq - 1))
  <2> SUFFICES ASSUME NEW w \in history, NEW n \in w PROVE n \in 0..(nextSeq - 1)
    OBVIOUS
  <2>1. n \in Nat /\ n < nextSeq
    BY DEF LogInv, LogTypes, OldInv, Old
  <2> QED
    BY <1>1, <2>1
<1>4. C!ConsolidationTypeOK
  <2>1. /\ alive \in BOOLEAN /\ cursor \in 0..MaxId /\ savedCursor \in 0..MaxId
        /\ C!Ids(msgs) \subseteq C!Ids(rows)
        /\ \A i, j \in DOMAIN rows : i < j => rows[i].id < rows[j].id
        /\ stream \subseteq C!Ids(rows) /\ queue \in 0..MaxQueue
    BY DEF LogInv, IdsInv, IdsTypes, LogTypes, Sorted
  <2>2. /\ phase["worker"] \in {"none", "waiting", "extracting", "emitting", "ending"}
        /\ phase["manual"] \in {"none", "waiting", "extracting", "emitting", "saving"}
    BY DEF LogInv, LogTypes, WorkerAt, ManualAt
  <2>3. /\ \A a \in C!Callers : C!Busy(a) <=> holder = {a}
        /\ ~alive => \A a \in C!Callers : phase[a] = "none"
        /\ queue > 0 => phase["worker"] # "none"
    BY DEF LogInv, LockInv
  <2> QED
    BY <1>2, <1>3, <2>1, <2>2, <2>3 DEF C!ConsolidationTypeOK
<1>5. C!NothingSkipped
  <2> SUFFICES ASSUME ~movedMidway, ~misread
               PROVE  cursor <= Len(msgs) /\ \A i \in 1..cursor : msgs[i].id \in C!Summarised \cup ghosts
    BY DEF C!NothingSkipped
  <2>1. CASE alive
    BY <2>1 DEF LogInv, LowInv, Low, Done
  <2>2. CASE ~alive
    <3>1. cursor = 0 /\ msgs = <<>>
      BY <2>2 DEF LogInv, LowInv, IdsInv
    <3> QED
      BY <3>1
  <2> QED
    BY <2>1, <2>2 DEF LogInv, IdsInv, IdsTypes
<1>6. C!SummarisedOnce
  BY DEF C!SummarisedOnce, LogInv, OnceInv
<1> QED
  BY <1>4, <1>5, <1>6 DEF SummarisedExactlyOnce

\* The consolidation summarises every message once: the cursor passes none that was not,
\* and none is summarised again unless the cursor was moved back over it, whatever turns,
\* streams, undos, trims, requests, dashboard calls, failures and crashes come between
\* (MarkdownMemoryMaintenance, session/manager.py, plugin_undo).
THEOREM SummarisedExactlyOnceAlways == Spec => []SummarisedExactlyOnce
<1>0. C!ConsolidationAssumption
  BY MemoryAssumption
<1>1. Init => LogInv
  BY <1>0, LogStart DEF Init
<1>2. LogInv /\ [Next]_vars => LogInv'
  <2> SUFFICES ASSUME LogInv, [Next]_vars
               PROVE  LogInv'
    OBVIOUS
  <2>1. CASE UNCHANGED logVars
    BY <2>1, LogStutter
  <2>2. CASE C!Next
    BY <1>0, <2>2, LogStep
  <2> QED
    BY <2>1, <2>2 DEF Next, vars
<1>3. LogInv => SummarisedExactlyOnce
  BY <1>0, LogHolds
<1> QED
  BY <1>1, <1>2, <1>3, PTL DEF Spec
===============================================================================
