------------------------------ MODULE VectorMemory ------------------------------
(***************************************************************************)
(* The table memory_items of one session's user: what the memorize tool    *)
(* (Memorizer.save_item_with_supersede), the long-term extraction of a     *)
(* consolidation, the forget tool, the post-response worker and the undo   *)
(* plugin do to it.                                                        *)
(*                                                                         *)
(* An action is a stretch between two awaits of a model: the embedding of  *)
(* a text, or the light model's verdict on candidates.  The search, the    *)
(* supersession and the write that follow an embedding are synchronous.    *)
(*                                                                         *)
(* Preferences are about one subject and Rules want the same tool, so that *)
(* any two of a kind are similar: a preference takes the place of the      *)
(* others, a rule is merged into one of the others.  A summary is the      *)
(* sequence of the texts merged into it.  Left out: profiles and events,   *)
(* ranking, and the dashboard's edits of single rows.                      *)
(***************************************************************************)
EXTENDS Naturals, Sequences, FiniteSets, SequencesExt

CONSTANTS
    Preferences,    \* texts of preferences
    Rules,          \* texts of procedures
    MaxSeq,         \* bound: messages ever written
    MaxWindows,     \* bound: texts extracted by consolidations
    MaxCalls        \* bound: calls of the memorize and the forget tool

VectorMemoryAssumption ==
    /\ Preferences \cap Rules = {} /\ "" \notin Preferences \cup Rules
    /\ MaxSeq \in Nat /\ MaxWindows \in Nat /\ MaxCalls \in Nat

VARIABLES
    items,          \* memory_items; the index is the id
    seq,            \* sessions.next_seq
    turn,           \* the turn that runs, as a set of at most one
    turns,          \* the turns in the log
    saving,         \* save_item_with_supersede of the tool and of a consolidation
    ingested,       \* TurnIngested events: the ids the turn has memorised itself
    judging,        \* what the post-response worker has asked about, at most one
    windows,        \* texts extracted so far
    calls,          \* calls of the memorize and the forget tool so far
    undoneIds,      \* history: ids of undone messages
    held,           \* history: texts reported as saved and not retired on request
    raced,          \* history: texts lost between two awaits
    origins,        \* history: the messages each save of a preference came from
    astray          \* history: preferences saved under an id that was not the turn's,
                    \* after the undo of their messages, or onto an undone item

vmVars == <<items, seq, turn, turns, saving, ingested, judging, windows, calls, undoneIds,
            held, raced, origins, astray>>

Savers == {"tool", "window"}
Texts == Preferences \cup Rules
Kind(text) == IF text \in Preferences THEN "preference" ELSE "procedure"
Similar(text) == {i \in DOMAIN items : items[i].kind = Kind(text) /\ items[i].active}
Said(ids) == UNION {ToSet(items[i].summary) : i \in ids}
Active == {i \in DOMAIN items : items[i].active}

\* The one type invariant: no two items have one content hash, and nothing that was
\* undone is still in the log.
VectorTypeOK ==
    /\ \A i, j \in DOMAIN items :
          items[i].kind = items[j].kind /\ items[i].summary = items[j].summary => i = j
    /\ \A i \in DOMAIN items :
          /\ items[i].summary # <<>> /\ IsInjective(items[i].summary)
          /\ items[i].kind = "preference" => Len(items[i].summary) = 1
          /\ items[i].source \subseteq 0..seq
    /\ seq \in 0..MaxSeq /\ Cardinality(turn) <= 1 /\ Cardinality(judging) <= 1
    /\ \A a \in Savers : saving[a].phase \in {"idle", "embedding", "merging"}
    /\ turn = {} => saving["tool"].phase = "idle"
    /\ \A t \in ToSet(turns) : t.ids \cap undoneIds = {}
-------------------------------------------------------------------------------
(* The log, as far as sources go *)

Push ==
    /\ seq < MaxSeq /\ seq' = seq + 1
    /\ UNCHANGED <<items, turn, turns, saving, ingested, judging, windows, calls,
                   undoneIds, held, raced, origins, astray>>

\* The tools get the id the user's message is predicted to have.
StartTurn ==
    /\ turn = {} /\ seq + 2 <= MaxSeq
    /\ turn' = {[predicted |-> {seq}, said |-> {}, own |-> {}, replaced |-> {}]}
    /\ UNCHANGED <<items, seq, turns, saving, ingested, judging, windows, calls,
                   undoneIds, held, raced, origins, astray>>

\* Both messages are written; the worker is told which items the turn has memorised.
CommitTurn ==
    \E t \in turn :
        /\ saving["tool"].phase = "idle" /\ seq + 2 <= MaxSeq
        /\ turn' = {} /\ seq' = seq + 2
        /\ turns' = Append(turns, [ids |-> {seq, seq + 1}, replaced |-> t.replaced])
        /\ ingested' = Append(ingested, t.own)
        /\ origins' = [p \in Preferences |->
                         origins[p] \cup (IF p \in t.said THEN {{seq}} ELSE {})]
        /\ astray' = IF t.predicted = {seq} THEN astray ELSE astray \cup t.said
        /\ UNCHANGED <<items, saving, judging, windows, calls, undoneIds, held, raced>>

\* Mutant: a source that is a list of ids is compared as a whole.
RetractsWhole(i, gone) == items[i].source \subseteq gone

\* _undo_store_by_message_sources: an item goes when any of its messages is undone.
Retracts(i, gone) == items[i].source \cap gone # {}

\* /undo of the last turn; memory_replacements is never written, so nothing comes back.
UndoTurn ==
    /\ turn = {} /\ turns # <<>>
    /\ LET gone    == Last(turns).ids
           retired == {i \in DOMAIN items : Retracts(i, gone)}
       IN  /\ items' = [i \in DOMAIN items |->
                          IF i \in retired THEN [items[i] EXCEPT !.active = FALSE]
                          ELSE items[i]]
           /\ held' = held \ Said(retired)
           /\ undoneIds' = undoneIds \cup gone
    /\ turns' = Front(turns)
    /\ UNCHANGED <<seq, turn, saving, ingested, judging, windows, calls, raced,
                   origins, astray>>
-------------------------------------------------------------------------------
(* Saving *)

NoSave == [phase |-> "idle", text |-> "", source |-> {}, target |-> 0, summary |-> <<>>]

BeginSave(a, text, source) ==
    saving' = [saving EXCEPT ![a] = [NoSave EXCEPT !.phase = "embedding", !.text = text,
                                                   !.source = source]]

Remember(text) ==
    /\ saving["tool"].phase = "idle" /\ turn # {} /\ calls < MaxCalls
    /\ \E t \in turn : BeginSave("tool", text, t.predicted)
    /\ calls' = calls + 1
    /\ UNCHANGED <<items, seq, turn, turns, ingested, judging, windows, undoneIds, held,
                   raced, origins, astray>>

\* _save_implicit_long_term: the source is the whole window.
Extract(text) ==
    /\ saving["window"].phase = "idle" /\ turns # <<>> /\ windows < MaxWindows
    /\ BeginSave("window", text, UNION {t.ids : t \in ToSet(turns)})
    /\ windows' = windows + 1
    /\ UNCHANGED <<items, seq, turn, turns, ingested, judging, calls, undoneIds, held,
                   raced, origins, astray>>

\* Mutant: an item that is there is reinforced and left retired.
UpsertAsItIs(db, kind, summary, source) ==
    LET same == {i \in DOMAIN db : db[i].kind = kind /\ db[i].summary = summary}
    IN  IF same # {} THEN db
        ELSE Append(db, [kind |-> kind, summary |-> summary, source |-> source,
                         active |-> TRUE])

\* upsert_item: an item that is there becomes active again and keeps its source.
Upsert(db, kind, summary, source) ==
    LET same == {i \in DOMAIN db : db[i].kind = kind /\ db[i].summary = summary}
    IN  IF same # {}
        THEN [i \in DOMAIN db |-> IF i \in same THEN [db[i] EXCEPT !.active = TRUE] ELSE db[i]]
        ELSE Append(db, [kind |-> kind, summary |-> summary, source |-> source,
                         active |-> TRUE])

Retire(db, ids) ==
    [i \in DOMAIN db |-> IF i \in ids THEN [db[i] EXCEPT !.active = FALSE] ELSE db[i]]

Holder(db, kind, summary) ==
    {i \in DOMAIN db : db[i].kind = kind /\ db[i].summary = summary /\ db[i].active}

\* What a save that has returned leaves to the turn, the worker and the histories.
Reported(a, text, replaced) ==
    /\ saving' = [saving EXCEPT ![a] = NoSave]
    /\ turn' = IF a = "tool"
               THEN {[t EXCEPT !.said = @ \cup ({text} \cap Preferences),
                               !.own = @ \cup {i \in DOMAIN items' :
                                    text \in ToSet(items'[i].summary) /\ items'[i].active},
                               !.replaced = @ \cup replaced] : t \in turn}
               ELSE turn
    /\ judging' = {[j EXCEPT !.seen = @ \ {text}] : j \in judging}
    /\ origins' = IF a = "window" /\ text \in Preferences
                  THEN [origins EXCEPT ![text] = @ \cup {saving[a].source}] ELSE origins
    /\ astray' = IF \/ saving[a].source \cap undoneIds # {}
                    \/ \E i \in DOMAIN items' : /\ items'[i].source \cap undoneIds # {}
                                              /\ items'[i].summary = <<text>>
                 THEN astray \cup ({text} \cap Preferences) ELSE astray

\* The search of save_item_with_supersede, after the embedding.
RivalsOf(a) == Similar(saving[a].text)

\* A preference: the similar ones are retired, itself included, and it is written.
SavePreference(a) ==
    LET text == saving[a].text
    IN  /\ saving[a].phase = "embedding" /\ text \in Preferences
        /\ items' = Upsert(Retire(items, RivalsOf(a)), "preference", <<text>>,
                           saving[a].source)
        /\ held' = (held \ Said(RivalsOf(a))) \cup {text}
        /\ raced' = raced \ {text}
        /\ Reported(a, text, RivalsOf(a) \ Holder(items', "preference", <<text>>))
        /\ UNCHANGED <<seq, turns, ingested, windows, calls, undoneIds>>

\* A procedure that is like no other.
SaveRule(a) ==
    LET text == saving[a].text
    IN  /\ saving[a].phase = "embedding" /\ text \in Rules /\ Similar(text) = {}
        /\ items' = Upsert(items, "procedure", <<text>>, saving[a].source)
        /\ held' = held \cup {text}
        /\ raced' = raced \ {text}
        /\ Reported(a, text, {})
        /\ UNCHANGED <<seq, turns, ingested, windows, calls, undoneIds>>

\* _merge_summary_text
MergedSummary(old, text) == IF text \in ToSet(old) THEN old ELSE Append(old, text)

\* A procedure for the same tool: the merged summary is made, and has to be embedded.
PickTarget(a, target) ==
    LET text == saving[a].text
    IN  /\ saving[a].phase = "embedding" /\ text \in Rules /\ target \in Similar(text)
        /\ saving' = [saving EXCEPT ![a].phase = "merging", ![a].target = target,
                         ![a].summary = MergedSummary(items[target].summary, text)]
        /\ UNCHANGED <<items, seq, turn, turns, ingested, judging, windows, calls,
                       undoneIds, held, raced, origins, astray>>

\* merge_item_raw: the summary replaces whatever the item says now, retired or not; when
\* another item says the same, this one is retired and that one made active.
Rewritten(id, summary) ==
    IF \E i \in DOMAIN items \ {id} : items[i].kind = "procedure" /\ items[i].summary = summary
    THEN Upsert(Retire(items, {id}), "procedure", summary, {})
    ELSE [items EXCEPT ![id].summary = summary]

WriteMerge(a) ==
    LET text  == saving[a].text
        id    == saving[a].target
        after == UNION {ToSet(items'[i].summary) : i \in {j \in DOMAIN items' : items'[j].active}}
    IN  /\ saving[a].phase = "merging"
        /\ items' = Rewritten(id, saving[a].summary)
        /\ held' = held \cup {text}
        /\ raced' = IF items[id].active
                       /\ ToSet(items[id].summary) \subseteq ToSet(saving[a].summary)
                    THEN raced \ {text}
                    ELSE raced \cup ((held' \cap Rules) \ after)
        /\ Reported(a, text, {})
        /\ UNCHANGED <<seq, turns, ingested, windows, calls, undoneIds>>
-------------------------------------------------------------------------------
(* Retiring *)

\* The forget tool, in a turn.
Forget(id) ==
    /\ turn # {} /\ calls < MaxCalls /\ id \in DOMAIN items
    /\ saving["tool"].phase = "idle"
    /\ calls' = calls + 1
    /\ items' = Retire(items, {id})
    /\ held' = held \ Said({id})
    /\ UNCHANGED <<seq, turn, turns, saving, ingested, judging, windows, undoneIds, raced,
                   origins, astray>>

\* _handle_invalidations: the candidates, without what the turn memorised itself, go to
\* the light model.
Judge(ids) ==
    /\ judging = {} /\ ingested # <<>>
    /\ ids = {} \/ \E text \in Texts : ids = Similar(text) \ Head(ingested)
    /\ ingested' = Tail(ingested)
    /\ judging' = IF ids = {} THEN {} ELSE {[ids |-> ids, seen |-> Said(ids)]}
    /\ UNCHANGED <<items, seq, turn, turns, saving, windows, calls, undoneIds, held,
                   raced, origins, astray>>

\* Its verdict: all of them, or some.
Judged(ids) ==
    \E j \in judging :
        /\ ids \subseteq j.ids
        /\ items' = Retire(items, ids)
        /\ held' = held \ (Said(ids) \cap j.seen)
        /\ raced' = raced \cup (Said(ids) \ j.seen)
        /\ judging' = {}
        /\ UNCHANGED <<seq, turn, turns, saving, ingested, windows, calls, undoneIds,
                       origins, astray>>

Init ==
    /\ items = <<>> /\ seq = 0 /\ turn = {} /\ turns = <<>>
    /\ saving = [a \in Savers |-> NoSave] /\ ingested = <<>> /\ judging = {}
    /\ windows = 0 /\ calls = 0 /\ undoneIds = {} /\ held = {} /\ raced = {}
    /\ origins = [p \in Preferences |-> {}] /\ astray = {}

Next ==
    \/ Push \/ StartTurn \/ CommitTurn \/ UndoTurn
    \/ \E text \in Texts : Remember(text) \/ Extract(text)
    \/ \E a \in Savers :
          \/ SavePreference(a) \/ SaveRule(a) \/ WriteMerge(a)
          \/ \E target \in DOMAIN items : PickTarget(a, target)
    \/ \E id \in DOMAIN items : Forget(id)
    \/ \E ids \in SUBSET DOMAIN items : Judge(ids) \/ Judged(ids)

Spec == Init /\ [][Next]_vmVars
-------------------------------------------------------------------------------
(* Properties *)

\* Of several preferences about one subject one is active, whoever saves them and
\* however their embeddings overlap: the search sees what was written last.
NoRivals == Cardinality({i \in Active : items[i].kind = "preference"}) <= 1

\* What the user was told is remembered is said by an active item until it is retired
\* on request, through merges, collisions of merged summaries, retirement and a second
\* save; what two saves, or a save and a verdict, do to one item at a time is excepted.
RememberedIsHeld == held \ raced \subseteq Said(Active)

\* The undo of the turns a preference was saved from takes it back, whether the tool or
\* a consolidation saved it first; not when a push took the id the tool was given, when
\* the save ends after the undo, or when it revives an item whose messages are undone.
UndoTakesBack ==
    \A p \in Preferences \ astray :
        /\ origins[p] # {} /\ \A o \in origins[p] : o \cap undoneIds # {}
        /\ \A t \in turn : p \notin t.said
        => p \notin Said(Active)
===============================================================================
