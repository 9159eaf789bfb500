------------------------------- MODULE DocIndex -------------------------------
(***************************************************************************)
(* The index of the document knowledge base (doc_rag): a run loads the     *)
(* Markdown files, marks the documents that are gone as deleted, embeds    *)
(* what has changed, and replaces a document and its chunks in one         *)
(* transaction.  Runs are processes of their own (scripts/                 *)
(* doc_rag_index_check.py) beside the agent that searches: files change    *)
(* under a run, it may die, and two of them may overlap.                   *)
(*                                                                         *)
(* A file's content stands for its hash, and the chunks of a document for  *)
(* the content they were cut from and the model they were embedded with.   *)
(***************************************************************************)
EXTENDS Naturals, Sequences, SequencesExt

CONSTANTS
    Paths,      \* source paths in their order, a sequence
    Texts,      \* contents of files
    Models,     \* embedding models, of the configuration a run starts with
    MaxRuns,    \* bound: runs of the indexer, in the order they start
    Options,    \* IndexOptions a run may be started with
    MaxEdits    \* bound: changes of files

DocIndexAssumption ==
    /\ Paths \in Seq(STRING) /\ IsInjective(Paths) /\ MaxEdits \in Nat /\ MaxRuns \in Nat
    /\ Options \subseteq [rebuild : BOOLEAN, dry : BOOLEAN]

VARIABLES
    disk,       \* the content of each file, "none" if there is no such file
    edits,
    docs,       \* documents: status and content_hash, "none" without a row
    chunks,     \* the chunks of a document, {} or a set of one
    meta,       \* the embedding model in meta
    indexRuns,  \* index_runs.status
    run,        \* what each run is doing and knows
    disturbed   \* history: runs during which a file or another run's write came

docVars == <<disk, edits, docs, chunks, meta, indexRuns, run, disturbed>>
store == <<docs, chunks, meta>>

Docs == ToSet(Paths)
Runs == 1..MaxRuns
NoRow == [status |-> "none", hash |-> "none"]
NotStarted == [at |-> "none"]

Doing(r, place) == run[r].at = place
Goto(r, place) == run' = [run EXCEPT ![r].at = place]
Over(r) == run' = [run EXCEPT ![r] = [at |-> "over"]]

\* The store or a file is written by r, or by nobody of the runs: the others that are
\* under way may not have seen it.
DisturbedBy(r) ==
    disturbed' = disturbed \cup {q \in Runs \ {r} : run[q].at \notin {"none", "over"}}

-------------------------------------------------------------------------------
(* DocRagIndexer.run                                                           *)

Start(r, model, options) ==
    /\ Doing(r, "none") /\ \A q \in 1..(r - 1) : ~Doing(q, "none")
    /\ indexRuns' = [indexRuns EXCEPT ![r] = "running"]
    /\ run' = [run EXCEPT ![r] = [at |-> "load", model |-> model, rebuild |-> options.rebuild,
                                  dry |-> options.dry, todo |-> {}, failed |-> FALSE]]
    /\ UNCHANGED <<disk, edits, store, disturbed>>

\* load_all: what is on the disk, except the files that cannot be read, are too large,
\* empty or not UTF-8 this time.
Load(r, bad) ==
    /\ Doing(r, "load")
    /\ \A d \in bad : disk[d] # "none"
    /\ LET good == {d \in Docs : disk[d] # "none"} \ bad
       IN  run' = [run EXCEPT ![r].at = IF run[r].dry THEN "docs" ELSE "missing",
                                  ![r].todo = {[doc |-> d, text |-> disk[d]] : d \in good},
                                  ![r].failed = bad # {}]
    /\ UNCHANGED <<disk, edits, store, indexRuns, disturbed>>

Seen(r) == {loaded.doc : loaded \in run[r].todo}

\* mark_missing_documents_deleted: a file that could not be read counts as missing.
MarkMissing(r) ==
    LET gone == {d \in Docs \ Seen(r) : docs[d].status = "active"}
    IN  /\ Doing(r, "missing") /\ Goto(r, "docs")
        /\ docs' = [d \in Docs |-> IF d \in gone THEN [docs[d] EXCEPT !.status = "deleted"]
                                   ELSE docs[d]]
        /\ chunks' = [d \in Docs |-> IF d \in gone THEN {} ELSE chunks[d]]
        /\ IF gone = {} THEN UNCHANGED disturbed ELSE DisturbedBy(r)
        /\ UNCHANGED <<disk, edits, meta, indexRuns>>

\* They are taken in the order of their paths.
Place(d) == CHOOSE i \in DOMAIN Paths : Paths[i] = d

Current(r) ==
    CHOOSE loaded \in run[r].todo :
        \A other \in run[r].todo : Place(loaded.doc) <= Place(other.doc)

NextDoc(r, failed) ==
    run' = [run EXCEPT ![r].at = "docs", ![r].todo = @ \ {Current(r)}, ![r].failed = @ \/ failed]

\* Mutant: a row is enough, deleted or not.
UpToDateIfDeleted(r) ==
    docs[Current(r).doc].hash = Current(r).text /\ ~run[r].rebuild

\* The model the chunks were embedded with is not looked at.
UpToDate(r) ==
    /\ docs[Current(r).doc] = [status |-> "active", hash |-> Current(r).text]
    /\ ~run[r].rebuild

Skip(r) ==
    /\ Doing(r, "docs") /\ run[r].todo # {}
    /\ UpToDate(r) /\ NextDoc(r, FALSE)
    /\ UNCHANGED <<disk, edits, store, indexRuns, disturbed>>

\* Cut, and then wait for the embeddings.
Chunk(r) ==
    /\ Doing(r, "docs") /\ run[r].todo # {}
    /\ ~UpToDate(r) /\ Goto(r, "embed")
    /\ UNCHANGED <<disk, edits, store, indexRuns, disturbed>>

\* replace_document_chunks.
Replace(r) ==
    LET d == Current(r).doc
        text == Current(r).text
    IN  /\ Doing(r, "embed") /\ NextDoc(r, FALSE)
        /\ IF run[r].dry THEN UNCHANGED <<docs, chunks, disturbed>>
           ELSE /\ docs' = [docs EXCEPT ![d] = [status |-> "active", hash |-> text]]
                /\ chunks' = [chunks EXCEPT ![d] = {[text |-> text, model |-> run[r].model]}]
                /\ DisturbedBy(r)
        /\ UNCHANGED <<disk, edits, meta, indexRuns>>

\* No embeddings, of the wrong length, or a database that is locked: rolled back.
IndexingFails(r) ==
    /\ Doing(r, "embed") /\ NextDoc(r, TRUE)
    /\ UNCHANGED <<disk, edits, store, indexRuns, disturbed>>

WriteMeta(r) ==
    /\ Doing(r, "docs") /\ run[r].todo = {} /\ Goto(r, "finish")
    /\ IF run[r].dry THEN UNCHANGED <<meta, disturbed>>
       ELSE meta' = run[r].model /\ DisturbedBy(r)
    /\ UNCHANGED <<disk, edits, docs, chunks, indexRuns>>

Finish(r) ==
    /\ Doing(r, "finish") /\ Over(r)
    /\ indexRuns' = [indexRuns EXCEPT ![r] =
                       IF run[r].failed THEN "partial_failed" ELSE "succeeded"]
    /\ UNCHANGED <<disk, edits, store, disturbed>>

\* A store call raises, or load_all: what was written stays.
Fails(r) ==
    /\ run[r].at \in {"load", "missing", "docs", "finish"} /\ Over(r)
    /\ indexRuns' = [indexRuns EXCEPT ![r] = "failed"]
    /\ UNCHANGED <<disk, edits, store, disturbed>>

\* The process dies: its row says running from then on.
Crash(r) ==
    /\ run[r].at \notin {"none", "over"} /\ Over(r)
    /\ UNCHANGED <<disk, edits, store, indexRuns, disturbed>>

\* Somebody writes, or deletes, a file.
Edit(d, text) ==
    /\ edits < MaxEdits /\ edits' = edits + 1
    /\ text # disk[d] /\ disk' = [disk EXCEPT ![d] = text]
    /\ DisturbedBy(0)
    /\ UNCHANGED <<store, indexRuns, run>>

\* The index is new, or knows documents that an earlier run found gone.
DocInit ==
    /\ disk \in [Docs -> Texts \cup {"none"}] /\ edits = 0
    /\ docs \in [Docs -> {NoRow} \cup [status : {"deleted"}, hash : Texts]]
    /\ chunks = [d \in Docs |-> {}] /\ meta = "none"
    /\ indexRuns = [r \in Runs |-> "none"] /\ run = [r \in Runs |-> NotStarted]
    /\ disturbed = {}

DocNext ==
    \/ \E r \in Runs :
         \/ \E model \in Models, options \in Options : Start(r, model, options)
         \/ \E bad \in SUBSET Docs : Load(r, bad)
         \/ MarkMissing(r) \/ Skip(r) \/ Chunk(r) \/ Replace(r) \/ IndexingFails(r)
         \/ WriteMeta(r) \/ Finish(r) \/ Fails(r) \/ Crash(r)
    \/ \E d \in Docs, text \in Texts \cup {"none"} : Edit(d, text)

-------------------------------------------------------------------------------
DocTypeOK ==
    /\ docs \in [Docs -> [status : {"none", "active", "deleted"}, hash : Texts \cup {"none"}]]
    /\ chunks \in [Docs -> SUBSET [text : Texts, model : Models]]
    /\ meta \in Models \cup {"none"} /\ disturbed \subseteq Runs
    /\ indexRuns \in [Runs -> {"none", "running", "succeeded", "partial_failed", "failed"}]

\* What a search can find of a document is what its row says it holds, whatever runs
\* overlap, fail or die (doc_rag/store.py replace_document_chunks,
\* mark_missing_documents_deleted).
ChunksAreTheRows ==
    \A d \in Docs : {c.text : c \in chunks[d]} =
                    IF docs[d].status = "active" THEN {docs[d].hash} ELSE {}

\* A run that says it succeeded leaves an index that mirrors the files, deleted ones
\* that came back included, unless a file was written or another run wrote during it;
\* after a rebuild, every chunk is of the model that meta names.
SuccessMirrorsDisk ==
    [][\A r \in Runs :
        /\ indexRuns'[r] = "succeeded" /\ indexRuns[r] # "succeeded"
        /\ ~run[r].dry /\ r \notin disturbed
        => \A d \in Docs :
             /\ {c.text : c \in chunks[d]} = {disk[d]} \ {"none"}
             /\ run[r].rebuild => {c.model : c \in chunks[d]} \subseteq {meta}]_docVars

\* A document whose file was there and readable stays findable: its chunks go only in
\* a run that did not get to see the file, never because the embedding failed.
SeenStaysFindable ==
    [][\A d \in Docs : chunks[d] # {} /\ chunks'[d] = {} =>
          \E r \in Runs : Doing(r, "missing") /\ ~run[r].dry /\ d \notin Seen(r)]_docVars
=============================================================================
