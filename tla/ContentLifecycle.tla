-------------------------- MODULE ContentLifecycle --------------------------
(***************************************************************************)
(* The content component of the API: the rows of table `content`, the      *)
(* chunk rows derived from them, and the requests that change both         *)
(* (app/services/content.py, app/rag/pipeline.py, app/routes/deps.py).     *)
(*                                                                         *)
(* A request is one database transaction at READ COMMITTED.  It reads its  *)
(* row once, changes the in-memory copy, flushes the columns it changed    *)
(* (which takes the row lock), lets the chunk pipeline delete and insert   *)
(* chunk rows, and commits or rolls back.  Nothing re-reads the row after  *)
(* the lock is taken: every decision rests on the copy read at the start.  *)
(*                                                                         *)
(* A stored set of chunk rows is a batch: the body it was cut from and the *)
(* transaction that wrote it.                                              *)
(***************************************************************************)
EXTENDS Naturals, FiniteSets

CONSTANTS
    Items,          \* content ids
    Sessions,       \* concurrent requests (REST, MCP or agent tool calls)
    Scripts,        \* runs of scripts/reembed.py, see ContentReembed
    Bodies,         \* values of body_md
    EmptyBodies,    \* the bodies chunk_markdown cuts into no chunk at all
    MaxStamp,       \* bound on the published_at stamps taken in a behaviour
    NoItem,
    Hidden,         \* what the public page shows of an unpublished item
    Nobody          \* the owner of a free lock

ASSUME ActorAssumption == /\ Sessions \cap Scripts = {}
                          /\ Nobody \notin Sessions \cup Scripts
ASSUME DataAssumption  == /\ Bodies # {}
                          /\ EmptyBodies \subseteq Bodies
                          /\ Hidden \notin Bodies
                          /\ NoItem \notin Items
                          /\ MaxStamp \in Nat

VARIABLES
    content,        \* the committed rows
    chunks,         \* the committed chunk batches of each item
    rowLock,        \* who holds the row lock of a content row
    chunkLock,      \* who has deleted, uncommitted, an item's chunk rows
    txn,            \* the transaction each request is running
    stamps          \* how many published_at stamps have been taken

vars == <<content, chunks, rowLock, chunkLock, txn, stamps>>

Actors   == Sessions \cup Scripts
Statuses == {"absent", "draft", "published", "archived"}
Columns  == {"status", "is_deleted", "body_md", "published_at"}

\* published_at = 0 stands for NULL; "absent" is a row not inserted yet.
Row   == [status : Statuses, is_deleted : BOOLEAN, body_md : Bodies,
          published_at : 0..MaxStamp]
Batch == [body : Bodies, by : Actors]

Ops    == {"create", "update", "tags", "publish", "archive", "delete"}
Stages == {"loaded", "flushed", "deleting", "deleted", "ready"}

\* mem is the ORM instance, dirty the columns its UPDATE will name; gone and
\* add are the chunk batches the transaction deletes and inserts.
Txn == [op : Ops, item : Items, stage : Stages, mem : Row,
        dirty : SUBSET Columns, pipeline : {"none", "rebuild", "remove"},
        gone : SUBSET Batch, add : SUBSET Batch]

Idle == [op |-> "none", item |-> NoItem, stage |-> "idle"]

Running(s) == txn[s] # Idle
At(s, stg) == Running(s) /\ txn[s].stage = stg

Active(i)    == content[i].status # "absent" /\ ~content[i].is_deleted
Visible(i)   == content[i].status = "published" /\ ~content[i].is_deleted
Retrieved(i) == IF Visible(i) THEN {c.body : c \in chunks[i]} ELSE {}

-----------------------------------------------------------------------------
Init ==
    /\ content = [i \in Items |-> [status |-> "absent", is_deleted |-> FALSE,
                                   body_md |-> CHOOSE b \in Bodies : TRUE,
                                   published_at |-> 0]]
    /\ chunks    = [i \in Items |-> {}]
    /\ rowLock   = [i \in Items |-> Nobody]
    /\ chunkLock = [i \in Items |-> Nobody]
    /\ txn       = [s \in Sessions |-> Idle]
    /\ stamps    = 0

\* Mutant: an UPDATE of the whole row, as session.merge of a copy would send.
ChangedColumnsAll(old, new) == Columns

(***************************************************************************)
(* The part of each operation that runs on the copy get_content returned.  *)
(* The ORM's UPDATE names exactly the columns whose value has changed.     *)
(***************************************************************************)
ChangedColumns(old, new) == {c \in Columns : old[c] # new[c]}

Start(s, op, i, new, pipeline) ==
    /\ ~Running(s)
    /\ txn' = [txn EXCEPT ![s] =
                 [op |-> op, item |-> i, stage |-> "loaded", mem |-> new,
                  dirty |-> ChangedColumns(content[i], new),
                  pipeline |-> pipeline, gone |-> {}, add |-> {}]]
    /\ UNCHANGED <<content, chunks, rowLock, chunkLock>>

\* The id of a new row is drawn by the request, so no two requests share it.
CreateDraft(s, i, b) ==
    /\ content[i].status = "absent"
    /\ \A t \in Sessions : txn[t].item # i
    /\ Start(s, "create", i,
             [content[i] EXCEPT !.status = "draft", !.body_md = b], "none")
    /\ UNCHANGED stamps

\* Mutant: a rebuild whatever the status.
UpdateContentAnyStatus(s, i, b) ==
    /\ Active(i)
    /\ Start(s, "update", i, [content[i] EXCEPT !.body_md = b], "rebuild")
    /\ UNCHANGED stamps

\* A PATCH that names no body passes the body the request read.
UpdateContent(s, i, b) ==
    /\ Active(i)
    /\ Start(s, "update", i, [content[i] EXCEPT !.body_md = b],
             IF content[i].status = "published" THEN "rebuild" ELSE "none")
    /\ UNCHANGED stamps

UpdateContentTags(s, i) ==
    /\ Active(i)
    /\ Start(s, "tags", i, content[i], "none")
    /\ UNCHANGED stamps

\* The first publish takes a stamp; a later one keeps the one it finds.
FirstStamp(row) == IF row.published_at = 0 THEN stamps + 1 ELSE row.published_at

\* Mutant: chunks are built only on the very first publish.
PublishContentOnce(s, i) ==
    /\ Active(i)
    /\ FirstStamp(content[i]) <= MaxStamp
    /\ stamps' = IF content[i].published_at = 0 THEN stamps + 1 ELSE stamps
    /\ Start(s, "publish", i,
             [content[i] EXCEPT !.status = "published",
                                !.published_at = FirstStamp(content[i])],
             IF content[i].published_at # 0 THEN "none" ELSE "rebuild")

PublishContent(s, i) ==
    /\ Active(i)
    /\ FirstStamp(content[i]) <= MaxStamp
    /\ stamps' = IF content[i].published_at = 0 THEN stamps + 1 ELSE stamps
    /\ Start(s, "publish", i,
             [content[i] EXCEPT !.status = "published",
                                !.published_at = FirstStamp(content[i])],
             IF content[i].status = "published" THEN "none" ELSE "rebuild")

ArchiveContent(s, i) ==
    /\ Active(i)
    /\ content[i].status = "published"
    /\ Start(s, "archive", i, [content[i] EXCEPT !.status = "archived"], "remove")
    /\ UNCHANGED stamps

\* Mutant: no remove_chunks.
DeleteContentKeepsChunks(s, i) ==
    /\ Active(i)
    /\ Start(s, "delete", i, [content[i] EXCEPT !.is_deleted = TRUE], "none")
    /\ UNCHANGED stamps

DeleteContent(s, i) ==
    /\ Active(i)
    /\ Start(s, "delete", i, [content[i] EXCEPT !.is_deleted = TRUE], "remove")
    /\ UNCHANGED stamps

\* Mutant: no UPDATE before the pipeline runs (nothing dirty), so no row lock.
FlushNothing(s) ==
    /\ At(s, "loaded")
    /\ txn' = [txn EXCEPT ![s].stage = "flushed"]
    /\ UNCHANGED <<content, chunks, rowLock, chunkLock, stamps>>

(***************************************************************************)
(* session.flush(): the UPDATE waits for the row lock and keeps it until   *)
(* the transaction ends.  updated_at is always dirty, so every operation   *)
(* sends one.                                                              *)
(***************************************************************************)
Flush(s) ==
    LET i == txn[s].item IN
    /\ At(s, "loaded")
    /\ rowLock[i] = Nobody
    /\ rowLock' = [rowLock EXCEPT ![i] = s]
    /\ txn' = [txn EXCEPT ![s].stage = "flushed"]
    /\ UNCHANGED <<content, chunks, chunkLock, stamps>>

(***************************************************************************)
(* The pipeline's DELETE: its snapshot is taken when the statement starts, *)
(* and it then waits for a transaction that is deleting the same rows.     *)
(***************************************************************************)
StartDelete(s) ==
    /\ At(s, "flushed")
    /\ txn[s].pipeline # "none"
    /\ txn' = [txn EXCEPT ![s].stage = "deleting",
                          ![s].gone = chunks[txn[s].item]]
    /\ UNCHANGED <<content, chunks, rowLock, chunkLock, stamps>>

FinishDelete(s) ==
    LET i == txn[s].item IN
    /\ At(s, "deleting")
    /\ chunkLock[i] = Nobody \/ txn[s].gone \cap chunks[i] = {}
    /\ chunkLock' = IF txn[s].gone \cap chunks[i] = {} THEN chunkLock
                    ELSE [chunkLock EXCEPT ![i] = s]
    /\ txn' = [txn EXCEPT ![s].stage =
                 IF txn[s].pipeline = "remove" THEN "ready" ELSE "deleted"]
    /\ UNCHANGED <<content, chunks, rowLock, stamps>>

\* chunk_markdown, embed_texts and the INSERTs, all on the in-memory body.
Batches(b, by) == IF b \in EmptyBodies THEN {} ELSE {[body |-> b, by |-> by]}

EmbedAndInsert(s) ==
    /\ At(s, "deleted")
    /\ txn' = [txn EXCEPT ![s].stage = "ready",
                          ![s].add = Batches(txn[s].mem.body_md, s)]
    /\ UNCHANGED <<content, chunks, rowLock, chunkLock, stamps>>

(***************************************************************************)
(* get_session ends the transaction: COMMIT after the handler returned,    *)
(* ROLLBACK on any exception (a failed embedding, a lost connection, the   *)
(* process dying) at any point before.                                     *)
(***************************************************************************)
Written(row, mem, dirty) ==
    [status       |-> IF "status" \in dirty THEN mem.status ELSE row.status,
     is_deleted   |-> IF "is_deleted" \in dirty THEN mem.is_deleted
                                                ELSE row.is_deleted,
     body_md      |-> IF "body_md" \in dirty THEN mem.body_md ELSE row.body_md,
     published_at |-> IF "published_at" \in dirty THEN mem.published_at
                                                  ELSE row.published_at]

\* Mutant: a session that is never closed keeps its locks.
ReleaseNothing(lock, a) == lock

Release(lock, a) == [i \in Items |-> IF lock[i] = a THEN Nobody ELSE lock[i]]

Commit(s) ==
    LET t == txn[s] IN
    /\ At(s, "ready") \/ (At(s, "flushed") /\ t.pipeline = "none")
    /\ content' = [content EXCEPT ![t.item] = Written(@, t.mem, t.dirty)]
    /\ chunks' = [chunks EXCEPT ![t.item] = (@ \ t.gone) \cup t.add]
    /\ rowLock' = Release(rowLock, s)
    /\ chunkLock' = Release(chunkLock, s)
    /\ txn' = [txn EXCEPT ![s] = Idle]
    /\ UNCHANGED stamps

Rollback(s) ==
    /\ Running(s)
    /\ rowLock' = Release(rowLock, s)
    /\ chunkLock' = Release(chunkLock, s)
    /\ txn' = [txn EXCEPT ![s] = Idle]
    /\ UNCHANGED <<content, chunks, stamps>>

-----------------------------------------------------------------------------
Request(s, i) ==
    \/ \E b \in Bodies : CreateDraft(s, i, b) \/ UpdateContent(s, i, b)
    \/ UpdateContentTags(s, i)
    \/ PublishContent(s, i)
    \/ ArchiveContent(s, i)
    \/ DeleteContent(s, i)

Progress(s) ==
    \/ Flush(s)
    \/ StartDelete(s)
    \/ FinishDelete(s)
    \/ EmbedAndInsert(s)
    \/ Commit(s)

Next == \E s \in Sessions :
            \/ \E i \in Items : Request(s, i)
            \/ Progress(s)
            \/ Rollback(s)

Spec == Init /\ [][Next]_vars

-----------------------------------------------------------------------------
(***************************************************************************)
(* What holds with any number of requests running at once.                 *)
(***************************************************************************)

\* Every variable stays in its range.
TypeOK ==
    /\ content \in [Items -> Row]
    /\ chunks \in [Items -> SUBSET Batch]
    /\ rowLock \in [Items -> Sessions \cup {Nobody}]
    /\ chunkLock \in [Items -> Actors \cup {Nobody}]
    /\ txn \in [Sessions -> Txn \cup {Idle}]
    /\ stamps \in 0..MaxStamp

\* No interleaving of rebuilds leaves an item with two sets of chunks, which
\* retrieval would return side by side: chunk rows are only written under
\* the row lock the flush took (there is no unique key on chunks).
OneChunkSet == \A i \in Items : \A x, y \in chunks[i] : x = y

\* A stale copy never gives a draft chunks: an item nobody ever published
\* has none, whatever requests overlapped on it.
DraftHasNoChunks ==
    \A i \in Items : content[i].published_at = 0 => chunks[i] = {}

\* An item the public site shows can be found by chat: publish, edit, archive
\* and delete racing on it never leave it published without chunks.  An item
\* published with an empty body has none, so this is for non-empty bodies.
VisibleIsRetrievable ==
    EmptyBodies = {} => \A i \in Items : Visible(i) => Retrieved(i) # {}

\* A request that read the row before another committed writes back none of
\* the columns it did not mean to change: a column changes only in the commit
\* of an operation that owns it.  (A stale update never un-archives or
\* un-deletes an item, a stale archive never reverts a body.)
Owners == [status |-> {"create", "publish", "archive"}, is_deleted |-> {"delete"},
           body_md |-> {"create", "update"}, published_at |-> {"publish"}]

ColumnsHaveOwners ==
    [][\A i \in Items, c \in Columns :
          content'[i][c] # content[i][c] =>
            \E s \in Sessions : /\ Running(s) /\ ~Running(s)'
                               /\ txn[s].item = i
                               /\ txn[s].op \in Owners[c]]_content

\* Deleting is for ever, for the page and for retrieval: once the tombstone is
\* committed no later commit shows the item again (there is no restore path).
DeletedStaysHidden ==
    [][\A i \in Items : content[i].is_deleted =>
          content'[i].is_deleted /\ Retrieved(i)' = {}]_vars

(***************************************************************************)
(* What the docstring of publish_content promises without saying that the  *)
(* requests on an item must not overlap.                                   *)
(***************************************************************************)

\* The chunks of a published item are those of its current body.  An edit and a
\* first publication that overlap leave those of the body the publication read.
ChunksReflectBody ==
    \A i \in Items : Visible(i) =>
        Retrieved(i) = {content[i].body_md} \ EmptyBodies

\* published_at is never overwritten, so the order of the public feed stays as it is
\* through edits, archivings and later publishes.  Of two first publications that
\* overlap the later commit overwrites it.
FirstStampLasts ==
    [][\A i \in Items : content[i].published_at # 0 =>
          content'[i].published_at = content[i].published_at]_content

(***************************************************************************)
(* What holds when the requests on an item do not overlap, those on        *)
(* different items as they please.                                         *)
(***************************************************************************)
Apart ==
    \A s, u \in Sessions : Running(s) /\ txn[s].item = txn[u].item => s = u

ApartSpec == Init /\ [][Next /\ Apart']_vars

\* The page and the stored chunks change together, as Corpus describes.
Readers == INSTANCE Corpus WITH
    page  <- [i \in Items |-> IF Visible(i) THEN content[i].body_md ELSE Hidden],
    index <- [i \in Items |-> {c.body : c \in chunks[i]}],
    gone  <- {i \in Items : content[i].is_deleted}

ImplementsCorpus == Readers!Spec

-----------------------------------------------------------------------------
(***************************************************************************)
(* The inductive invariants the proofs rest on.                            *)
(***************************************************************************)

\* The row lock serialises the chunk writes of an item: past its flush a
\* request holds the lock, so what its DELETE saw is what is stored.
LockInv ==
    \A s \in Sessions : Running(s) =>
        /\ txn[s].stage # "loaded" => rowLock[txn[s].item] = s
        /\ txn[s].stage \in {"deleting", "deleted", "ready"} =>
               /\ txn[s].gone = chunks[txn[s].item]
               /\ txn[s].pipeline # "none"
        /\ txn[s].stage = "deleted" => txn[s].pipeline = "rebuild"
        /\ txn[s].stage \in {"loaded", "flushed"} => txn[s].gone = {}
        /\ txn[s].stage # "ready" => txn[s].add = {}
        /\ \A x, y \in txn[s].add : x = y

\* What a stale copy may still write: only the columns of its operation, and
\* into a row that was published once if it rebuilds chunks.
CopyOK(t, row) ==
    /\ \A c \in t.dirty : t.op \in Owners[c]
    /\ "is_deleted" \in t.dirty => t.mem.is_deleted
    /\ "published_at" \in t.dirty => t.mem.published_at # 0
    /\ t.pipeline = "rebuild" =>
           row.published_at # 0 \/ "published_at" \in t.dirty
    /\ "status" \in t.dirty /\ t.mem.status = "published" =>
           t.pipeline = "rebuild"
    /\ t.pipeline = "remove" =>
           \/ "status" \in t.dirty /\ t.mem.status # "published"
           \/ "is_deleted" \in t.dirty
    /\ t.pipeline # "rebuild" => t.add = {}
    /\ EmptyBodies = {} /\ t.stage = "ready" /\ t.pipeline = "rebuild" =>
           t.add # {}

CopyInv == \A s \in Sessions : Running(s) => CopyOK(txn[s], content[txn[s].item])

PublishedHasStamp ==
    \A i \in Items : content[i].status = "published" => content[i].published_at # 0

SafetyInv == /\ LockInv /\ CopyInv /\ PublishedHasStamp
             /\ OneChunkSet /\ DraftHasNoChunks /\ VisibleIsRetrievable
=============================================================================
