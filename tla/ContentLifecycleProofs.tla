----------------------- MODULE ContentLifecycleProofs -----------------------
(***************************************************************************)
(* What ContentLifecycle and ContentReembed guarantee for any number of    *)
(* items, requests, runs of the script and bodies.                         *)
(***************************************************************************)
EXTENDS ContentReembed, WellFoundedInduction, TLAPS

\* Merging a flushed copy into a row yields a row.
LEMMA WrittenType ==
    ASSUME NEW row \in Row, NEW mem \in Row, NEW dirty
    PROVE  Written(row, mem, dirty) \in Row
BY DEF Written, Row

\* No step takes a variable out of its range.
LEMMA TypeStep ==
    ASSUME TypeOK, [Next]_vars
    PROVE  TypeOK'
<1> USE ActorAssumption, DataAssumption
<1>0. \A s \in Sessions, op \in Ops, i \in Items, new \in Row,
         p \in {"none", "rebuild", "remove"} :
         Start(s, op, i, new, p) /\ stamps' \in 0..MaxStamp => TypeOK'
  BY DEF Start, TypeOK, Txn, ChangedColumns, Stages
<1>1. ASSUME NEW s \in Sessions, NEW i \in Items, Request(s, i)
      PROVE  TypeOK'
  <2>0. content[i] \in Row
    BY DEF TypeOK
  <2>1. ASSUME NEW b \in Bodies, CreateDraft(s, i, b) PROVE TypeOK'
    <3>1. [content[i] EXCEPT !.status = "draft", !.body_md = b] \in Row
      BY <2>0 DEF Row, Statuses
    <3>2. QED BY <2>1, <3>1, <1>0 DEF CreateDraft, Ops, TypeOK
  <2>2. ASSUME NEW b \in Bodies, UpdateContent(s, i, b) PROVE TypeOK'
    <3>1. [content[i] EXCEPT !.body_md = b] \in Row
      BY <2>0 DEF Row
    <3>2. QED BY <2>2, <3>1, <1>0 DEF UpdateContent, Ops, TypeOK
  <2>3. CASE UpdateContentTags(s, i)
    BY <2>3, <2>0, <1>0 DEF UpdateContentTags, Ops, TypeOK
  <2>4. CASE PublishContent(s, i)
    <3>1. /\ stamps' \in 0..MaxStamp
          /\ FirstStamp(content[i]) \in 0..MaxStamp
      BY <2>4, <2>0 DEF PublishContent, FirstStamp, TypeOK, Row
    <3>2. [content[i] EXCEPT !.status = "published",
                             !.published_at = FirstStamp(content[i])] \in Row
      BY <3>1, <2>0 DEF Row, Statuses
    <3>3. QED BY <2>4, <3>1, <3>2, <1>0 DEF PublishContent, Ops
  <2>5. CASE ArchiveContent(s, i)
    <3>1. [content[i] EXCEPT !.status = "archived"] \in Row
      BY <2>0 DEF Row, Statuses
    <3>2. QED BY <2>5, <3>1, <1>0 DEF ArchiveContent, Ops, TypeOK
  <2>6. CASE DeleteContent(s, i)
    <3>1. [content[i] EXCEPT !.is_deleted = TRUE] \in Row
      BY <2>0 DEF Row
    <3>2. QED BY <2>6, <3>1, <1>0 DEF DeleteContent, Ops, TypeOK
  <2>7. QED BY <1>1, <2>1, <2>2, <2>3, <2>4, <2>5, <2>6 DEF Request
<1>2. ASSUME NEW s \in Sessions, Flush(s) PROVE TypeOK'
  BY <1>2 DEF Flush, At, Running, TypeOK, Txn, Stages
<1>3. ASSUME NEW s \in Sessions, StartDelete(s) PROVE TypeOK'
  <2>1. txn[s] \in Txn /\ txn[s].item \in Items
    BY <1>3 DEF StartDelete, At, Running, TypeOK, Txn
  <2>2. [txn[s] EXCEPT !.stage = "deleting", !.gone = chunks[txn[s].item]] \in Txn
    BY <2>1 DEF Txn, Stages, TypeOK
  <2>3. QED BY <1>3, <2>2 DEF StartDelete, TypeOK
<1>4. ASSUME NEW s \in Sessions, FinishDelete(s) PROVE TypeOK'
  BY <1>4 DEF FinishDelete, At, Running, TypeOK, Txn, Stages, Actors
<1>5. ASSUME NEW s \in Sessions, EmbedAndInsert(s) PROVE TypeOK'
  <2>1. txn[s] \in Txn /\ txn[s].mem \in Row
    BY <1>5 DEF EmbedAndInsert, At, Running, TypeOK, Txn
  <2>2. Batches(txn[s].mem.body_md, s) \in SUBSET Batch
    BY <2>1 DEF Batches, Batch, Actors, Row
  <2>3. [txn[s] EXCEPT !.stage = "ready",
                       !.add = Batches(txn[s].mem.body_md, s)] \in Txn
    BY <2>1, <2>2 DEF Txn, Stages
  <2>4. QED BY <1>5, <2>3 DEF EmbedAndInsert, TypeOK
<1>6. ASSUME NEW s \in Sessions, Commit(s) PROVE TypeOK'
  <2>1. txn[s] \in Txn
    BY <1>6 DEF Commit, At, Running, TypeOK
  <2>2. content' \in [Items -> Row]
    BY <1>6, <2>1, WrittenType DEF Commit, TypeOK, Txn
  <2>3. QED BY <1>6, <2>1, <2>2 DEF Commit, Release, TypeOK, Txn
<1>7. ASSUME NEW s \in Sessions, Rollback(s) PROVE TypeOK'
  BY <1>7 DEF Rollback, Release, TypeOK
<1>8. CASE UNCHANGED vars
  BY <1>8 DEF vars, TypeOK
<1>9. QED BY <1>1, <1>2, <1>3, <1>4, <1>5, <1>6, <1>7, <1>8
          DEF Next, Progress

\* Every variable of the content component stays in its range.
THEOREM TypeCorrect == Spec => []TypeOK
<1>1. Init => TypeOK
  BY DataAssumption DEF Init, TypeOK, Row, Statuses, Actors
<1>2. TypeOK /\ [Next]_vars => TypeOK'
  BY TypeStep
<1>3. QED BY <1>1, <1>2, PTL DEF Spec

-----------------------------------------------------------------------------
\* A request starts by reading its row: it holds a copy that obeys CopyOK and
\* has changed nothing yet.
LEMMA RequestStarts ==
    ASSUME TypeOK, PublishedHasStamp,
           NEW s \in Sessions, NEW i \in Items, Request(s, i)
    PROVE  /\ ~Running(s)
           /\ \A r \in Sessions \ {s} : txn'[r] = txn[r]
           /\ txn'[s].item = i
           /\ txn'[s].stage = "loaded"
           /\ txn'[s].gone = {} /\ txn'[s].add = {}
           /\ CopyOK(txn'[s], content[i])
           /\ UNCHANGED <<content, chunks, rowLock, chunkLock>>
<1> USE DataAssumption
<1>0. content[i] \in Row /\ txn \in [Sessions -> Txn \cup {Idle}]
  BY DEF TypeOK
<1>1. ASSUME NEW op, NEW new, NEW p, Start(s, op, i, new, p)
      PROVE  /\ ~Running(s)
             /\ \A r \in Sessions \ {s} : txn'[r] = txn[r]
             /\ txn'[s] = [op |-> op, item |-> i, stage |-> "loaded", mem |-> new,
                           dirty |-> ChangedColumns(content[i], new),
                           pipeline |-> p, gone |-> {}, add |-> {}]
             /\ UNCHANGED <<content, chunks, rowLock, chunkLock>>
  BY <1>1, <1>0 DEF Start
<1>2. ASSUME NEW new \in Row
      PROVE  /\ "status" \in ChangedColumns(content[i], new)
                   <=> content[i].status # new.status
             /\ "is_deleted" \in ChangedColumns(content[i], new)
                   <=> content[i].is_deleted # new.is_deleted
             /\ "body_md" \in ChangedColumns(content[i], new)
                   <=> content[i].body_md # new.body_md
             /\ "published_at" \in ChangedColumns(content[i], new)
                   <=> content[i].published_at # new.published_at
             /\ ChangedColumns(content[i], new) \subseteq Columns
  BY DEF ChangedColumns, Columns
<1>3. ASSUME NEW b \in Bodies, CreateDraft(s, i, b)
      PROVE  CopyOK(txn'[s], content[i])
  <2> DEFINE new == [content[i] EXCEPT !.status = "draft", !.body_md = b]
  <2>1. new \in Row
    BY <1>0 DEF Row, Statuses
  <2>2. /\ new.is_deleted = content[i].is_deleted
        /\ new.published_at = content[i].published_at
        /\ new.status = "draft"
    BY <1>0 DEF Row
  <2>3. txn'[s] = [op |-> "create", item |-> i, stage |-> "loaded", mem |-> new,
                   dirty |-> ChangedColumns(content[i], new),
                   pipeline |-> "none", gone |-> {}, add |-> {}]
    BY <1>3, <1>1 DEF CreateDraft
  <2> HIDE DEF new
  <2>4. QED BY <2>1, <2>2, <2>3, <1>2 DEF CopyOK, Owners, Columns
<1>4. ASSUME NEW b \in Bodies, UpdateContent(s, i, b)
      PROVE  CopyOK(txn'[s], content[i])
  <2> DEFINE new == [content[i] EXCEPT !.body_md = b]
             p   == IF content[i].status = "published" THEN "rebuild" ELSE "none"
  <2>1. new \in Row
    BY <1>0 DEF Row
  <2>2. /\ new.is_deleted = content[i].is_deleted
        /\ new.published_at = content[i].published_at
        /\ new.status = content[i].status
    BY <1>0 DEF Row
  <2>3. txn'[s] = [op |-> "update", item |-> i, stage |-> "loaded", mem |-> new,
                   dirty |-> ChangedColumns(content[i], new),
                   pipeline |-> p, gone |-> {}, add |-> {}]
    BY <1>4, <1>1 DEF UpdateContent
  <2>4. p = "rebuild" => content[i].published_at # 0
    BY DEF PublishedHasStamp
  <2>5. p \in {"rebuild", "none"}
    OBVIOUS
  <2> HIDE DEF new, p
  <2>6. QED BY <2>1, <2>2, <2>3, <2>4, <2>5, <1>2 DEF CopyOK, Owners, Columns
<1>5. ASSUME UpdateContentTags(s, i) PROVE CopyOK(txn'[s], content[i])
  <2>1. txn'[s] = [op |-> "tags", item |-> i, stage |-> "loaded", mem |-> content[i],
                   dirty |-> ChangedColumns(content[i], content[i]),
                   pipeline |-> "none", gone |-> {}, add |-> {}]
    BY <1>5, <1>1 DEF UpdateContentTags
  <2>2. QED BY <2>1 DEF CopyOK, ChangedColumns
<1>6. ASSUME PublishContent(s, i) PROVE CopyOK(txn'[s], content[i])
  <2> DEFINE new == [content[i] EXCEPT !.status = "published",
                                       !.published_at = FirstStamp(content[i])]
             p   == IF content[i].status = "published" THEN "none" ELSE "rebuild"
  <2>1. FirstStamp(content[i]) \in 0..MaxStamp /\ FirstStamp(content[i]) # 0
    BY <1>6, <1>0 DEF PublishContent, FirstStamp, TypeOK, Row
  <2>2. new \in Row
    BY <2>1, <1>0 DEF Row, Statuses
  <2>3. /\ new.is_deleted = content[i].is_deleted
        /\ new.body_md = content[i].body_md
        /\ new.published_at = FirstStamp(content[i])
        /\ new.status = "published"
    BY <1>0 DEF Row
  <2>4. txn'[s] = [op |-> "publish", item |-> i, stage |-> "loaded", mem |-> new,
                   dirty |-> ChangedColumns(content[i], new),
                   pipeline |-> p, gone |-> {}, add |-> {}]
    BY <1>6, <1>1 DEF PublishContent
  <2>5. content[i].published_at = 0 => new.published_at # content[i].published_at
    BY <2>1, <2>3
  <2>6. p \in {"rebuild", "none"} /\ (p = "none" => content[i].status = "published")
    OBVIOUS
  <2> HIDE DEF new, p
  <2>7. QED BY <2>1, <2>2, <2>3, <2>4, <2>5, <2>6, <1>2 DEF CopyOK, Owners, Columns
<1>7. ASSUME ArchiveContent(s, i) PROVE CopyOK(txn'[s], content[i])
  <2> DEFINE new == [content[i] EXCEPT !.status = "archived"]
  <2>1. new \in Row
    BY <1>0 DEF Row, Statuses
  <2>2. /\ new.is_deleted = content[i].is_deleted
        /\ new.body_md = content[i].body_md
        /\ new.published_at = content[i].published_at
        /\ new.status = "archived"
        /\ content[i].status # new.status
    BY <1>0, <1>7 DEF Row, ArchiveContent
  <2>3. txn'[s] = [op |-> "archive", item |-> i, stage |-> "loaded", mem |-> new,
                   dirty |-> ChangedColumns(content[i], new),
                   pipeline |-> "remove", gone |-> {}, add |-> {}]
    BY <1>7, <1>1 DEF ArchiveContent
  <2> HIDE DEF new
  <2>4. QED BY <2>1, <2>2, <2>3, <1>2 DEF CopyOK, Owners, Columns
<1>8. ASSUME DeleteContent(s, i) PROVE CopyOK(txn'[s], content[i])
  <2> DEFINE new == [content[i] EXCEPT !.is_deleted = TRUE]
  <2>1. new \in Row
    BY <1>0 DEF Row
  <2>2. /\ new.is_deleted /\ content[i].is_deleted # new.is_deleted
        /\ new.body_md = content[i].body_md
        /\ new.published_at = content[i].published_at
        /\ new.status = content[i].status
    BY <1>0, <1>8 DEF Row, DeleteContent, Active
  <2>3. txn'[s] = [op |-> "delete", item |-> i, stage |-> "loaded", mem |-> new,
                   dirty |-> ChangedColumns(content[i], new),
                   pipeline |-> "remove", gone |-> {}, add |-> {}]
    BY <1>8, <1>1 DEF DeleteContent
  <2>4. "is_deleted" \in ChangedColumns(content[i], new)
    BY <2>1, <2>2, <1>2
  <2>5. "status" \notin ChangedColumns(content[i], new)
    BY <2>1, <2>2, <1>2
  <2>6. ChangedColumns(content[i], new) = {"is_deleted"}
    BY <2>1, <2>2, <2>4, <2>5, <1>2 DEF Columns
  <2> HIDE DEF new
  <2>7. QED BY <2>2, <2>3, <2>6 DEF CopyOK, Owners
<1>9. CopyOK(txn'[s], content[i])
  BY <1>3, <1>4, <1>5, <1>6, <1>7, <1>8 DEF Request
<1>10. /\ ~Running(s)
       /\ \A r \in Sessions \ {s} : txn'[r] = txn[r]
       /\ txn'[s].item = i /\ txn'[s].stage = "loaded"
       /\ txn'[s].gone = {} /\ txn'[s].add = {}
       /\ UNCHANGED <<content, chunks, rowLock, chunkLock>>
  <2>1. PICK op, new, p : Start(s, op, i, new, p)
    <3>1. CASE \E b \in Bodies : CreateDraft(s, i, b)
      BY <3>1 DEF CreateDraft
    <3>2. CASE \E b \in Bodies : UpdateContent(s, i, b)
      BY <3>2 DEF UpdateContent
    <3>3. CASE UpdateContentTags(s, i)
      BY <3>3 DEF UpdateContentTags
    <3>4. CASE PublishContent(s, i)
      BY <3>4 DEF PublishContent
    <3>5. CASE ArchiveContent(s, i)
      BY <3>5 DEF ArchiveContent
    <3>6. CASE DeleteContent(s, i)
      BY <3>6 DEF DeleteContent
    <3>7. QED BY <3>1, <3>2, <3>3, <3>4, <3>5, <3>6 DEF Request
  <2>2. txn'[s] = [op |-> op, item |-> i, stage |-> "loaded", mem |-> new,
                   dirty |-> ChangedColumns(content[i], new),
                   pipeline |-> p, gone |-> {}, add |-> {}]
    BY <2>1, <1>1
  <2>3. QED BY <2>1, <2>2, <1>1
<1>11. QED BY <1>9, <1>10

\* A progress step of s short of its commit moves only its own transaction on.
LEMMA StepEffect ==
    ASSUME TypeOK, NEW s \in Sessions,
           Flush(s) \/ StartDelete(s) \/ FinishDelete(s) \/ EmbedAndInsert(s)
    PROVE  /\ Running(s) /\ Running(s)'
           /\ \A r \in Sessions \ {s} : txn'[r] = txn[r]
           /\ txn[s] \in Txn /\ txn'[s] \in Txn
           /\ txn'[s].item = txn[s].item /\ txn'[s].op = txn[s].op
           /\ txn'[s].mem = txn[s].mem /\ txn'[s].dirty = txn[s].dirty
           /\ txn'[s].pipeline = txn[s].pipeline
           /\ UNCHANGED <<content, chunks>>
<1>1. txn[s] \in Txn /\ Running(s) /\ txn \in [Sessions -> Txn \cup {Idle}]
  BY DEF TypeOK, Flush, StartDelete, FinishDelete, EmbedAndInsert, At, Running
<1>2. txn[s].item \in Items /\ txn[s].mem \in Row
  BY <1>1 DEF Txn
<1>3. ASSUME NEW t \in Txn PROVE t # Idle
  BY <1>3 DEF Txn, Idle, Ops
<1>4. CASE Flush(s)
  BY <1>1, <1>3, <1>4 DEF Flush, Txn, Stages, Running
<1>5. CASE StartDelete(s)
  <2>1. chunks[txn[s].item] \in SUBSET Batch
    BY <1>2 DEF TypeOK
  <2>2. txn'[s] = [txn[s] EXCEPT !.stage = "deleting", !.gone = chunks[txn[s].item]]
    BY <1>1, <1>5 DEF StartDelete
  <2>3. QED BY <1>1, <1>3, <1>5, <2>1, <2>2 DEF StartDelete, Txn, Stages, Running
<1>6. CASE FinishDelete(s)
  BY <1>1, <1>3, <1>6 DEF FinishDelete, Txn, Stages, Running
<1>7. CASE EmbedAndInsert(s)
  <2>1. Batches(txn[s].mem.body_md, s) \in SUBSET Batch
    BY <1>2 DEF Batches, Batch, Actors, Row
  <2>2. txn'[s] = [txn[s] EXCEPT !.stage = "ready",
                                 !.add = Batches(txn[s].mem.body_md, s)]
    BY <1>1, <1>7 DEF EmbedAndInsert
  <2>3. QED BY <1>1, <1>3, <1>7, <2>1, <2>2 DEF EmbedAndInsert, Txn, Stages, Running
<1>8. QED BY <1>4, <1>5, <1>6, <1>7

\* How far the pipeline of a request has come: what LockInv says of a request
\* alone, whoever else writes the chunks of its item.
PhaseInv ==
    \A s \in Sessions : Running(s) =>
        /\ txn[s].stage \in {"deleting", "deleted", "ready"} => txn[s].pipeline # "none"
        /\ txn[s].stage = "deleted" => txn[s].pipeline = "rebuild"
        /\ txn[s].stage \in {"loaded", "flushed"} => txn[s].gone = {}
        /\ txn[s].stage # "ready" => txn[s].add = {}

\* A commit merges the changed columns into the row it finds.
LEMMA CommitMerges ==
    ASSUME TypeOK, CopyInv, NEW s \in Sessions, Commit(s)
    PROVE  /\ Running(s) /\ ~Running(s)' /\ txn[s] \in Txn
           /\ txn[s].item \in Items /\ content[txn[s].item] \in Row
           /\ CopyOK(txn[s], content[txn[s].item])
           /\ \A r \in Sessions \ {s} : txn'[r] = txn[r]
           /\ \A i \in Items \ {txn[s].item} :
                  content'[i] = content[i] /\ chunks'[i] = chunks[i]
           /\ content'[txn[s].item] = Written(content[txn[s].item], txn[s].mem,
                                              txn[s].dirty)
           /\ chunks'[txn[s].item] =
                  (chunks[txn[s].item] \ txn[s].gone) \cup txn[s].add
<1>1. /\ txn[s] \in Txn /\ Running(s) /\ txn \in [Sessions -> Txn \cup {Idle}]
      /\ content \in [Items -> Row] /\ chunks \in [Items -> SUBSET Batch]
  BY DEF TypeOK, Commit, At, Running
<1>2. txn[s].item \in Items
  BY <1>1 DEF Txn
<1>3. QED BY <1>1, <1>2 DEF Commit, CopyInv, Running

\* A commit replaces an item's chunks by what the pipeline inserted, and merges
\* the changed columns into the row it finds.
LEMMA CommitEffect ==
    ASSUME TypeOK, LockInv, CopyInv, NEW s \in Sessions, Commit(s)
    PROVE  /\ Running(s) /\ ~Running(s)' /\ txn[s] \in Txn
           /\ CopyOK(txn[s], content[txn[s].item])
           /\ rowLock[txn[s].item] = s
           /\ \A r \in Sessions \ {s} : txn'[r] = txn[r]
           /\ \A i \in Items \ {txn[s].item} : content'[i] = content[i]
           /\ content'[txn[s].item] = Written(content[txn[s].item], txn[s].mem,
                                              txn[s].dirty)
           /\ \A i \in Items \ {txn[s].item} : chunks'[i] = chunks[i]
           /\ txn[s].pipeline = "none" => chunks'[txn[s].item] = chunks[txn[s].item]
           /\ txn[s].pipeline # "none" => /\ txn[s].stage = "ready"
                                          /\ chunks'[txn[s].item] = txn[s].add
           /\ rowLock' = Release(rowLock, s)
<1>1. /\ txn[s] \in Txn /\ Running(s) /\ txn \in [Sessions -> Txn \cup {Idle}]
      /\ txn[s].stage \in {"flushed", "ready"}
      /\ content \in [Items -> Row] /\ chunks \in [Items -> SUBSET Batch]
  BY DEF TypeOK, Commit, At, Running
<1>2. txn[s].item \in Items
  BY <1>1 DEF Txn
<1>3. CASE txn[s].stage = "flushed"
  <2>1. txn[s].pipeline = "none" /\ txn[s].gone = {} /\ txn[s].add = {}
    BY <1>1, <1>3 DEF Commit, At, LockInv
  <2>2. QED BY <1>1, <1>2, <2>1, <1>3 DEF Commit, LockInv, CopyInv, Running
<1>4. CASE txn[s].stage = "ready"
  <2>1. txn[s].gone = chunks[txn[s].item]
    BY <1>1, <1>4 DEF LockInv
  <2>2. CopyOK(txn[s], content[txn[s].item])
    BY <1>1 DEF CopyInv
  <2>3. chunks'[txn[s].item] = txn[s].add
    BY <1>1, <1>2, <2>1 DEF Commit
  <2>4. txn[s].pipeline # "none"
    BY <1>1, <1>4 DEF LockInv
  <2>5. QED BY <1>1, <1>2, <2>2, <2>3, <2>4, <1>4 DEF Commit, LockInv, Running
<1>5. QED BY <1>1, <1>3, <1>4

-----------------------------------------------------------------------------
LEMMA LockStep ==
    ASSUME TypeOK, LockInv, CopyInv, PublishedHasStamp, [Next]_vars
    PROVE  LockInv'
<1> USE ActorAssumption
<1>1. ASSUME NEW s \in Sessions, NEW i \in Items, Request(s, i) PROVE LockInv'
  BY <1>1, RequestStarts DEF LockInv, Running
<1>2. ASSUME NEW s \in Sessions, Flush(s) PROVE LockInv'
  <2>1. rowLock'[txn[s].item] = s
    BY <1>2, StepEffect DEF Flush, TypeOK, Txn
  <2>2. ASSUME NEW r \in Sessions \ {s}, Running(r)', txn'[r].stage # "loaded"
        PROVE  rowLock'[txn'[r].item] = r
    BY <1>2, <2>2, StepEffect DEF LockInv, Flush, Running, TypeOK, Txn
  <2>3. txn'[s].stage = "flushed" /\ txn'[s].gone = txn[s].gone
           /\ txn'[s].add = txn[s].add /\ txn[s].stage = "loaded"
    BY <1>2, StepEffect DEF Flush, At, TypeOK, Txn
  <2>4. QED BY <1>2, <2>1, <2>2, <2>3, StepEffect DEF LockInv, Running
<1>3. ASSUME NEW s \in Sessions, StartDelete(s) PROVE LockInv'
  <2>1. /\ txn'[s].stage = "deleting" /\ txn'[s].gone = chunks[txn[s].item]
        /\ txn'[s].add = txn[s].add /\ txn[s].stage = "flushed"
        /\ txn[s].pipeline # "none" /\ UNCHANGED rowLock
    BY <1>3, StepEffect DEF StartDelete, At, TypeOK, Txn
  <2>2. QED BY <1>3, <2>1, StepEffect DEF LockInv, Running
<1>4. ASSUME NEW s \in Sessions, FinishDelete(s) PROVE LockInv'
  <2>1. /\ txn'[s].stage \in {"ready", "deleted"} /\ txn'[s].gone = txn[s].gone
        /\ txn'[s].add = txn[s].add /\ txn[s].stage = "deleting"
        /\ txn'[s].stage = "deleted" => txn[s].pipeline # "remove"
        /\ UNCHANGED rowLock
    BY <1>4, StepEffect DEF FinishDelete, At, TypeOK, Txn
  <2>2. txn'[s].stage = "deleted" => txn[s].pipeline = "rebuild"
    BY <1>4, <2>1, StepEffect DEF LockInv, Txn
  <2>3. QED BY <1>4, <2>1, <2>2, StepEffect DEF LockInv, Running
<1>5. ASSUME NEW s \in Sessions, EmbedAndInsert(s) PROVE LockInv'
  <2>1. /\ txn'[s].stage = "ready" /\ txn'[s].gone = txn[s].gone
        /\ txn[s].stage = "deleted" /\ UNCHANGED rowLock
        /\ \A x, y \in txn'[s].add : x = y
    BY <1>5, StepEffect DEF EmbedAndInsert, Batches, At, TypeOK, Txn
  <2>2. QED BY <1>5, <2>1, StepEffect DEF LockInv, Running
<1>6. ASSUME NEW s \in Sessions, Commit(s) PROVE LockInv'
  <2>1. ASSUME NEW r \in Sessions \ {s}, Running(r), txn[r].stage # "loaded"
        PROVE  /\ txn[r].item # txn[s].item /\ txn[r].item \in Items
               /\ rowLock'[txn[r].item] = r
    BY <1>6, <2>1, CommitEffect DEF LockInv, Release, Running, TypeOK, Txn
  <2>2. ASSUME NEW r \in Sessions, Running(r)'
        PROVE  r # s /\ txn'[r] = txn[r] /\ Running(r)
    BY <1>6, <2>2, CommitEffect DEF Running
  <2>3. QED BY <1>6, <2>1, <2>2, CommitEffect DEF LockInv
<1>7. ASSUME NEW s \in Sessions, Rollback(s) PROVE LockInv'
  <2>1. ASSUME NEW r \in Sessions, Running(r)'
        PROVE  r # s /\ txn'[r] = txn[r] /\ Running(r) /\ txn[r].item \in Items
    BY <1>7, <2>1 DEF Rollback, Running, TypeOK, Txn
  <2>2. \A i \in Items : rowLock[i] # s => rowLock'[i] = rowLock[i]
    BY <1>7 DEF Rollback, Release
  <2>3. QED BY <1>7, <2>1, <2>2 DEF LockInv, Rollback
<1>8. CASE UNCHANGED vars
  BY <1>8 DEF vars, LockInv, Running
<1>9. QED BY <1>1, <1>2, <1>3, <1>4, <1>5, <1>6, <1>7, <1>8 DEF Next, Progress

\* Merging a copy that obeys CopyOK never clears a tombstone or a stamp, and
\* publishes only together with a stamp.
LEMMA MergeKeeps ==
    ASSUME NEW t \in Txn, NEW row \in Row, CopyOK(t, row)
    PROVE  /\ row.is_deleted => Written(row, t.mem, t.dirty).is_deleted
           /\ row.published_at # 0 => Written(row, t.mem, t.dirty).published_at # 0
           /\ t.pipeline = "rebuild" => Written(row, t.mem, t.dirty).published_at # 0
           /\ Written(row, t.mem, t.dirty).status = "published"
                 => row.status = "published" \/ t.pipeline = "rebuild"
           /\ t.pipeline = "remove"
                 => \/ Written(row, t.mem, t.dirty).status # "published"
                    \/ Written(row, t.mem, t.dirty).is_deleted
BY DEF CopyOK, Written, Txn, Row

LEMMA PhaseStep ==
    ASSUME TypeOK, PhaseInv, PublishedHasStamp, CopyInv, [Next]_vars
    PROVE  PhaseInv'
<1>1. ASSUME NEW s \in Sessions, NEW i \in Items, Request(s, i) PROVE PhaseInv'
  BY <1>1, RequestStarts DEF PhaseInv, Running
<1>2. ASSUME NEW s \in Sessions,
             Flush(s) \/ StartDelete(s) \/ FinishDelete(s) \/ EmbedAndInsert(s)
      PROVE  PhaseInv'
  <2>0. txn[s] \in Txn /\ txn \in [Sessions -> Txn \cup {Idle}]
    BY <1>2, StepEffect DEF TypeOK
  <2>1. CASE Flush(s)
    <3>1. /\ txn'[s].stage = "flushed" /\ txn[s].stage = "loaded"
          /\ txn'[s].gone = txn[s].gone /\ txn'[s].add = txn[s].add
      BY <2>0, <2>1 DEF Flush, At, Txn
    <3>2. QED BY <1>2, <3>1, StepEffect DEF PhaseInv, Running
  <2>2. CASE StartDelete(s)
    <3>1. /\ txn'[s].stage = "deleting" /\ txn[s].stage = "flushed"
          /\ txn[s].pipeline # "none" /\ txn'[s].add = txn[s].add
      BY <2>0, <2>2 DEF StartDelete, At, Txn
    <3>2. QED BY <1>2, <3>1, StepEffect DEF PhaseInv, Running
  <2>3. CASE FinishDelete(s)
    <3>1. /\ txn'[s].stage \in {"ready", "deleted"} /\ txn[s].stage = "deleting"
          /\ txn'[s].stage = "deleted" => txn[s].pipeline # "remove"
          /\ txn'[s].add = txn[s].add
      BY <2>0, <2>3 DEF FinishDelete, At, Txn
    <3>2. txn'[s].stage = "deleted" => txn[s].pipeline = "rebuild"
      BY <1>2, <2>0, <3>1, StepEffect DEF PhaseInv, Txn
    <3>3. QED BY <1>2, <3>1, <3>2, StepEffect DEF PhaseInv, Running
  <2>4. CASE EmbedAndInsert(s)
    <3>1. txn'[s].stage = "ready" /\ txn[s].stage = "deleted"
      BY <2>0, <2>4 DEF EmbedAndInsert, At, Txn
    <3>2. QED BY <1>2, <3>1, StepEffect DEF PhaseInv, Running
  <2>5. QED BY <1>2, <2>1, <2>2, <2>3, <2>4
<1>3. ASSUME NEW s \in Sessions, Commit(s) PROVE PhaseInv'
  BY <1>3, CommitMerges DEF PhaseInv, Running
<1>4. ASSUME NEW s \in Sessions, Rollback(s) PROVE PhaseInv'
  BY <1>4 DEF Rollback, Running, TypeOK, PhaseInv
<1>5. CASE UNCHANGED vars
  BY <1>5 DEF vars, PhaseInv, Running
<1>6. QED BY <1>1, <1>2, <1>3, <1>4, <1>5 DEF Next, Progress

LEMMA CopyStep ==
    ASSUME TypeOK, PhaseInv, CopyInv, PublishedHasStamp, [Next]_vars
    PROVE  CopyInv' /\ PublishedHasStamp'
<1>1. ASSUME NEW s \in Sessions, NEW i \in Items, Request(s, i)
      PROVE  CopyInv' /\ PublishedHasStamp'
  <2>1. PublishedHasStamp'
    BY <1>1, RequestStarts DEF PublishedHasStamp
  <2>2. ASSUME NEW r \in Sessions, Running(r)' PROVE CopyOK(txn[r], content[txn[r].item])'
    <3>1. CASE r = s
      BY <1>1, <3>1, RequestStarts DEF CopyOK
    <3>2. CASE r # s
      BY <1>1, <2>2, <3>2, RequestStarts DEF CopyInv, CopyOK, Running
    <3>3. QED BY <3>1, <3>2
  <2>3. QED BY <2>1, <2>2 DEF CopyInv
<1>2. ASSUME NEW s \in Sessions,
             Flush(s) \/ StartDelete(s) \/ FinishDelete(s) \/ EmbedAndInsert(s)
      PROVE  CopyInv' /\ PublishedHasStamp'
  <2>1. PublishedHasStamp'
    BY <1>2, StepEffect DEF PublishedHasStamp
  <2>2. CopyOK(txn[s], content[txn[s].item])
    BY <1>2, StepEffect DEF CopyInv
  <2>3. CASE ~EmbedAndInsert(s)
    <3>0. txn[s] \in Txn /\ txn \in [Sessions -> Txn \cup {Idle}]
      BY <1>2, StepEffect DEF TypeOK
    <3>1. txn'[s].add = txn[s].add /\ (txn'[s].stage = "ready" => txn[s].pipeline = "remove")
      <4>1. CASE Flush(s)
        BY <4>1, <3>0 DEF Flush, Txn
      <4>2. CASE StartDelete(s)
        BY <4>2, <3>0 DEF StartDelete, Txn
      <4>3. CASE FinishDelete(s)
        BY <4>3, <3>0 DEF FinishDelete, Txn
      <4>4. QED BY <1>2, <2>3, <4>1, <4>2, <4>3
    <3>2. txn'[s].stage = "ready" => txn'[s].pipeline # "rebuild"
      BY <1>2, <3>1, StepEffect
    <3>3. CopyOK(txn'[s], content'[txn'[s].item])
      BY <1>2, <2>2, <3>1, <3>2, StepEffect DEF CopyOK
    <3>4. QED BY <1>2, <2>1, <3>3, StepEffect DEF CopyInv, CopyOK, Running
  <2>4. CASE EmbedAndInsert(s)
    <3>1. /\ txn'[s].add = Batches(txn[s].mem.body_md, s)
          /\ txn[s].stage = "deleted"
      BY <2>4, StepEffect DEF EmbedAndInsert, At, TypeOK, Txn
    <3>2. EmptyBodies = {} => txn'[s].add # {}
      BY <3>1 DEF Batches
    <3>3. txn[s].pipeline = "rebuild"
      BY <2>4, <3>1, StepEffect DEF PhaseInv
    <3>4. CopyOK(txn'[s], content'[txn'[s].item])
      BY <1>2, <2>2, <3>2, <3>3, StepEffect DEF CopyOK
    <3>5. QED BY <1>2, <2>1, <3>4, StepEffect DEF CopyInv, CopyOK, Running
  <2>5. QED BY <2>3, <2>4
<1>3. ASSUME NEW s \in Sessions, Commit(s) PROVE CopyInv' /\ PublishedHasStamp'
  <2> DEFINE t == txn[s]
             row == content[t.item]
  <2>1. t \in Txn /\ row \in Row /\ CopyOK(t, row) /\ t.item \in Items
    BY <1>3, CommitMerges DEF TypeOK, Txn
  <2>2. content'[t.item] = Written(row, t.mem, t.dirty)
    BY <1>3, CommitMerges
  <2>3. \A i \in Items : content[i].published_at # 0 => content'[i].published_at # 0
    BY <1>3, <2>1, <2>2, MergeKeeps, CommitMerges
  <2>4. PublishedHasStamp'
    <3>1. content'[t.item].status = "published" => content'[t.item].published_at # 0
      BY <2>1, <2>2, MergeKeeps DEF PublishedHasStamp
    <3>2. QED BY <1>3, <3>1, CommitMerges DEF PublishedHasStamp
  <2>5. ASSUME NEW r \in Sessions, Running(r)'
        PROVE  /\ r # s /\ txn'[r] = txn[r]
               /\ CopyOK(txn[r], content[txn[r].item]) /\ txn[r].item \in Items
    BY <1>3, <2>5, CommitMerges DEF CopyInv, Running, TypeOK, Txn
  <2>6. ASSUME NEW r \in Sessions, Running(r)'
        PROVE  CopyOK(txn[r], content[txn[r].item])'
    BY <2>6, <2>3, <2>5 DEF CopyOK
  <2>7. QED BY <2>4, <2>6 DEF CopyInv
<1>4. ASSUME NEW s \in Sessions, Rollback(s) PROVE CopyInv' /\ PublishedHasStamp'
  <2>1. \A r \in Sessions : Running(r)' => Running(r) /\ txn'[r] = txn[r]
    BY <1>4 DEF Rollback, Running, TypeOK
  <2>2. QED BY <1>4, <2>1 DEF CopyInv, CopyOK, PublishedHasStamp, Rollback
<1>5. CASE UNCHANGED vars
  BY <1>5 DEF vars, CopyInv, CopyOK, PublishedHasStamp, Running
<1>6. QED BY <1>1, <1>2, <1>3, <1>4, <1>5 DEF Next, Progress

\* Every step but a commit leaves the committed tables alone.
LEMMA OnlyCommitWrites ==
    ASSUME TypeOK, PublishedHasStamp, [Next]_vars
    PROVE  UNCHANGED <<content, chunks>> \/ \E s \in Sessions : Commit(s)
<1>1. ASSUME NEW s \in Sessions, NEW i \in Items, Request(s, i)
      PROVE  UNCHANGED <<content, chunks>>
  BY <1>1, RequestStarts
<1>2. ASSUME NEW s \in Sessions, Progress(s), ~Commit(s)
      PROVE  UNCHANGED <<content, chunks>>
  BY <1>2, StepEffect DEF Progress
<1>3. QED BY <1>1, <1>2 DEF Next, Rollback, vars

LEMMA ChunkStep ==
    ASSUME TypeOK, SafetyInv, [Next]_vars
    PROVE  OneChunkSet' /\ DraftHasNoChunks' /\ VisibleIsRetrievable'
<1>1. CASE UNCHANGED <<content, chunks>>
  BY <1>1 DEF SafetyInv, OneChunkSet, DraftHasNoChunks, VisibleIsRetrievable,
              Visible, Retrieved
<1>2. ASSUME NEW s \in Sessions, Commit(s)
      PROVE  OneChunkSet' /\ DraftHasNoChunks' /\ VisibleIsRetrievable'
  <2> DEFINE t == txn[s]
             j == t.item
             row == content[j]
             row2 == Written(row, t.mem, t.dirty)
  <2>1. /\ t \in Txn /\ row \in Row /\ CopyOK(t, row) /\ j \in Items
        /\ row2 = content'[j] /\ Running(s)
    BY <1>2, CommitEffect DEF TypeOK, Txn, SafetyInv
  <2>2. ASSUME NEW i \in Items \ {j}
        PROVE  content'[i] = content[i] /\ chunks'[i] = chunks[i]
    BY <1>2, CommitEffect DEF SafetyInv
  <2>3. chunks'[j] = IF t.pipeline = "none" THEN chunks[j] ELSE t.add
    BY <1>2, CommitEffect DEF SafetyInv
  <2>4. /\ row.published_at # 0 => row2.published_at # 0
        /\ t.pipeline = "rebuild" => row2.published_at # 0
        /\ row2.status = "published" => row.status = "published" \/ t.pipeline = "rebuild"
        /\ row.is_deleted => row2.is_deleted
        /\ t.pipeline = "remove" => row2.status # "published" \/ row2.is_deleted
    BY <2>1, MergeKeeps
  <2>5. \A x, y \in t.add : x = y
    BY <2>1 DEF SafetyInv, LockInv
  <2>6. /\ t.pipeline \in {"none", "rebuild", "remove"}
        /\ t.pipeline = "remove" => t.add = {}
    BY <2>1 DEF Txn, CopyOK
  <2>7. OneChunkSet'
    BY <2>2, <2>3, <2>5 DEF SafetyInv, OneChunkSet
  <2>8. DraftHasNoChunks'
    BY <2>1, <2>2, <2>3, <2>4, <2>6 DEF SafetyInv, DraftHasNoChunks
  <2>9. ASSUME EmptyBodies = {}, NEW i \in Items, Visible(i)'
        PROVE  chunks'[i] # {}
    <3>1. CASE i # j
      BY <2>2, <2>9, <3>1 DEF SafetyInv, VisibleIsRetrievable, Visible, Retrieved
    <3>2. CASE i = j
      <4>1. row2.status = "published" /\ ~row2.is_deleted
        BY <2>1, <2>9, <3>2 DEF Visible
      <4>2. CASE t.pipeline = "none"
        BY <2>1, <2>3, <2>4, <2>9, <3>2, <4>1, <4>2
           DEF SafetyInv, VisibleIsRetrievable, Visible, Retrieved
      <4>3. CASE t.pipeline = "rebuild"
        <5>1. t.stage = "ready"
          BY <1>2, <4>3, CommitEffect DEF SafetyInv
        <5>2. QED BY <2>1, <2>3, <2>9, <3>2, <4>3, <5>1 DEF CopyOK
      <4>4. QED BY <2>4, <2>6, <4>1, <4>2, <4>3
    <3>3. QED BY <3>1, <3>2
  <2>10. VisibleIsRetrievable'
    BY <2>9 DEF VisibleIsRetrievable, Retrieved, Visible
  <2>11. QED BY <2>7, <2>8, <2>10
<1>3. QED BY <1>1, <1>2, OnlyCommitWrites DEF SafetyInv

\* The inductive invariant: locks, copies and chunks stay in step.
THEOREM Safety == Spec => []SafetyInv
<1>1. Init => SafetyInv
  BY DEF Init, SafetyInv, LockInv, CopyInv, PublishedHasStamp, OneChunkSet,
         DraftHasNoChunks, VisibleIsRetrievable, Running, Visible
<1>2. TypeOK /\ SafetyInv /\ [Next]_vars => SafetyInv'
  <2>1. LockInv => PhaseInv
    BY DEF LockInv, PhaseInv
  <2>2. QED BY <2>1, LockStep, CopyStep, ChunkStep DEF SafetyInv
<1>3. QED BY <1>1, <1>2, TypeCorrect, PTL DEF Spec

\* However many requests overlap on an item, and whichever of them fail, its
\* chunks are those of one commit: the row lock taken by the flush orders the
\* pipeline runs of the item.
THEOREM ChunksComeFromOneCommit == Spec => []OneChunkSet
<1>1. SafetyInv => OneChunkSet
  BY DEF SafetyInv
<1>2. QED BY <1>1, Safety, PTL

\* No stale copy ever gives chunks to an item that was never published.
THEOREM DraftsAreNotIndexed == Spec => []DraftHasNoChunks
<1>1. SafetyInv => DraftHasNoChunks
  BY DEF SafetyInv
<1>2. QED BY <1>1, Safety, PTL

\* Whatever publishes, edits, archives and deletes overlap, an item the public
\* site shows has chunks chat can retrieve, when no body is empty.
THEOREM ShownItemsAreRetrievable == Spec => []VisibleIsRetrievable
<1>1. SafetyInv => VisibleIsRetrievable
  BY DEF SafetyInv
<1>2. QED BY <1>1, Safety, PTL

\* A column changes only by the commit of an operation that owns it, however
\* stale the copy that operation works on.
THEOREM NoForeignColumnWrites == Spec => ColumnsHaveOwners
<1> DEFINE Owned == \A i \in Items, c \in Columns :
                       content'[i][c] # content[i][c] =>
                         \E s \in Sessions : /\ Running(s) /\ ~Running(s)'
                                            /\ txn[s].item = i
                                            /\ txn[s].op \in Owners[c]
<1>1. TypeOK /\ SafetyInv /\ [Next]_vars => [Owned]_content
  <2> SUFFICES ASSUME TypeOK, SafetyInv, [Next]_vars, content' # content,
                      NEW i \in Items, NEW c \in Columns,
                      content'[i][c] # content[i][c]
               PROVE  \E s \in Sessions : /\ Running(s) /\ ~Running(s)'
                                         /\ txn[s].item = i
                                         /\ txn[s].op \in Owners[c]
    OBVIOUS
  <2>1. PICK s \in Sessions : Commit(s)
    BY OnlyCommitWrites DEF SafetyInv
  <2>2. /\ Running(s) /\ ~Running(s)' /\ txn[s].item = i
        /\ content'[i] = Written(content[i], txn[s].mem, txn[s].dirty)
        /\ CopyOK(txn[s], content[i]) /\ content[i] \in Row
    BY <2>1, CommitEffect DEF SafetyInv, TypeOK
  <2>3. c \in txn[s].dirty
    BY <2>2 DEF Written, Columns, Row
  <2>4. QED BY <2>2, <2>3 DEF CopyOK
<1>2. QED BY <1>1, TypeCorrect, Safety, PTL DEF Spec, ColumnsHaveOwners

\* A committed tombstone is final: no later commit, of any stale copy, shows
\* the item to a visitor or to retrieval again.
THEOREM DeletionIsFinal == Spec => DeletedStaysHidden
<1> DEFINE Final == \A i \in Items : content[i].is_deleted =>
                       content'[i].is_deleted /\ Retrieved(i)' = {}
<1>1. TypeOK /\ SafetyInv /\ [Next]_vars => [Final]_vars
  <2> SUFFICES ASSUME TypeOK, SafetyInv, [Next]_vars,
                      NEW i \in Items, content[i].is_deleted
               PROVE  content'[i].is_deleted
    BY DEF Retrieved, Visible
  <2>1. CASE UNCHANGED content
    BY <2>1
  <2>2. ASSUME NEW s \in Sessions, Commit(s) PROVE content'[i].is_deleted
    <3>1. txn[s] \in Txn /\ content[i] \in Row
      BY <2>2, CommitEffect DEF SafetyInv, TypeOK
    <3>2. CASE txn[s].item = i
      BY <2>2, <3>1, <3>2, CommitEffect, MergeKeeps DEF SafetyInv
    <3>3. CASE txn[s].item # i
      BY <2>2, <3>3, CommitEffect DEF SafetyInv
    <3>4. QED BY <3>2, <3>3
  <2>3. QED BY <2>1, <2>2, OnlyCommitWrites DEF SafetyInv
<1>2. QED BY <1>1, TypeCorrect, Safety, PTL DEF Spec, DeletedStaysHidden

-----------------------------------------------------------------------------
(***************************************************************************)
(* Requests on an item one at a time, those on different items at once:    *)
(* the page and the index are those of Corpus.                             *)
(***************************************************************************)

\* Nothing has been committed since the copy was read: its commit makes the row
\* equal to the copy.  A request that leaves the chunks alone leaves the page
\* alone too; one that rebuilds them shows the body it indexes; one that removes
\* them hides the item.  A stamp that is there is kept.
FreshCopy(t, row) ==
    /\ t.dirty = ChangedColumns(row, t.mem)
    /\ ~row.is_deleted
    /\ t.mem.status # "absent"
    /\ t.pipeline = "none" =>
           /\ ~t.mem.is_deleted
           /\ t.mem.status = "published" <=> row.status = "published"
           /\ row.status = "published" => t.mem.body_md = row.body_md
    /\ t.pipeline = "rebuild" => t.mem.status = "published" /\ ~t.mem.is_deleted
    /\ t.pipeline = "remove" => t.mem.status # "published" \/ t.mem.is_deleted
    /\ t.pipeline = "rebuild" /\ t.stage = "ready" =>
           {c.body : c \in t.add} = {t.mem.body_md} \ EmptyBodies

Indexed(row) ==
    IF row.status = "published" /\ ~row.is_deleted THEN {row.body_md} \ EmptyBodies ELSE {}

ReadersInv ==
    /\ \A i \in Items : content[i].status = "absent" => ~content[i].is_deleted
    /\ \A i \in Items : {c.body : c \in chunks[i]} = Indexed(content[i])
    /\ \A s \in Sessions : Running(s) => FreshCopy(txn[s], content[txn[s].item])

LEMMA RequestIsFresh ==
    ASSUME TypeOK, ReadersInv, NEW s \in Sessions, NEW i \in Items, Request(s, i)
    PROVE  FreshCopy(txn'[s], content[i])
<1>0. content[i] \in Row /\ txn \in [Sessions -> Txn \cup {Idle}]
  BY DEF TypeOK
<1>2. ASSUME NEW op, NEW new, NEW p, Start(s, op, i, new, p),
             ~content[i].is_deleted, new.status # "absent",
             p = "none" =>
                 /\ ~new.is_deleted
                 /\ new.status = "published" <=> content[i].status = "published"
                 /\ content[i].status = "published" => new.body_md = content[i].body_md,
             p = "rebuild" => new.status = "published" /\ ~new.is_deleted,
             p = "remove" => new.status # "published" \/ new.is_deleted
      PROVE  FreshCopy(txn'[s], content[i])
  <2>1. /\ txn'[s].dirty = ChangedColumns(content[i], new) /\ txn'[s].mem = new
        /\ txn'[s].pipeline = p /\ txn'[s].stage = "loaded"
    BY <1>0, <1>2 DEF Start
  <2>2. QED BY ONLY <2>1, <1>2 DEF FreshCopy
<1>3. ASSUME NEW b \in Bodies, CreateDraft(s, i, b) PROVE FreshCopy(txn'[s], content[i])
  <2> DEFINE new == [content[i] EXCEPT !.status = "draft", !.body_md = b]
  <2>1. /\ new.status = "draft" /\ new.is_deleted = content[i].is_deleted
    BY <1>0 DEF Row
  <2>2. Start(s, "create", i, new, "none") /\ content[i].status = "absent"
    BY <1>3 DEF CreateDraft
  <2>3. ~content[i].is_deleted
    BY <2>2 DEF ReadersInv
  <2> HIDE DEF new
  <2>4. QED BY <2>1, <2>2, <2>3, <1>2
<1>4. ASSUME NEW b \in Bodies, UpdateContent(s, i, b) PROVE FreshCopy(txn'[s], content[i])
  <2> DEFINE new == [content[i] EXCEPT !.body_md = b]
             p   == IF content[i].status = "published" THEN "rebuild" ELSE "none"
  <2>1. /\ new.status = content[i].status /\ new.is_deleted = content[i].is_deleted
    BY <1>0 DEF Row
  <2>2. Start(s, "update", i, new, p) /\ content[i].status # "absent" /\ ~content[i].is_deleted
    BY <1>4 DEF UpdateContent, Active
  <2>3. (p = "none" => content[i].status # "published")
        /\ (p = "rebuild" => content[i].status = "published") /\ p # "remove"
    OBVIOUS
  <2> HIDE DEF new, p
  <2>4. QED BY <2>1, <2>2, <2>3, <1>2
<1>5. ASSUME UpdateContentTags(s, i) PROVE FreshCopy(txn'[s], content[i])
  BY <1>5, <1>2 DEF UpdateContentTags, Active
<1>6. ASSUME PublishContent(s, i) PROVE FreshCopy(txn'[s], content[i])
  <2> DEFINE new == [content[i] EXCEPT !.status = "published",
                                       !.published_at = FirstStamp(content[i])]
             p   == IF content[i].status = "published" THEN "none" ELSE "rebuild"
  <2>1. /\ new.status = "published" /\ new.is_deleted = content[i].is_deleted
        /\ new.body_md = content[i].body_md
    BY <1>0 DEF Row
  <2>2. Start(s, "publish", i, new, p) /\ ~content[i].is_deleted
    BY <1>6 DEF PublishContent, Active
  <2>3. (p = "none" => content[i].status = "published") /\ p # "remove"
    OBVIOUS
  <2> HIDE DEF new, p
  <2>4. QED BY <2>1, <2>2, <2>3, <1>2
<1>7. ASSUME ArchiveContent(s, i) PROVE FreshCopy(txn'[s], content[i])
  <2> DEFINE new == [content[i] EXCEPT !.status = "archived"]
  <2>1. new.status = "archived"
    BY <1>0 DEF Row
  <2>2. Start(s, "archive", i, new, "remove") /\ ~content[i].is_deleted
    BY <1>7 DEF ArchiveContent, Active
  <2> HIDE DEF new
  <2>3. QED BY <2>1, <2>2, <1>2
<1>8. ASSUME DeleteContent(s, i) PROVE FreshCopy(txn'[s], content[i])
  <2> DEFINE new == [content[i] EXCEPT !.is_deleted = TRUE]
  <2>1. /\ new.is_deleted /\ new.status = content[i].status
    BY <1>0 DEF Row
  <2>2. /\ Start(s, "delete", i, new, "remove") /\ ~content[i].is_deleted
        /\ content[i].status # "absent"
    BY <1>8 DEF DeleteContent, Active
  <2> HIDE DEF new
  <2>3. QED BY <2>1, <2>2, <1>2
<1>9. QED BY <1>3, <1>4, <1>5, <1>6, <1>7, <1>8 DEF Request

\* The commit of a fresh copy makes the row the copy.
LEMMA FreshMerge ==
    ASSUME NEW t \in Txn, NEW row \in Row, FreshCopy(t, row)
    PROVE  Written(row, t.mem, t.dirty) = t.mem
<1>1. /\ t.mem \in Row
      /\ t.dirty = {c \in {"status", "is_deleted", "body_md", "published_at"} :
                        row[c] # t.mem[c]}
  BY DEF FreshCopy, ChangedColumns, Columns, Txn
<1>2. t.mem = [status |-> t.mem.status, is_deleted |-> t.mem.is_deleted,
               body_md |-> t.mem.body_md, published_at |-> t.mem.published_at]
  BY <1>1 DEF Row
<1>3. /\ "status" \notin t.dirty => row.status = t.mem.status
      /\ "is_deleted" \notin t.dirty => row.is_deleted = t.mem.is_deleted
      /\ "body_md" \notin t.dirty => row.body_md = t.mem.body_md
      /\ "published_at" \notin t.dirty => row.published_at = t.mem.published_at
  BY <1>1
<1>4. QED BY <1>2, <1>3 DEF Written

\* What a commit does to an item, the page and its index at once.
LEMMA FreshCommit ==
    ASSUME TypeOK, SafetyInv, ReadersInv, NEW s \in Sessions, Commit(s)
    PROVE  /\ Running(s) /\ ~Running(s)' /\ txn[s] \in Txn
           /\ FreshCopy(txn[s], content[txn[s].item])
           /\ content'[txn[s].item] = txn[s].mem
           /\ {c.body : c \in chunks'[txn[s].item]} = Indexed(txn[s].mem)
           /\ \A i \in Items \ {txn[s].item} :
                  content'[i] = content[i] /\ chunks'[i] = chunks[i]
<1> DEFINE t == txn[s]
           j == t.item
<1>1. /\ t \in Txn /\ j \in Items /\ Running(s) /\ ~Running(s)'
      /\ content[j] \in Row /\ t.mem \in Row
      /\ content'[j] = Written(content[j], t.mem, t.dirty)
      /\ t.pipeline = "none" => chunks'[j] = chunks[j]
      /\ t.pipeline # "none" => t.stage = "ready" /\ chunks'[j] = t.add
      /\ CopyOK(t, content[j])
      /\ \A i \in Items \ {j} : content'[i] = content[i] /\ chunks'[i] = chunks[i]
  BY CommitEffect DEF SafetyInv, TypeOK, Txn
<1>2. FreshCopy(t, content[j]) /\ {c.body : c \in chunks[j]} = Indexed(content[j])
  BY <1>1 DEF ReadersInv
<1>3. content'[j] = t.mem
  BY <1>1, <1>2, FreshMerge
<1>4. {c.body : c \in chunks'[j]} = Indexed(t.mem)
  <2>1. CASE t.pipeline = "none"
    BY <1>1, <1>2, <2>1 DEF FreshCopy, Indexed
  <2>2. CASE t.pipeline = "rebuild"
    BY <1>1, <1>2, <2>2 DEF FreshCopy, Indexed
  <2>3. CASE t.pipeline = "remove"
    BY <1>1, <1>2, <2>3 DEF FreshCopy, Indexed, CopyOK
  <2>4. QED BY <1>1, <2>1, <2>2, <2>3 DEF Txn
<1>5. QED BY <1>1, <1>2, <1>3, <1>4

LEMMA ReadersStep ==
    ASSUME TypeOK, SafetyInv, ReadersInv, Apart, [Next]_vars
    PROVE  ReadersInv'
<1>1. ASSUME NEW s \in Sessions, NEW i \in Items, Request(s, i) PROVE ReadersInv'
  <2>1. FreshCopy(txn'[s], content[i])
    BY <1>1, RequestIsFresh
  <2>2. /\ \A r \in Sessions \ {s} : txn'[r] = txn[r]
        /\ txn'[s].item = i /\ UNCHANGED <<content, chunks>>
    BY <1>1, RequestStarts DEF SafetyInv
  <2>3. \A r \in Sessions : Running(r)' => FreshCopy(txn'[r], content[txn'[r].item])
    BY <2>1, <2>2 DEF ReadersInv, Running
  <2>4. QED BY <2>2, <2>3 DEF ReadersInv
<1>2. ASSUME NEW s \in Sessions,
             Flush(s) \/ StartDelete(s) \/ FinishDelete(s) \/ EmbedAndInsert(s)
      PROVE  ReadersInv'
  <2>1. FreshCopy(txn[s], content[txn[s].item])
    BY <1>2, StepEffect DEF ReadersInv
  <2>2. txn'[s].pipeline = "rebuild" /\ txn'[s].stage = "ready" =>
            {c.body : c \in txn'[s].add} = {txn'[s].mem.body_md} \ EmptyBodies
    <3>0. txn[s] \in Txn /\ txn \in [Sessions -> Txn \cup {Idle}]
      BY <1>2, StepEffect DEF TypeOK
    <3>1. CASE Flush(s)
      BY <3>0, <3>1 DEF Flush, Txn
    <3>2. CASE StartDelete(s)
      BY <3>0, <3>2 DEF StartDelete, Txn
    <3>3. CASE FinishDelete(s)
      BY <3>0, <3>3 DEF FinishDelete, Txn
    <3>4. CASE EmbedAndInsert(s)
      <4>1. txn'[s].add = Batches(txn[s].mem.body_md, s) /\ txn'[s].mem = txn[s].mem
        BY <3>0, <3>4 DEF EmbedAndInsert, Txn
      <4>2. {c.body : c \in Batches(txn[s].mem.body_md, s)} = {txn[s].mem.body_md} \ EmptyBodies
        <5>1. CASE txn[s].mem.body_md \in EmptyBodies
          BY <5>1 DEF Batches
        <5>2. CASE txn[s].mem.body_md \notin EmptyBodies
          BY <5>2 DEF Batches
        <5>3. QED BY <5>1, <5>2
      <4>3. QED BY <4>1, <4>2
    <3>5. QED BY <1>2, <3>1, <3>2, <3>3, <3>4
  <2>3. FreshCopy(txn'[s], content'[txn'[s].item])
    BY <1>2, <2>1, <2>2, StepEffect DEF FreshCopy
  <2>4. \A r \in Sessions \ {s} : txn'[r] = txn[r]
    BY <1>2, StepEffect
  <2>5. \A r \in Sessions : Running(r)' => FreshCopy(txn'[r], content'[txn'[r].item])
    BY <1>2, <2>3, <2>4, StepEffect DEF ReadersInv, Running
  <2>6. QED BY <1>2, <2>5, StepEffect DEF ReadersInv
<1>3. ASSUME NEW s \in Sessions, Commit(s) PROVE ReadersInv'
  <2>1. \A r \in Sessions : Running(r)' =>
            Running(r) /\ txn'[r] = txn[r] /\ txn[r].item \in Items \ {txn[s].item}
    <3>1. ASSUME NEW r \in Sessions, Running(r)'
          PROVE  Running(r) /\ txn'[r] = txn[r] /\ txn[r].item \in Items \ {txn[s].item}
      <4>1. r # s /\ txn'[r] = txn[r]
        BY <1>3, <3>1, FreshCommit DEF Commit, TypeOK
      <4>2. Running(r) /\ txn[r] \in Txn
        BY <3>1, <4>1 DEF Running, TypeOK
      <4>3. QED BY <1>3, <4>1, <4>2, FreshCommit DEF Apart, Txn
    <3>2. QED BY <3>1
  <2>2. txn[s].mem.status # "absent"
    BY <1>3, FreshCommit DEF FreshCopy
  <2>3. \A r \in Sessions : Running(r)' => FreshCopy(txn'[r], content'[txn'[r].item])
    BY <1>3, <2>1, FreshCommit DEF ReadersInv
  <2>4. QED BY <1>3, <2>2, <2>3, FreshCommit DEF ReadersInv
<1>4. ASSUME NEW s \in Sessions, Rollback(s) PROVE ReadersInv'
  <2>1. \A r \in Sessions : Running(r)' => Running(r) /\ txn'[r] = txn[r]
    BY <1>4 DEF Rollback, Running, TypeOK
  <2>2. QED BY <1>4, <2>1 DEF ReadersInv, Rollback
<1>5. CASE UNCHANGED vars
  BY <1>5 DEF vars, ReadersInv, Running
<1>6. QED BY <1>1, <1>2, <1>3, <1>4, <1>5 DEF Next, Progress

\* The requests are those of the specification.
LEMMA ApartRequests == ApartSpec => Spec /\ []Apart
<1>1. Init => Apart
  BY DEF Init, Apart, Running
<1>2. [Next /\ Apart']_vars => [Next]_vars
  OBVIOUS
<1>3. Apart /\ [Next /\ Apart']_vars => Apart'
  BY DEF Apart, Running, vars
<1>4. QED BY <1>1, <1>2, <1>3, PTL DEF ApartSpec, Spec

LEMMA FreshReaders == ApartSpec => []ReadersInv
<1>1. Init => ReadersInv
  BY DEF Init, ReadersInv, Indexed, Running
<1>2. TypeOK /\ SafetyInv /\ ReadersInv /\ Apart /\ [Next]_vars => ReadersInv'
  BY ReadersStep
<1>3. QED BY <1>1, <1>2, ApartRequests, TypeCorrect, Safety, PTL DEF Spec

\* When no two requests on an item overlap, a published item is found by its
\* current body and by no other, as the docstring of publish_content says.
THEOREM ChunksFollowBody == ApartSpec => []ChunksReflectBody
<1>1. ReadersInv => ChunksReflectBody
  BY DEF ReadersInv, Indexed, ChunksReflectBody, Retrieved, Visible
<1>2. QED BY <1>1, FreshReaders, PTL

\* When no two requests on an item overlap, the page a visitor opens and the index
\* chat answers from are those of Corpus: every commit shows an item in both, hides
\* it in both, deletes it for good, or changes neither.
THEOREM OneAtATimeImplementsCorpus == ApartSpec => ImplementsCorpus
<1> DEFINE page  == [i \in Items |-> IF Visible(i) THEN content[i].body_md ELSE Hidden]
           index == [i \in Items |-> {c.body : c \in chunks[i]}]
           gone  == {i \in Items : content[i].is_deleted}
<1>1. Init => Readers!Init
  BY DEF Init, Readers!Init, Visible
<1>2. TypeOK /\ SafetyInv /\ ReadersInv /\ [Next]_vars => [Readers!Next]_(Readers!vars)
  <2> SUFFICES ASSUME TypeOK, SafetyInv, ReadersInv, [Next]_vars
               PROVE  Readers!Next \/ UNCHANGED <<page, index, gone>>
    BY DEF Readers!vars
  <2>1. CASE UNCHANGED <<content, chunks>>
    BY <2>1 DEF Visible
  <2>2. ASSUME NEW s \in Sessions, Commit(s)
        PROVE  Readers!Next \/ UNCHANGED <<page, index, gone>>
    <3>1. PICK t \in Txn, j \in Items : t = txn[s] /\ j = txn[s].item
      BY <2>2, FreshCommit DEF Txn
    <3>2. PICK new \in Row : new = t.mem
      BY DEF Txn
    <3>3. /\ FreshCopy(t, content[j]) /\ content[j] \in Row
          /\ content'[j] = new
          /\ {c.body : c \in chunks'[j]} = Indexed(new)
          /\ {c.body : c \in chunks[j]} = Indexed(content[j])
          /\ \A i \in Items \ {j} : content'[i] = content[i] /\ chunks'[i] = chunks[i]
      BY <2>2, <3>1, <3>2, FreshCommit DEF ReadersInv, TypeOK
    <3>4. page' = [page EXCEPT ![j] = IF new.status = "published" /\ ~new.is_deleted
                                      THEN new.body_md ELSE Hidden]
      BY <3>3 DEF Visible
    <3>5. index' = [index EXCEPT ![j] = Indexed(new)]
      BY <3>3
    <3>6. /\ j \notin gone
          /\ gone' = IF new.is_deleted THEN gone \cup {j} ELSE gone
      BY <3>3 DEF FreshCopy
    <3> HIDE DEF page, index, gone
    <3>7. CASE t.pipeline = "none"
      <4>1. /\ ~new.is_deleted /\ Indexed(new) = Indexed(content[j])
            /\ new.status = "published" <=> content[j].status = "published"
            /\ new.status = "published" => new.body_md = content[j].body_md
            /\ ~content[j].is_deleted
        BY <3>2, <3>3, <3>7 DEF FreshCopy, Indexed
      <4>2. index' = index
        BY <3>3, <3>5, <4>1 DEF index
      <4>3. page' = page
        BY <3>3, <3>4, <4>1 DEF page, Visible
      <4>4. QED BY <3>6, <4>1, <4>2, <4>3
    <3>8. CASE t.pipeline = "rebuild"
      <4>1. PICK b \in Bodies : b = new.body_md
        BY DEF Row
      <4>2. new.status = "published" /\ ~new.is_deleted
        BY <3>2, <3>3, <3>8 DEF FreshCopy
      <4>3. Readers!Show(j, b)
        BY <3>4, <3>5, <3>6, <4>1, <4>2 DEF Readers!Show, Indexed, page, index, gone
      <4>4. QED BY <4>3 DEF Readers!Next
    <3>9. CASE t.pipeline = "remove" /\ new.is_deleted
      <4>1. Readers!Remove(j)
        BY <3>4, <3>5, <3>6, <3>9 DEF Readers!Remove, Indexed, page, index, gone
      <4>2. QED BY <4>1 DEF Readers!Next
    <3>10. CASE t.pipeline = "remove" /\ ~new.is_deleted
      <4>1. new.status # "published"
        BY <3>2, <3>3, <3>10 DEF FreshCopy
      <4>2. Readers!Hide(j)
        BY <3>4, <3>5, <3>6, <3>10, <4>1 DEF Readers!Hide, Indexed, page, index, gone
      <4>3. QED BY <4>2 DEF Readers!Next
    <3>11. QED BY <3>7, <3>8, <3>9, <3>10 DEF Txn
  <2>3. QED BY <2>1, <2>2, OnlyCommitWrites DEF SafetyInv
<1>3. QED BY <1>1, <1>2, TypeCorrect, Safety, ApartRequests, FreshReaders, PTL
          DEF Spec, ImplementsCorpus, Readers!Spec

-----------------------------------------------------------------------------
(***************************************************************************)
(* Runs of the re-embedding script beside the requests.                    *)
(***************************************************************************)

TurnOf(left, copy) ==
    CHOOSE i \in left : \A j \in left : copy[j].published_at <= copy[i].published_at

\* The items whose stored chunks the DELETE of a run has already read.
Replaced(r, i) ==
    \/ i \notin r.left
    \/ r.stage \in {"deleting", "deleted"} /\ i = TurnOf(r.left, r.copy)

\* A transaction writes chunks in its own name, and a run none before it commits.
WritersInv ==
    /\ \A s \in Sessions : Running(s) => \A x \in txn[s].add : x.by = s
    /\ \A p \in Scripts, i \in Items : \A x \in script[p].add[i] : x.by = p
    /\ \A p \in Scripts : script[p].stage # "ended" =>
           \A i \in Items : \A x \in chunks[i] : x.by # p

\* A run deletes rows that are still stored, all of what it found on each item it
\* has come to, and handles only items that were published once.
RunOK(r) ==
    /\ r.stage \in {"new", "ended"} =>
           /\ r.left = {}
           /\ \A i \in Items : r.gone[i] = {} /\ r.add[i] = {} /\ r.seen[i] = {}
    /\ r.stage \in {"deleting", "deleted"} => r.left # {}
    /\ \A i \in Items :
           /\ r.seen[i] \subseteq chunks[i]
           /\ r.gone[i] \subseteq chunks[i]
           /\ Replaced(r, i) => r.seen[i] \subseteq r.gone[i]
           /\ i \in r.left \/ r.add[i] # {} => content[i].published_at # 0

RunsInv == \A p \in Scripts : RunOK(script[p])

\* A run that nothing overlaps works alone on the rows it listed.
QuietInv ==
    \A p \in Scripts : AtWork(p) /\ p \notin overlapped =>
        /\ \A s \in Sessions : ~Running(s)
        /\ \A q \in Scripts \ {p} : ~AtWork(q)
        /\ script[p].copy = content
        /\ \A i \in Items : Visible(i) =>
              /\ Replaced(script[p], i) => script[p].gone[i] = chunks[i]
              /\ i \notin script[p].left =>
                     script[p].add[i] = Batches(content[i].body_md, p)

ReembedInv == /\ TypeOK /\ ReembedTypeOK
              /\ PhaseInv /\ CopyInv /\ PublishedHasStamp
              /\ DraftHasNoChunks /\ WritersInv /\ RunsInv /\ QuietInv

-----------------------------------------------------------------------------
\* The list of a run has a newest item.
LEMMA TurnIsLeft ==
    ASSUME NEW r \in Script, r.left # {}
    PROVE  TurnOf(r.left, r.copy) \in r.left
<1> USE DataAssumption
<1> DEFINE R == OpToRel(<, Nat)
           age(i) == MaxStamp - r.copy[i].published_at
           T == {age(i) : i \in r.left}
<1>1. IsWellFoundedOn(R, Nat) /\ \A x, y \in Nat : y < x => <<y, x>> \in R
  BY NatLessThanWellFounded DEF OpToRel
<1>2. ASSUME NEW i \in r.left
      PROVE  r.copy[i].published_at \in 0..MaxStamp /\ age(i) \in Nat
  BY DEF Script, Row
<1>3. T \subseteq Nat /\ T # {}
  BY <1>2
<1> HIDE DEF R
<1>4. PICK d \in T : \A e \in T : <<e, d>> \notin R
  BY <1>1, <1>3, WFMin
<1>5. PICK i \in r.left : d = age(i)
  BY <1>4
<1>6. ASSUME NEW j \in r.left
      PROVE  r.copy[j].published_at <= r.copy[i].published_at
  <2>1. ~(age(j) < age(i))
    BY <1>1, <1>3, <1>4, <1>5
  <2>2. QED BY <1>2, <2>1
<1>7. QED BY <1>6 DEF TurnOf

LEMMA TurnOfRun ==
    ASSUME NEW p \in Scripts
    PROVE  /\ Turn(p) = TurnOf(script[p].left, script[p].copy)
           /\ Turn(p)' = TurnOf(script'[p].left, script'[p].copy)
BY DEF Turn, TurnOf

LEMMA BatchesType ==
    ASSUME NEW b \in Bodies, NEW a \in Actors
    PROVE  /\ Batches(b, a) \in SUBSET Batch
           /\ \A x \in Batches(b, a) : x.by = a
BY DEF Batches, Batch

LEMMA AtRestType ==
    /\ AtRest("new") \in Script /\ AtRest("ended") \in Script
    /\ \A stage : /\ AtRest(stage).stage = stage /\ AtRest(stage).left = {}
                  /\ \A i \in Items : /\ AtRest(stage).gone[i] = {}
                                      /\ AtRest(stage).add[i] = {}
                                      /\ AtRest(stage).seen[i] = {}
BY DataAssumption DEF AtRest, Script, NoCopy, NoBatches, Row, Statuses

\* What a commit takes out of the snapshots of the runs.
LEMMA ForgetEffect ==
    ASSUME NEW runs \in [Scripts -> Script], NEW rows
    PROVE  /\ Forget(runs, rows) \in [Scripts -> Script]
           /\ \A q \in Scripts :
                 LET r == Forget(runs, rows)[q] IN
                 /\ r.stage = runs[q].stage /\ r.left = runs[q].left
                 /\ r.copy = runs[q].copy /\ r.add = runs[q].add
                 /\ \A i \in Items : /\ r.gone[i] = runs[q].gone[i] \ rows[i]
                                     /\ r.seen[i] = runs[q].seen[i] \ rows[i]
<1> DEFINE F(q) == [runs[q] EXCEPT !.gone = [i \in Items |-> @[i] \ rows[i]],
                                   !.seen = [i \in Items |-> @[i] \ rows[i]]]
<1>1. ASSUME NEW q \in Scripts
      PROVE  /\ F(q) \in Script
             /\ F(q).stage = runs[q].stage /\ F(q).left = runs[q].left
             /\ F(q).copy = runs[q].copy /\ F(q).add = runs[q].add
             /\ F(q).gone = [i \in Items |-> runs[q].gone[i] \ rows[i]]
             /\ F(q).seen = [i \in Items |-> runs[q].seen[i] \ rows[i]]
  <2>1. runs[q] \in Script
    OBVIOUS
  <2>2. /\ [i \in Items |-> runs[q].gone[i] \ rows[i]] \in [Items -> SUBSET Batch]
        /\ [i \in Items |-> runs[q].seen[i] \ rows[i]] \in [Items -> SUBSET Batch]
    BY <2>1 DEF Script
  <2>3. QED BY <2>1, <2>2 DEF Script
<1>2. Forget(runs, rows) = [q \in Scripts |-> F(q)]
  BY DEF Forget
<1> HIDE DEF F
<1>3. /\ Forget(runs, rows) \in [Scripts -> Script]
      /\ \A q \in Scripts : Forget(runs, rows)[q] = F(q)
  BY <1>1, <1>2
<1>4. ASSUME NEW q \in Scripts, NEW r, r = F(q)
      PROVE  /\ r.stage = runs[q].stage /\ r.left = runs[q].left
             /\ r.copy = runs[q].copy /\ r.add = runs[q].add
             /\ \A i \in Items : /\ r.gone[i] = runs[q].gone[i] \ rows[i]
                                 /\ r.seen[i] = runs[q].seen[i] \ rows[i]
  BY <1>1, <1>4
<1>5. QED BY <1>3, <1>4

\* What each step of a run does to its record; the other runs are left alone.
LEMMA ListEffect ==
    ASSUME TypeOK, ReembedTypeOK, NEW p \in Scripts, ListPublishedContent(p)
    PROVE  /\ script' \in [Scripts -> Script]
           /\ \A q \in Scripts \ {p} : script'[q] = script[q]
           /\ script[p].stage = "new" /\ script'[p].stage = "working"
           /\ script'[p].left = {i \in Items : Visible(i)}
           /\ script'[p].copy = content
           /\ script'[p].gone = script[p].gone /\ script'[p].add = script[p].add
           /\ \A i \in Items : script'[p].seen[i] = IF Visible(i) THEN chunks[i] ELSE {}
<1> DEFINE found == [i \in Items |-> IF Visible(i) THEN chunks[i] ELSE {}]
           listed == {i \in Items : Visible(i)}
           r == [script[p] EXCEPT !.stage = "working", !.copy = content,
                                  !.left = listed, !.seen = found]
<1>1. script[p] \in Script /\ script \in [Scripts -> Script]
  BY DEF ReembedTypeOK
<1>2. /\ found \in [Items -> SUBSET Batch] /\ listed \in SUBSET Items
      /\ content \in [Items -> Row]
        /\ \A i \in Items : found[i] = IF Visible(i) THEN chunks[i] ELSE {}
  BY DEF TypeOK
<1>3. script[p].stage = "new" /\ script' = [script EXCEPT ![p] = r]
  BY <1>1 DEF ListPublishedContent
<1> HIDE DEF found, listed
<1>4. /\ r \in Script /\ r.stage = "working" /\ r.copy = content
      /\ r.left = listed /\ r.seen = found
      /\ r.gone = script[p].gone /\ r.add = script[p].add
  BY <1>1, <1>2 DEF Script
<1> HIDE DEF r
<1>5. QED BY <1>1, <1>2, <1>3, <1>4 DEF listed

LEMMA StartItemEffect ==
    ASSUME TypeOK, ReembedTypeOK, NEW p \in Scripts, StartItem(p)
    PROVE  LET i == TurnOf(script[p].left, script[p].copy) IN
           /\ script' \in [Scripts -> Script]
           /\ \A q \in Scripts \ {p} : script'[q] = script[q]
           /\ script[p].stage = "working" /\ script'[p].stage = "deleting"
           /\ i \in script[p].left /\ script'[p].left = script[p].left
           /\ script'[p].copy = script[p].copy
           /\ script'[p].gone = [script[p].gone EXCEPT ![i] = chunks[i]]
           /\ script'[p].add = script[p].add /\ script'[p].seen = script[p].seen
<1> DEFINE i == TurnOf(script[p].left, script[p].copy)
           g == [script[p].gone EXCEPT ![i] = chunks[i]]
           r == [script[p] EXCEPT !.stage = "deleting", !.gone = g]
<1>1. script[p] \in Script /\ script \in [Scripts -> Script]
  BY DEF ReembedTypeOK
<1>2. script[p].stage = "working" /\ i \in script[p].left
  BY <1>1, TurnIsLeft DEF StartItem
<1>3. g \in [Items -> SUBSET Batch]
  BY <1>1, <1>2 DEF Script, TypeOK
<1>4. script' = [script EXCEPT ![p] = r]
  BY <1>1, TurnOfRun DEF StartItem
<1> HIDE DEF g, i
<1>5. /\ r \in Script /\ r.stage = "deleting" /\ r.gone = g
      /\ r.left = script[p].left /\ r.copy = script[p].copy
      /\ r.add = script[p].add /\ r.seen = script[p].seen
  BY <1>1, <1>3 DEF Script
<1> HIDE DEF r
<1>6. QED BY <1>1, <1>2, <1>4, <1>5 DEF g, i

LEMMA FinishItemEffect ==
    ASSUME TypeOK, ReembedTypeOK, NEW p \in Scripts, FinishItem(p)
    PROVE  /\ script' \in [Scripts -> Script]
           /\ \A q \in Scripts \ {p} : script'[q] = script[q]
           /\ script[p].stage = "deleting" /\ script'[p].stage = "deleted"
           /\ script'[p].left = script[p].left /\ script'[p].copy = script[p].copy
           /\ script'[p].gone = script[p].gone
           /\ script'[p].add = script[p].add /\ script'[p].seen = script[p].seen
BY DEF FinishItem, ReembedTypeOK, Script

LEMMA InsertItemEffect ==
    ASSUME TypeOK, ReembedTypeOK, RunsInv, NEW p \in Scripts, InsertItem(p)
    PROVE  LET i == TurnOf(script[p].left, script[p].copy) IN
           /\ script' \in [Scripts -> Script]
           /\ \A q \in Scripts \ {p} : script'[q] = script[q]
           /\ script[p].stage = "deleted" /\ script'[p].stage = "working"
           /\ i \in script[p].left /\ script'[p].left = script[p].left \ {i}
           /\ script'[p].copy = script[p].copy /\ script'[p].gone = script[p].gone
           /\ script'[p].add = [script[p].add EXCEPT ![i] =
                                   Batches(script[p].copy[i].body_md, p)]
           /\ script'[p].seen = script[p].seen
<1> DEFINE i == TurnOf(script[p].left, script[p].copy)
           a == [script[p].add EXCEPT ![i] = Batches(script[p].copy[i].body_md, p)]
           r == [script[p] EXCEPT !.stage = "working", !.left = script[p].left \ {i},
                                  !.add = a]
<1>1. script[p] \in Script /\ script \in [Scripts -> Script]
  BY DEF ReembedTypeOK
<1>2. script[p].stage = "deleted" /\ i \in script[p].left
  BY <1>1, TurnIsLeft DEF InsertItem, RunsInv, RunOK
<1>3. a \in [Items -> SUBSET Batch]
  <2>1. i \in Items /\ script[p].copy[i].body_md \in Bodies
    BY <1>1, <1>2 DEF Script, Row
  <2>2. Batches(script[p].copy[i].body_md, p) \in SUBSET Batch
    BY <2>1, BatchesType DEF Actors
  <2> HIDE DEF i
  <2>3. QED BY <1>1, <2>1, <2>2 DEF Script
<1>4. script' = [script EXCEPT ![p] = r]
  BY <1>1, TurnOfRun DEF InsertItem
<1> HIDE DEF a, i
<1>5. /\ r \in Script /\ r.stage = "working" /\ r.add = a
      /\ r.left = script[p].left \ {i} /\ r.copy = script[p].copy
      /\ r.gone = script[p].gone /\ r.seen = script[p].seen
  BY <1>1, <1>3 DEF Script
<1> HIDE DEF r
<1>6. QED BY <1>1, <1>2, <1>4, <1>5 DEF a, i

LEMMA CommitRunEffect ==
    ASSUME TypeOK, ReembedTypeOK, NEW p \in Scripts, CommitRun(p)
    PROVE  /\ script' \in [Scripts -> Script]
           /\ script[p].stage = "working" /\ script[p].left = {}
           /\ script'[p].stage = "ended" /\ script'[p].left = {}
           /\ \A i \in Items : /\ script'[p].gone[i] = {} /\ script'[p].add[i] = {}
                               /\ script'[p].seen[i] = {}
           /\ \A q \in Scripts \ {p} :
                 /\ script'[q].stage = script[q].stage
                 /\ script'[q].left = script[q].left
                 /\ script'[q].copy = script[q].copy
                 /\ script'[q].add = script[q].add
                 /\ \A i \in Items :
                       /\ script'[q].gone[i] = script[q].gone[i] \ script[p].gone[i]
                       /\ script'[q].seen[i] = script[q].seen[i] \ script[p].gone[i]
           /\ \A i \in Items : chunks'[i] = (chunks[i] \ script[p].gone[i])
                                               \cup script[p].add[i]
<1> DEFINE runs == [script EXCEPT ![p] = AtRest("ended")]
<1>1. script[p] \in Script /\ script \in [Scripts -> Script]
  BY DEF ReembedTypeOK
<1>2. script[p].stage = "working" /\ script[p].left = {}
  BY DEF CommitRun, MayCommit
<1>3. runs \in [Scripts -> Script]
  BY <1>1, AtRestType
<1>4. script' = Forget(runs, script[p].gone)
  BY <1>1, <1>2 DEF CommitRun
<1>5. \A q \in Scripts : runs[q] = IF q = p THEN AtRest("ended") ELSE script[q]
  BY <1>1
<1>6. \A i \in Items : chunks'[i] = (chunks[i] \ script[p].gone[i]) \cup script[p].add[i]
  BY DEF CommitRun
<1> HIDE DEF runs
<1>7. QED BY <1>2, <1>3, <1>4, <1>5, <1>6, ForgetEffect, AtRestType

LEMMA AbortRunEffect ==
    ASSUME TypeOK, ReembedTypeOK, NEW p \in Scripts, AbortRun(p)
    PROVE  /\ script' \in [Scripts -> Script]
           /\ \A q \in Scripts \ {p} : script'[q] = script[q]
           /\ script'[p].stage = "ended" /\ script'[p].left = {}
           /\ \A i \in Items : /\ script'[p].gone[i] = {} /\ script'[p].add[i] = {}
                               /\ script'[p].seen[i] = {}
BY AtRestType DEF AbortRun, ReembedTypeOK

\* The commit of a request takes the rows it deletes out of the runs' snapshots.
LEMMA CommitDuringRunEffect ==
    ASSUME TypeOK, CopyInv, ReembedTypeOK, NEW s \in Sessions, CommitDuringRun(s)
    PROVE  /\ script' \in [Scripts -> Script]
           /\ \A q \in Scripts :
                 /\ script'[q].stage = script[q].stage
                 /\ script'[q].left = script[q].left
                 /\ script'[q].copy = script[q].copy
                 /\ script'[q].add = script[q].add
                 /\ \A i \in Items :
                       /\ script'[q].gone[i] \subseteq script[q].gone[i]
                       /\ script'[q].seen[i] \subseteq script[q].seen[i]
                       /\ script[q].gone[i] \subseteq chunks[i] =>
                             script'[q].gone[i] \subseteq chunks'[i]
                       /\ script[q].seen[i] \subseteq chunks[i] =>
                             script'[q].seen[i] \subseteq chunks'[i]
                       /\ script[q].seen[i] \subseteq script[q].gone[i] =>
                             script'[q].seen[i] \subseteq script'[q].gone[i]
<1> DEFINE rows == [i \in Items |-> IF i = txn[s].item THEN txn[s].gone ELSE {}]
<1>1. script \in [Scripts -> Script] /\ script' = Forget(script, rows)
  BY DEF CommitDuringRun, ReembedTypeOK
<1>2. \A i \in Items : chunks[i] \ rows[i] \subseteq chunks'[i]
  BY CommitMerges DEF CommitDuringRun
<1> HIDE DEF rows
<1>3. QED BY <1>1, <1>2, ForgetEffect

\* A step of one run other than its commit leaves the other runs and the stored chunks.
LEMMA OtherRunsStay ==
    ASSUME TypeOK, ReembedTypeOK, RunsInv, NEW p \in Scripts,
           RunProgress(p) \/ AbortRun(p), ~CommitRun(p)
    PROVE  /\ \A q \in Scripts \ {p} : script'[q] = script[q]
           /\ InsertItem(p) \/ script'[p].add = script[p].add \/ AbortRun(p)
           /\ AbortRun(p) \/ script[p].stage # "ended"
<1>1. CASE ListPublishedContent(p)
  BY <1>1, ListEffect
<1>2. CASE StartItem(p)
  BY <1>2, StartItemEffect
<1>3. CASE FinishItem(p)
  BY <1>3, FinishItemEffect
<1>4. CASE InsertItem(p)
  BY <1>4, InsertItemEffect
<1>5. CASE AbortRun(p)
  BY <1>5, AbortRunEffect
<1>6. QED BY <1>1, <1>2, <1>3, <1>4, <1>5 DEF RunProgress

-----------------------------------------------------------------------------
\* Beside the script a request takes the steps it takes without it.
LEMMA RequestStepBeside ==
    ASSUME ReembedNext
    PROVE  \/ Next
           \/ \E p \in Scripts : RunProgress(p) \/ AbortRun(p)
BY DEF ReembedNext, RequestDuringRun, RequestProgress, CommitDuringRun, Next, Progress

\* A run of the script writes no content row and moves no request on.
LEMMA RunWrites ==
    ASSUME TypeOK, ReembedTypeOK, RunsInv,
           NEW p \in Scripts, RunProgress(p) \/ AbortRun(p)
    PROVE  /\ UNCHANGED <<content, rowLock, txn, stamps>>
           /\ chunks' \in [Items -> SUBSET Batch]
           /\ chunkLock' \in [Items -> Actors \cup {Nobody}]
           /\ script' \in [Scripts -> Script]
           /\ overlapped' \in SUBSET Scripts
           /\ CommitRun(p) \/ UNCHANGED chunks
<1>1. script[p] \in Script /\ overlapped \subseteq Scripts
  BY DEF ReembedTypeOK
<1>2. CASE ListPublishedContent(p)
  <2>1. overlapped' \in SUBSET Scripts
    BY <1>1, <1>2 DEF ListPublishedContent
  <2>2. QED BY <1>2, <2>1, ListEffect DEF ListPublishedContent, vars, TypeOK
<1>3. CASE StartItem(p)
  BY <1>1, <1>3, StartItemEffect DEF StartItem, vars, TypeOK
<1>4. CASE FinishItem(p)
  <2>1. chunkLock' \in [Items -> Actors \cup {Nobody}]
    BY <1>4 DEF FinishItem, TypeOK, Actors
  <2>2. QED BY <1>1, <1>4, <2>1, FinishItemEffect DEF FinishItem, TypeOK
<1>5. CASE InsertItem(p)
  BY <1>1, <1>5, InsertItemEffect DEF InsertItem, vars, TypeOK
<1>6. CASE CommitRun(p)
  <2>1. /\ chunks' \in [Items -> SUBSET Batch]
        /\ chunkLock' \in [Items -> Actors \cup {Nobody}]
    BY <1>1, <1>6 DEF CommitRun, Release, Script, TypeOK
  <2>2. QED BY <1>1, <1>6, <2>1, CommitRunEffect DEF CommitRun
<1>7. CASE AbortRun(p)
  <2>1. chunkLock' \in [Items -> Actors \cup {Nobody}]
    BY <1>7 DEF AbortRun, Release, TypeOK
  <2>2. QED BY <1>1, <1>7, <2>1, AbortRunEffect DEF AbortRun, TypeOK
<1>8. QED BY <1>2, <1>3, <1>4, <1>5, <1>6, <1>7 DEF RunProgress

LEMMA RequestsStep ==
    ASSUME ReembedInv, [ReembedNext]_allVars
    PROVE  TypeOK' /\ PhaseInv' /\ CopyInv' /\ PublishedHasStamp'
<1>1. CASE [Next]_vars
  <2>1. CopyInv' /\ PublishedHasStamp'
    BY <1>1, CopyStep DEF ReembedInv
  <2>2. QED BY <1>1, <2>1, TypeStep, PhaseStep DEF ReembedInv
<1>2. ASSUME NEW p \in Scripts, RunProgress(p) \/ AbortRun(p)
      PROVE  TypeOK' /\ PhaseInv' /\ CopyInv' /\ PublishedHasStamp'
  <2>1. /\ UNCHANGED <<content, rowLock, txn, stamps>>
        /\ chunks' \in [Items -> SUBSET Batch]
        /\ chunkLock' \in [Items -> Actors \cup {Nobody}]
    BY <1>2, RunWrites DEF ReembedInv
  <2>2. QED BY <2>1 DEF ReembedInv, TypeOK, PhaseInv, CopyInv, CopyOK,
                        PublishedHasStamp, Running
<1>3. CASE UNCHANGED allVars
  BY <1>1, <1>3 DEF allVars, vars
<1>4. QED BY <1>1, <1>2, <1>3, RequestStepBeside

\* What a step of a request leaves of the script's own variables.
LEMMA RequestsBeside ==
    ASSUME ReembedInv, NEW s \in Sessions,
           \/ \E i \in Items : RequestDuringRun(s, i)
           \/ RequestProgress(s)
           \/ Rollback(s) /\ UNCHANGED scriptVars
    PROVE  /\ CommitDuringRun(s) \/ UNCHANGED <<content, chunks, script>>
           /\ overlapped' \in SUBSET Scripts
           /\ script' \in [Scripts -> Script]
<1>1. ASSUME NEW i \in Items, RequestDuringRun(s, i)
      PROVE  /\ UNCHANGED <<content, chunks, script>>
             /\ overlapped' \in SUBSET Scripts
  BY <1>1, RequestStarts DEF RequestDuringRun, ReembedInv, ReembedTypeOK
<1>2. CASE CommitDuringRun(s)
  BY <1>2, CommitDuringRunEffect DEF CommitDuringRun, ReembedInv, ReembedTypeOK
<1>3. CASE (Flush(s) \/ StartDelete(s) \/ FinishDelete(s) \/ EmbedAndInsert(s))
           /\ UNCHANGED scriptVars
  BY <1>3, StepEffect DEF scriptVars, ReembedInv, ReembedTypeOK
<1>4. CASE Rollback(s) /\ UNCHANGED scriptVars
  BY <1>4 DEF scriptVars, Rollback, ReembedInv, ReembedTypeOK
<1>5. QED BY <1>1, <1>2, <1>3, <1>4 DEF RequestProgress, ReembedInv, ReembedTypeOK

LEMMA ReembedTypeStep ==
    ASSUME ReembedInv, [ReembedNext]_allVars
    PROVE  ReembedTypeOK'
<1>1. chunks' \in [Items -> SUBSET Batch] /\ chunkLock' \in [Items -> Actors \cup {Nobody}]
  BY RequestsStep DEF TypeOK
<1>2. script' \in [Scripts -> Script] /\ overlapped' \in SUBSET Scripts
  <2>1. CASE UNCHANGED allVars
    BY <2>1 DEF allVars, scriptVars, ReembedInv, ReembedTypeOK
  <2>2. QED BY <2>1, RequestsBeside, RunWrites DEF ReembedNext, ReembedInv
<1>3. QED BY <1>1, <1>2 DEF ReembedTypeOK

\* A row that was published once stays so.
LEMMA StampsStay ==
    ASSUME ReembedInv, NEW s \in Sessions, CommitDuringRun(s)
    PROVE  \A i \in Items : content[i].published_at # 0 => content'[i].published_at # 0
<1>1. TypeOK /\ CopyInv /\ Commit(s)
  BY DEF CommitDuringRun, ReembedInv
<1>2. PICK j \in Items : j = txn[s].item
  BY <1>1, CommitMerges
<1>3. content[j].published_at # 0 => content'[j].published_at # 0
  BY <1>1, <1>2, CommitMerges, MergeKeeps
<1>4. QED BY <1>1, <1>2, <1>3, CommitMerges

LEMMA DraftStep ==
    ASSUME ReembedInv, [ReembedNext]_allVars
    PROVE  DraftHasNoChunks'
<1>1. CASE UNCHANGED <<content, chunks>>
  BY <1>1 DEF ReembedInv, DraftHasNoChunks
<1>2. ASSUME NEW s \in Sessions, CommitDuringRun(s) PROVE DraftHasNoChunks'
  <2>1. TypeOK /\ CopyInv /\ Commit(s)
    BY <1>2 DEF CommitDuringRun, ReembedInv
  <2>2. PICK j \in Items, t \in Txn : j = txn[s].item /\ t = txn[s]
    BY <2>1, CommitMerges
  <2>3. content'[j].published_at = 0 => t.add = {} /\ content[j].published_at = 0
    BY <2>1, <2>2, CommitMerges, MergeKeeps DEF CopyOK
  <2>4. content'[j].published_at = 0 => chunks'[j] = {}
    BY <2>1, <2>2, <2>3, CommitMerges DEF ReembedInv, DraftHasNoChunks
  <2>5. QED BY <2>1, <2>2, <2>4, CommitMerges DEF ReembedInv, DraftHasNoChunks
<1>3. ASSUME NEW p \in Scripts, CommitRun(p) PROVE DraftHasNoChunks'
  <2>1. UNCHANGED content
    BY <1>3 DEF CommitRun
  <2>2. ASSUME NEW i \in Items, content[i].published_at = 0
        PROVE  chunks[i] = {} /\ script[p].add[i] = {}
    BY <2>2 DEF ReembedInv, DraftHasNoChunks, RunsInv, RunOK
  <2>3. QED BY <1>3, <2>1, <2>2, CommitRunEffect DEF ReembedInv, DraftHasNoChunks
<1>4. CASE UNCHANGED allVars
  BY <1>1, <1>4 DEF allVars, vars
<1>5. QED BY <1>1, <1>2, <1>3, <1>4, RequestsBeside, RunWrites DEF ReembedNext, ReembedInv

LEMMA WritersStep ==
    ASSUME ReembedInv, [ReembedNext]_allVars
    PROVE  WritersInv'
<1> USE ActorAssumption
<1>0. TypeOK /\ ReembedTypeOK /\ WritersInv /\ CopyInv /\ PublishedHasStamp /\ RunsInv
  BY DEF ReembedInv
<1>1. ASSUME NEW s \in Sessions, NEW i \in Items, RequestDuringRun(s, i)
      PROVE  WritersInv'
  BY <1>0, <1>1, RequestStarts DEF RequestDuringRun, WritersInv, Running
<1>2. ASSUME NEW s \in Sessions, UNCHANGED scriptVars,
             Flush(s) \/ StartDelete(s) \/ FinishDelete(s) \/ EmbedAndInsert(s)
      PROVE  WritersInv'
  <2>1. txn[s] \in Txn /\ txn \in [Sessions -> Txn \cup {Idle}] /\ Running(s)
    BY <1>0, <1>2, StepEffect DEF TypeOK
  <2>2. \A x \in txn'[s].add : x.by = s
    <3>1. CASE EmbedAndInsert(s)
      <4>1. txn'[s].add = Batches(txn[s].mem.body_md, s) /\ txn[s].mem.body_md \in Bodies
        BY <2>1, <3>1 DEF EmbedAndInsert, Txn, Row
      <4>2. QED BY <4>1, BatchesType DEF Actors
    <3>2. CASE Flush(s) \/ StartDelete(s) \/ FinishDelete(s)
      <4>1. txn'[s].add = txn[s].add
        BY <2>1, <3>2 DEF Flush, StartDelete, FinishDelete, Txn
      <4>2. QED BY <1>0, <2>1, <4>1 DEF WritersInv
    <3>3. QED BY <1>2, <3>1, <3>2
  <2>3. QED BY <1>0, <1>2, <2>2, StepEffect DEF WritersInv, Running, scriptVars
<1>3. ASSUME NEW s \in Sessions, CommitDuringRun(s) PROVE WritersInv'
  <2>1. Commit(s) /\ \A r \in Sessions : Running(r)' => Running(r) /\ txn'[r] = txn[r]
    BY <1>0, <1>3, CommitMerges DEF CommitDuringRun, Running
  <2>2. ASSUME NEW i \in Items, NEW x \in chunks'[i]
        PROVE  x \in chunks[i] \/ x.by = s
    BY <1>0, <2>1, <2>2, CommitMerges DEF WritersInv
  <2>3. QED BY <1>0, <1>3, <2>1, <2>2, CommitDuringRunEffect DEF WritersInv
<1>4. ASSUME NEW s \in Sessions, Rollback(s), UNCHANGED scriptVars PROVE WritersInv'
  <2>1. \A r \in Sessions : Running(r)' => Running(r) /\ txn'[r] = txn[r]
    BY <1>0, <1>4 DEF Rollback, Running, TypeOK
  <2>2. QED BY <1>0, <1>4, <2>1 DEF WritersInv, Rollback, scriptVars
<1>5. ASSUME NEW p \in Scripts, RunProgress(p) \/ AbortRun(p), ~CommitRun(p)
      PROVE  WritersInv'
  <2>1. UNCHANGED <<txn, chunks>>
    BY <1>0, <1>5, RunWrites
  <2>2. ASSUME NEW q \in Scripts
        PROVE  /\ \A i \in Items : \A x \in script'[q].add[i] : x.by = q
               /\ script'[q].stage # "ended" => script[q].stage # "ended"
    <3>0. \A i \in Items : \A x \in script[q].add[i] : x.by = q
      BY <1>0 DEF WritersInv
    <3>1. CASE q # p
      BY <1>0, <1>5, <3>0, <3>1, OtherRunsStay
    <3>2. CASE q = p /\ InsertItem(p)
      <4>1. PICK j \in Items, b \in Bodies : /\ j = TurnOf(script[p].left, script[p].copy)
                                             /\ b = script[p].copy[j].body_md
        BY <1>0, <3>2, InsertItemEffect DEF ReembedTypeOK, Script, Row
      <4>2. script'[p].add = [script[p].add EXCEPT ![j] = Batches(b, p)]
        BY <1>0, <3>2, <4>1, InsertItemEffect
      <4>3. \A x \in Batches(b, p) : x.by = p
        BY BatchesType DEF Actors
      <4>4. script[p].add \in [Items -> SUBSET Batch]
        BY <1>0 DEF ReembedTypeOK, Script
      <4>5. QED BY <1>0, <3>0, <3>2, <4>2, <4>3, <4>4, InsertItemEffect
    <3>3. CASE q = p /\ AbortRun(p)
      BY <1>0, <3>3, AbortRunEffect
    <3>4. CASE q = p /\ ~InsertItem(p) /\ ~AbortRun(p)
      BY <1>0, <1>5, <3>0, <3>4, OtherRunsStay
    <3>5. QED BY <3>1, <3>2, <3>3, <3>4
  <2>3. QED BY <1>0, <2>1, <2>2 DEF WritersInv, Running
<1>6. ASSUME NEW p \in Scripts, CommitRun(p) PROVE WritersInv'
  <2>1. UNCHANGED txn
    BY <1>6 DEF CommitRun
  <2>2. ASSUME NEW i \in Items, NEW x \in chunks'[i]
        PROVE  x \in chunks[i] \/ x.by = p
    BY <1>0, <1>6, <2>2, CommitRunEffect DEF WritersInv
  <2>3. ASSUME NEW q \in Scripts
        PROVE  /\ \A i \in Items : \A x \in script'[q].add[i] : x.by = q
               /\ script'[q].stage # "ended" => q # p /\ script[q].stage # "ended"
    BY <1>0, <1>6, CommitRunEffect DEF WritersInv
  <2>4. QED BY <1>0, <2>1, <2>2, <2>3 DEF WritersInv, Running
<1>7. CASE UNCHANGED allVars
  BY <1>0, <1>7 DEF allVars, vars, scriptVars, WritersInv, Running
<1>8. QED BY <1>1, <1>2, <1>3, <1>4, <1>5, <1>6, <1>7
          DEF ReembedNext, RequestProgress

LEMMA RunsStep ==
    ASSUME ReembedInv, [ReembedNext]_allVars
    PROVE  RunsInv'
<1>0. TypeOK /\ ReembedTypeOK /\ CopyInv /\ PublishedHasStamp /\ RunsInv
  BY DEF ReembedInv
<1>1. CASE UNCHANGED <<content, chunks, script>>
  BY <1>0, <1>1 DEF RunsInv, RunOK, Replaced
<1>2. ASSUME NEW s \in Sessions, CommitDuringRun(s) PROVE RunsInv'
  <2> SUFFICES ASSUME NEW q \in Scripts PROVE RunOK(script[q])'
    BY DEF RunsInv
  <2>1. RunOK(script[q])
    BY <1>0 DEF RunsInv
  <2>2. \A i \in Items : Replaced(script'[q], i) <=> Replaced(script[q], i)
    BY <1>0, <1>2, CommitDuringRunEffect DEF Replaced
  <2>3. \A i \in Items : /\ script'[q].seen[i] \subseteq script[q].seen[i]
                         /\ script'[q].gone[i] \subseteq script[q].gone[i]
    BY <1>0, <1>2, CommitDuringRunEffect
  <2>4. QED BY <1>0, <1>2, <2>1, <2>2, <2>3, CommitDuringRunEffect, StampsStay DEF RunOK
<1>3. ASSUME NEW p \in Scripts, RunProgress(p) \/ AbortRun(p), ~CommitRun(p)
      PROVE  RunsInv'
  <2> SUFFICES ASSUME NEW q \in Scripts PROVE RunOK(script[q])'
    BY DEF RunsInv
  <2>0. UNCHANGED <<content, chunks>> /\ RunOK(script[q])
    BY <1>0, <1>3, RunWrites DEF RunsInv
  <2>1. CASE script'[q] = script[q]
    BY <2>0, <2>1 DEF RunOK, Replaced
  <2>2. CASE q = p /\ ListPublishedContent(p)
    BY <1>0, <2>0, <2>2, ListEffect DEF RunOK, Replaced, Visible, PublishedHasStamp
  <2>3. CASE q = p /\ StartItem(p)
    <3>1. script[p].gone \in [Items -> SUBSET Batch] /\ script[p].left \subseteq Items
      BY <1>0 DEF ReembedTypeOK, Script
    <3>2. PICK j \in Items :
              /\ j = TurnOf(script'[p].left, script'[p].copy) /\ j \in script[p].left
              /\ script'[p].gone = [script[p].gone EXCEPT ![j] = chunks[j]]
      BY <1>0, <2>3, <3>1, StartItemEffect
    <3>3. \A i \in Items : Replaced(script'[p], i) <=> i \notin script[p].left \/ i = j
      BY <1>0, <2>3, <3>2, StartItemEffect DEF Replaced
    <3>4. \A i \in Items : i \notin script[p].left => Replaced(script[p], i)
      BY DEF Replaced
    <3>5. /\ script'[p].stage = "deleting" /\ script'[p].left = script[p].left
          /\ script'[p].add = script[p].add /\ script'[p].seen = script[p].seen
      BY <1>0, <2>3, StartItemEffect
    <3>6. \A i \in Items : script'[p].gone[i] = IF i = j THEN chunks[i]
                                               ELSE script[p].gone[i]
      BY <3>1, <3>2
    <3>7. QED BY <2>0, <2>3, <3>2, <3>3, <3>4, <3>5, <3>6 DEF RunOK
  <2>4. CASE q = p /\ FinishItem(p)
    BY <1>0, <2>0, <2>4, FinishItemEffect DEF RunOK, Replaced
  <2>5. CASE q = p /\ InsertItem(p)
    <3>1. script[p].add \in [Items -> SUBSET Batch] /\ script[p].left \subseteq Items
      BY <1>0 DEF ReembedTypeOK, Script
    <3>2. PICK j \in Items :
              /\ j = TurnOf(script[p].left, script[p].copy) /\ j \in script[p].left
              /\ script'[p].left = script[p].left \ {j}
              /\ \A i \in Items \ {j} : script'[p].add[i] = script[p].add[i]
      BY <1>0, <2>5, <3>1, InsertItemEffect
    <3>3. \A i \in Items : Replaced(script'[p], i) => Replaced(script[p], i)
      BY <1>0, <2>5, <3>2, InsertItemEffect DEF Replaced
    <3>4. /\ script'[p].stage = "working" /\ script[p].stage = "deleted"
          /\ script'[p].gone = script[p].gone /\ script'[p].seen = script[p].seen
      BY <1>0, <2>5, InsertItemEffect
    <3>5. QED BY <2>0, <2>5, <3>2, <3>3, <3>4 DEF RunOK
  <2>6. CASE q = p /\ AbortRun(p)
    BY <1>0, <2>0, <2>6, AbortRunEffect DEF RunOK, Replaced
  <2>7. QED BY <1>0, <1>3, <2>1, <2>2, <2>3, <2>4, <2>5, <2>6, OtherRunsStay
            DEF RunProgress
<1>4. ASSUME NEW p \in Scripts, CommitRun(p) PROVE RunsInv'
  <2> SUFFICES ASSUME NEW q \in Scripts PROVE RunOK(script[q])'
    BY DEF RunsInv
  <2>0. UNCHANGED content /\ RunOK(script[q])
    BY <1>0, <1>4 DEF CommitRun, RunsInv
  <2>1. CASE q = p
    BY <1>0, <1>4, <2>1, CommitRunEffect DEF RunOK
  <2>2. CASE q # p
    <3>1. \A i \in Items : Replaced(script'[q], i) <=> Replaced(script[q], i)
      BY <1>0, <1>4, <2>2, CommitRunEffect DEF Replaced
    <3>2. QED BY <1>0, <1>4, <2>0, <2>2, <3>1, CommitRunEffect DEF RunOK
  <2>3. QED BY <2>1, <2>2
<1>5. CASE UNCHANGED allVars
  BY <1>1, <1>5 DEF allVars, vars, scriptVars
<1>6. QED BY <1>1, <1>2, <1>3, <1>4, <1>5, RequestsBeside DEF ReembedNext, ReembedInv

LEMMA QuietStep ==
    ASSUME ReembedInv, [ReembedNext]_allVars
    PROVE  QuietInv'
<1>0. TypeOK /\ ReembedTypeOK /\ CopyInv /\ PublishedHasStamp /\ RunsInv /\ QuietInv
  BY DEF ReembedInv
<1>1. ASSUME NEW s \in Sessions, NEW i \in Items, RequestDuringRun(s, i)
      PROVE  QuietInv'
  BY <1>1 DEF RequestDuringRun, QuietInv, AtWork
<1>2. ASSUME NEW s \in Sessions,
             RequestProgress(s) \/ (Rollback(s) /\ UNCHANGED scriptVars)
      PROVE  QuietInv'
  <2>1. Running(s)
    BY <1>2 DEF RequestProgress, CommitDuringRun, Commit, Flush, StartDelete,
                FinishDelete, EmbedAndInsert, Rollback, At
  <2>2. /\ UNCHANGED overlapped
        /\ \A p \in Scripts : script'[p].stage = script[p].stage
    <3>1. CASE CommitDuringRun(s)
      BY <1>0, <3>1, CommitDuringRunEffect DEF CommitDuringRun
    <3>2. CASE UNCHANGED scriptVars
      BY <3>2 DEF scriptVars
    <3>3. QED BY <1>2, <3>1, <3>2 DEF RequestProgress
  <2>3. QED BY <1>0, <2>1, <2>2 DEF QuietInv, AtWork
<1>3. ASSUME NEW p \in Scripts, RunProgress(p) \/ AbortRun(p) PROVE QuietInv'
  <2> SUFFICES ASSUME NEW q \in Scripts, AtWork(q)', q \notin overlapped'
               PROVE  /\ \A s \in Sessions : ~Running(s)'
                      /\ \A u \in Scripts \ {q} : ~AtWork(u)'
                      /\ script'[q].copy = content'
                      /\ \A i \in Items : Visible(i)' =>
                            /\ Replaced(script'[q], i) => script'[q].gone[i] = chunks'[i]
                            /\ i \notin script'[q].left =>
                                  script'[q].add[i] = Batches(content'[i].body_md, q)
    BY DEF QuietInv, Replaced
  <2>1. UNCHANGED <<content, txn>> /\ \A s \in Sessions : Running(s)' <=> Running(s)
    BY <1>0, <1>3, RunWrites DEF Running
  <2>2. ~CommitRun(p) \/ q # p
    BY <1>0, CommitRunEffect DEF AtWork
  <2>3. ~AbortRun(p) \/ q # p
    BY <1>0, AbortRunEffect DEF AtWork
  <2>4. AtWork(p) \/ ListPublishedContent(p)
    BY <1>3 DEF RunProgress, AbortRun, AtWork, StartItem, FinishItem, InsertItem,
                CommitRun, MayCommit
  <2>5. \A u \in Scripts \ {p} : AtWork(u)' <=> AtWork(u)
    <3>1. CASE CommitRun(p)
      BY <1>0, <3>1, CommitRunEffect DEF AtWork
    <3>2. CASE ~CommitRun(p)
      BY <1>0, <1>3, <3>2, OtherRunsStay DEF AtWork
    <3>3. QED BY <3>1, <3>2
  <2>6. q = p
    <3> SUFFICES ASSUME q # p PROVE FALSE
      OBVIOUS
    <3>1. AtWork(q)
      BY <2>5
    <3>2. CASE ListPublishedContent(p)
      BY <3>1, <3>2 DEF ListPublishedContent
    <3>3. CASE ~ListPublishedContent(p)
      <4>1. q \notin overlapped
        BY <1>3, <3>3 DEF RunProgress, AbortRun, StartItem, FinishItem, InsertItem,
                          CommitRun
      <4>2. QED BY <1>0, <2>4, <3>1, <3>3, <4>1 DEF QuietInv
    <3>4. QED BY <3>2, <3>3
  <2>7. UNCHANGED chunks /\ \A i \in Items : Visible(i)' <=> Visible(i)
    BY <1>0, <1>3, <2>1, <2>2, <2>6, RunWrites DEF Visible
  <2>8. CASE ListPublishedContent(p)
    <3>1. (\A s \in Sessions : ~Running(s)) /\ \A u \in Scripts : ~AtWork(u)
      BY <2>6, <2>8 DEF ListPublishedContent
    <3>2. /\ script'[p].left = {i \in Items : Visible(i)}
          /\ script'[p].copy = content /\ script'[p].stage = "working"
      BY <1>0, <2>8, ListEffect
    <3>3. QED BY <2>1, <2>5, <2>6, <2>7, <3>1, <3>2 DEF Replaced
  <2>9. CASE ~ListPublishedContent(p)
    <3>1. /\ \A s \in Sessions : ~Running(s)
          /\ \A u \in Scripts \ {p} : ~AtWork(u)
          /\ script[p].copy = content
          /\ \A i \in Items : Visible(i) =>
                /\ Replaced(script[p], i) => script[p].gone[i] = chunks[i]
                /\ i \notin script[p].left =>
                       script[p].add[i] = Batches(content[i].body_md, p)
      <4>1. p \notin overlapped
        BY <1>3, <2>2, <2>3, <2>6, <2>9 DEF RunProgress, StartItem, FinishItem, InsertItem
      <4>2. QED BY <1>0, <2>4, <2>9, <4>1 DEF QuietInv
    <3>2. script[p] \in Script
      BY <1>0 DEF ReembedTypeOK
    <3>3. CASE StartItem(p)
      <4>0. PICK n : /\ n = TurnOf(script[p].left, script[p].copy)
                     /\ n \in script[p].left /\ script'[p].left = script[p].left
                     /\ script'[p].copy = script[p].copy
                     /\ script'[p].gone = [script[p].gone EXCEPT ![n] = chunks[n]]
        BY <1>0, <3>3, StartItemEffect
      <4>1. PICK j \in Items :
                /\ j = TurnOf(script'[p].left, script'[p].copy)
                /\ script'[p].gone = [script[p].gone EXCEPT ![j] = chunks[j]]
        <5>1. n \in Items
          BY <3>2, <4>0 DEF Script
        <5>2. QED BY <4>0, <5>1
      <4>2. \A i \in Items : script'[p].gone[i] = IF i = j THEN chunks[i]
                                                  ELSE script[p].gone[i]
        BY <3>2, <4>1 DEF Script
      <4>3. \A i \in Items : Replaced(script'[p], i) => i = j \/ Replaced(script[p], i)
        BY <1>0, <3>3, <4>1, StartItemEffect DEF Replaced
      <4>4. /\ script'[p].copy = script[p].copy /\ script'[p].left = script[p].left
            /\ script'[p].add = script[p].add
        BY <1>0, <3>3, StartItemEffect
      <4>5. QED BY <2>1, <2>5, <2>6, <2>7, <3>1, <4>2, <4>3, <4>4
    <3>4. CASE FinishItem(p)
      <4>1. \A i \in Items : Replaced(script'[p], i) <=> Replaced(script[p], i)
        BY <1>0, <3>4, FinishItemEffect DEF Replaced
      <4>2. QED BY <1>0, <2>1, <2>5, <2>6, <2>7, <3>1, <3>4, <4>1, FinishItemEffect
    <3>5. CASE InsertItem(p)
      <4>1. PICK j \in Items :
                /\ j = TurnOf(script[p].left, script[p].copy)
                /\ script'[p].left = script[p].left \ {j}
                /\ script'[p].add = [script[p].add EXCEPT ![j] =
                                        Batches(script[p].copy[j].body_md, p)]
        BY <1>0, <3>2, <3>5, InsertItemEffect DEF Script
      <4>2. \A i \in Items : script'[p].add[i] = IF i = j THEN Batches(content[j].body_md, p)
                                                 ELSE script[p].add[i]
        BY <3>1, <3>2, <4>1 DEF Script
      <4>3. \A i \in Items : Replaced(script'[p], i) => Replaced(script[p], i)
        BY <1>0, <3>5, <4>1, InsertItemEffect DEF Replaced
      <4>4. script'[p].copy = script[p].copy /\ script'[p].gone = script[p].gone
        BY <1>0, <3>5, InsertItemEffect
      <4>5. QED BY <2>1, <2>5, <2>6, <2>7, <3>1, <4>1, <4>2, <4>3, <4>4
    <3>6. QED BY <1>3, <2>2, <2>3, <2>6, <2>9, <3>3, <3>4, <3>5 DEF RunProgress
  <2>10. QED BY <2>8, <2>9
<1>4. CASE UNCHANGED allVars
  BY <1>0, <1>4 DEF allVars, vars, scriptVars, QuietInv, AtWork, Running, Visible, Replaced
<1>5. QED BY <1>1, <1>2, <1>3, <1>4 DEF ReembedNext

-----------------------------------------------------------------------------
\* The inductive invariant of the runs beside the requests.
THEOREM ReembedSafety == ReembedSpec => []ReembedInv
<1>1. ReembedInit => ReembedInv
  <2> SUFFICES ASSUME ReembedInit PROVE ReembedInv
    OBVIOUS
  <2>1. TypeOK /\ PhaseInv /\ CopyInv /\ PublishedHasStamp /\ DraftHasNoChunks
    BY DataAssumption DEF ReembedInit, Init, TypeOK, Row, Statuses, Actors, PhaseInv,
       CopyInv, PublishedHasStamp, DraftHasNoChunks, Running
  <2>2. \A p \in Scripts : script[p] = AtRest("new")
    BY DEF ReembedInit
  <2>3. ReembedTypeOK
    BY <2>1, AtRestType DEF ReembedInit, ReembedTypeOK, TypeOK
  <2>4. WritersInv
    BY <2>2, AtRestType DEF ReembedInit, Init, WritersInv, Running
  <2>5. RunsInv
    BY <2>2, AtRestType DEF RunsInv, RunOK
  <2>6. QuietInv
    BY <2>2, AtRestType DEF QuietInv, AtWork
  <2>7. QED BY <2>1, <2>3, <2>4, <2>5, <2>6 DEF ReembedInv
<1>2. ReembedInv /\ [ReembedNext]_allVars => ReembedInv'
  BY RequestsStep, ReembedTypeStep, DraftStep, WritersStep, RunsStep, QuietStep
     DEF ReembedInv
<1>3. QED BY <1>1, <1>2, PTL DEF ReembedSpec

\* Every variable stays in its range when runs of the script are beside the requests.
THEOREM ReembedTypes == ReembedSpec => [](TypeOK /\ ReembedTypeOK)
<1>1. ReembedInv => TypeOK /\ ReembedTypeOK
  BY DEF ReembedInv
<1>2. QED BY <1>1, ReembedSafety, PTL

\* The script, which takes no row lock and works on old copies, still gives no
\* chunks to an item that was never published.
THEOREM ReembedKeepsDraftsOut == ReembedSpec => []DraftHasNoChunks
<1>1. ReembedInv => DraftHasNoChunks
  BY DEF ReembedInv
<1>2. QED BY <1>1, ReembedSafety, PTL

\* Whatever overlaps a run, no row it found stored on an item it listed outlives
\* its commit: the vectors of the old model are gone when the run has ended.
THEOREM OldVectorsDie == ReembedSpec => OldVectorsGone
<1> DEFINE Gone == \A p \in Scripts :
                      CommitRun(p) => \A i \in Items : chunks'[i] \cap script[p].seen[i] = {}
<1>1. ReembedInv => Gone
  <2> SUFFICES ASSUME ReembedInv, NEW p \in Scripts, CommitRun(p), NEW i \in Items
               PROVE  chunks'[i] \cap script[p].seen[i] = {}
    OBVIOUS
  <2>1. /\ script[p].stage = "working" /\ script[p].left = {}
        /\ chunks'[i] = (chunks[i] \ script[p].gone[i]) \cup script[p].add[i]
    BY CommitRunEffect DEF ReembedInv
  <2>2. script[p].seen[i] \subseteq chunks[i] /\ script[p].seen[i] \subseteq script[p].gone[i]
    BY <2>1 DEF ReembedInv, RunsInv, RunOK, Replaced
  <2>3. /\ \A x \in script[p].add[i] : x.by = p
        /\ \A x \in chunks[i] : x.by # p
    BY <2>1 DEF ReembedInv, WritersInv
  <2>4. QED BY <2>1, <2>2, <2>3
<1>2. ReembedInv /\ [ReembedNext]_allVars => [Gone]_allVars
  BY <1>1
<1>3. QED BY <1>2, ReembedSafety, PTL DEF ReembedSpec, OldVectorsGone

\* A run that neither a request nor another run overlaps repairs every published
\* item: one set of chunks, cut from the body the item has now.
THEOREM QuietRunsRepair == ReembedSpec => QuietRunRepairs
<1> DEFINE Repaired == \A p \in Scripts : CommitRun(p) /\ p \notin overlapped =>
                          \A i \in Items : Visible(i) =>
                              chunks'[i] = Batches(content[i].body_md, p)
<1>1. ReembedInv => Repaired
  <2> SUFFICES ASSUME ReembedInv, NEW p \in Scripts, CommitRun(p), p \notin overlapped,
                      NEW i \in Items, Visible(i)
               PROVE  chunks'[i] = Batches(content[i].body_md, p)
    OBVIOUS
  <2>1. /\ script[p].stage = "working" /\ script[p].left = {}
        /\ chunks'[i] = (chunks[i] \ script[p].gone[i]) \cup script[p].add[i]
    BY CommitRunEffect DEF ReembedInv
  <2>2. /\ script[p].gone[i] = chunks[i]
        /\ script[p].add[i] = Batches(content[i].body_md, p)
    BY <2>1 DEF ReembedInv, QuietInv, AtWork, Replaced
  <2>3. QED BY <2>1, <2>2
<1>2. ReembedInv /\ [ReembedNext]_allVars => [Repaired]_allVars
  BY <1>1
<1>3. QED BY <1>2, ReembedSafety, PTL DEF ReembedSpec, QuietRunRepairs
=============================================================================
