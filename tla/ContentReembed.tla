--------------------------- MODULE ContentReembed ---------------------------
(***************************************************************************)
(* scripts/reembed.py beside the running API: one transaction rebuilds the *)
(* chunks of every published item.  It reads the list of items once, takes *)
(* no lock on a content row, and commits at the end of the whole run, so   *)
(* only the chunk rows it deletes order it against the requests.           *)
(***************************************************************************)
EXTENDS ContentLifecycle

VARIABLES
    script,         \* each run of the script
    overlapped      \* history: the runs at work that overlapped a request or a run

scriptVars == <<script, overlapped>>

\* copy holds the listed rows as they were read; left the items still to do;
\* seen (a history) the chunk rows of the listed items when they were read.
Script == [stage : {"new", "working", "deleting", "deleted", "ended"},
           left : SUBSET Items, copy : [Items -> Row],
           gone : [Items -> SUBSET Batch], add : [Items -> SUBSET Batch],
           seen : [Items -> SUBSET Batch]]

NoBatches == [i \in Items |-> {}]

NoCopy == [i \in Items |-> [status |-> "absent", is_deleted |-> FALSE,
                             body_md |-> CHOOSE b \in Bodies : TRUE,
                             published_at |-> 0]]

AtRest(stage) == [stage |-> stage, left |-> {}, copy |-> NoCopy,
                  gone |-> NoBatches, add |-> NoBatches,
                  seen |-> NoBatches]

\* Row ids are never used again: rows that were deleted leave every snapshot.
Forget(runs, rows) ==
    [q \in Scripts |-> [runs[q] EXCEPT !.gone = [i \in Items |-> @[i] \ rows[i]],
                                       !.seen = [i \in Items |-> @[i] \ rows[i]]]]

AtWork(p) == script[p].stage \in {"working", "deleting", "deleted"}

\* list_published_content orders by published_at, newest first.
Turn(p) == CHOOSE i \in script[p].left :
              \A j \in script[p].left :
                  script[p].copy[j].published_at <= script[p].copy[i].published_at

-----------------------------------------------------------------------------
ReembedInit ==
    /\ Init
    /\ script = [p \in Scripts |-> AtRest("new")]
    /\ overlapped = {}

ListPublishedContent(p) ==
    /\ script[p].stage = "new"
    /\ script' = [script EXCEPT ![p].stage = "working", ![p].copy = content,
                                ![p].left = {i \in Items : Visible(i)},
                                ![p].seen = [i \in Items |->
                                    IF Visible(i) THEN chunks[i] ELSE {}]]
    /\ LET busy == {q \in Scripts : AtWork(q)} IN
           overlapped' = IF busy # {} \/ \E s \in Sessions : Running(s)
                         THEN overlapped \cup busy \cup {p} ELSE overlapped
    /\ UNCHANGED vars

\* Mutant: one stored set is replaced, as if an item could have no more.
StartItemOneSet(p) ==
    LET i == Turn(p) IN
    /\ script[p].stage = "working"
    /\ script[p].left # {}
    /\ \E g \in SUBSET chunks[i] :
           /\ Cardinality(g) <= 1 /\ (chunks[i] # {} => g # {})
           /\ script' = [script EXCEPT ![p].stage = "deleting", ![p].gone[i] = g]
    /\ UNCHANGED <<vars, overlapped>>

\* rebuild_chunks: the DELETE's snapshot, its wait, the INSERTs.
StartItem(p) ==
    LET i == Turn(p) IN
    /\ script[p].stage = "working"
    /\ script[p].left # {}
    /\ script' = [script EXCEPT ![p].stage = "deleting", ![p].gone[i] = chunks[i]]
    /\ UNCHANGED <<vars, overlapped>>

FinishItem(p) ==
    LET i == Turn(p) IN
    /\ script[p].stage = "deleting"
    /\ chunkLock[i] = Nobody \/ script[p].gone[i] \cap chunks[i] = {}
    /\ chunkLock' = IF script[p].gone[i] \cap chunks[i] = {} THEN chunkLock
                    ELSE [chunkLock EXCEPT ![i] = p]
    /\ script' = [script EXCEPT ![p].stage = "deleted"]
    /\ UNCHANGED <<content, chunks, rowLock, txn, stamps, overlapped>>

InsertItem(p) ==
    LET i == Turn(p) IN
    /\ script[p].stage = "deleted"
    /\ script' = [script EXCEPT ![p].stage = "working",
                    ![p].left = @ \ {i},
                    ![p].add[i] = Batches(script[p].copy[i].body_md, p)]
    /\ UNCHANGED <<vars, overlapped>>

\* Mutant: a commit after each item, as the pipeline's other callers make.
MayCommitEarly(p) == script[p].stage = "working"
MayCommit(p) == script[p].stage = "working" /\ script[p].left = {}

CommitRun(p) ==
    /\ MayCommit(p)
    /\ chunks' = [i \in Items |-> (chunks[i] \ script[p].gone[i]) \cup script[p].add[i]]
    /\ chunkLock' = Release(chunkLock, p)
    /\ script' = Forget([script EXCEPT ![p] = IF @.left = {} THEN AtRest("ended") ELSE @],
                        script[p].gone)
    /\ overlapped' = overlapped \ {p}
    /\ UNCHANGED <<content, rowLock, txn, stamps>>

\* A failed embedding, or the process dying: the whole run rolls back.
AbortRun(p) ==
    /\ AtWork(p)
    /\ chunkLock' = Release(chunkLock, p)
    /\ script' = [script EXCEPT ![p] = AtRest("ended")]
    /\ overlapped' = overlapped \ {p}
    /\ UNCHANGED <<content, chunks, rowLock, txn, stamps>>

-----------------------------------------------------------------------------
RequestDuringRun(s, i) ==
    /\ Request(s, i)
    /\ overlapped' = overlapped \cup {p \in Scripts : AtWork(p)}
    /\ UNCHANGED script

CommitDuringRun(s) ==
    /\ Commit(s)
    /\ script' = Forget(script, [i \in Items |-> IF i = txn[s].item THEN txn[s].gone ELSE {}])
    /\ UNCHANGED overlapped

RequestProgress(s) ==
    \/ CommitDuringRun(s)
    \/ /\ Flush(s) \/ StartDelete(s) \/ FinishDelete(s) \/ EmbedAndInsert(s)
       /\ UNCHANGED scriptVars

RunProgress(p) ==
    \/ ListPublishedContent(p)
    \/ StartItem(p)
    \/ FinishItem(p)
    \/ InsertItem(p)
    \/ CommitRun(p)

ReembedNext ==
    \/ \E s \in Sessions :
           \/ \E i \in Items : RequestDuringRun(s, i)
           \/ RequestProgress(s)
           \/ Rollback(s) /\ UNCHANGED scriptVars
    \/ \E p \in Scripts : RunProgress(p) \/ AbortRun(p)

allVars == <<vars, scriptVars>>

ReembedSpec == ReembedInit /\ [][ReembedNext]_allVars

\* A request or a run under way keeps running.  Postgres queues the waiters of a
\* row lock and wakes those of deleted rows when their transaction ends, so a
\* request or a run that waits for one gets it.
ReembedFairness ==
    /\ \A s \in Sessions : SF_allVars(Flush(s) /\ UNCHANGED scriptVars)
                           /\ SF_allVars(FinishDelete(s) /\ UNCHANGED scriptVars)
                           /\ WF_allVars(RequestProgress(s))
    /\ \A p \in Scripts : /\ SF_allVars(FinishItem(p))
                          /\ WF_allVars(AtWork(p) /\ RunProgress(p))

FairReembedSpec == ReembedSpec /\ ReembedFairness

-----------------------------------------------------------------------------
\* Every variable stays in its range.
ReembedTypeOK ==
    /\ chunks \in [Items -> SUBSET Batch]
    /\ chunkLock \in [Items -> Actors \cup {Nobody}]
    /\ script \in [Scripts -> Script]
    /\ overlapped \in SUBSET Scripts

\* What a run found stored on the items it listed never outlives its commit,
\* whatever overlaps it: after a change of the embedding model no vector of the
\* old one answers beside the new ones because the run was late or interrupted.
OldVectorsGone ==
    [][\A p \in Scripts :
          CommitRun(p) => \A i \in Items : chunks'[i] \cap script[p].seen[i] = {}]_allVars

\* A run that nothing overlaps leaves exactly one set of chunks, cut from the
\* current body, on every published item, whatever earlier overlaps left there.
QuietRunRepairs ==
    [][\A p \in Scripts :
          CommitRun(p) /\ p \notin overlapped =>
            \A i \in Items : Visible(i) => chunks'[i] = Batches(content[i].body_md, p)]_allVars

\* The script and the requests wait for each other's locks and still all end.
EverythingEnds ==
    /\ \A s \in Sessions : Running(s) ~> ~Running(s)
    /\ \A p \in Scripts : AtWork(p) ~> ~AtWork(p)
=============================================================================
