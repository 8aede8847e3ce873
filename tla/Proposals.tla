------------------------------ MODULE Proposals ------------------------------
(***************************************************************************)
(* The improvement loop: proposals and their drafts                        *)
(* (app/services/proposals.py), the articles requests publish, edit,       *)
(* archive and delete meanwhile (app/services/content.py), and the         *)
(* evaluation harness, a process of its own that measures the corpus and   *)
(* records its runs in one transaction (app/eval/groundedness.py).         *)
(*                                                                         *)
(* A request loads the rows it decides on, computes what it will write,    *)
(* and writes the columns it changed when it commits (READ COMMITTED, no   *)
(* SELECT FOR UPDATE).  Chunks are left to ContentLifecycle.  Time is a    *)
(* counter that moves at every stamp.                                      *)
(***************************************************************************)
EXTENDS Acceptance, Functions

CONSTANTS
    ProposalIds,    \* each carries a draft: the article of the same id
    Existing,       \* articles already published when a behaviour starts
    Sessions,
    AgentRuns,      \* whether the agent suite records runs too
    MaxTime,        \* bound on the stamps taken in a behaviour
    MaxRuns         \* bound on the runs recorded in a behaviour

ASSUME ProposalAssumption == /\ ProposalIds \cap Existing = {}
                             /\ AgentRuns \in BOOLEAN
                             /\ MaxTime \in Nat \ {0} /\ MaxRuns \in Nat

VARIABLES
    clock,
    article,        \* committed content rows
    proposal,       \* committed content_proposals rows
    runs,           \* committed eval runs with their results
    harness,        \* the evaluation under way
    txn,            \* what each request will write
    withdrawn,      \* history: articles archived or deleted once
    overtaken       \* history: articles whose first publication was overtaken

vars == <<clock, article, proposal, runs, harness, txn, withdrawn, overtaken>>

Articles == ProposalIds \cup Existing
Times    == 0..MaxTime
Statuses == {"absent", "draft", "published", "archived"}
Row      == [status : Statuses, is_deleted : BOOLEAN,
             updated_at : Times, published_at : Times]

Visible(a) == Published(article[a])
Active(a)  == article[a].status # "absent" /\ ~article[a].is_deleted

\* corpus_fingerprint: the digest is what it hashes, slugs with their stamps.
Digest      == {<<a, article[a].updated_at>> : a \in {b \in Articles : Visible(b)}}
CorpusStamp == Max({article[a].updated_at : a \in {b \in Articles : Visible(b)}} \cup {0})

Now  == clock + 1
Tick == clock < MaxTime /\ clock' = Now

\* UPDATE names the columns that changed; the rest keep what is committed.
Changed(old, new) == Restrict(new, {c \in DOMAIN new : old[c] # new[c]})
Merge(row, set)   == [c \in DOMAIN row |-> IF c \in DOMAIN set THEN set[c] ELSE row[c]]
Nothing           == <<>>

Idle       == [op |-> "none", id |-> NoRun, set |-> Nothing, decide |-> Nothing]
Running(s) == txn[s] # Idle

Run == [kind : {"answer", "agent"}, label : Labels, at : Times, corpus_at : Times,
        digest : SUBSET (Articles \X Times), measured : SUBSET (Articles \X Times),
        results : Results]

\* The missing run is none of them.
ASSUME NoRunAssumption == NoRun \notin Run

ProposalRow == [status : {"absent", "proposed", "accepted", "rejected"},
                created_at : Times, before : Run \cup {NoRun}, after : Run \cup {NoRun},
                draft_status_after : {"none", "missing"} \cup Statuses]

NoProposal == [status |-> "absent", created_at |-> 0, before |-> NoRun,
               after |-> NoRun, draft_status_after |-> "none"]

-----------------------------------------------------------------------------
Init ==
    /\ clock = 1
    /\ article = [a \in Articles |->
                    IF a \in Existing
                    THEN [status |-> "published", is_deleted |-> FALSE,
                          updated_at |-> 1, published_at |-> 1]
                    ELSE [status |-> "absent", is_deleted |-> FALSE,
                          updated_at |-> 0, published_at |-> 0]]
    /\ proposal = [p \in ProposalIds |-> NoProposal]
    /\ runs = {}
    /\ harness = [measured |-> {}, busy |-> FALSE, pending |-> {}]
    /\ txn = [s \in Sessions |-> Idle]
    /\ withdrawn = {}
    /\ overtaken = {}

\* s has loaded what it needs and will write set into article id and decide into
\* the proposal of that id.
Load(s, op, id, set, decide) ==
    /\ ~Running(s)
    /\ txn' = [txn EXCEPT ![s] = [op |-> op, id |-> id, set |-> set, decide |-> decide]]
    /\ UNCHANGED <<article, proposal, runs, harness, withdrawn, overtaken>>

-----------------------------------------------------------------------------
(***************************************************************************)
(* Content requests.                                                       *)
(***************************************************************************)
PublishContent(s, a) ==
    LET old == article[a]
        new == [old EXCEPT !.status = "published", !.updated_at = Now,
                           !.published_at = IF @ = 0 THEN Now ELSE @]
    IN  Active(a) /\ Load(s, "publish", a, Changed(old, new), Nothing) /\ Tick

UpdateContent(s, a) ==
    LET old == article[a] IN
    /\ Active(a)
    /\ Load(s, "update", a, Changed(old, [old EXCEPT !.updated_at = Now]), Nothing)
    /\ Tick

Archived(row) == [row EXCEPT !.status = "archived", !.updated_at = Now]

ArchiveContent(s, a) ==
    /\ Visible(a)
    /\ Load(s, "archive", a, Changed(article[a], Archived(article[a])), Nothing)
    /\ Tick

DeleteContent(s, a) ==
    LET old == article[a] IN
    /\ Active(a)
    /\ Load(s, "delete", a,
            Changed(old, [old EXCEPT !.is_deleted = TRUE, !.updated_at = Now]), Nothing)
    /\ Tick

-----------------------------------------------------------------------------
(***************************************************************************)
(* Proposal requests.                                                      *)
(***************************************************************************)

\* latest_runs(kind="answer", limit=1), or none.
LatestAnswerRun ==
    LET answers == {r \in runs : r.kind = "answer"} IN
    IF answers = {} THEN NoRun
    ELSE CHOOSE r \in answers : \A q \in answers : q.at <= r.at

ProposeContentFix(s, p) ==
    /\ proposal[p].status = "absent"
    /\ \A t \in Sessions : txn[t].id # p
    /\ Load(s, "propose", p,
            Changed(article[p], [article[p] EXCEPT !.status = "draft", !.updated_at = Now]),
            Changed(NoProposal, [NoProposal EXCEPT !.status = "proposed", !.created_at = Now,
                                                   !.before = LatestAnswerRun]))
    /\ Tick

\* A refusal raises before anything is written: it is no step.
AcceptProposal(s, p, after) ==
    /\ proposal[p].status = "proposed"
    /\ BlockedBy(runs, proposal[p].before, after, article[p]) = "none"
    /\ Load(s, "accept", p, Nothing,
            Changed(proposal[p], [proposal[p] EXCEPT !.status = "accepted", !.after = after]))
    /\ UNCHANGED clock

\* _archive_draft_if_published: what it does to the draft, and what it reports.
RejectProposal(s, p) ==
    LET old   == article[p]
        draft == IF Visible(p) THEN Archived(old) ELSE old
        found == IF old.is_deleted THEN "missing" ELSE draft.status
    IN  /\ proposal[p].status = "proposed"
        /\ Load(s, "reject", p, Changed(old, draft),
                Changed(proposal[p], [proposal[p] EXCEPT !.status = "rejected",
                                          !.draft_status_after = found]))
        /\ Tick

-----------------------------------------------------------------------------
(***************************************************************************)
(* The end of a request.                                                   *)
(***************************************************************************)

\* s is publishing an article for the first time.
Stamping(s) == Running(s) /\ "published_at" \in DOMAIN txn[s].set

\* The articles whose first publication, stamped and not committed, is overtaken
\* by the commit of s of a row that is visible and stamped no earlier.
Overtakes(s, row) ==
    {txn[u].id : u \in {v \in Sessions \ {s} :
                          /\ Stamping(v) /\ Published(row)
                          /\ txn[v].set["published_at"] <= row.updated_at}}

Commit(s) ==
    LET t == txn[s] IN
    /\ Running(s)
    /\ article' = [article EXCEPT ![t.id] = Merge(@, t.set)]
    /\ proposal' = IF t.id \in ProposalIds
                   THEN [proposal EXCEPT ![t.id] = Merge(@, t.decide)] ELSE proposal
    /\ withdrawn' = IF Visible(t.id) /\ ~Published(article'[t.id])
                    THEN withdrawn \cup {t.id} ELSE withdrawn
    /\ overtaken' = overtaken \cup Overtakes(s, article'[t.id])
    /\ txn' = [txn EXCEPT ![s] = Idle]
    /\ UNCHANGED <<clock, runs, harness>>

Rollback(s) ==
    /\ Running(s)
    /\ txn' = [txn EXCEPT ![s] = Idle]
    /\ UNCHANGED <<clock, article, proposal, runs, harness, withdrawn, overtaken>>

-----------------------------------------------------------------------------
(***************************************************************************)
(* The harness: run_eval answers every question from the corpus of the     *)
(* moment; record_run fingerprints the corpus again, minutes later; the    *)
(* runs of one invocation are committed together.                          *)
(***************************************************************************)
RunEval ==
    /\ ~harness.busy
    /\ Cardinality(runs \cup harness.pending) < MaxRuns
    /\ harness' = [harness EXCEPT !.busy = TRUE, !.measured = Digest]
    /\ UNCHANGED <<clock, article, proposal, runs, txn, withdrawn, overtaken>>

\* An empty question file is refused before anything is measured.
RecordRun(kind, label, results) ==
    /\ harness.busy
    /\ DOMAIN results # {}
    /\ kind = "agent" => AgentRuns
    /\ harness' = [harness EXCEPT !.busy = FALSE, !.measured = {},
                     !.pending = @ \cup {[kind |-> kind, label |-> label, at |-> Now,
                         digest |-> Digest, corpus_at |-> CorpusStamp,
                         results |-> results, measured |-> harness.measured]}]
    /\ Tick
    /\ UNCHANGED <<article, proposal, runs, txn, withdrawn, overtaken>>

CommitRuns ==
    /\ ~harness.busy
    /\ harness.pending # {}
    /\ runs' = runs \cup harness.pending
    /\ harness' = [harness EXCEPT !.pending = {}]
    /\ UNCHANGED <<clock, article, proposal, txn, withdrawn, overtaken>>

LoseRuns ==
    /\ harness.busy \/ harness.pending # {}
    /\ harness' = [measured |-> {}, busy |-> FALSE, pending |-> {}]
    /\ UNCHANGED <<clock, article, proposal, runs, txn, withdrawn, overtaken>>

-----------------------------------------------------------------------------
ContentRequest(s, a) ==
    \/ PublishContent(s, a)
    \/ UpdateContent(s, a)
    \/ ArchiveContent(s, a)
    \/ DeleteContent(s, a)

ProposalRequest(s, p) ==
    \/ ProposeContentFix(s, p)
    \/ \E after \in runs : AcceptProposal(s, p, after)
    \/ RejectProposal(s, p)

Evaluation ==
    \/ RunEval
    \/ \E kind \in {"answer", "agent"}, label \in Labels, results \in Results :
           RecordRun(kind, label, results)
    \/ CommitRuns
    \/ LoseRuns

Next ==
    \/ \E s \in Sessions : \/ \E a \in Articles : ContentRequest(s, a)
                           \/ \E p \in ProposalIds : ProposalRequest(s, p)
                           \/ Commit(s)
                           \/ Rollback(s)
    \/ Evaluation

Spec == Init /\ [][Next]_vars

-----------------------------------------------------------------------------
\* What a request may write into a row of a table.
Patches(table) == {Changed(row, new) : row, new \in table} \cup {Nothing}

\* Every variable stays in its range.
TypeOK ==
    /\ clock \in Times
    /\ article \in [Articles -> Row]
    /\ proposal \in [ProposalIds -> ProposalRow]
    /\ runs \subseteq Run
    /\ harness \in [measured : SUBSET (Articles \X Times), busy : BOOLEAN,
                    pending : SUBSET Run]
    /\ txn \in [Sessions -> [op : {"none", "publish", "update", "archive", "delete",
                                  "propose", "accept", "reject"},
                            id : Articles \cup {NoRun},
                            set : Patches(Row), decide : Patches(ProposalRow)]]
    /\ \A s \in Sessions : Running(s) => txn[s].id \in Articles
    /\ withdrawn \subseteq Articles /\ overtaken \subseteq Articles

\* The gate has no vacuous pass: when it opens, every question of the stamped
\* baseline that a majority of its family passed is passed by a strict majority
\* of the runs of the after family, every one of which asked it (a narrowed,
\* padded or stale family cannot buy acceptance).
NoQuestionLost ==
    \A p \in ProposalIds, after \in runs :
        LET before == proposal[p].before
            afters == RunFamily(runs, after)
        IN  BlockedBy(runs, before, after, article[p]) = "none" =>
              \A q \in Asked(before) :
                  MajorityVerdict(RunFamily(runs, before), q) = "PASS" =>
                      2 * Cardinality({m \in afters : q \in Asked(m) /\ Passes(m, q)})
                          > Cardinality(afters)

\* Whatever overlaps, the evidence of an accepted proposal brackets it: its
\* baseline was recorded before it was made and the run that accepted it after.
EvidenceBracketsProposal ==
    \A p \in ProposalIds : proposal[p].status = "accepted" =>
        /\ proposal[p].before # NoRun /\ proposal[p].after # NoRun
        /\ proposal[p].before.at < proposal[p].created_at
        /\ proposal[p].created_at < proposal[p].after.at

\* A decision is final: only a proposal that is still open is accepted or rejected.
\* An acceptance and a rejection that both found it open break this.
DecisionIsFinal ==
    [][\A p \in ProposalIds :
          proposal[p].status \in {"accepted", "rejected"} =>
              proposal'[p].status = proposal[p].status]_proposal

Accepts(p) == proposal[p].status = "proposed" /\ proposal'[p].status = "accepted"
Contains(corpus, a) == \E t \in Times : <<a, t>> \in corpus

\* Every run that lets a fix be accepted measured a corpus containing it, as the
\* refusal of accept_proposal says.  Not when the fix was published, withdrawn and
\* published again, ...
AcceptedFingerprintHasFix ==
    [][\A p \in ProposalIds :
          Accepts(p) => Contains(proposal'[p].after.digest, p)]_proposal

\* ... nor when it was published after the questions were answered and before the
\* corpus was fingerprinted, although nothing was ever withdrawn.
AcceptedMeasuredFix ==
    [][\A p \in ProposalIds :
          Accepts(p) /\ p \notin withdrawn =>
              Contains(proposal'[p].after.measured, p)]_proposal

\* What comparing two stamps does guarantee, whatever requests overlap and whenever
\* the harness measures: the corpus fingerprinted with the after-run contained the
\* fix, unless the fix was withdrawn once or another request with a later stamp
\* committed before its first publication did.
AcceptedHasLastingFix ==
    [][\A p \in ProposalIds :
          Accepts(p) /\ p \notin withdrawn \cup overtaken =>
              Contains(proposal'[p].after.digest, p)]_proposal
=============================================================================
