----------------------------- MODULE MCProposals -----------------------------
\* Model-checking instances of Proposals.
EXTENDS Proposals, TLC

Symmetry == Permutations(Sessions)

CanStillAccept(p) ==
    /\ proposal[p].status \in {"absent", "proposed"}
    /\ proposal[p].status = "proposed" => proposal[p].before # NoRun
    /\ ~article[p].is_deleted

Accepting(p) == \E s \in Sessions : Running(s) /\ txn[s].op = "accept" /\ txn[s].id = p

\* What no longer can end in an acceptance is cut: a proposal made without a
\* baseline, a decided one, a deleted draft, unless an acceptance is under way;
\* also what comes before the first run.
Alive == /\ runs = {} => clock <= 2
         /\ \A p \in ProposalIds : CanStillAccept(p) \/ Accepting(p)

\* Three runs of two questions with any results; nobody edits another article.
Families ==
    /\ clock <= 6
    /\ \A a \in Existing : article[a].updated_at = 1 /\ Visible(a)
    /\ \A s \in Sessions : txn[s].id \notin Existing

\* Two runs of one question that always passes, eight instants, and an article that
\* is edited but not withdrawn.
Publications ==
    /\ LET all == runs \cup harness.pending
       IN  /\ Cardinality(all) + (IF harness.busy THEN 1 ELSE 0) <= 2
           /\ \A r \in all : r.results = [q \in Answerable |-> "pass"]
    /\ \A a \in Existing : Visible(a)

Focus == Alive /\ (Families \/ Publications)
=============================================================================
