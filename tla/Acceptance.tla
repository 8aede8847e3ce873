----------------------------- MODULE Acceptance -----------------------------
(***************************************************************************)
(* The evidence rules of the improvement loop: what a family of evaluation *)
(* runs is, how two families are compared (app/services/eval_runs.py), and *)
(* the ladder of gates a proposal passes before it may be accepted         *)
(* (check_acceptance in app/services/proposals.py).                        *)
(***************************************************************************)
EXTENDS Integers, FiniteSets, FiniteSetsExt

CONSTANTS
    Questions,      \* question texts
    Answerable,     \* those some article is expected to answer
    Labels,         \* --label values
    Judged,         \* the outcomes the judges come to in a behaviour
    NoRun

\* How a question came out.  "astray" is an answer every sentence of which is
\* supported, but not by the expected article: verdict FAIL, yet fully_supported.
Outcomes == {"pass", "astray", "fail"}
Results  == UNION {[Q -> Judged] : Q \in SUBSET Questions}

ASSUME QuestionAssumption == Answerable \subseteq Questions /\ Judged \subseteq Outcomes

Asked(run)      == DOMAIN run.results
Passes(run, q)  == run.results[q] = "pass"
Percent(n, of)  == (100 * n) \div of

\* pct_fully_supported counts answerable rows only, 0 when there are none.
PctFullySupported(run) ==
    LET rows == Asked(run) \cap Answerable IN
    IF rows = {} THEN 0
    ELSE Percent(Cardinality({q \in rows : run.results[q] # "fail"}), Cardinality(rows))

RunFamily(runs, run) ==
    {m \in runs : m.kind = "answer" /\ m.label = run.label /\ m.digest = run.digest}

\* What a question's votes come to over a family: a strict majority, or a tie.
Votes(family, q) == {m \in family : q \in Asked(m)}

MajorityVerdict(family, q) ==
    LET for     == Cardinality({m \in Votes(family, q) : Passes(m, q)})
        against == Cardinality({m \in Votes(family, q) : ~Passes(m, q)})
    IN  IF for > against THEN "PASS" ELSE IF against > for THEN "FAIL" ELSE "tie"

Covered(family) == UNION {Asked(m) : m \in family}

\* Mutant: a tie after the fix is no regression.
RegressionsButTies(before, after) ==
    {q \in Covered(before) \cap Covered(after) :
        MajorityVerdict(before, q) = "PASS" /\ MajorityVerdict(after, q) = "FAIL"}

Regressions(before, after) ==
    {q \in Covered(before) \cap Covered(after) :
        MajorityVerdict(before, q) = "PASS" /\ MajorityVerdict(after, q) # "PASS"}

\* mean(after) < mean(before), without the division.
MeanPctDropped(before, after) ==
    MapThenSumSet(PctFullySupported, after) * Cardinality(before)
        < MapThenSumSet(PctFullySupported, before) * Cardinality(after)

(***************************************************************************)
(* The gates.  draft is the committed row of the proposal's draft; after   *)
(* is the run the caller names, before the one stamped at propose time.    *)
(***************************************************************************)
Published(draft) == draft.status = "published" /\ ~draft.is_deleted

\* Mutants: a run fingerprinted just before the publication passes; nothing asks
\* whether the after family holds the fix.
PredatesByOne(family, draft) == \E m \in family : m.corpus_at < draft.published_at - 1
PredatesNever(family, draft) == FALSE

NotNewer(family, before)  == \E m \in family : m.at <= before.at
Predates(family, draft)   == \E m \in family : m.corpus_at < draft.published_at
Partial(family, before)   == \E m \in family : ~(Asked(before) \subseteq Asked(m))

BlockedBy(runs, before, after, draft) ==
    LET befores == RunFamily(runs, before)
        afters  == RunFamily(runs, after)
    IN  IF before = NoRun                     THEN "no_before_run"
        ELSE IF before \notin runs            THEN "missing_before_run"
        ELSE IF before.kind # "answer"        THEN "before_run_wrong_kind"
        ELSE IF Asked(before) = {}            THEN "incomplete_before_run"
        ELSE IF after \notin runs             THEN "missing_after_run"
        ELSE IF after.kind # "answer"         THEN "after_run_wrong_kind"
        ELSE IF NotNewer(afters, before)      THEN "after_run_not_newer"
        ELSE IF after.digest = before.digest  THEN "corpus_unchanged"
        ELSE IF MeanPctDropped(befores, afters) THEN "pct_dropped"
        ELSE IF ~Published(draft)             THEN "draft_not_published"
        ELSE IF Predates(afters, draft)       THEN "after_run_predates_publication"
        ELSE IF \/ Partial(afters, before)
                \/ Cardinality(Asked(after)) < Cardinality(Asked(before))
                                              THEN "incomplete_after_run"
        ELSE IF Regressions(befores, afters) # {} THEN "regressions"
        ELSE "none"
=============================================================================
