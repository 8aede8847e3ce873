---------------------------- MODULE EvalHarness -----------------------------
(***************************************************************************)
(* One invocation of the groundedness command line (eval/groundedness.py)  *)
(* beside edits of the corpus and runs other processes record.  It asks    *)
(* each question of the file --runs times over; a question is retrieved    *)
(* for, answered, judged, scored against the articles and headings it      *)
(* expects and, if it failed, given a cause.  A run is recorded in the     *)
(* invocation's one transaction and the invocation commits once.           *)
(*                                                                         *)
(* A chunk is <<article, index, generation>>: rebuilding an article gives  *)
(* it chunks with new ids.  Every statement sees what is committed when it *)
(* runs (READ COMMITTED).  What the models and the judge reply is          *)
(* arbitrary; answers, similarities and the judged sentences are           *)
(* abstracted to the verdicts the code draws from them.                    *)
(***************************************************************************)
EXTENDS Integers, Sequences, FiniteSets, FiniteSetsExt

CONSTANTS
    Articles,
    Outline,         \* [Articles -> [Generations -> what each chunk of it starts with]]:
                     \* a heading, or NA for a preamble and for what follows in a
                     \* section that is too long for one chunk
    RetrievalK,      \* _RETRIEVAL_K
    QuestionFile,    \* the questions load_questions returns, in order
    Arguments,       \* command lines: runs, persist, compare ("latest" wanted)
    Label,           \* of this invocation
    ForeignRuns,     \* kinds and labels of the runs of others
    NA,              \* None
    MaxEdits, MaxForeign        \* bounds of the model

Generations == 1..(MaxEdits + 1)

(* What load_questions lets through.                                       *)
ValidQuestion(qu) ==
    /\ qu.class = "off_domain" => ~qu.answerable
    /\ {r[1] : r \in qu.refs} \subseteq qu.slugs
    /\ qu.reference => qu.answerable

Causes == {"retrieval_miss", "corpus_gap", "threshold_refusal", "generation_unfaithful"}

ASSUME QuestionsAssumption ==
    /\ QuestionFile # <<>> /\ QuestionFile \in Seq({QuestionFile[i] : i \in DOMAIN QuestionFile})
    /\ \A i \in DOMAIN QuestionFile :
          /\ ValidQuestion(QuestionFile[i])
          /\ QuestionFile[i].answerable \in BOOLEAN
          /\ IsFiniteSet(QuestionFile[i].slugs) /\ IsFiniteSet(QuestionFile[i].refs)
ASSUME OutlineAssumption ==
    /\ MaxEdits \in Nat
    /\ \A a \in Articles, g \in Generations :
          Outline[a][g] \in Seq({Outline[a][g][i] : i \in DOMAIN Outline[a][g]})
ASSUME ArgumentsAssumption ==
    Arguments \subseteq [runs : Nat \ {0}, persist : BOOLEAN, compare : BOOLEAN]
ASSUME NAAssumption == NA \notin BOOLEAN /\ NA \notin {"FAIL"} \cup Causes

VARIABLES
    gen,             \* generation of an article's chunks, 0 while it has none
    edits,           \* publications and withdrawals so far; the corpus digest
    stored,          \* committed runs
    pc, args,
    left,            \* how many of the --runs are not over
    row,             \* the question under way, or the last one scored
    rows,            \* the rows of the run under way
    report,
    pending,         \* runs recorded and not committed
    before,          \* what --compare-to was resolved to
    compared         \* what compare_runs was given and has looked at

corpus == <<gen, edits>>
vars == <<gen, edits, stored, pc, args, left, row, rows, report, pending, before, compared>>

Own == {r \in stored : r.by = "cli"}
ChunksOf(a, g) == {<<a, i, g>> : i \in DOMAIN Outline[a][g]}
Live == UNION {ChunksOf(a, gen[a]) : a \in {b \in Articles : gen[b] > 0}}

NoRow == [got |-> {}, top |-> NA, declined |-> FALSE, supported |-> NA, left |-> {},
          resolved |-> {}, moved |-> FALSE, malformed |-> FALSE, verdict |-> NA, cause |-> NA]

Init ==
    /\ gen = [a \in Articles |-> 1] /\ edits = 1
    /\ stored = {}
    /\ pc = "parsed" /\ args \in Arguments /\ left = args.runs
    /\ row = NoRow /\ rows = <<>> /\ report = NA
    /\ pending = <<>> /\ before = NA /\ compared = NA
-----------------------------------------------------------------------------
(* The newest committed answer run.  Runs are stamped as they are          *)
(* recorded, so that `at' orders them.                                     *)
LatestRun ==
    LET answers == {r \in stored : r.kind = "answer"}
    IN  IF answers = {} THEN NA
        ELSE CHOOSE r \in answers : \A s \in answers : s.at <= r.at

Clock == Cardinality(stored) + Len(pending)

Resolve == IF args.compare THEN LatestRun ELSE NA

Start ==
    /\ pc = "parsed"
    /\ before' = Resolve
    /\ pc' = "retrieve"
    /\ UNCHANGED <<corpus, stored, args, left, row, rows, report, pending, compared>>

Question == QuestionFile[Len(rows) + 1]

(* One query finds the k nearest live chunks; those below the threshold    *)
(* are dropped, and top remains.                                           *)
Retrieve(got, top) ==
    /\ pc = "retrieve"
    /\ got \subseteq Live /\ Cardinality(got) <= RetrievalK
    /\ top \in IF got # {} THEN {"clear"} ELSE IF Live = {} THEN {NA} ELSE {"near", "far"}
    /\ row' = [NoRow EXCEPT !.got = got, !.top = top, !.left = Question.refs]
    /\ pc' = "judge"
    /\ UNCHANGED <<corpus, stored, args, left, rows, report, pending, before, compared>>

Found(r) == r.got # {}
Cited(r) == {c[1] : c \in r.got}

(* The answer streams and is judged: whether it declines, when something   *)
(* was found; whether each sentence is supported, when the question is     *)
(* answerable, up to the first that is not.  That an answerable question   *)
(* was declined is only noted, and left out here.                          *)
Judge(declined, supported) ==
    /\ pc = "judge"
    /\ declined => Found(row) /\ ~Question.answerable
    /\ supported \in IF Question.answerable THEN BOOLEAN ELSE {NA}
    /\ row' = [row EXCEPT !.declined = declined, !.supported = supported]
    /\ pc' = "resolve"
    /\ UNCHANGED <<corpus, stored, args, left, rows, report, pending, before, compared>>

(* The first chunk of its article that starts with the heading.            *)
Denotes(ref, c) ==
    LET outline == Outline[c[1]][c[3]] IN
    /\ ref[1] = c[1] /\ ref[2] = outline[c[2]]
    /\ \A i \in 1..(c[2] - 1) : outline[i] # ref[2]

(* resolve_expected_chunks takes one reference: the chunk it denotes in    *)
(* the corpus as it is now, if it denotes one.                             *)
ResolveRef(ref) ==
    /\ pc = "resolve" /\ ref \in row.left
    /\ row' = [row EXCEPT
                  !.left = @ \ {ref},
                  !.resolved = @ \cup {c \in Live : Denotes(ref, c)}]
    /\ UNCHANGED <<corpus, stored, pc, args, left, rows, report, pending, before, compared>>
-----------------------------------------------------------------------------
(* Scoring.                                                                *)
ChunkMode(r) == Question.refs # {} /\ r.resolved # {}

\* Mutant: a question without references, or with none resolved, has no hits.
HitsOnChunksOnly(r) == Cardinality(r.resolved \cap r.got)

Hits(r) ==
    IF ChunkMode(r) THEN Cardinality(r.resolved \cap r.got)
                    ELSE Cardinality(Question.slugs \cap Cited(r))

SlugsHit(r) == Question.slugs \subseteq Cited(r)

Passes(r) ==
    IF Question.answerable THEN SlugsHit(r) /\ r.supported
                           ELSE ~Found(r) \/ r.declined

\* Mutant: row 8 is forgotten.
FailureCauseOrNone(r) ==
    IF Passes(r) THEN NA
    ELSE IF ~Question.answerable THEN "threshold_refusal"
    ELSE IF Found(r) /\ Hits(r) = 0 THEN "retrieval_miss"
    ELSE IF ~Found(r) /\ r.top \in {NA, "far"} THEN "corpus_gap"
    ELSE IF ~Found(r) THEN "threshold_refusal"
    ELSE IF r.supported = FALSE THEN "generation_unfaithful"
    ELSE NA

(* classify_failure: the first rung that fits.  No person has labelled the *)
(* row yet.                                                                *)
FailureCause(r) ==
    IF Passes(r) THEN NA
    ELSE IF ~Question.answerable THEN "threshold_refusal"
    ELSE IF Found(r) /\ Hits(r) = 0 THEN "retrieval_miss"
    ELSE IF ~Found(r) /\ r.top \in {NA, "far"} THEN "corpus_gap"
    ELSE IF ~Found(r) THEN "threshold_refusal"
    ELSE IF r.supported = FALSE THEN "generation_unfaithful"
    ELSE "retrieval_miss"

(* The relevance of the chunks is judged in one call whose reply may not   *)
(* parse; no chunks, no call.                                              *)
Score(malformed) ==
    /\ pc = "resolve" /\ row.left = {}
    /\ malformed => Found(row)
    /\ LET scored == [row EXCEPT !.malformed = malformed,
                                 !.verdict = IF Passes(row) THEN "PASS" ELSE "FAIL",
                                 !.cause = FailureCause(row)]
       IN  /\ row' = scored
           /\ rows' = Append(rows,
                        [class |-> Question.class, answerable |-> Question.answerable,
                         verdict |-> scored.verdict, cause |-> scored.cause,
                         supported |-> row.supported, found |-> Found(row),
                         precision |-> Found(row) /\ ~malformed, malformed |-> malformed,
                         unresolved |-> Cardinality(Question.refs)
                                          - Cardinality(row.resolved)])
    /\ pc' = IF Len(rows) + 1 = Len(QuestionFile) THEN "report" ELSE "retrieve"
    /\ UNCHANGED <<corpus, stored, args, left, report, pending, before, compared>>
-----------------------------------------------------------------------------
(* _build_report and _rollup.                                              *)
Count(P(_)) == Cardinality({i \in DOMAIN rows : P(rows[i])})

Rollup(C) ==
    [count |-> Count(LAMBDA r : r.class \in C),
     passed |-> Count(LAMBDA r : r.class \in C /\ r.verdict = "PASS")]

Classes == {rows[i].class : i \in DOMAIN rows}

BuildReport ==
    /\ pc = "report"
    /\ report' = [byClass |-> [c \in Classes |-> Rollup({c})],
                  overall |-> Rollup(Classes),
                  causes |-> [c \in Causes |-> Count(LAMBDA r : r.cause = c)],
                  supported |-> Count(LAMBDA r : r.answerable /\ r.supported),
                  refusalCorrect |-> Count(LAMBDA r : ~r.answerable /\ r.verdict = "PASS"),
                  refusalTotal |-> Count(LAMBDA r : ~r.answerable),
                  malformed |-> Count(LAMBDA r : r.malformed),
                  precision |-> Count(LAMBDA r : r.precision),
                  unresolved |-> MapThenSumSet(LAMBDA i : rows[i].unresolved, DOMAIN rows)]
    /\ pc' = "record"
    /\ UNCHANGED <<corpus, stored, args, left, row, rows, pending, before, compared>>

Stamp == [by |-> "cli", kind |-> "answer", label |-> Label, digest |-> edits, at |-> Clock + 1]

(* The run is over: recorded, its id printed, but not committed; or, with  *)
(* --no-persist, dropped.                                                  *)
Recorded == IF args.persist THEN Append(pending, Stamp) ELSE pending

\* Mutant: each run of the invocation commits.
RecordAndCommit ==
    /\ pc = "record"
    /\ pending' = Recorded
    /\ stored' = IF args.persist THEN stored \cup {Stamp} ELSE stored
    /\ left' = left - 1
    /\ pc' = IF left > 1 THEN "retrieve" ELSE "commit"
    /\ rows' = <<>> /\ report' = NA /\ row' = NoRow
    /\ UNCHANGED <<corpus, args, before, compared>>

RecordRun ==
    /\ pc = "record"
    /\ pending' = Recorded
    /\ left' = left - 1
    /\ pc' = IF left > 1 THEN "retrieve" ELSE "commit"
    /\ rows' = <<>> /\ report' = NA /\ row' = NoRow
    /\ UNCHANGED <<corpus, stored, args, before, compared>>

Commit ==
    /\ pc = "commit"
    /\ stored' = stored \cup {pending[i] : i \in DOMAIN pending}
    /\ pc' = "compare"
    /\ UNCHANGED <<corpus, args, left, row, rows, report, pending, before, compared>>

(* run_family: the answer runs with the label and the digest of a run.     *)
RunFamily(run) ==
    {r \in stored : r.kind = "answer" /\ r.label = run.label /\ r.digest = run.digest}

LastRun == pending[Len(pending)]

\* Mutant: `latest' is looked up when it is needed.
CompareLatest ==
    /\ pc = "compare"
    /\ LET base == Resolve
       IN  IF base = NA \/ pending = <<>>
           THEN pc' = "done" /\ UNCHANGED compared
           ELSE /\ compared' = [before |-> base, after |-> LastRun,
                                beforeFamily |-> RunFamily(base), afterFamily |-> NA]
                /\ pc' = "families"
    /\ UNCHANGED <<corpus, stored, args, left, row, rows, report, pending, before>>

(* compare_runs reads the family of the one run, then that of the other;   *)
(* runs are not changed, so when it gets the two makes no difference.      *)
Compare ==
    /\ pc = "compare"
    /\ IF before = NA \/ pending = <<>>
       THEN pc' = "done" /\ UNCHANGED compared
       ELSE /\ compared' = [before |-> before, after |-> LastRun,
                            beforeFamily |-> RunFamily(before), afterFamily |-> NA]
            /\ pc' = "families"
    /\ UNCHANGED <<corpus, stored, args, left, row, rows, report, pending, before>>

ReadAfterFamily ==
    /\ pc = "families"
    /\ compared' = [compared EXCEPT !.afterFamily = RunFamily(compared.after)]
    /\ pc' = "done"
    /\ UNCHANGED <<corpus, stored, args, left, row, rows, report, pending, before>>

(* The embedder, the answerer, the judge or the database raises: what was  *)
(* recorded and not committed goes with the session.                       *)
Fail ==
    /\ pc \notin {"done", "failed"}
    /\ pc' = "failed"
    /\ pending' = <<>> /\ rows' = <<>> /\ report' = NA /\ row' = NoRow
    /\ UNCHANGED <<corpus, stored, args, left, before, compared>>
-----------------------------------------------------------------------------
(* The editor republishes an article, or withdraws it, while an invocation *)
(* may be under way.                                                       *)
Expected == {r[1] : r \in Question.refs}
Moves(a) == pc \in {"judge", "resolve"} /\ a \in Expected

Edit(a, g) ==
    /\ edits <= MaxEdits /\ pc \notin {"done", "failed"}
    /\ gen' = [gen EXCEPT ![a] = g]
    /\ edits' = edits + 1
    /\ row' = [row EXCEPT !.moved = @ \/ Moves(a)]
    /\ UNCHANGED <<stored, pc, args, left, rows, report, pending, before, compared>>

Publish(a) == Edit(a, edits + 1)
Withdraw(a) == gen[a] > 0 /\ Edit(a, 0)

(* Another process records and commits a run of its own.                   *)
Foreign(run) ==
    /\ Cardinality(stored \ Own) < MaxForeign /\ pc \notin {"done", "failed"}
    /\ stored' = stored \cup {[by |-> "other", kind |-> run.kind, label |-> run.label,
                               digest |-> edits, at |-> Clock + 1]}
    /\ UNCHANGED <<corpus, pc, args, left, row, rows, report, pending, before, compared>>

Ended == pc \in {"done", "failed"} /\ UNCHANGED vars

Next ==
    \/ Start \/ BuildReport \/ RecordRun \/ Commit \/ Compare \/ ReadAfterFamily
    \/ Fail \/ Ended
    \/ \E got \in SUBSET Live : \E top \in {NA, "clear", "near", "far"} : Retrieve(got, top)
    \/ \E declined \in BOOLEAN : \E supported \in {NA, TRUE, FALSE} : Judge(declined, supported)
    \/ \E ref \in row.left : ResolveRef(ref)
    \/ \E malformed \in BOOLEAN : Score(malformed)
    \/ \E a \in Articles : Publish(a) \/ Withdraw(a)
    \/ \E run \in ForeignRuns : Foreign(run)

Spec == Init /\ [][Next]_vars
-----------------------------------------------------------------------------
Refs  == UNION {QuestionFile[i].refs : i \in DOMAIN QuestionFile}
Chunk == UNION {ChunksOf(a, g) : a \in Articles, g \in Generations}
Run ==
    [by : {"cli", "other"}, kind : {"answer"} \cup {r.kind : r \in ForeignRuns},
     label : {Label} \cup {r.label : r \in ForeignRuns}, digest : Nat, at : Nat]
Row ==
    [got : SUBSET Chunk, top : {NA, "clear", "near", "far"}, declined : BOOLEAN,
     supported : BOOLEAN \cup {NA}, left : SUBSET Refs, resolved : SUBSET Chunk,
     moved : BOOLEAN, malformed : BOOLEAN, verdict : {NA, "PASS", "FAIL"},
     cause : Causes \cup {NA}]
ScoredRow ==
    [class : {QuestionFile[i].class : i \in DOMAIN QuestionFile}, answerable : BOOLEAN,
     verdict : {"PASS", "FAIL"}, cause : Causes \cup {NA}, supported : BOOLEAN \cup {NA},
     found : BOOLEAN, precision : BOOLEAN, malformed : BOOLEAN, unresolved : Int]
Comparison ==
    [before : Run, after : Run, beforeFamily : SUBSET Run, afterFamily : (SUBSET Run) \cup {NA}]

(* Every variable stays in its range; a report is whatever BuildReport     *)
(* makes of the rows.                                                      *)
TypeOK ==
    /\ gen \in [Articles -> Generations \cup {0}] /\ edits \in Generations
    /\ stored \subseteq Run /\ IsFiniteSet(stored)
    /\ pc \in {"parsed", "retrieve", "judge", "resolve", "report", "record", "commit",
               "compare", "families", "done", "failed"}
    /\ args \in Arguments /\ left \in Nat
    /\ row \in Row /\ IsFiniteSet(row.resolved)
    /\ rows \in Seq(ScoredRow)
    /\ pending \in Seq(Run)
    /\ before \in Run \cup {NA} /\ compared \in Comparison \cup {NA}

(* The cause given to a failure is one that can be defended by what the    *)
(* question expects and what was retrieved, whatever ids its references    *)
(* resolved to.  The corpus and the threshold are blamed only if nothing   *)
(* was found.  The answer is blamed only if it was judged unsupported with *)
(* an expected article cited and, when a reference resolved, with a chunk  *)
(* retrieved that one denotes; retrieval, for an answerable question that  *)
(* names articles, only if one was not cited or none of the chunks its     *)
(* references denote was retrieved, or else an expected article was        *)
(* republished or withdrawn between the retrieval and                      *)
(* resolve_expected_chunks (_evaluate_question, classify_failure).         *)
BlameIsJust ==
    row.verdict = "FAIL" =>
        LET asked == QuestionFile[Len(rows)]
            expected == {c \in row.got : \E ref \in asked.refs : Denotes(ref, c)}
        IN  /\ row.cause \in Causes
            /\ ~asked.answerable => row.cause = "threshold_refusal" /\ Found(row)
            /\ asked.answerable =>
                   (row.cause \in {"corpus_gap", "threshold_refusal"} <=> ~Found(row))
            /\ row.cause = "generation_unfaithful" =>
                   /\ row.supported = FALSE /\ asked.slugs \cap Cited(row) # {}
                   /\ row.resolved = {} \/ expected # {}
            /\ row.cause = "retrieval_miss" =>
                   \/ ~(asked.slugs \subseteq Cited(row)) \/ asked.slugs = {}
                   \/ row.moved
                   \/ row.resolved # {} /\ expected = {}

(* What the comment on row 4 says of a retrieval_miss: chunks were         *)
(* retrieved, but not the expected ones.  An expected article is missing   *)
(* or no chunk of a section the question refers to was retrieved.  It is   *)
(* not so: what follows the first chunk of a long section is no hit, nor   *)
(* is the first chunk once the article was republished.                    *)
Section(c) ==
    LET outline == Outline[c[1]][c[3]]
        starts == {i \in 1..c[2] : outline[i] # NA}
    IN  IF starts = {} THEN NA ELSE outline[Max(starts)]

RetrievalMissedTheExpected ==
    row.cause = "retrieval_miss" =>
        LET asked == QuestionFile[Len(rows)]
        IN  \/ ~(asked.slugs \subseteq Cited(row))
            \/ \A c \in row.got : <<c[1], Section(c)>> \notin asked.refs

(* The figures of a report agree with each other: the classes add up to    *)
(* the whole, every failure has one cause, an answerable question passed   *)
(* only if it was supported, and every row something was found for was     *)
(* either scored for context precision or counted as a malformed reply     *)
(* (_build_report, _rollup, failure_distribution).                         *)
ReportAddsUp ==
    report # NA =>
        LET passed == [c \in DOMAIN report.byClass |-> report.byClass[c].passed]
            supportedPasses == report.overall.passed - report.refusalCorrect
        IN  /\ report.overall.count = Len(QuestionFile)
            /\ SumFunction(passed) = report.overall.passed
            /\ SumFunction(report.causes) = report.overall.count - report.overall.passed
            /\ 0 <= supportedPasses /\ supportedPasses <= report.supported
            /\ report.precision + report.malformed = Count(LAMBDA r : r.found)

(* The runs of one invocation are stored together or not at all: another   *)
(* process that votes over the family of --runs N never sees a part of it  *)
(* (_run_from_cli commits once, after the last run).                       *)
FamilyStoredWhole == Cardinality(Own) \in {0, args.runs}

(* `--compare-to latest' never compares an invocation with itself: its     *)
(* baseline was recorded by another before any of its own runs.  Each of   *)
(* the two families it averages over has the run it was looked up for, so  *)
(* neither is empty, and the second has every run of the invocation that   *)
(* measured the corpus of the last one.  Runs others commit between the    *)
(* two queries get into the second only: for one label and one corpus the  *)
(* families need not be the same, but nothing of the first is missing from *)
(* the second (_run_from_cli, latest_runs, compare_runs, run_family).      *)
BaselineIsForeign ==
    (compared # NA /\ pc = "done") =>
        /\ compared.before.by = "other"
        /\ \A r \in Own : compared.before.at < r.at
        /\ compared.before \in compared.beforeFamily
        /\ {r \in Own : r.digest = compared.after.digest} \subseteq compared.afterFamily
        /\ compared.after \in compared.afterFamily
        /\ (compared.before.label = compared.after.label
              /\ compared.before.digest = compared.after.digest) =>
               compared.beforeFamily \subseteq compared.afterFamily
==============================================================================
