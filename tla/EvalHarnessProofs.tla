-------------------------- MODULE EvalHarnessProofs --------------------------
(***************************************************************************)
(* What one invocation of the groundedness command guarantees for any      *)
(* question file, corpus and command line.                                 *)
(***************************************************************************)
EXTENDS EvalHarness, FiniteSetTheorems, WellFoundedInduction, TLAPS

Uncommitted == {"parsed", "retrieve", "judge", "resolve", "report", "record", "commit"}

(* While a question is under way and no article it expects was rebuilt,    *)
(* what was retrieved of them is still the corpus, and every reference     *)
(* looked up so far that has a chunk was resolved to it.                   *)
UpToDate(r, q) ==
    /\ \A c \in r.got : (\E ref \in q.refs : ref[1] = c[1]) => c \in Live
    /\ \A c \in Live : \A ref \in q.refs \ r.left : Denotes(ref, c) => c \in r.resolved

UnderWay(r, q) ==
    /\ r.verdict = NA
    /\ r.left \subseteq q.refs
    /\ \A c \in r.resolved : \E ref \in q.refs : Denotes(ref, c)
    /\ ~r.moved => UpToDate(r, q)

RowInv ==
    /\ pc \in {"parsed", "retrieve", "judge", "resolve"} => Len(rows) < Len(QuestionFile)
    /\ pc \in {"judge", "resolve"} => UnderWay(row, Question)
    /\ pc = "resolve" /\ Question.answerable => row.supported \in BOOLEAN
    /\ BlameIsJust

(* Until they are committed together nobody sees the runs; they are stamped *)
(* one after the other, each later than what is stored.                    *)
FamilyInv ==
    /\ pc # "failed" => IF args.persist THEN Len(pending) + left = args.runs ELSE pending = << >>
    /\ pc \in Uncommitted \ {"commit"} => left > 0
    /\ pc \in {"commit", "compare", "families", "done"} => left = 0
    /\ pc = "parsed" => pending = << >>
    /\ pc \in Uncommitted => Own = {}
    /\ pc \in {"compare", "families", "done"} => Own = {pending[i] : i \in DOMAIN pending}
    /\ \A i \in DOMAIN pending : /\ pending[i].by = "cli" /\ pending[i].label = Label
                                /\ pending[i].kind = "answer"
    /\ \A i, j \in DOMAIN pending : i < j => pending[i].at < pending[j].at
    /\ pc \in Uncommitted => /\ \A r \in stored : r.at <= Clock
                             /\ \A i \in DOMAIN pending : pending[i].at <= Clock
    /\ \A r \in Own : r.label = Label /\ r.kind = "answer"
    /\ FamilyStoredWhole

(* What the second query returned, and what it cannot have missed.         *)
FamilyRead ==
    /\ {r \in Own : r.digest = compared.after.digest} \subseteq compared.afterFamily
    /\ compared.after \in compared.afterFamily
    /\ (compared.before.label = compared.after.label
          /\ compared.before.digest = compared.after.digest) =>
           compared.beforeFamily \subseteq compared.afterFamily

BaselineInv ==
    /\ pc # "failed" /\ before # NA =>
           /\ before \in stored /\ before.by = "other" /\ before.kind = "answer"
           /\ \A i \in DOMAIN pending : before.at < pending[i].at
    /\ pc = "parsed" => before = NA
    /\ compared # NA \/ pc = "families" =>
           /\ pc \in {"families", "done", "failed"} /\ compared \in Comparison
           /\ compared.before.by = "other" /\ compared.before.at < compared.after.at
           /\ \A r \in Own : compared.before.at < r.at
           /\ compared.after \in Own
           /\ compared.before \in compared.beforeFamily
           /\ compared.beforeFamily \subseteq RunFamily(compared.before)
           /\ pc = "done" => FamilyRead

HarnessInv == RowInv /\ FamilyInv /\ BaselineInv

(* What a scored row holds fits together, and a report is made of one row  *)
(* for each question.                                                      *)
RowFits(r) ==
    /\ r.verdict = "PASS" <=> r.cause = NA
    /\ r.answerable /\ r.verdict = "PASS" => r.supported
    /\ r.found <=> r.precision \/ r.malformed
    /\ ~(r.precision /\ r.malformed)

ReportInv ==
    /\ \A i \in DOMAIN rows : RowFits(rows[i])
    /\ pc = "report" => Len(rows) = Len(QuestionFile)
    /\ pc # "record" => report = NA
    /\ ReportAddsUp

-----------------------------------------------------------------------------
(* Types.                                                                  *)

LEMMA OutlineTyped ==
    ASSUME NEW a \in Articles, NEW g \in Generations
    PROVE  \E n \in Nat : DOMAIN Outline[a][g] = 1..n
<1> DEFINE o == Outline[a][g]
           S == {o[i] : i \in DOMAIN o}
<1>1. o \in Seq(S)
  BY OutlineAssumption
<1> HIDE DEF o, S
<1>2. DOMAIN o = 1..Len(o) /\ Len(o) \in Nat
  BY <1>1
<1>3. QED BY <1>2 DEF o

LEMMA LiveChunk ==
    ASSUME TypeOK
    PROVE  /\ Live \subseteq Chunk
           /\ \A c : c \in Live <=> \E a \in Articles : gen[a] > 0 /\
                         \E i \in DOMAIN Outline[a][gen[a]] : c = <<a, i, gen[a]>>
           /\ \A a \in Articles : gen[a] > 0 => gen[a] \in Generations
<1>1. \A c : c \in Live <=> \E a \in Articles : gen[a] > 0 /\
                     \E i \in DOMAIN Outline[a][gen[a]] : c = <<a, i, gen[a]>>
  BY DEF Live, ChunksOf
<1>2. ASSUME NEW a \in Articles, gen[a] > 0 PROVE gen[a] \in Generations
  BY <1>2 DEF TypeOK
<1>3. ASSUME NEW a \in Articles, gen[a] > 0, NEW i \in DOMAIN Outline[a][gen[a]]
      PROVE  <<a, i, gen[a]>> \in Chunk
  <2>1. <<a, i, gen[a]>> \in ChunksOf(a, gen[a])
    BY <1>3 DEF ChunksOf
  <2>2. ChunksOf(a, gen[a]) \in {ChunksOf(b, g) : b \in Articles, g \in Generations}
    BY <1>2, <1>3
  <2>3. QED BY <2>1, <2>2 DEF Chunk
<1>4. QED BY <1>1, <1>2, <1>3

LEMMA Single ==
    ASSUME NEW x
    PROVE  IsFiniteSet({x})
BY FS_Singleton

\* A reference denotes one live chunk at most.
LEMMA OneChunkPerRef ==
    ASSUME TypeOK, NEW ref
    PROVE  IsFiniteSet({c \in Live : Denotes(ref, c)})
<1> DEFINE found == {c \in Live : Denotes(ref, c)}
<1>1. ASSUME NEW c \in found, NEW d \in found PROVE c = d
  <2>1. PICK a \in Articles : gen[a] > 0 /\
                \E i \in DOMAIN Outline[a][gen[a]] : c = <<a, i, gen[a]>>
    BY LiveChunk
  <2>2. PICK i \in DOMAIN Outline[a][gen[a]] : c = <<a, i, gen[a]>>
    BY <2>1
  <2>3. PICK b \in Articles : gen[b] > 0 /\
                \E j \in DOMAIN Outline[b][gen[b]] : d = <<b, j, gen[b]>>
    BY LiveChunk
  <2>4. PICK j \in DOMAIN Outline[b][gen[b]] : d = <<b, j, gen[b]>>
    BY <2>3
  <2>5. a = b
    BY <2>2, <2>4 DEF Denotes
  <2>6. i \in Nat \ {0} /\ j \in Nat \ {0}
    BY <2>1, <2>5, LiveChunk, OutlineTyped
  <2>7. Outline[a][gen[a]][i] = ref[2] /\ \A k \in 1..(i - 1) : Outline[a][gen[a]][k] # ref[2]
    BY <2>2 DEF Denotes
  <2>8. Outline[a][gen[a]][j] = ref[2] /\ \A k \in 1..(j - 1) : Outline[a][gen[a]][k] # ref[2]
    BY <2>4, <2>5 DEF Denotes
  <2>9. ~(i < j) /\ ~(j < i)
    BY <2>6, <2>7, <2>8
  <2>10. QED BY <2>2, <2>4, <2>5, <2>6, <2>9
<1>2. CASE found = {}
  BY <1>2, FS_EmptySet
<1>3. CASE found # {}
  <2>1. PICK c \in found : found = {c}
    BY <1>1, <1>3
  <2>2. QED BY ONLY <2>1, Single
<1>4. QED BY <1>2, <1>3

LEMMA QuestionTyped ==
    ASSUME TypeOK, Len(rows) < Len(QuestionFile)
    PROVE  /\ Len(rows) + 1 \in DOMAIN QuestionFile
           /\ Question.answerable \in BOOLEAN /\ Question.refs \subseteq Refs
           /\ IsFiniteSet(Question.slugs) /\ IsFiniteSet(Question.refs)
           /\ ValidQuestion(Question)
           /\ Question.class \in {QuestionFile[i].class : i \in DOMAIN QuestionFile}
<1>1. Len(rows) \in Nat
  BY DEF TypeOK
<1>2. Len(QuestionFile) \in Nat /\ DOMAIN QuestionFile = 1..Len(QuestionFile)
  BY QuestionsAssumption
<1>3. Len(rows) + 1 \in DOMAIN QuestionFile
  BY <1>1, <1>2
<1>4. QED BY <1>3, QuestionsAssumption DEF Question, Refs

LEMMA CauseTyped ==
    ASSUME NEW r
    PROVE  FailureCause(r) \in Causes \cup {NA}
BY DEF FailureCause, Causes

LEMMA ClockTyped ==
    ASSUME TypeOK
    PROVE  Clock \in Nat
BY FS_CardinalityType DEF TypeOK, Clock

LEMMA RunTyped ==
    ASSUME TypeOK
    PROVE  Stamp \in Run /\ Recorded \in Seq(Run)
<1>1. Stamp \in Run
  BY ClockTyped, OutlineAssumption DEF Stamp, Run, TypeOK, Generations
<1>2. QED BY <1>1 DEF Recorded, TypeOK

LEMMA Greatest ==
    ASSUME NEW S \in SUBSET Nat, S # {}, NEW n \in Nat, \A x \in S : x <= n
    PROVE  \E m \in S : \A x \in S : x <= m
<1> DEFINE R == OpToRel(<, Nat)
           T == {n - x : x \in S}
<1>1. IsWellFoundedOn(R, Nat) /\ \A x, y \in Nat : y < x => <<y, x>> \in R
  BY NatLessThanWellFounded DEF OpToRel
<1>2. T \subseteq Nat /\ T # {}
  <2>1. ASSUME NEW x \in S PROVE n - x \in Nat
    <3>1. x \in Nat /\ x <= n
      OBVIOUS
    <3>2. QED BY <3>1
  <2>2. QED BY <2>1
<1> HIDE DEF R
<1>3. PICK d \in T : \A e \in T : <<e, d>> \notin R
  BY <1>1, <1>2, WFMin
<1>4. PICK m \in S : d = n - m
  OBVIOUS
<1>5. ASSUME NEW x \in S PROVE x <= m
  <2>1. n - x \in T /\ n - x \in Nat /\ d \in Nat
    BY <1>2
  <2>2. ~(n - x < d)
    BY <1>1, <1>3, <2>1
  <2>3. QED BY <1>4, <2>1, <2>2
<1>6. QED BY <1>5

\* Runs are stamped up to the clock, so there is a newest one.
LEMMA LatestTyped ==
    ASSUME TypeOK, \A r \in stored : r.at <= Clock
    PROVE  LatestRun = NA \/ (LatestRun \in stored /\ LatestRun.kind = "answer")
<1> DEFINE answers == {r \in stored : r.kind = "answer"}
           stamps == {r.at : r \in answers}
<1>1. CASE answers = {}
  <2>1. LatestRun = NA
    BY <1>1 DEF LatestRun
  <2>2. QED BY <2>1
<1>2. CASE answers # {}
  <2>1. stamps \in SUBSET Nat /\ stamps # {} /\ \A x \in stamps : x <= Clock
    BY <1>2 DEF TypeOK, Run
  <2> HIDE DEF stamps
  <2>2. PICK m \in stamps : \A x \in stamps : x <= m
    BY <2>1, ClockTyped, Greatest
  <2> USE DEF stamps
  <2>3. PICK r \in answers : r.at = m
    BY <2>2
  <2>4. \E q \in answers : \A s \in answers : s.at <= q.at
    BY <2>2, <2>3
  <2>5. LatestRun \in answers
    BY <1>2, <2>4 DEF LatestRun
  <2>6. QED BY <2>5
<1>3. QED BY <1>1, <1>2

\* A step of the evaluation of one question leaves the row a row.
LEMMA RowSteps ==
    ASSUME TypeOK, pc \in {"retrieve", "judge", "resolve"} => Len(rows) < Len(QuestionFile)
    PROVE  /\ \A got, top : Retrieve(got, top) => row' \in Row /\ IsFiniteSet(row'.resolved)
           /\ \A d \in BOOLEAN : \A s : Judge(d, s) => row' \in Row /\ IsFiniteSet(row'.resolved)
           /\ \A ref : ResolveRef(ref) => row' \in Row /\ IsFiniteSet(row'.resolved)
           /\ \A m \in BOOLEAN : Score(m) => row' \in Row /\ IsFiniteSet(row'.resolved)
           /\ NoRow \in Row /\ IsFiniteSet(NoRow.resolved)
<1>1. NoRow \in Row /\ IsFiniteSet(NoRow.resolved)
  BY FS_EmptySet DEF NoRow, Row
<1>2. row \in Row /\ IsFiniteSet(row.resolved)
  BY DEF TypeOK
<1>3. ASSUME NEW got, NEW top, Retrieve(got, top)
      PROVE  row' \in Row /\ IsFiniteSet(row'.resolved)
  <2>1. Question.refs \subseteq Refs /\ got \subseteq Chunk
    BY <1>3, QuestionTyped, LiveChunk DEF Retrieve
  <2>2. top \in {NA, "clear", "near", "far"}
    BY <1>3 DEF Retrieve
  <2>3. row' = [NoRow EXCEPT !.got = got, !.top = top, !.left = Question.refs]
    BY <1>3 DEF Retrieve
  <2>4. row' \in Row /\ row'.resolved = NoRow.resolved
    BY ONLY <1>1, <2>1, <2>2, <2>3 DEF Row
  <2>5. QED BY <1>1, <2>4
<1>4. ASSUME NEW d \in BOOLEAN, NEW s, Judge(d, s)
      PROVE  row' \in Row /\ IsFiniteSet(row'.resolved)
  <2>1. s \in BOOLEAN \cup {NA} /\ row' = [row EXCEPT !.declined = d, !.supported = s]
    BY <1>4 DEF Judge
  <2>2. row' \in Row /\ row'.resolved = row.resolved
    BY ONLY <1>2, <2>1 DEF Row
  <2>3. QED BY <1>2, <2>2
<1>5. ASSUME NEW ref, ResolveRef(ref)
      PROVE  row' \in Row /\ IsFiniteSet(row'.resolved)
  <2> DEFINE found == {c \in Live : Denotes(ref, c)}
  <2>1. row' = [row EXCEPT !.left = @ \ {ref}, !.resolved = @ \cup found]
    BY <1>5 DEF ResolveRef
  <2>2. IsFiniteSet(found) /\ found \subseteq Chunk
    BY OneChunkPerRef, LiveChunk
  <2> HIDE DEF found
  <2>3. row' \in Row /\ row'.resolved = row.resolved \cup found
    BY ONLY <1>2, <2>1, <2>2 DEF Row
  <2>4. QED BY <1>2, <2>2, <2>3, FS_Union
<1>6. ASSUME NEW m \in BOOLEAN, Score(m)
      PROVE  row' \in Row /\ IsFiniteSet(row'.resolved)
  <2> DEFINE v == IF Passes(row) THEN "PASS" ELSE "FAIL"
             cause == FailureCause(row)
  <2>1. row' = [row EXCEPT !.malformed = m, !.verdict = v, !.cause = cause]
    BY <1>6 DEF Score
  <2>2. cause \in Causes \cup {NA} /\ v \in {"PASS", "FAIL"}
    BY CauseTyped
  <2> HIDE DEF v, cause
  <2>3. row' \in Row /\ row'.resolved = row.resolved
    BY ONLY <1>2, <2>1, <2>2 DEF Row
  <2>4. QED BY <1>2, <2>3
<1>7. QED BY <1>1, <1>3, <1>4, <1>5, <1>6

LEMMA ScoredTyped ==
    ASSUME TypeOK, Len(rows) < Len(QuestionFile), NEW m \in BOOLEAN, Score(m)
    PROVE  rows' \in Seq(ScoredRow) /\ Len(rows') = Len(rows) + 1
<1> DEFINE v == IF Passes(row) THEN "PASS" ELSE "FAIL"
           cause == FailureCause(row)
           found == Found(row)
           n == Cardinality(Question.refs) - Cardinality(row.resolved)
           scored == [class |-> Question.class, answerable |-> Question.answerable,
                      verdict |-> v, cause |-> cause, supported |-> row.supported,
                      found |-> found, precision |-> found /\ ~m, malformed |-> m,
                      unresolved |-> n]
<1>1. row \in Row
  BY DEF TypeOK
<1>2. rows' = Append(rows, scored)
  <2>1. [row EXCEPT !.malformed = m, !.verdict = v, !.cause = cause].verdict = v
    BY <1>1 DEF Row
  <2>2. [row EXCEPT !.malformed = m, !.verdict = v, !.cause = cause].cause = cause
    BY <1>1 DEF Row
  <2>3. QED BY <2>1, <2>2 DEF Score
<1>3. cause \in Causes \cup {NA} /\ v \in {"PASS", "FAIL"} /\ found \in BOOLEAN
  BY CauseTyped DEF Found
<1>4. n \in Int
  BY QuestionTyped, FS_CardinalityType DEF TypeOK
<1>5. row.supported \in BOOLEAN \cup {NA}
  BY <1>1 DEF Row
<1> HIDE DEF v, cause, found, n
<1>6. scored \in ScoredRow
  BY <1>3, <1>4, <1>5, QuestionTyped DEF ScoredRow
<1> HIDE DEF scored
<1>7. rows \in Seq(ScoredRow)
  BY DEF TypeOK
<1>8. QED BY <1>2, <1>6, <1>7

LEMMA NextEdit ==
    ASSUME TypeOK, edits <= MaxEdits
    PROVE  edits + 1 \in Generations
BY OutlineAssumption DEF TypeOK, Generations

LEMMA InitTyped == Init => TypeOK
<1> SUFFICES ASSUME Init PROVE TypeOK
  OBVIOUS
<1>1. NoRow \in Row /\ IsFiniteSet(NoRow.resolved)
  BY FS_EmptySet DEF NoRow, Row
<1>2. args.runs \in Nat
  BY ArgumentsAssumption DEF Init
<1>3. 1 \in Generations
  BY OutlineAssumption DEF Generations
<1>4. QED BY <1>1, <1>2, <1>3, FS_EmptySet DEF Init, TypeOK

LEMMA FamilyTyped ==
    ASSUME TypeOK, NEW r
    PROVE  RunFamily(r) \in SUBSET Run
BY DEF RunFamily, TypeOK

\* What the first query leaves to be compared.
LEMMA Compares ==
    ASSUME TypeOK, Compare, before # NA, pending # << >>
    PROVE  /\ compared' \in Comparison /\ compared'.before = before
           /\ compared'.after = LastRun /\ compared'.beforeFamily = RunFamily(before)
           /\ LastRun \in Run /\ LastRun = pending[Len(pending)] /\ Len(pending) \in DOMAIN pending
<1>1. LastRun \in Run /\ before \in Run /\ Len(pending) \in DOMAIN pending
  BY DEF TypeOK, LastRun
<1>2. compared' = [before |-> before, after |-> LastRun,
                   beforeFamily |-> RunFamily(before), afterFamily |-> NA]
  BY DEF Compare
<1>3. LastRun = pending[Len(pending)]
  BY DEF LastRun
<1> DEFINE family == RunFamily(before)
<1>4. family \in SUBSET Run
  BY FamilyTyped
<1>5. compared' = [before |-> before, after |-> LastRun,
                   beforeFamily |-> family, afterFamily |-> NA]
  BY <1>2
<1> HIDE DEF family
<1> DEFINE last == LastRun
<1>6. last \in Run /\ compared' = [before |-> before, after |-> last,
                                   beforeFamily |-> family, afterFamily |-> NA]
  BY <1>1, <1>5
<1> HIDE DEF last
<1>7. /\ compared' \in Comparison /\ compared'.before = before
      /\ compared'.after = last /\ compared'.beforeFamily = family
  BY <1>1, <1>4, <1>6 DEF Comparison
<1>8. QED BY <1>1, <1>3, <1>7 DEF family, last

\* What the second query adds.
LEMMA ReadsAfter ==
    ASSUME TypeOK, BaselineInv, ReadAfterFamily
    PROVE  /\ compared \in Comparison /\ compared' \in Comparison
           /\ compared'.before = compared.before /\ compared'.after = compared.after
           /\ compared'.beforeFamily = compared.beforeFamily
           /\ compared'.afterFamily = RunFamily(compared.after)
<1>1. compared \in Comparison
  BY DEF ReadAfterFamily, BaselineInv
<1> DEFINE family == RunFamily(compared.after)
<1>2. compared' = [compared EXCEPT !.afterFamily = family]
  BY DEF ReadAfterFamily
<1>3. family \in SUBSET Run
  BY FamilyTyped
<1> HIDE DEF family
<1>4. QED BY ONLY <1>1, <1>2, <1>3 DEF Comparison, family

LEMMA ComparisonTyped ==
    ASSUME TypeOK, BaselineInv, Compare \/ ReadAfterFamily
    PROVE  compared' \in Comparison \cup {NA}
<1>1. CASE Compare /\ (before = NA \/ pending = << >>)
  BY <1>1 DEF Compare, TypeOK
<1>2. CASE Compare /\ ~(before = NA \/ pending = << >>)
  BY <1>2, Compares
<1>3. CASE ReadAfterFamily
  BY <1>3, ReadsAfter
<1>4. QED BY <1>1, <1>2, <1>3

LEMMA TypeStep ==
    ASSUME TypeOK, RowInv, FamilyInv, BaselineInv, [Next]_vars
    PROVE  TypeOK'
<1>1. CASE Start
  <2>1. \A r \in stored : r.at <= Clock
    BY <1>1 DEF Start, FamilyInv, Uncommitted
  <2>2. Resolve = NA \/ Resolve \in Run
    BY <2>1, LatestTyped DEF Resolve, TypeOK
  <2>3. QED BY <1>1, <2>2 DEF Start, TypeOK, corpus
<1>2. CASE BuildReport
  BY <1>2 DEF BuildReport, TypeOK, corpus
<1>3. CASE RecordRun
  <2>1. left' \in Nat
    <3>1. left > 0 /\ left \in Nat
      BY <1>3 DEF RecordRun, FamilyInv, Uncommitted, TypeOK
    <3>2. QED BY <1>3, <3>1 DEF RecordRun
  <2>2. NoRow \in Row /\ IsFiniteSet(NoRow.resolved)
    BY RowSteps DEF RowInv
  <2>3. QED BY <1>3, <2>1, <2>2, RunTyped DEF RecordRun, TypeOK, corpus
<1>4. CASE Commit
  <2>1. {pending[i] : i \in DOMAIN pending} \subseteq Run
    BY DEF TypeOK
  <2>2. IsFiniteSet({pending[i] : i \in DOMAIN pending})
    <3>1. IsFiniteSet(DOMAIN pending)
      BY FS_Interval DEF TypeOK
    <3>2. [i \in DOMAIN pending |-> pending[i]]
              \in Surjection(DOMAIN pending, {pending[i] : i \in DOMAIN pending})
      BY DEF Surjection
    <3>3. QED BY <3>1, <3>2, FS_Surjection
  <2>3. IsFiniteSet(stored')
    BY <1>4, <2>2, FS_Union DEF Commit, TypeOK
  <2>4. QED BY <1>4, <2>1, <2>3 DEF Commit, TypeOK, corpus
<1>5. CASE Compare \/ ReadAfterFamily
  <2>1. compared' \in Comparison \cup {NA}
    BY <1>5, ComparisonTyped
  <2>2. QED BY <1>5, <2>1 DEF Compare, ReadAfterFamily, TypeOK, corpus
<1>6. CASE Fail
  <2>1. NoRow \in Row /\ IsFiniteSet(NoRow.resolved)
    BY RowSteps DEF RowInv
  <2>2. QED BY <1>6, <2>1 DEF Fail, TypeOK, corpus
<1>7. CASE UNCHANGED vars
  BY <1>7 DEF vars, TypeOK
<1>8. ASSUME NEW got, NEW top, Retrieve(got, top) PROVE TypeOK'
  <2>1. row' \in Row /\ IsFiniteSet(row'.resolved)
    BY <1>8, RowSteps DEF RowInv
  <2>2. QED BY <1>8, <2>1 DEF Retrieve, TypeOK, corpus
<1>9. ASSUME NEW d \in BOOLEAN, NEW s, Judge(d, s) PROVE TypeOK'
  <2>1. row' \in Row /\ IsFiniteSet(row'.resolved)
    BY <1>9, RowSteps DEF RowInv
  <2>2. QED BY <1>9, <2>1 DEF Judge, TypeOK, corpus
<1>10. ASSUME NEW ref, ResolveRef(ref) PROVE TypeOK'
  <2>1. row' \in Row /\ IsFiniteSet(row'.resolved)
    BY <1>10, RowSteps DEF RowInv
  <2>2. QED BY <1>10, <2>1 DEF ResolveRef, TypeOK, corpus
<1>11. ASSUME NEW m \in BOOLEAN, Score(m) PROVE TypeOK'
  <2>1. row' \in Row /\ IsFiniteSet(row'.resolved)
    BY <1>11, RowSteps DEF RowInv
  <2>2. rows' \in Seq(ScoredRow)
    BY <1>11, ScoredTyped DEF RowInv, Score
  <2>3. QED BY <1>11, <2>1, <2>2 DEF Score, TypeOK, corpus
<1>12. ASSUME NEW a \in Articles, NEW g \in Generations \cup {0}, Edit(a, g) PROVE TypeOK'
  <2>1. row' \in Row /\ row'.resolved = row.resolved
    <3>1. row \in Row
      BY DEF TypeOK
    <3>2. row' = [row EXCEPT !.moved = row.moved \/ Moves(a)]
      BY <1>12 DEF Edit
    <3>3. (row.moved \/ Moves(a)) \in BOOLEAN
      OBVIOUS
    <3>4. QED BY <3>1, <3>2, <3>3 DEF Row
  <2>2. gen' \in [Articles -> Generations \cup {0}] /\ edits' \in Generations
    BY <1>12, NextEdit DEF Edit, TypeOK
  <2>3. QED BY <1>12, <2>1, <2>2 DEF Edit, TypeOK
<1>13. ASSUME NEW run \in ForeignRuns, Foreign(run) PROVE TypeOK'
  <2> DEFINE new == [by |-> "other", kind |-> run.kind, label |-> run.label,
                     digest |-> edits, at |-> Clock + 1]
  <2>1. new \in Run
    BY ClockTyped, OutlineAssumption DEF Run, TypeOK, Generations
  <2>2. stored' = stored \cup {new}
    BY <1>13 DEF Foreign
  <2> HIDE DEF new
  <2>3. IsFiniteSet(stored') /\ stored' \subseteq Run
    BY <2>1, <2>2, FS_AddElement DEF TypeOK
  <2>4. QED BY <1>13, <2>3 DEF Foreign, TypeOK, corpus
<1>14. ASSUME NEW a \in Articles, Publish(a) \/ Withdraw(a) PROVE TypeOK'
  <2>1. edits <= MaxEdits => edits + 1 \in Generations
    BY NextEdit
  <2>2. QED BY <1>12, <1>14, <2>1 DEF Publish, Withdraw, Edit
<1>15. QED BY <1>1, <1>2, <1>3, <1>4, <1>5, <1>6, <1>7, <1>8, <1>9, <1>10, <1>11, <1>13, <1>14
           DEF Next, Ended

-----------------------------------------------------------------------------
(* The cause of a failure.                                                 *)

\* Rebuilding an article leaves the chunks of the others alone.
LEMMA OtherChunksStay ==
    ASSUME TypeOK, NEW a \in Articles, NEW g, Edit(a, g), NEW c, c[1] # a
    PROVE  c \in Live <=> c \in Live'
<1>1. gen' = [gen EXCEPT ![a] = g] /\ gen \in [Articles -> Generations \cup {0}]
  BY DEF Edit, TypeOK
<1>2. \A b \in Articles : b # a => gen'[b] = gen[b]
  BY <1>1
<1>3. \A x : x \in Live <=> \E b \in Articles : gen[b] > 0 /\
                 \E i \in DOMAIN Outline[b][gen[b]] : x = <<b, i, gen[b]>>
  BY DEF Live, ChunksOf
<1>4. \A x : x \in Live' <=> \E b \in Articles : gen'[b] > 0 /\
                 \E i \in DOMAIN Outline[b][gen'[b]] : x = <<b, i, gen'[b]>>
  BY DEF Live, ChunksOf
<1>5. QED BY <1>2, <1>3, <1>4

LEMMA NoneIsZero ==
    ASSUME NEW S, IsFiniteSet(S)
    PROVE  Cardinality(S) = 0 <=> S = {}
BY FS_EmptySet

LEMMA HitsCounted ==
    ASSUME TypeOK, Len(rows) < Len(QuestionFile)
    PROVE  /\ ChunkMode(row) => (Hits(row) = 0 <=> row.resolved \cap row.got = {})
           /\ ~ChunkMode(row) => (Hits(row) = 0 <=> Question.slugs \cap Cited(row) = {})
<1>1. IsFiniteSet(row.resolved) /\ IsFiniteSet(Question.slugs)
  BY QuestionTyped DEF TypeOK
<1>2. IsFiniteSet(row.resolved \cap row.got)
  BY <1>1, FS_Subset
<1>3. IsFiniteSet(Question.slugs \cap Cited(row))
  BY <1>1, FS_Subset
<1>4. QED BY <1>2, <1>3, NoneIsZero DEF Hits

LEMMA ScoreBlames ==
    ASSUME TypeOK, RowInv, NEW m \in BOOLEAN, Score(m)
    PROVE  BlameIsJust'
<1> DEFINE q == Question
           v == IF Passes(row) THEN "PASS" ELSE "FAIL"
           cause == FailureCause(row)
           expected == {c \in row.got : \E ref \in q.refs : Denotes(ref, c)}
<1>1. Len(rows) < Len(QuestionFile) /\ row \in Row /\ pc = "resolve" /\ row.left = {}
  BY DEF Score, RowInv, TypeOK
<1>2. row' = [row EXCEPT !.malformed = m, !.verdict = v, !.cause = cause]
  BY DEF Score
<1>3. /\ row'.verdict = v /\ row'.cause = cause /\ row'.got = row.got
      /\ row'.moved = row.moved /\ row'.supported = row.supported
      /\ row'.resolved = row.resolved
  <2> HIDE DEF v, cause
  <2>1. QED BY <1>1, <1>2 DEF Row
<1>4. QuestionFile[Len(rows')] = q
  <2>1. Len(rows') = Len(rows) + 1
    BY <1>1, ScoredTyped
  <2>2. QED BY <2>1 DEF Question
<1>5. /\ q.answerable \in BOOLEAN /\ \A ref \in q.refs : ref[1] \in q.slugs
  BY <1>1, QuestionTyped DEF ValidQuestion
<1>6. UnderWay(row, q) /\ (q.answerable => row.supported \in BOOLEAN)
  BY <1>1 DEF RowInv
<1>7. SUFFICES ASSUME ~Passes(row)
      PROVE  /\ cause \in Causes
             /\ ~q.answerable => cause = "threshold_refusal" /\ Found(row)
             /\ q.answerable => (cause \in {"corpus_gap", "threshold_refusal"} <=> ~Found(row))
             /\ cause = "generation_unfaithful" =>
                    /\ row.supported = FALSE /\ q.slugs \cap Cited(row) # {}
                    /\ row.resolved = {} \/ expected # {}
             /\ cause = "retrieval_miss" =>
                    \/ ~(q.slugs \subseteq Cited(row)) \/ q.slugs = {}
                    \/ row.moved
                    \/ row.resolved # {} /\ expected = {}
  <2>1. Found(row') <=> Found(row)
    BY <1>3 DEF Found
  <2>2. Cited(row') = Cited(row)
    BY <1>3 DEF Cited
  <2>3. v = "FAIL" <=> ~Passes(row)
    OBVIOUS
  <2>4. {c \in row'.got : \E ref \in q.refs : Denotes(ref, c)} = expected
    BY <1>3
  <2> HIDE DEF v, cause, q, expected
  <2>5. QED BY <1>3, <1>4, <1>7, <2>1, <2>2, <2>3, <2>4 DEF BlameIsJust
<1>8. CASE ~q.answerable
  <2>1. Found(row)
    BY <1>7, <1>8 DEF Passes
  <2>2. cause = "threshold_refusal"
    BY <1>7, <1>8 DEF FailureCause
  <2> HIDE DEF q, cause, expected
  <2>3. QED BY <1>8, <2>1, <2>2 DEF Causes
<1>9. CASE q.answerable /\ ~Found(row)
  <2>1. cause \in {"corpus_gap", "threshold_refusal"}
    BY <1>7, <1>9 DEF FailureCause
  <2> HIDE DEF q, cause, expected
  <2>2. QED BY <1>9, <2>1 DEF Causes
<1>10. CASE q.answerable /\ Found(row)
  <2>1. cause = IF Hits(row) = 0 THEN "retrieval_miss"
                ELSE IF row.supported = FALSE THEN "generation_unfaithful"
                ELSE "retrieval_miss"
    BY <1>7, <1>10 DEF FailureCause
  <2>2. CASE Hits(row) = 0
    <3>1. cause = "retrieval_miss"
      BY <2>1, <2>2
    <3>2. \/ ~(q.slugs \subseteq Cited(row)) \/ q.slugs = {}
          \/ row.moved
          \/ row.resolved # {} /\ expected = {}
      <4>1. CASE ~ChunkMode(row)
        BY <1>1, <2>2, <4>1, HitsCounted
      <4>2. CASE ChunkMode(row) /\ ~row.moved
        <5>1. row.resolved # {} /\ row.resolved \cap row.got = {}
          BY <1>1, <2>2, <4>2, HitsCounted DEF ChunkMode
        <5>2. ASSUME NEW c \in row.got, NEW ref \in q.refs, Denotes(ref, c)
              PROVE  FALSE
          <6>1. ref[1] = c[1]
            BY <5>2 DEF Denotes
          <6>2. c \in Live
            BY <1>6, <4>2, <6>1 DEF UnderWay, UpToDate
          <6>3. c \in row.resolved
            BY <1>1, <1>6, <4>2, <5>2, <6>2 DEF UnderWay, UpToDate
          <6>4. QED BY <5>1, <6>3
        <5>3. QED BY <5>1, <5>2
      <4>3. QED BY <4>1, <4>2
    <3> HIDE DEF q, cause, expected
    <3>3. QED BY <1>10, <3>1, <3>2 DEF Causes
  <2>3. CASE Hits(row) # 0 /\ row.supported = FALSE
    <3>1. cause = "generation_unfaithful"
      BY <2>1, <2>3
    <3>2. q.slugs \cap Cited(row) # {} /\ (row.resolved = {} \/ expected # {})
      <4>1. CASE ChunkMode(row)
        <5>1. PICK c \in row.resolved : c \in row.got
          BY <1>1, <2>3, <4>1, HitsCounted
        <5>2. PICK ref \in q.refs : Denotes(ref, c)
          BY <1>6, <5>1 DEF UnderWay
        <5>3. c[1] \in q.slugs
          BY <1>5, <5>2 DEF Denotes
        <5>4. c \in expected
          BY <5>1, <5>2
        <5>5. c[1] \in Cited(row)
          BY <5>1 DEF Cited
        <5>6. QED BY <5>3, <5>4, <5>5
      <4>2. CASE ~ChunkMode(row)
        <5>1. q.slugs \cap Cited(row) # {}
          BY <1>1, <2>3, <4>2, HitsCounted
        <5>2. row.resolved = {}
          BY <1>6, <4>2 DEF ChunkMode, UnderWay
        <5>3. QED BY <5>1, <5>2
      <4>3. QED BY <4>1, <4>2
    <3> HIDE DEF q, cause, expected
    <3>3. QED BY <1>10, <2>3, <3>1, <3>2 DEF Causes
  <2>4. CASE Hits(row) # 0 /\ row.supported # FALSE
    <3>1. ~SlugsHit(row)
      BY <1>6, <1>7, <1>10, <2>4 DEF Passes
    <3>2. cause = "retrieval_miss" /\ ~(q.slugs \subseteq Cited(row))
      BY <2>1, <2>4, <3>1 DEF SlugsHit
    <3> HIDE DEF q, cause, expected
    <3>3. QED BY <1>10, <3>2 DEF Causes
  <2>5. QED BY <2>2, <2>3, <2>4
<1>11. QED BY <1>5, <1>8, <1>9, <1>10

LEMMA RowKept ==
    ASSUME TypeOK, RowInv, UNCHANGED <<gen, row, rows>>,
           pc' = pc \/ pc' \notin {"parsed", "retrieve", "judge", "resolve"}
    PROVE  RowInv'
<1>1. BlameIsJust'
  <2>1. BlameIsJust
    BY DEF RowInv
  <2>2. QED BY <2>1 DEF BlameIsJust, Found, Cited
<1>2. CASE pc' = pc
  <2>1. Question' = Question /\ Live' = Live
    BY DEF Question, Live
  <2>2. UnderWay(row, Question) => UnderWay(row, Question)'
    BY <2>1 DEF UnderWay, UpToDate
  <2>3. QED BY <1>1, <1>2, <2>1, <2>2 DEF RowInv
<1>3. CASE pc' \notin {"parsed", "retrieve", "judge", "resolve"}
  BY <1>1, <1>3 DEF RowInv
<1>4. QED BY <1>2, <1>3

LEMMA RowDropped ==
    ASSUME row' = NoRow, rows' = << >>, pc' \notin {"judge", "resolve"}
    PROVE  RowInv'
<1>1. row'.verdict # "FAIL"
  BY NAAssumption DEF NoRow
<1>2. BlameIsJust'
  BY <1>1 DEF BlameIsJust
<1>3. Len(rows') < Len(QuestionFile)
  <2>1. QuestionFile \in Seq({QuestionFile[i] : i \in DOMAIN QuestionFile}) /\ QuestionFile # << >>
    BY QuestionsAssumption
  <2>2. QED BY <2>1
<1>4. QED BY <1>2, <1>3 DEF RowInv

\* A row that is under way has no verdict yet.
LEMMA UnderWayBlameless ==
    ASSUME row'.verdict = NA
    PROVE  BlameIsJust'
BY NAAssumption DEF BlameIsJust

LEMMA BlameStep ==
    ASSUME TypeOK, RowInv, FamilyInv, [Next]_vars
    PROVE  RowInv'
<1>1. CASE Start
  <2>1. \A x : (pc = "parsed") => Len(rows) < Len(QuestionFile)
    BY DEF RowInv
  <2>2. BlameIsJust
    BY DEF RowInv
  <2>3. BlameIsJust'
    BY <1>1, <2>2 DEF Start, BlameIsJust, Found, Cited
  <2>4. QED BY <1>1, <2>1, <2>3 DEF Start, RowInv
<1>2. CASE BuildReport
  BY <1>2, RowKept DEF BuildReport, corpus
<1>3. CASE RecordRun
  BY <1>3, RowDropped DEF RecordRun
<1>4. CASE Commit
  BY <1>4, RowKept DEF Commit, corpus
<1>5. CASE Compare \/ ReadAfterFamily
  BY <1>5, RowKept DEF Compare, ReadAfterFamily, corpus
<1>6. CASE Fail
  BY <1>6, RowDropped DEF Fail
<1>7. CASE UNCHANGED vars
  BY <1>7, RowKept DEF vars
<1>8. ASSUME NEW got, NEW top, Retrieve(got, top) PROVE RowInv'
  <2>1. /\ row' = [NoRow EXCEPT !.got = got, !.top = top, !.left = Question.refs]
        /\ got \subseteq Live /\ pc = "retrieve" /\ pc' = "judge" /\ rows' = rows /\ gen' = gen
    BY <1>8 DEF Retrieve, corpus
  <2>2. /\ row'.verdict = NA /\ row'.left = Question.refs /\ row'.resolved = {}
        /\ row'.got = got
    BY <2>1 DEF NoRow
  <2>3. Question' = Question /\ Live' = Live
    BY <2>1 DEF Question, Live
  <2>4. UnderWay(row, Question)'
    BY <2>1, <2>2, <2>3 DEF UnderWay, UpToDate
  <2>5. QED BY <2>1, <2>2, <2>4, UnderWayBlameless DEF RowInv
<1>9. ASSUME NEW d \in BOOLEAN, NEW s, Judge(d, s) PROVE RowInv'
  <2>1. /\ row' = [row EXCEPT !.declined = d, !.supported = s]
        /\ s \in (IF Question.answerable THEN BOOLEAN ELSE {NA})
        /\ pc = "judge" /\ pc' = "resolve" /\ rows' = rows /\ gen' = gen
    BY <1>9 DEF Judge, corpus
  <2>2. row \in Row
    BY DEF TypeOK
  <2>3. /\ row'.verdict = row.verdict /\ row'.left = row.left /\ row'.resolved = row.resolved
        /\ row'.got = row.got /\ row'.moved = row.moved /\ row'.supported = s
    BY <2>1, <2>2 DEF Row
  <2>4. Question' = Question /\ Live' = Live
    BY <2>1 DEF Question, Live
  <2>5. UnderWay(row, Question) /\ Len(rows) < Len(QuestionFile)
    BY <2>1 DEF RowInv
  <2>6. UnderWay(row, Question)'
    BY <2>3, <2>4, <2>5 DEF UnderWay, UpToDate
  <2>7. row'.verdict = NA
    BY <2>3, <2>5 DEF UnderWay
  <2>8. Question'.answerable => row'.supported \in BOOLEAN
    BY <2>1, <2>3, <2>4
  <2>9. QED BY <2>1, <2>5, <2>6, <2>7, <2>8, UnderWayBlameless DEF RowInv
<1>10. ASSUME NEW ref, ResolveRef(ref) PROVE RowInv'
  <2> DEFINE found == {c \in Live : Denotes(ref, c)}
  <2>1. /\ row' = [row EXCEPT !.left = @ \ {ref}, !.resolved = @ \cup found]
        /\ pc = "resolve" /\ ref \in row.left /\ pc' = pc /\ rows' = rows /\ gen' = gen
    BY <1>10 DEF ResolveRef, corpus
  <2>2. row \in Row
    BY DEF TypeOK
  <2>3. /\ row'.verdict = row.verdict /\ row'.left = row.left \ {ref}
        /\ row'.resolved = row.resolved \cup found
        /\ row'.got = row.got /\ row'.moved = row.moved /\ row'.supported = row.supported
    <3> HIDE DEF found
    <3>1. QED BY <2>1, <2>2 DEF Row
  <2>4. Question' = Question /\ Live' = Live
    BY <2>1 DEF Question, Live
  <2>5. /\ UnderWay(row, Question) /\ Len(rows) < Len(QuestionFile)
        /\ Question.answerable => row.supported \in BOOLEAN
    BY <2>1 DEF RowInv
  <2>6. UnderWay(row, Question)'
    <3>1. row'.left \subseteq Question.refs
      BY <2>3, <2>5 DEF UnderWay
    <3>2. \A c \in row'.resolved : \E x \in Question.refs : Denotes(x, c)
      BY <2>1, <2>3, <2>5 DEF UnderWay
    <3>3. ASSUME ~row'.moved
          PROVE  /\ \A c \in row'.got :
                       (\E x \in Question.refs : x[1] = c[1]) => c \in Live
                 /\ \A c \in Live : \A x \in Question.refs \ row'.left :
                       Denotes(x, c) => c \in row'.resolved
      <4>1. UpToDate(row, Question)
        BY <2>3, <2>5, <3>3 DEF UnderWay
      <4>2. ASSUME NEW c \in Live, NEW x \in Question.refs \ row'.left, Denotes(x, c)
            PROVE  c \in row'.resolved
        <5>1. CASE x = ref
          BY <2>3, <4>2, <5>1
        <5>2. CASE x # ref
          BY <2>3, <4>1, <4>2, <5>2 DEF UpToDate
        <5>3. QED BY <5>1, <5>2
      <4>3. QED BY <2>3, <4>1, <4>2 DEF UpToDate
    <3>4. row'.verdict = NA
      BY <2>3, <2>5 DEF UnderWay
    <3> HIDE DEF found
    <3>5. QED BY <2>4, <3>1, <3>2, <3>3, <3>4 DEF UnderWay, UpToDate
  <2>7. row'.verdict = NA
    BY <2>3, <2>5 DEF UnderWay
  <2>8. QED BY <2>1, <2>3, <2>4, <2>5, <2>6, <2>7, UnderWayBlameless DEF RowInv
<1>11. ASSUME NEW m \in BOOLEAN, Score(m) PROVE RowInv'
  <2>1. BlameIsJust'
    BY <1>11, ScoreBlames
  <2>2. Len(rows) < Len(QuestionFile) /\ Len(rows') = Len(rows) + 1
    BY <1>11, ScoredTyped DEF RowInv, Score
  <2>3. /\ pc' = IF Len(rows) + 1 = Len(QuestionFile) THEN "report" ELSE "retrieve"
        /\ Len(rows) \in Nat /\ Len(QuestionFile) \in Nat
    BY <1>11, QuestionsAssumption DEF Score, TypeOK
  <2>4. QED BY <2>1, <2>2, <2>3 DEF RowInv
<1>12. ASSUME NEW a \in Articles, NEW g, Edit(a, g) PROVE RowInv'
  <2>1. /\ row' = [row EXCEPT !.moved = row.moved \/ Moves(a)]
        /\ pc' = pc /\ rows' = rows
    BY <1>12 DEF Edit
  <2>2. row \in Row
    BY DEF TypeOK
  <2>3. /\ row'.verdict = row.verdict /\ row'.left = row.left /\ row'.resolved = row.resolved
        /\ row'.got = row.got /\ row'.supported = row.supported /\ row'.cause = row.cause
        /\ row'.moved <=> row.moved \/ Moves(a)
    BY <2>1, <2>2 DEF Row
  <2>4. Question' = Question
    BY <2>1 DEF Question
  <2>5. BlameIsJust'
    <3>1. (Found(row') <=> Found(row)) /\ Cited(row') = Cited(row)
      BY <2>3 DEF Found, Cited
    <3>2. BlameIsJust
      BY DEF RowInv
    <3>3. QED BY <2>1, <2>3, <3>1, <3>2 DEF BlameIsJust, Found, Cited
  <2>6. ASSUME pc \in {"judge", "resolve"} PROVE UnderWay(row, Question)'
    <3>1. UnderWay(row, Question)
      BY <2>6 DEF RowInv
    <3>2. ASSUME ~row'.moved PROVE UpToDate(row, Question)'
      <4>1. ~row.moved /\ a \notin Expected
        BY <2>3, <2>6, <3>2 DEF Moves
      <4>2. \A x \in Question.refs : x[1] # a
        BY <4>1 DEF Expected
      <4>3. UpToDate(row, Question)
        BY <3>1, <4>1 DEF UnderWay
      <4>4. ASSUME NEW c, \E x \in Question.refs : x[1] = c[1]
            PROVE  c \in Live <=> c \in Live'
        BY <1>12, <4>2, <4>4, OtherChunksStay
      <4>5. ASSUME NEW c, NEW x \in Question.refs, Denotes(x, c)
            PROVE  \E y \in Question.refs : y[1] = c[1]
        BY <4>5 DEF Denotes
      <4>6. QED BY <2>3, <2>4, <4>3, <4>4, <4>5 DEF UpToDate
    <3>3. QED BY <2>3, <2>4, <3>1, <3>2 DEF UnderWay
  <2>7. QED BY <2>1, <2>3, <2>4, <2>5, <2>6 DEF RowInv
<1>13. ASSUME NEW run \in ForeignRuns, Foreign(run) PROVE RowInv'
  BY <1>13, RowKept DEF Foreign, corpus
<1>14. ASSUME NEW a \in Articles, Publish(a) \/ Withdraw(a) PROVE RowInv'
  BY <1>12, <1>14 DEF Publish, Withdraw
<1>15. QED BY <1>1, <1>2, <1>3, <1>4, <1>5, <1>6, <1>7, <1>8, <1>9, <1>10, <1>11, <1>13, <1>14
           DEF Next, Ended

-----------------------------------------------------------------------------
(* The runs of the invocation.                                             *)

LEMMA StampTyped ==
    ASSUME NEW r \in Run
    PROVE  r.at \in Nat
BY DEF Run

LEMMA PendingStamps ==
    ASSUME TypeOK
    PROVE  \A i \in DOMAIN pending : pending[i].at \in Nat
<1>1. \A i \in DOMAIN pending : pending[i] \in Run
  BY DEF TypeOK
<1>2. QED BY ONLY <1>1, StampTyped

\* Runs stamped one after the other are as many as they are.
LEMMA AsManyAsRecorded ==
    ASSUME TypeOK, \A i, j \in DOMAIN pending : i < j => pending[i].at < pending[j].at
    PROVE  /\ IsFiniteSet({pending[i] : i \in DOMAIN pending})
           /\ Cardinality({pending[i] : i \in DOMAIN pending}) = Len(pending)
<1> DEFINE S == {pending[i] : i \in DOMAIN pending}
           f == [i \in 1..Len(pending) |-> pending[i]]
<1>1. DOMAIN pending = 1..Len(pending) /\ Len(pending) \in Nat
  BY DEF TypeOK
<1>2. \A i \in DOMAIN pending : pending[i].at \in Nat
  BY PendingStamps
<1>3. ASSUME NEW i \in 1..Len(pending), NEW j \in 1..Len(pending), f[i] = f[j]
      PROVE  i = j
  <2>1. pending[i].at = pending[j].at /\ pending[i].at \in Nat
    BY <1>1, <1>2, <1>3
  <2>2. ~(i < j) /\ ~(j < i)
    BY <1>1, <1>2, <2>1
  <2>3. QED BY <1>1, <2>2
<1>4. f \in [1..Len(pending) -> S] /\ \A r \in S : \E i \in 1..Len(pending) : f[i] = r
  BY <1>1
<1>5. f \in Bijection(1..Len(pending), S)
  <2> HIDE DEF f, S
  <2>1. QED BY <1>3, <1>4 DEF Bijection, Injection, IsInjective, Surjection
<1>6. ExistsBijection(1..Len(pending), S)
  BY <1>5 DEF ExistsBijection
<1>7. IsFiniteSet(1..Len(pending)) /\ Cardinality(1..Len(pending)) = Len(pending)
  BY <1>1, FS_Interval
<1>8. IsFiniteSet(S) /\ Cardinality(S) = Len(pending)
  <2> HIDE DEF f, S
  <2>1. QED BY <1>6, <1>7, FS_Bijection
<1>9. QED BY <1>8

\* A step that neither records nor commits.
LEMMA FamilyKept ==
    ASSUME FamilyInv, UNCHANGED <<stored, args, left, pending>>,
           \/ pc' = pc
           \/ /\ pc \in Uncommitted \ {"commit"}
              /\ pc' \in Uncommitted \ {"commit", "parsed"}
           \/ pc \in {"compare", "families"} /\ pc' \in {"families", "done"}
    PROVE  FamilyInv'
<1>1. Own' = Own /\ Clock' = Clock
  BY DEF Own, Clock
<1>2. QED BY <1>1 DEF FamilyInv, FamilyStoredWhole, Uncommitted

LEMMA FamilyStep ==
    ASSUME TypeOK, FamilyInv, [Next]_vars
    PROVE  FamilyInv'
<1>1. CASE Start
  BY <1>1, FamilyKept DEF Start, Uncommitted
<1>2. CASE BuildReport
  BY <1>2, FamilyKept DEF BuildReport, Uncommitted
<1>3. CASE RecordRun
  <2>1. /\ pending' = IF args.persist THEN Append(pending, Stamp) ELSE pending
        /\ left' = left - 1 /\ pc = "record" /\ pc' = IF left > 1 THEN "retrieve" ELSE "commit"
        /\ stored' = stored /\ args' = args
    BY <1>3 DEF RecordRun, Recorded
  <2>2. /\ left \in Nat /\ left > 0 /\ Own = {} /\ pending \in Seq(Run)
        /\ \A r \in stored : r.at <= Clock
        /\ \A i \in DOMAIN pending : pending[i].at <= Clock
    BY <2>1 DEF FamilyInv, Uncommitted, TypeOK
  <2>3. Own' = Own
    BY <2>1 DEF Own
  <2>4. Clock \in Nat /\ Stamp \in Run /\ Stamp.at = Clock + 1 /\ Stamp.by = "cli"
        /\ Stamp.label = Label /\ Stamp.kind = "answer"
    BY ClockTyped, RunTyped DEF Stamp
  <2>5. pc' \in Uncommitted \ {"parsed"} /\ (pc' = "commit" => left' = 0)
        /\ (pc' # "commit" => left' > 0) /\ left' \in Nat
        /\ pc' \notin {"parsed", "compare", "done", "failed"}
    BY <2>1, <2>2 DEF Uncommitted
  <2>6. CASE ~args.persist
    <3>1. pending' = pending /\ Clock' = Clock /\ pending = << >>
      BY <2>1, <2>6 DEF Clock, FamilyInv
    <3>2. QED BY <2>1, <2>2, <2>3, <2>5, <2>6, <3>1 DEF FamilyInv, FamilyStoredWhole, Uncommitted
  <2>7. CASE args.persist
    <3>1. pending' = Append(pending, Stamp)
      BY <2>1, <2>7
    <3>2. /\ Len(pending') = Len(pending) + 1 /\ DOMAIN pending' = 1..(Len(pending) + 1)
          /\ DOMAIN pending = 1..Len(pending) /\ Len(pending) \in Nat
          /\ \A i \in DOMAIN pending : pending'[i] = pending[i]
          /\ pending'[Len(pending) + 1] = Stamp
      <4> HIDE DEF Stamp
      <4>1. QED BY <2>2, <2>4, <3>1
    <3>3. Clock' = Clock + 1
      <4>1. Cardinality(stored) \in Nat
        BY FS_CardinalityType DEF TypeOK
      <4>2. Cardinality(stored') = Cardinality(stored)
        BY <2>1
      <4>3. QED BY <3>2, <4>1, <4>2 DEF Clock
    <3>4. \A i \in DOMAIN pending' : i \in DOMAIN pending \/ pending'[i] = Stamp
      BY <3>2
    <3>5. \A i \in DOMAIN pending' : /\ pending'[i].by = "cli" /\ pending'[i].label = Label
                                     /\ pending'[i].kind = "answer"
      <4>1. \A i \in DOMAIN pending : /\ pending[i].by = "cli" /\ pending[i].label = Label
                                      /\ pending[i].kind = "answer"
        BY DEF FamilyInv
      <4>2. QED BY <2>4, <3>2, <3>4, <4>1
    <3>6. \A i \in DOMAIN pending : pending[i].at \in Nat
      BY PendingStamps
    <3>7. ASSUME NEW i \in DOMAIN pending', NEW j \in DOMAIN pending', i < j
          PROVE  pending'[i].at < pending'[j].at
      <4>1. i \in DOMAIN pending
        BY <3>2, <3>7
      <4>2. CASE j \in DOMAIN pending
        BY <3>2, <3>7, <4>1, <4>2 DEF FamilyInv
      <4>3. CASE j \notin DOMAIN pending
        <5>1. pending'[j].at = Clock + 1
          BY <2>4, <3>4, <4>3
        <5>2. pending'[i].at <= Clock /\ pending'[i].at \in Nat
          BY <2>2, <3>2, <3>6, <4>1
        <5>3. QED BY <2>4, <5>1, <5>2
      <4>4. QED BY <4>2, <4>3
    <3>8. \A r \in stored' : r.at <= Clock'
      <4>1. \A r \in stored : r.at \in Nat
        BY DEF TypeOK, Run
      <4>2. QED BY <2>1, <2>2, <2>4, <3>3, <4>1
    <3>9. ASSUME NEW i \in DOMAIN pending' PROVE pending'[i].at <= Clock'
      <4>1. CASE i \in DOMAIN pending
        BY <2>2, <2>4, <3>2, <3>3, <3>6, <4>1
      <4>2. CASE i \notin DOMAIN pending
        BY <2>4, <3>3, <3>4, <4>2
      <4>3. QED BY <4>1, <4>2
    <3>10. Len(pending') + left' = args.runs
      <4>1. Len(pending) + left = args.runs
        BY <2>1, <2>7 DEF FamilyInv
      <4>2. QED BY <2>1, <2>2, <3>2, <4>1
    <3>11. FamilyStoredWhole'
      BY <2>1, <2>3 DEF FamilyInv, FamilyStoredWhole
    <3>12. QED BY <2>1, <2>2, <2>3, <2>5, <2>7, <3>5, <3>7, <3>8, <3>9, <3>10, <3>11
               DEF FamilyInv
  <2>8. QED BY <2>6, <2>7
<1>4. CASE Commit
  <2> DEFINE mine == {pending[i] : i \in DOMAIN pending}
  <2>1. /\ stored' = stored \cup mine /\ pc = "commit" /\ pc' = "compare"
        /\ UNCHANGED <<args, left, pending>>
    BY <1>4 DEF Commit
  <2>2. \A r \in mine : r.by = "cli" /\ r.label = Label /\ r.kind = "answer"
    BY DEF FamilyInv
  <2>3. Own = {} /\ left = 0
    BY <2>1 DEF FamilyInv, Uncommitted
  <2>4. Own' = mine
    <3> HIDE DEF mine
    <3>1. QED BY <2>1, <2>2, <2>3 DEF Own
  <2>5. FamilyStoredWhole'
    <3>1. Cardinality(mine) = Len(pending) /\ Len(pending) \in Nat
      BY AsManyAsRecorded DEF FamilyInv, TypeOK
    <3>2. CASE args.persist
      <4>1. Len(pending) = args.runs
        BY <2>1, <2>3, <3>1, <3>2 DEF FamilyInv
      <4> HIDE DEF mine
      <4>2. QED BY <2>1, <2>4, <3>1, <4>1 DEF FamilyStoredWhole
    <3>3. CASE ~args.persist
      <4>1. Len(pending) = 0
        BY <2>1, <3>3 DEF FamilyInv
      <4> HIDE DEF mine
      <4>2. QED BY <2>4, <3>1, <4>1 DEF FamilyStoredWhole
    <3>4. QED BY <3>2, <3>3
  <2>6. mine' = mine
    BY <2>1
  <2>7. \A r \in Own' : r.label = Label /\ r.kind = "answer"
    BY <2>2, <2>4
  <2>8. /\ IF args.persist THEN Len(pending) + left = args.runs ELSE pending = << >>
        /\ \A i \in DOMAIN pending : /\ pending[i].by = "cli" /\ pending[i].label = Label
                                    /\ pending[i].kind = "answer"
        /\ \A i, j \in DOMAIN pending : i < j => pending[i].at < pending[j].at
    BY <2>1 DEF FamilyInv
  <2>9. QED BY <2>1, <2>3, <2>4, <2>5, <2>6, <2>7, <2>8 DEF FamilyInv, Uncommitted
<1>5. CASE Compare \/ ReadAfterFamily
  BY <1>5, FamilyKept DEF Compare, ReadAfterFamily
<1>6. CASE Fail
  <2>1. Own' = Own /\ pending' = << >> /\ pc' = "failed" /\ args' = args
    BY <1>6 DEF Fail, Own
  <2>2. QED BY <2>1 DEF FamilyInv, FamilyStoredWhole, Uncommitted
<1>7. CASE UNCHANGED vars
  BY <1>7, FamilyKept DEF vars
<1>8. ASSUME NEW got, NEW top, Retrieve(got, top) PROVE FamilyInv'
  BY <1>8, FamilyKept DEF Retrieve, Uncommitted
<1>9. ASSUME NEW d, NEW s, Judge(d, s) PROVE FamilyInv'
  BY <1>9, FamilyKept DEF Judge, Uncommitted
<1>10. ASSUME NEW ref, ResolveRef(ref) PROVE FamilyInv'
  BY <1>10, FamilyKept DEF ResolveRef, Uncommitted
<1>11. ASSUME NEW m, Score(m) PROVE FamilyInv'
  <2>1. pc = "resolve" /\ pc' \in {"report", "retrieve"} /\ UNCHANGED <<stored, args, left, pending>>
    BY <1>11 DEF Score
  <2>2. QED BY <2>1, FamilyKept DEF Uncommitted
<1>12. ASSUME NEW a, NEW g, Edit(a, g) PROVE FamilyInv'
  BY <1>12, FamilyKept DEF Edit
<1>13. ASSUME NEW run \in ForeignRuns, Foreign(run) PROVE FamilyInv'
  <2> DEFINE new == [by |-> "other", kind |-> run.kind, label |-> run.label,
                     digest |-> edits, at |-> Clock + 1]
  <2>1. stored' = stored \cup {new} /\ UNCHANGED <<pc, args, left, pending>>
    BY <1>13 DEF Foreign
  <2>2. new.by = "other" /\ new.at = Clock + 1 /\ Clock \in Nat
    BY ClockTyped
  <2> HIDE DEF new
  <2>3. Own' = Own
    BY <2>1, <2>2 DEF Own
  <2>4. ASSUME pc \in Uncommitted
        PROVE  /\ \A r \in stored' : r.at <= Clock'
               /\ \A i \in DOMAIN pending : pending[i].at <= Clock'
    <3>1. /\ \A r \in stored : r.at <= Clock /\ r.at \in Nat
          /\ \A i \in DOMAIN pending : pending[i].at <= Clock /\ pending[i].at \in Nat
      <4>1. \A r \in stored : r.at \in Nat
        BY StampTyped DEF TypeOK
      <4>2. QED BY <2>4, <4>1, PendingStamps DEF FamilyInv
    <3>2. new \notin stored
      BY <2>2, <3>1
    <3>3. Cardinality(stored') = Cardinality(stored) + 1 /\ Cardinality(stored) \in Nat
      BY <2>1, <3>2, FS_AddElement, FS_CardinalityType DEF TypeOK
    <3>4. Clock' = Clock + 1
      BY <2>1, <3>3 DEF Clock, TypeOK
    <3>5. QED BY <2>1, <2>2, <3>1, <3>4
  <2>5. FamilyStoredWhole'
    BY <2>1, <2>3 DEF FamilyInv, FamilyStoredWhole
  <2>6. QED BY <2>1, <2>3, <2>4, <2>5 DEF FamilyInv
<1>14. QED BY <1>1, <1>2, <1>3, <1>4, <1>5, <1>6, <1>7, <1>8, <1>9, <1>10, <1>11, <1>12, <1>13
           DEF Next, Ended, Publish, Withdraw

-----------------------------------------------------------------------------
(* The baseline.                                                           *)

\* A step that leaves the runs and the comparison alone.
LEMMA BaselineKept ==
    ASSUME BaselineInv, UNCHANGED <<stored, pending, before, compared>>,
           \/ pc' = pc
           \/ pc \notin {"families", "failed", "done"} /\ pc' \notin {"parsed", "families"}
    PROVE  BaselineInv'
<1>1. Own' = Own
  BY DEF Own
<1>2. QED BY <1>1 DEF BaselineInv, RunFamily, FamilyRead

LEMMA BaselineStep ==
    ASSUME TypeOK, FamilyInv, BaselineInv, [Next]_vars
    PROVE  BaselineInv'
<1>1. CASE Start
  <2>1. /\ before' = Resolve /\ pc = "parsed" /\ pc' = "retrieve"
        /\ UNCHANGED <<stored, pending, compared>>
    BY <1>1 DEF Start
  <2>2. pending = << >> /\ Own = {} /\ \A r \in stored : r.at <= Clock
    BY <2>1 DEF FamilyInv, Uncommitted
  <2>3. compared = NA
    BY <2>1 DEF BaselineInv
  <2>4. Resolve = NA \/ (Resolve \in stored /\ Resolve.kind = "answer")
    <3>1. LatestRun = NA \/ (LatestRun \in stored /\ LatestRun.kind = "answer")
      BY <2>2, LatestTyped
    <3>2. Resolve = LatestRun \/ Resolve = NA
      BY DEF Resolve
    <3>3. QED BY <3>1, <3>2
  <2>5. \A r \in stored : r.by = "other"
    BY <2>2 DEF Own, TypeOK, Run
  <2>6. QED BY <2>1, <2>2, <2>3, <2>4, <2>5 DEF BaselineInv
<1>2. CASE BuildReport
  BY <1>2, BaselineKept DEF BuildReport
<1>3. CASE RecordRun
  <2>1. /\ pending' = IF args.persist THEN Append(pending, Stamp) ELSE pending
        /\ pc = "record" /\ pc' \in {"retrieve", "commit"}
        /\ UNCHANGED <<stored, before, compared>>
    BY <1>3 DEF RecordRun, Recorded
  <2>2. compared = NA
    BY <2>1 DEF BaselineInv
  <2>3. ASSUME before # NA
        PROVE  /\ before \in stored /\ before.by = "other" /\ before.kind = "answer"
               /\ \A i \in DOMAIN pending' : before.at < pending'[i].at
    <3>1. /\ before \in stored /\ before.by = "other" /\ before.kind = "answer"
          /\ \A i \in DOMAIN pending : before.at < pending[i].at
      BY <2>1, <2>3 DEF BaselineInv
    <3>2. before.at <= Clock /\ before.at \in Nat /\ Clock \in Nat
      BY <2>1, <3>1, StampTyped, ClockTyped DEF FamilyInv, Uncommitted, TypeOK
    <3>3. CASE pending' = pending
      BY <3>1, <3>3
    <3>4. CASE pending' = Append(pending, Stamp)
      <4>1. Stamp \in Run /\ pending \in Seq(Run)
        BY RunTyped DEF TypeOK
      <4>2. Stamp.at = Clock + 1
        BY DEF Stamp
      <4>3. \A i \in DOMAIN pending' :
                \/ i \in DOMAIN pending /\ pending'[i] = pending[i]
                \/ pending'[i] = Stamp
        <5> HIDE DEF Stamp
        <5>1. QED BY <3>4, <4>1
      <4>4. before.at < Stamp.at
        BY <3>2, <4>2
      <4>5. ASSUME NEW i \in DOMAIN pending' PROVE before.at < pending'[i].at
        BY <3>1, <4>3, <4>4
      <4>6. QED BY <3>1, <4>5
    <3>5. QED BY <2>1, <3>3, <3>4
  <2>4. QED BY <2>1, <2>2, <2>3 DEF BaselineInv
<1>4. CASE Commit
  <2>1. /\ stored \subseteq stored' /\ pc = "commit" /\ pc' = "compare"
        /\ UNCHANGED <<pending, before, compared>>
    BY <1>4 DEF Commit
  <2>2. compared = NA
    BY <2>1 DEF BaselineInv
  <2>3. QED BY <2>1, <2>2 DEF BaselineInv
<1>5. CASE Compare
  <2>1. pc = "compare" /\ UNCHANGED <<stored, pending, before>>
    BY <1>5 DEF Compare
  <2>2. compared = NA
    BY <2>1 DEF BaselineInv
  <2>3. CASE before = NA \/ pending = << >>
    <3>1. compared' = compared /\ pc' = "done"
      BY <1>5, <2>3 DEF Compare
    <3>2. QED BY <2>1, <2>2, <3>1 DEF BaselineInv
  <2>4. CASE ~(before = NA \/ pending = << >>)
    <3>1. pc' = "families"
      BY <1>5, <2>4 DEF Compare
    <3>2. /\ compared' \in Comparison /\ compared'.before = before
          /\ compared'.after = LastRun /\ compared'.beforeFamily = RunFamily(before)
          /\ LastRun = pending[Len(pending)] /\ Len(pending) \in DOMAIN pending
      BY <1>5, <2>4, Compares
    <3>3. /\ before \in stored /\ before.by = "other" /\ before.kind = "answer"
          /\ \A i \in DOMAIN pending : before.at < pending[i].at
      BY <2>1, <2>4 DEF BaselineInv
    <3>4. Own = {pending[i] : i \in DOMAIN pending} /\ Own' = Own
      BY <2>1 DEF FamilyInv, Own
    <3>5. LastRun \in Own' /\ before.at < LastRun.at /\ \A r \in Own' : before.at < r.at
      BY <3>2, <3>3, <3>4
    <3>6. before \in RunFamily(before) /\ RunFamily(before)' = RunFamily(before)
      BY <2>1, <3>3 DEF RunFamily
    <3>7. \A r : RunFamily(r)' = {x \in stored : x.kind = "answer" /\ x.label = r'.label
                                                /\ x.digest = r'.digest}
      BY <2>1 DEF RunFamily
    <3>8. RunFamily(compared.before)' = RunFamily(before)
      BY <3>2, <3>7 DEF RunFamily
    <3>9. QED BY <2>1, <3>1, <3>2, <3>3, <3>5, <3>6, <3>8 DEF BaselineInv
  <2>5. QED BY <2>3, <2>4
<1>6. CASE Fail
  <2>1. /\ UNCHANGED <<stored, compared, before>> /\ pc' = "failed" /\ pending' = << >>
        /\ pc # "done"
    BY <1>6 DEF Fail
  <2>2. Own' = Own
    BY <2>1 DEF Own
  <2>3. QED BY <2>1, <2>2 DEF BaselineInv, RunFamily
<1>15. CASE ReadAfterFamily
  <2>1. pc = "families" /\ pc' = "done" /\ UNCHANGED <<stored, pending, before>>
    BY <1>15 DEF ReadAfterFamily
  <2>2. /\ compared' \in Comparison
        /\ compared'.before = compared.before /\ compared'.after = compared.after
        /\ compared'.beforeFamily = compared.beforeFamily
        /\ compared'.afterFamily = RunFamily(compared.after)
    BY <1>15, ReadsAfter
  <2>3. /\ compared.before.by = "other" /\ compared.before.at < compared.after.at
        /\ \A r \in Own : compared.before.at < r.at
        /\ compared.after \in Own
        /\ compared.before \in compared.beforeFamily
        /\ compared.beforeFamily \subseteq RunFamily(compared.before)
    BY <2>1 DEF BaselineInv
  <2>4. Own' = Own /\ Own \subseteq stored /\ \A r \in Own : r.label = Label /\ r.kind = "answer"
    BY <2>1 DEF Own, FamilyInv
  <2>5. \A r \in Own : r.digest = compared.after.digest => r \in RunFamily(compared.after)
    BY <2>3, <2>4 DEF RunFamily
  <2>6. (compared.before.label = compared.after.label
          /\ compared.before.digest = compared.after.digest) =>
             RunFamily(compared.before) = RunFamily(compared.after)
    BY DEF RunFamily
  <2>7. FamilyRead'
    BY <2>2, <2>3, <2>4, <2>5, <2>6 DEF FamilyRead
  <2>8. RunFamily(compared.before)' = RunFamily(compared.before)
    BY <2>1, <2>2 DEF RunFamily
  <2>9. QED BY <2>1, <2>2, <2>3, <2>4, <2>7, <2>8 DEF BaselineInv
<1>7. CASE UNCHANGED vars
  BY <1>7, BaselineKept DEF vars
<1>8. ASSUME NEW got, NEW top, Retrieve(got, top) PROVE BaselineInv'
  BY <1>8, BaselineKept DEF Retrieve
<1>9. ASSUME NEW d, NEW s, Judge(d, s) PROVE BaselineInv'
  BY <1>9, BaselineKept DEF Judge
<1>10. ASSUME NEW ref, ResolveRef(ref) PROVE BaselineInv'
  BY <1>10, BaselineKept DEF ResolveRef
<1>11. ASSUME NEW m, Score(m) PROVE BaselineInv'
  <2>1. /\ pc = "resolve" /\ pc' \in {"report", "retrieve"}
        /\ UNCHANGED <<stored, pending, before, compared>>
    BY <1>11 DEF Score
  <2>2. QED BY <2>1, BaselineKept
<1>12. ASSUME NEW a, NEW g, Edit(a, g) PROVE BaselineInv'
  BY <1>12, BaselineKept DEF Edit
<1>13. ASSUME NEW run \in ForeignRuns, Foreign(run) PROVE BaselineInv'
  <2>1. /\ stored \subseteq stored' /\ pc \notin {"done", "failed"}
        /\ UNCHANGED <<pc, pending, before, compared>>
    BY <1>13 DEF Foreign
  <2>2. Own' = Own
    <3> DEFINE new == [by |-> "other", kind |-> run.kind, label |-> run.label,
                       digest |-> edits, at |-> Clock + 1]
    <3>1. stored' = stored \cup {new} /\ new.by = "other"
      BY <1>13 DEF Foreign
    <3> HIDE DEF new
    <3>2. QED BY <3>1 DEF Own
  <2>3. RunFamily(compared.before) \subseteq RunFamily(compared.before)'
    BY <2>1 DEF RunFamily
  <2>4. QED BY <2>1, <2>2, <2>3 DEF BaselineInv
<1>14. QED BY <1>1, <1>2, <1>3, <1>4, <1>5, <1>6, <1>7, <1>8, <1>9, <1>10, <1>11, <1>12, <1>13,
              <1>15
           DEF Next, Ended, Publish, Withdraw

-----------------------------------------------------------------------------
(* Sums over finite sets.                                                  *)

(* A set of numbers that holds 0 and every successor of what it holds has  *)
(* them all: the least number outside it would be the successor of one     *)
(* inside.                                                                 *)
LEMMA Inductive ==
    ASSUME NEW S, 0 \in S, \A n \in Nat : n \in S => n + 1 \in S
    PROVE  Nat \subseteq S
<1> DEFINE R == OpToRel(<, Nat)
           T == Nat \ S
<1>1. IsWellFoundedOn(R, Nat) /\ \A x, y \in Nat : y < x => <<y, x>> \in R
  BY NatLessThanWellFounded DEF OpToRel
<1>2. ASSUME T # {} PROVE FALSE
  <2> HIDE DEF R
  <2>1. PICK n \in T : \A m \in T : <<m, n>> \notin R
    <3>1. T \subseteq Nat
      OBVIOUS
    <3> HIDE DEF T
    <3>2. QED BY <1>1, <1>2, <3>1, WFMin
  <2>2. n \in Nat /\ n # 0
    OBVIOUS
  <2>3. n - 1 \in Nat /\ n - 1 < n /\ (n - 1) + 1 = n
    BY <2>2
  <2>4. n - 1 \in S
    BY <1>1, <2>1, <2>2, <2>3
  <2>5. QED BY <2>1, <2>3, <2>4
<1>3. QED BY <1>2

\* The recursion SumFunction makes over the subsets of a domain.
Sums(F, g, S) ==
    F = [T \in SUBSET S |->
            IF T = {} THEN 0
            ELSE LET x == CHOOSE x \in T : TRUE IN g[x] + F[T \ {x}]]

LEMMA SumOf ==
    ASSUME NEW g
    PROVE  SumFunction(g) = (CHOOSE F : Sums(F, g, DOMAIN g))[DOMAIN g]
BY DEF SumFunction, SumFunctionOnSet, FoldFunctionOnSet, MapThenFoldSet, Sums

\* Two such recursions agree.
LEMMA SameSums ==
    ASSUME NEW S, IsFiniteSet(S), NEW g, NEW F, Sums(F, g, S), NEW G, Sums(G, g, S)
    PROVE  F[S] = G[S]
<1> DEFINE D == {n \in Nat : \A T \in SUBSET S : Cardinality(T) = n => F[T] = G[T]}
<1>1. ASSUME NEW T \in SUBSET S
      PROVE  IsFiniteSet(T) /\ Cardinality(T) \in Nat /\ (Cardinality(T) = 0 <=> T = {})
  BY FS_Subset, FS_CardinalityType, FS_EmptySet
<1>2. 0 \in D
  BY <1>1 DEF Sums
<1>3. ASSUME NEW n \in Nat, n \in D PROVE n + 1 \in D
  <2>1. ASSUME NEW T \in SUBSET S, Cardinality(T) = n + 1 PROVE F[T] = G[T]
    <3> DEFINE x == CHOOSE x \in T : TRUE
    <3>1. T # {} /\ x \in T
      BY <1>1, <2>1
    <3> HIDE DEF x
    <3>2. T \ {x} \in SUBSET S /\ Cardinality(T \ {x}) = n
      <4>1. Cardinality(T \ {x}) = Cardinality(T) - 1
        BY <1>1, <3>1, FS_RemoveElement
      <4>2. QED BY <2>1, <4>1
    <3>3. F[T \ {x}] = G[T \ {x}]
      BY <1>3, <3>2
    <3>4. F[T] = g[x] + F[T \ {x}] /\ G[T] = g[x] + G[T \ {x}]
      BY <3>1 DEF Sums, x
    <3>5. QED BY <3>3, <3>4
  <2>2. QED BY <2>1
<1> HIDE DEF D
<1>4. Nat \subseteq D
  BY <1>2, <1>3, Inductive
<1>5. Cardinality(S) \in D
  BY <1>1, <1>4
<1>6. QED BY <1>5 DEF D

(* Whatever has a key is counted once when it is counted key by key.       *)
LEMMA KeysAddUp ==
    ASSUME NEW D, IsFiniteSet(D), NEW S, IsFiniteSet(S), NEW k \in [D -> S],
           NEW g, DOMAIN g = S, \A c \in S : g[c] = Cardinality({i \in D : k[i] = c})
    PROVE  SumFunction(g) = Cardinality(D)
<1> DEFINE Keyed(T) == {i \in D : k[i] \in T}
           H == [T \in SUBSET S |-> Cardinality(Keyed(T))]
<1>1. ASSUME NEW T PROVE IsFiniteSet(Keyed(T)) /\ Cardinality(Keyed(T)) \in Nat
  BY FS_Subset, FS_CardinalityType
<1>2. Sums(H, g, S)
  <2>1. ASSUME NEW T \in SUBSET S
        PROVE  H[T] = IF T = {} THEN 0
                      ELSE LET x == CHOOSE x \in T : TRUE IN g[x] + H[T \ {x}]
    <3>1. CASE T = {}
      <4>1. Keyed(T) = {}
        BY <3>1
      <4>2. QED BY <3>1, <4>1, FS_EmptySet
    <3>2. CASE T # {}
      <4> DEFINE x == CHOOSE x \in T : TRUE
                 one == {i \in D : k[i] = x}
      <4>1. x \in T
        BY <3>2
      <4> HIDE DEF x
      <4>2. Keyed(T) = one \cup Keyed(T \ {x}) /\ one \cap Keyed(T \ {x}) = {}
        BY <4>1
      <4>3. IsFiniteSet(one) /\ Cardinality(one) \in Nat
        BY FS_Subset, FS_CardinalityType
      <4> HIDE DEF Keyed, one
      <4>4. Cardinality(Keyed(T))
              = Cardinality(one) + Cardinality(Keyed(T \ {x})) - Cardinality({})
        <5> PICK rest : rest = Keyed(T \ {x})
          OBVIOUS
        <5>1. IsFiniteSet(one) /\ IsFiniteSet(rest)
          BY <1>1, <4>3
        <5>2. Cardinality(one \cup rest)
                = Cardinality(one) + Cardinality(rest) - Cardinality(one \cap rest)
          BY ONLY <5>1, FS_Union
        <5>3. QED BY <4>2, <5>2
      <4>5. Cardinality(Keyed(T)) = Cardinality(one) + Cardinality(Keyed(T \ {x}))
        BY <1>1, <4>3, <4>4, FS_EmptySet
      <4>6. g[x] = Cardinality(one)
        BY <4>1 DEF one
      <4>7. H[T] = g[x] + H[T \ {x}]
        BY <4>5, <4>6
      <4>8. QED BY <3>2, <4>7 DEF x
    <3>3. QED BY <3>1, <3>2
  <2> HIDE DEF Keyed
  <2>2. QED BY <2>1 DEF Sums
<1> DEFINE F == CHOOSE F : Sums(F, g, S)
<1> HIDE DEF H
<1>3. Sums(F, g, S)
  BY <1>2
<1> HIDE DEF F
<1>4. F[S] = H[S]
  BY <1>2, <1>3, SameSums
<1>5. Keyed(S) = D
  OBVIOUS
<1>6. SumFunction(g) = F[S]
  BY SumOf DEF F
<1>7. QED BY <1>4, <1>5, <1>6 DEF H

LEMMA RowsCounted ==
    ASSUME TypeOK
    PROVE  /\ IsFiniteSet(DOMAIN rows) /\ Cardinality(DOMAIN rows) = Len(rows)
           /\ IsFiniteSet(Classes) /\ IsFiniteSet(Causes)
           /\ \A D \in SUBSET DOMAIN rows : IsFiniteSet(D) /\ Cardinality(D) \in Nat
<1>1. DOMAIN rows = 1 .. Len(rows) /\ Len(rows) \in Nat
  BY DEF TypeOK
<1>2. IsFiniteSet(DOMAIN rows) /\ Cardinality(DOMAIN rows) = Len(rows)
  <2>1. 1 \in Int /\ Len(rows) \in Int
    BY <1>1
  <2>2. /\ IsFiniteSet(1 .. Len(rows))
        /\ Cardinality(1 .. Len(rows)) = IF 1 > Len(rows) THEN 0 ELSE Len(rows) - 1 + 1
    BY <2>1, FS_Interval
  <2>3. QED BY <1>1, <2>2
<1>3. IsFiniteSet(Classes)
  <2>1. [i \in DOMAIN rows |-> rows[i].class] \in Surjection(DOMAIN rows, Classes)
    BY DEF Surjection, Classes
  <2>2. QED BY <1>2, <2>1, FS_Surjection
<1>4. IsFiniteSet(Causes)
  <2>1. ASSUME NEW S, IsFiniteSet(S), NEW x PROVE IsFiniteSet(S \cup {x})
    BY <2>1, FS_AddElement
  <2>2. Causes = (({"retrieval_miss"} \cup {"corpus_gap"}) \cup {"threshold_refusal"})
                    \cup {"generation_unfaithful"}
    BY DEF Causes
  <2>3. QED BY <2>1, <2>2, Single
<1>5. \A D \in SUBSET DOMAIN rows : IsFiniteSet(D) /\ Cardinality(D) \in Nat
  BY <1>2, FS_Subset, FS_CardinalityType
<1>6. QED BY <1>2, <1>3, <1>4, <1>5

LEMMA ReportIsRight ==
    ASSUME TypeOK, ReportInv, BuildReport
    PROVE  ReportAddsUp'
<1> DEFINE D == DOMAIN rows
           pass == {i \in D : rows[i].verdict = "PASS"}
           fail == {i \in D : ~(rows[i].verdict = "PASS")}
           refused == {i \in D : ~rows[i].answerable /\ rows[i].verdict = "PASS"}
           answered == {i \in D : rows[i].answerable /\ rows[i].verdict = "PASS"}
           backed == {i \in D : rows[i].answerable /\ rows[i].supported}
           scored == {i \in D : rows[i].precision}
           lost == {i \in D : rows[i].malformed}
           found == {i \in D : rows[i].found}
           passed == [c \in Classes |-> report'.byClass[c].passed]
<1>1. /\ report'.overall.count = Cardinality({i \in D : rows[i].class \in Classes})
      /\ report'.overall.passed
            = Cardinality({i \in D : rows[i].class \in Classes /\ rows[i].verdict = "PASS"})
      /\ DOMAIN report'.byClass = Classes
      /\ \A c \in Classes : report'.byClass[c].passed
            = Cardinality({i \in D : rows[i].class \in {c} /\ rows[i].verdict = "PASS"})
      /\ DOMAIN report'.causes = Causes
      /\ \A c \in Causes : report'.causes[c] = Cardinality({i \in D : rows[i].cause = c})
      /\ report'.refusalCorrect = Cardinality(refused)
      /\ report'.supported = Cardinality(backed)
      /\ report'.precision = Cardinality(scored) /\ report'.malformed = Cardinality(lost)
      /\ rows' = rows
  BY DEF BuildReport, Rollup, Count
<1>2. \A i \in D : rows[i] \in ScoredRow /\ RowFits(rows[i])
  BY DEF TypeOK, ReportInv
<1>3. Len(rows) = Len(QuestionFile)
  BY DEF BuildReport, ReportInv
<1>4. \A E \in SUBSET D : IsFiniteSet(E) /\ Cardinality(E) \in Nat
  BY RowsCounted
\* Two parts of the rows that share none.
<1>5. ASSUME NEW E \in SUBSET D, NEW G \in SUBSET D, E \cap G = {}
      PROVE  Cardinality(E \cup G) = Cardinality(E) + Cardinality(G)
  <2>1. IsFiniteSet(E) /\ IsFiniteSet(G) /\ Cardinality(E) \in Nat /\ Cardinality(G) \in Nat
    BY <1>4
  <2>2. Cardinality(E \cup G) = Cardinality(E) + Cardinality(G) - Cardinality(E \cap G)
    BY ONLY <2>1, FS_Union
  <2>3. QED BY <1>5, <2>1, <2>2, FS_EmptySet
<1>6. report'.overall.count = Len(QuestionFile)
  <2>1. {i \in D : rows[i].class \in Classes} = D
    BY DEF Classes
  <2>2. QED BY <1>1, <1>3, <2>1, RowsCounted
<1>7. report'.overall.passed = Cardinality(pass)
  <2>1. {i \in D : rows[i].class \in Classes /\ rows[i].verdict = "PASS"} = pass
    BY DEF Classes
  <2>2. QED BY <1>1, <2>1
<1>8. SumFunction(passed) = Cardinality(pass)
  <2> DEFINE k == [i \in pass |-> rows[i].class]
  <2>1. k \in [pass -> Classes]
    BY DEF Classes
  <2>2. \A c \in Classes : passed[c] = Cardinality({i \in pass : k[i] = c})
    <3>1. ASSUME NEW c \in Classes
          PROVE  {i \in D : rows[i].class \in {c} /\ rows[i].verdict = "PASS"}
                    = {i \in pass : k[i] = c}
      OBVIOUS
    <3>2. QED BY <1>1, <3>1
  <2>3. DOMAIN passed = Classes /\ IsFiniteSet(pass) /\ IsFiniteSet(Classes)
    BY <1>4, RowsCounted
  <2> HIDE DEF k, pass, passed
  <2>4. QED BY <2>1, <2>2, <2>3, KeysAddUp
<1>9. SumFunction(report'.causes) = Cardinality(fail)
  <2> DEFINE k == [i \in fail |-> rows[i].cause]
  <2>1. \A i \in D : rows[i].cause \in Causes <=> i \in fail
    BY <1>2, NAAssumption DEF ScoredRow, RowFits
  <2>2. k \in [fail -> Causes]
    BY <2>1
  <2>3. PICK g : g = report'.causes
    OBVIOUS
  <2>4. \A c \in Causes : g[c] = Cardinality({i \in fail : k[i] = c})
    <3>1. ASSUME NEW c \in Causes
          PROVE  {i \in D : rows[i].cause = c} = {i \in fail : k[i] = c}
      BY <2>1
    <3>2. QED BY <1>1, <2>3, <3>1
  <2>5. DOMAIN g = Causes /\ IsFiniteSet(fail) /\ IsFiniteSet(Causes)
    BY <1>1, <1>4, <2>3, RowsCounted
  <2> HIDE DEF k, fail
  <2>6. SumFunction(g) = Cardinality(fail)
    BY <2>2, <2>4, <2>5, KeysAddUp
  <2>7. QED BY <2>3, <2>6
<1>10. Cardinality(D) = Cardinality(pass) + Cardinality(fail)
  <2>1. D = pass \cup fail /\ pass \cap fail = {}
    OBVIOUS
  <2> HIDE DEF pass, fail
  <2>2. QED BY <1>5, <2>1
<1>11. Cardinality(pass) = Cardinality(answered) + Cardinality(refused)
  <2>1. pass = answered \cup refused /\ answered \cap refused = {}
    OBVIOUS
  <2>2. answered \in SUBSET D /\ refused \in SUBSET D
    OBVIOUS
  <2> HIDE DEF pass, answered, refused
  <2>3. QED BY <1>5, <2>1, <2>2
<1>12. Cardinality(answered) <= Cardinality(backed)
  <2>1. answered \in SUBSET backed
    BY <1>2 DEF RowFits
  <2>2. IsFiniteSet(backed)
    BY <1>4
  <2> HIDE DEF answered, backed
  <2>3. QED BY <2>1, <2>2, FS_Subset
<1>13. Cardinality(found) = Cardinality(scored) + Cardinality(lost)
  <2>1. found = scored \cup lost /\ scored \cap lost = {}
    BY <1>2 DEF RowFits
  <2>2. scored \in SUBSET D /\ lost \in SUBSET D
    OBVIOUS
  <2> HIDE DEF found, scored, lost
  <2>3. QED BY <1>5, <2>1, <2>2
<1>14. Count(LAMBDA r : r.found)' = Cardinality(found)
  BY <1>1 DEF Count
<1>15. /\ Cardinality(pass) \in Nat /\ Cardinality(fail) \in Nat /\ Cardinality(answered) \in Nat
       /\ Cardinality(refused) \in Nat /\ Cardinality(backed) \in Nat
  BY <1>4
<1> HIDE DEF pass, fail, answered, refused, backed, scored, lost, found
<1>16. SumFunction(report'.causes) = report'.overall.count - report'.overall.passed
  BY <1>3, <1>6, <1>7, <1>9, <1>10, <1>15, RowsCounted
<1>17. /\ 0 <= report'.overall.passed - report'.refusalCorrect
       /\ report'.overall.passed - report'.refusalCorrect <= report'.supported
  BY <1>1, <1>7, <1>11, <1>12, <1>15
<1>18. report'.precision + report'.malformed = Count(LAMBDA r : r.found)'
  BY <1>1, <1>13, <1>14
<1>19. SumFunction([c \in DOMAIN report'.byClass |-> report'.byClass[c].passed])
          = report'.overall.passed
  BY <1>1, <1>7, <1>8
<1>20. QED BY <1>6, <1>16, <1>17, <1>18, <1>19 DEF ReportAddsUp

LEMMA ReportKept ==
    ASSUME ReportInv, rows' = rows, report' = report,
           pc' = pc \/ (pc # "record" /\ pc' # "report")
    PROVE  ReportInv'
<1>1. ReportAddsUp'
  BY DEF ReportInv, ReportAddsUp, Count
<1>2. \A i \in DOMAIN rows' : RowFits(rows'[i])
  BY DEF ReportInv
<1>3. QED BY <1>1, <1>2 DEF ReportInv, RowFits

LEMMA ReportDropped ==
    ASSUME rows' = << >>, report' = NA, pc' # "report"
    PROVE  ReportInv'
BY DEF ReportInv, ReportAddsUp

LEMMA ScoreFits ==
    ASSUME TypeOK, RowInv, ReportInv, NEW m \in BOOLEAN, Score(m)
    PROVE  ReportInv'
<1> DEFINE v == IF Passes(row) THEN "PASS" ELSE "FAIL"
           cause == FailureCause(row)
           found == Found(row)
           e == rows'[Len(rows) + 1]
<1>1. /\ pc = "resolve" /\ row \in Row /\ Len(rows) < Len(QuestionFile)
      /\ rows \in Seq(ScoredRow) /\ report = NA /\ report' = NA
      /\ pc' = IF Len(rows) + 1 = Len(QuestionFile) THEN "report" ELSE "retrieve"
      /\ m => found
  BY DEF Score, RowInv, TypeOK, ReportInv
<1>2. PICK scored : rows' = Append(rows, scored) /\ scored.verdict = v /\ scored.cause = cause
                    /\ scored.supported = row.supported /\ scored.found = found
                    /\ scored.precision = (found /\ ~m) /\ scored.malformed = m
                    /\ scored.answerable = Question.answerable
  <2>1. [row EXCEPT !.malformed = m, !.verdict = v, !.cause = cause].verdict = v
    BY <1>1 DEF Row
  <2>2. [row EXCEPT !.malformed = m, !.verdict = v, !.cause = cause].cause = cause
    BY <1>1 DEF Row
  <2> HIDE DEF v, cause
  <2>3. QED BY <2>1, <2>2 DEF Score, v, cause
<1>3. /\ Len(rows') = Len(rows) + 1 /\ rows' \in Seq(ScoredRow)
  BY <1>1, ScoredTyped
<1>4. Question.answerable \in BOOLEAN
      /\ (Question.answerable => row.supported \in BOOLEAN)
  BY <1>1, QuestionTyped DEF RowInv
<1>5. scored.verdict = "PASS" <=> scored.cause = NA
  BY <1>2, NAAssumption DEF FailureCause, Causes
<1>6. scored.answerable /\ scored.verdict = "PASS" => scored.supported
  BY <1>2, <1>4 DEF Passes
<1>7. found \in BOOLEAN
  BY DEF Found
<1> HIDE DEF found
<1>8. RowFits(scored)
  BY <1>1, <1>2, <1>5, <1>6, <1>7 DEF RowFits
<1>9. \A i \in DOMAIN rows' : RowFits(rows'[i])
  <2>1. \A i \in DOMAIN rows' :
           (i \in DOMAIN rows /\ rows'[i] = rows[i]) \/ rows'[i] = scored
    BY <1>1, <1>2
  <2>2. QED BY <1>8, <2>1 DEF ReportInv
<1>10. QED BY <1>1, <1>3, <1>9 DEF ReportInv, ReportAddsUp, RowFits

LEMMA ReportStep ==
    ASSUME TypeOK, RowInv, ReportInv, [Next]_vars
    PROVE  ReportInv'
<1>1. CASE Start \/ Commit \/ Compare \/ ReadAfterFamily
  BY <1>1, ReportKept DEF Start, Commit, Compare, ReadAfterFamily
<1>2. CASE BuildReport
  <2>1. ReportAddsUp'
    BY <1>2, ReportIsRight
  <2>2. rows' = rows /\ pc' = "record"
    BY <1>2 DEF BuildReport
  <2>3. QED BY <2>1, <2>2 DEF ReportInv, RowFits
<1>3. CASE RecordRun
  BY <1>3, ReportDropped DEF RecordRun
<1>4. CASE Fail
  BY <1>4, ReportDropped DEF Fail
<1>5. CASE UNCHANGED vars
  BY <1>5, ReportKept DEF vars
<1>6. ASSUME NEW got, NEW top, Retrieve(got, top) PROVE ReportInv'
  BY <1>6, ReportKept DEF Retrieve
<1>7. ASSUME NEW declined, NEW supported, Judge(declined, supported) PROVE ReportInv'
  BY <1>7, ReportKept DEF Judge
<1>8. ASSUME NEW ref, ResolveRef(ref) PROVE ReportInv'
  BY <1>8, ReportKept DEF ResolveRef
<1>9. ASSUME NEW m \in BOOLEAN, Score(m) PROVE ReportInv'
  BY <1>9, ScoreFits
<1>10. ASSUME NEW a \in Articles, Publish(a) \/ Withdraw(a) PROVE ReportInv'
  BY <1>10, ReportKept DEF Publish, Withdraw, Edit
<1>11. ASSUME NEW run \in ForeignRuns, Foreign(run) PROVE ReportInv'
  BY <1>11, ReportKept DEF Foreign
<1>12. QED BY <1>1, <1>2, <1>3, <1>4, <1>5, <1>6, <1>7, <1>8, <1>9, <1>10, <1>11 DEF Next, Ended

-----------------------------------------------------------------------------
LEMMA InitSafe == Init => HarnessInv
<1> SUFFICES ASSUME Init PROVE HarnessInv
  OBVIOUS
<1>1. Own = {} /\ Clock \in Nat
  BY FS_EmptySet DEF Init, Own, Clock
<1>2. args.runs \in Nat \ {0}
  BY ArgumentsAssumption DEF Init
<1>3. QuestionFile \in Seq({QuestionFile[i] : i \in DOMAIN QuestionFile}) /\ QuestionFile # << >>
  BY QuestionsAssumption
<1>4. row.verdict # "FAIL"
  BY NAAssumption DEF Init, NoRow
<1>5. RowInv
  <2>1. Len(rows) < Len(QuestionFile)
    BY <1>3 DEF Init
  <2>2. QED BY <1>4, <2>1 DEF Init, RowInv, BlameIsJust
<1>6. FamilyStoredWhole
  BY <1>1, FS_EmptySet DEF FamilyStoredWhole
<1>7. FamilyInv
  <2>1. pending = << >> /\ stored = {} /\ pc = "parsed" /\ left = args.runs
    BY DEF Init
  <2>2. QED BY <1>1, <1>2, <1>6, <2>1 DEF FamilyInv, Uncommitted
<1>8. BaselineInv
  BY DEF Init, BaselineInv
<1>9. QED BY <1>5, <1>7, <1>8 DEF HarnessInv

(* Every variable stays in its range, for any question file, command lines *)
(* and corpus.                                                             *)
THEOREM HarnessTypes == Spec => []TypeOK
<1>1. Init => TypeOK /\ HarnessInv
  BY InitTyped, InitSafe
<1>2. (TypeOK /\ HarnessInv) /\ [Next]_vars => (TypeOK /\ HarnessInv)'
  BY TypeStep, BlameStep, FamilyStep, BaselineStep DEF HarnessInv
<1>3. QED BY <1>1, <1>2, PTL DEF Spec

(* The strengthened invariant the properties below follow from.            *)
THEOREM HarnessSafety == Spec => []HarnessInv
<1>1. Init => TypeOK /\ HarnessInv
  BY InitTyped, InitSafe
<1>2. (TypeOK /\ HarnessInv) /\ [Next]_vars => (TypeOK /\ HarnessInv)'
  BY TypeStep, BlameStep, FamilyStep, BaselineStep DEF HarnessInv
<1>3. QED BY <1>1, <1>2, PTL DEF Spec

(* For every question file, outline of the articles, edit and reply, the   *)
(* cause of a failure can be defended by what was expected and retrieved:  *)
(* the answer is never blamed without an expected article cited and, when  *)
(* references resolved, one of their chunks retrieved; only retrieval can  *)
(* be blamed unjustly, and only by a republication that came in between    *)
(* (_evaluate_question, classify_failure).                                 *)
THEOREM BlameIsRight == Spec => []BlameIsJust
<1>1. HarnessInv => BlameIsJust
  BY DEF HarnessInv, RowInv
<1>2. QED BY HarnessSafety, <1>1, PTL

(* However many runs are asked for and wherever the invocation fails, the  *)
(* others see all of its runs or none (_run_from_cli).                     *)
THEOREM FamilyIsWhole == Spec => []FamilyStoredWhole
<1>1. HarnessInv => FamilyStoredWhole
  BY DEF HarnessInv, FamilyInv
<1>2. QED BY HarnessSafety, <1>1, PTL

(* The baseline of --compare-to latest is an earlier run of another        *)
(* invocation, and of the two families, read one after the other while     *)
(* others commit runs, neither lacks a run it was looked up for            *)
(* (_run_from_cli, latest_runs, compare_runs, run_family).                 *)
THEOREM BaselineIsOthers == Spec => []BaselineIsForeign
<1>1. HarnessInv => BaselineIsForeign
  BY DEF HarnessInv, BaselineInv, FamilyRead, BaselineIsForeign
<1>2. QED BY HarnessSafety, <1>1, PTL

(* The figures of every report add up, whatever the questions, what was    *)
(* retrieved and what model and judge replied: each class's passes make    *)
(* the total, each failure has one cause, each row found is scored once    *)
(* for precision or counted as malformed (_build_report, _rollup).         *)
THEOREM ReportsAddUp == Spec => []ReportAddsUp
<1>1. Init => ReportInv
  BY ReportDropped DEF Init, ReportInv, ReportAddsUp
<1>2. HarnessInv => RowInv
  BY DEF HarnessInv
<1>3. (TypeOK /\ RowInv /\ ReportInv) /\ [Next]_vars => ReportInv'
  BY ReportStep
<1>4. ReportInv => ReportAddsUp
  BY DEF ReportInv
<1>5. QED BY HarnessTypes, HarnessSafety, <1>1, <1>2, <1>3, <1>4, PTL DEF Spec
==============================================================================
