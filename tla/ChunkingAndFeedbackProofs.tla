---------------------- MODULE ChunkingAndFeedbackProofs ---------------------
(***************************************************************************)
(* Two components that share nothing but this file.                        *)
(*                                                                         *)
(* The ceiling on a chunk's tokens, for every body, budget and cost of the *)
(* joints.  A window ends at most CharBytes - 1 tokens after its cut,      *)
(* because every byte of a character can be a token; the packing loop then *)
(* keeps what it joins within the budget, or within target + overlap when  *)
(* it starts from a seed.                                                  *)
(*                                                                         *)
(* That every byte of the body is in one chunk, in order: the chunks and   *)
(* what is pending are what the walk has split off.  FlattenSeq, in which  *)
(* both are written, is a recursive function; what it is for each length   *)
(* follows from Inductive, a least counterexample among the numbers.       *)
(*                                                                         *)
(* What AnswerFeedback guarantees for any number of answers and ratings:   *)
(* the names of its specification carry its name, so that both modules can *)
(* be extended here.                                                       *)
(***************************************************************************)
EXTENDS Chunking, AnswerFeedback, FiniteSetTheorems, SequenceTheorems,
        WellFoundedInduction, TLAPS

Positions ==
    /\ doc \in Documents
    /\ target \in Nat \ {0} /\ overlap \in Nat
    /\ pc \in {"sections", "units", "lines", "windows", "pack", "done"}
    /\ s \in Nat \ {0} /\ u \in Nat \ {0} /\ l \in Nat \ {0}
    /\ cut \in Nat /\ start \in Nat
    /\ pc \in {"units", "lines", "windows"} => s <= Len(doc)
    /\ pc \in {"lines", "windows"} => u <= Len(Units)
    /\ pc = "windows" => l <= Len(Unit.lines)

(* The window being cut starts after the previous cut.                     *)
WindowStart ==
    pc = "windows" =>
        \/ cut = target
        \/ /\ cut - target \in 1 .. LineTokens(Line)
           /\ Line.ends[cut - target] <= start

AtomsBounded ==
    /\ atoms \in Seq(Range(atoms))
    /\ \A i \in DOMAIN atoms :
        atoms[i].tokens \in Nat /\ atoms[i].tokens <= target + CharBytes - 1

OpenBounded ==
    /\ index \in Nat \ {0}
    /\ hasBody \in BOOLEAN
    /\ open.seed \in Nat /\ open.tokens \in Nat
    /\ open.tokens <= target + Slack
    /\ ~hasBody => open.tokens = open.seed /\ open.text = <<>>

ChunksInv ==
    /\ chunks \in Seq(Range(chunks))
    /\ \A i \in DOMAIN chunks :
        chunks[i].tokens \in Nat /\ chunks[i].tokens <= target + Slack

Inv == Positions /\ WindowStart /\ AtomsBounded /\ OpenBounded /\ ChunksInv
-----------------------------------------------------------------------------
(* Append changes nothing but the end of a sequence.                       *)
LEMMA AppendEnd ==
    ASSUME NEW q, q \in Seq(Range(q)), NEW e
    PROVE  /\ Append(q, e) \in Seq(Range(Append(q, e)))
           /\ \A i \in DOMAIN Append(q, e) :
                Append(q, e)[i] = e \/ (i \in DOMAIN q /\ Append(q, e)[i] = q[i])
<1> DEFINE S == Range(q) \cup {e}
           a == Append(q, e)
<1>1. q \in Seq(S) /\ e \in S
  OBVIOUS
<1>2. a \in Seq(S) /\ Len(a) = Len(q) + 1 /\ Len(q) \in Nat
  BY <1>1
<1>3. \A i \in 1 .. Len(q) : a[i] = q[i]
  BY <1>1
<1>4. a[Len(q) + 1] = e
  BY <1>1
<1>5. DOMAIN a = 1 .. Len(q) + 1 /\ DOMAIN q = 1 .. Len(q)
  BY <1>1, <1>2
<1>6. a \in Seq(Range(a))
  <2>1. \A i \in 1 .. Len(a) : a[i] \in Range(a)
    BY <1>2, <1>5 DEF Range
  <2>2. \A i \in 1 .. Len(a) : a[i] \in S
    BY <1>2, ElementOfSeq
  <2>3. a = SubSeq(a, 1, Len(a))
    BY <1>2
  <2>4. SubSeq(a, 1, Len(a)) \in Seq(Range(a))
    BY <1>2, <2>1, SubSeqProperties
  <2> QED
    BY <2>3, <2>4
<1>7. \A i \in DOMAIN a : a[i] = e \/ (i \in DOMAIN q /\ a[i] = q[i])
  BY <1>2, <1>3, <1>4, <1>5
<1> QED
  BY <1>6, <1>7

(* What a line's token ends are.                                           *)
LEMMA LineEnds ==
    ASSUME NEW line, WellFormedLine(line)
    PROVE  /\ Len(line.ends) \in Nat \ {0}
           /\ DOMAIN line.ends = 1 .. Len(line.ends)
           /\ \A i \in 1 .. Len(line.ends) : line.ends[i] \in Nat \ {0}
           /\ \A i, j \in 1 .. Len(line.ends) : i < j => line.ends[i] < line.ends[j]
<1>1. line.ends \in Seq(Nat \ {0}) /\ line.ends # <<>>
  BY DEF WellFormedLine
<1>2. Len(line.ends) \in Nat \ {0} /\ DOMAIN line.ends = 1 .. Len(line.ends)
  BY <1>1, LenProperties, EmptySeq
<1>3. \A i \in 1 .. Len(line.ends) : line.ends[i] \in Nat \ {0}
  BY <1>1, ElementOfSeq
<1>4. \A i, j \in 1 .. Len(line.ends) : i < j => line.ends[i] < line.ends[j]
  BY <1>2 DEF WellFormedLine
<1> QED
  BY <1>2, <1>3, <1>4

(* A token takes at least a byte.                                          *)
LEMMA EndsGrow ==
    ASSUME NEW line, WellFormedLine(line),
           NEW i \in 1 .. Len(line.ends), i + 3 <= Len(line.ends)
    PROVE  line.ends[i + 3] >= line.ends[i] + 3
<1> DEFINE n == Len(line.ends)
<1>1. n \in Nat /\ i \in 1 .. n /\ i + 1 \in 1 .. n /\ i + 2 \in 1 .. n /\ i + 3 \in 1 .. n
  BY LineEnds
<1>2. /\ line.ends[i] \in Nat /\ line.ends[i + 1] \in Nat
      /\ line.ends[i + 2] \in Nat /\ line.ends[i + 3] \in Nat
  BY <1>1, LineEnds
<1>3. i < i + 1 /\ i + 1 < i + 2 /\ i + 2 < i + 3
  BY <1>1
<1>4. line.ends[i] < line.ends[i + 1]
  BY <1>1, <1>3, LineEnds
<1>5. line.ends[i + 1] < line.ends[i + 2]
  BY <1>1, <1>3, LineEnds
<1>6. line.ends[i + 2] < line.ends[i + 3]
  BY <1>1, <1>3, LineEnds
<1> HIDE DEF n
<1> QED
  BY <1>2, <1>4, <1>5, <1>6

(* A boundary of _token_windows is the end of a character, found before    *)
(* CharBytes bytes are passed.                                             *)
LEMMA BoundaryNear ==
    ASSUME NEW line, WellFormedLine(line), NEW t \in DOMAIN line.ends
    PROVE  /\ Boundary(line, t) \in line.ends[t] .. Bytes(line)
           /\ Boundary(line, t) <= line.ends[t] + CharBytes - 1
           /\ Boundary(line, t) \notin line.cont
           /\ \A o \in line.ends[t] .. Boundary(line, t) - 1 : o \in line.cont
<1> DEFINE b == line.ends[t]
           n == Bytes(line)
           Stop(e) == e \notin line.cont /\ \A o \in b .. e - 1 : o \in line.cont
<1>1. b \in Nat \ {0} /\ n \in Nat \ {0} /\ b <= n
  BY DEF WellFormedLine, Bytes
<1>2. line.cont \subseteq 1 .. n - 1
  BY DEF WellFormedLine, Bytes
<1>3. b \in line.cont => \E e \in b + 1 .. b + 3 : e \notin line.cont
  BY DEF WellFormedLine, CharBytes
<1>4. \E e \in b .. b + 3 : Stop(e)
  <2>1. CASE b \notin line.cont
    BY <1>1, <2>1
  <2>2. CASE b \in line.cont /\ b + 1 \notin line.cont
    <3>1. \A o \in b .. (b + 1) - 1 : o = b
      BY <1>1
    <3> QED
      BY <1>1, <2>2, <3>1
  <2>3. CASE b \in line.cont /\ b + 1 \in line.cont /\ b + 2 \notin line.cont
    <3>1. \A o \in b .. (b + 2) - 1 : o = b \/ o = b + 1
      BY <1>1
    <3> QED
      BY <1>1, <2>3, <3>1
  <2>4. CASE b \in line.cont /\ b + 1 \in line.cont /\ b + 2 \in line.cont
    <3>1. \A o \in b .. (b + 3) - 1 : o = b \/ o = b + 1 \/ o = b + 2
      BY <1>1
    <3>2. b + 3 \notin line.cont
      BY <1>1, <1>3, <2>4
    <3> QED
      BY <1>1, <2>4, <3>1, <3>2
  <2> QED
    BY <2>1, <2>2, <2>3, <2>4
<1>5. PICK e \in b .. b + 3 : Stop(e)
  BY <1>4
<1>6. e <= n
  <2>1. CASE e > n
    <3>1. n \in b .. e - 1
      BY <1>1, <2>1
    <3> QED
      BY <1>1, <1>2, <1>5, <3>1
  <2> QED
    BY <1>1, <2>1
<1>7. e \in b .. n
  BY <1>1, <1>6
<1>8. Boundary(line, t) \in b .. n /\ Stop(Boundary(line, t))
  BY <1>5, <1>7 DEF Boundary
<1>9. Boundary(line, t) <= e
  <2>1. CASE Boundary(line, t) > e
    <3>1. e \in b .. Boundary(line, t) - 1
      BY <1>1, <1>8, <2>1
    <3> QED
      BY <1>5, <1>8, <3>1
  <2> QED
    BY <1>1, <1>8, <2>1
<1> QED
  BY <1>1, <1>8, <1>9 DEF CharBytes

(* A window between two cuts touches the tokens between them, and those of *)
(* the character it runs over.                                             *)
LEMMA WindowTokens ==
    ASSUME NEW line, WellFormedLine(line), NEW from \in Nat, NEW to \in Nat,
           NEW lo \in Nat, NEW hi \in Nat, lo <= hi,
           lo = 0 \/ (lo \in DOMAIN line.ends /\ line.ends[lo] <= from),
           \/ hi >= Len(line.ends)
           \/ hi \in DOMAIN line.ends /\ to <= line.ends[hi] + CharBytes - 1
    PROVE  /\ SliceTokens(line, from, to) \in Nat
           /\ SliceTokens(line, from, to) <= hi - lo + CharBytes - 1
<1> DEFINE T == Touched(line, from, to)
           last == hi + CharBytes - 1
<1>1. /\ Len(line.ends) \in Nat \ {0} /\ DOMAIN line.ends = 1 .. Len(line.ends)
      /\ \A i \in 1 .. Len(line.ends) : line.ends[i] \in Nat
      /\ \A i, j \in 1 .. Len(line.ends) : i < j => line.ends[i] < line.ends[j]
  BY LineEnds
<1>2. last \in Nat /\ last = hi + 3
  BY DEF CharBytes
<1>3. ASSUME NEW t \in T PROVE t \in lo + 1 .. last
  <2>1. t \in 1 .. Len(line.ends) /\ line.ends[t] > from /\ TokenStart(line, t) < to
    BY <1>1, <1>3 DEF Touched
  <2>2. t > lo
    <3>1. CASE lo = 0
      BY <2>1, <3>1
    <3>2. CASE lo \in DOMAIN line.ends /\ line.ends[lo] <= from
      <4>1. lo \in 1 .. Len(line.ends)
        BY <1>1, <3>2
      <4>2. SUFFICES ASSUME t <= lo PROVE FALSE
        BY <2>1
      <4>3. line.ends[t] <= line.ends[lo]
        BY <1>1, <2>1, <4>1, <4>2
      <4>4. line.ends[t] \in Nat /\ line.ends[lo] \in Nat
        BY <1>1, <2>1, <4>1
      <4> QED
        BY <2>1, <3>2, <4>3, <4>4
    <3> QED
      BY <3>1, <3>2
  <2>3. t <= last
    <3>1. CASE hi >= Len(line.ends)
      BY <1>1, <1>2, <2>1, <3>1
    <3>2. CASE hi \in DOMAIN line.ends /\ to <= line.ends[hi] + CharBytes - 1
      <4>1. hi \in 1 .. Len(line.ends)
        BY <1>1, <3>2
      <4>2. SUFFICES ASSUME t > last PROVE FALSE
        BY <1>2, <2>1
      <4>3. t - 1 \in 1 .. Len(line.ends) /\ hi + 3 \in 1 .. Len(line.ends) /\ hi + 3 <= t - 1
        BY <1>1, <1>2, <2>1, <4>1, <4>2
      <4>4. line.ends[hi + 3] >= line.ends[hi] + 3
        <5>1. hi + 3 <= Len(line.ends)
          BY <1>1, <4>1, <4>3
        <5> QED
          BY <4>1, <5>1, EndsGrow
      <4>5. line.ends[t - 1] >= line.ends[hi + 3]
        BY <1>1, <4>3
      <4>6. /\ line.ends[t - 1] \in Nat /\ line.ends[hi + 3] \in Nat
            /\ line.ends[hi] \in Nat
        BY <1>1, <4>1, <4>3
      <4>7. TokenStart(line, t) = line.ends[t - 1]
        BY <1>1, <2>1, <4>3 DEF TokenStart
      <4> QED
        BY <2>1, <3>2, <4>4, <4>5, <4>6, <4>7 DEF CharBytes
    <3> QED
      BY <3>1, <3>2
  <2> QED
    BY <1>2, <2>1, <2>2, <2>3
<1>4. T \subseteq lo + 1 .. last
  BY <1>3
<1>5. lo + 1 \in Int /\ last \in Int /\ ~(lo + 1 > last)
  BY <1>2
<1>6. IsFiniteSet(lo + 1 .. last) /\ Cardinality(lo + 1 .. last) = last - (lo + 1) + 1
  <2> HIDE DEF last
  <2> QED
    BY <1>5, FS_Interval
<1>7. IsFiniteSet(T) /\ Cardinality(T) <= Cardinality(lo + 1 .. last)
  BY <1>4, <1>6, FS_Subset
<1>8. Cardinality(T) \in Nat
  BY <1>7, FS_CardinalityType
<1>9. Cardinality(T) <= hi - lo + 3
  <2> HIDE DEF T
  <2> QED
    BY <1>2, <1>6, <1>7, <1>8
<1> QED
  BY <1>8, <1>9 DEF SliceTokens, CharBytes

(* What the walk looks at is well formed.                                  *)
LEMMA LookedAt ==
    ASSUME Positions
    PROVE  /\ Len(doc) \in Nat
           /\ pc = "sections" /\ s <= Len(doc) => doc[s].tokens \in Nat
           /\ pc = "units" /\ u <= Len(Units) => Unit.tokens \in Nat
           /\ pc \in {"lines", "windows"} /\ l <= Len(Unit.lines) => WellFormedLine(Line)
<1>1. Len(doc) \in Nat /\ \A i \in 1 .. Len(doc) : WellFormedSection(doc[i])
  BY DocumentsAssumption, LenProperties DEF Positions, IsList
<1>2. s <= Len(doc) => WellFormedSection(doc[s])
  BY <1>1 DEF Positions
<1>3. ASSUME s <= Len(doc), u <= Len(Units) PROVE WellFormedUnit(Unit)
  BY <1>2, <1>3 DEF Positions, WellFormedSection, Units, Unit
<1>4. ASSUME s <= Len(doc), u <= Len(Units), l <= Len(Unit.lines)
      PROVE  WellFormedLine(Line)
  BY <1>3, <1>4 DEF Positions, WellFormedUnit, Line
<1> QED
  BY <1>1, <1>2, <1>3, <1>4 DEF Positions, WellFormedSection, WellFormedUnit

(* Adding an atom within bounds keeps AtomsBounded.                        *)
LEMMA AddAtom ==
    ASSUME AtomsBounded, target' = target, NEW e,
           e.tokens \in Nat, e.tokens <= target + CharBytes - 1,
           atoms' = Append(atoms, e)
    PROVE  AtomsBounded'
<1>1. /\ atoms' \in Seq(Range(atoms'))
      /\ \A i \in DOMAIN atoms' : atoms'[i] = e \/ (i \in DOMAIN atoms /\ atoms'[i] = atoms[i])
  BY AppendEnd DEF AtomsBounded
<1> QED
  BY <1>1 DEF AtomsBounded

LEMMA AddChunk ==
    ASSUME ChunksInv, target' = target, overlap' = overlap, NEW e,
           e.tokens \in Nat, e.tokens <= target + Slack,
           chunks' = Append(chunks, e)
    PROVE  ChunksInv'
<1>1. /\ chunks' \in Seq(Range(chunks'))
      /\ \A i \in DOMAIN chunks' : chunks'[i] = e \/ (i \in DOMAIN chunks /\ chunks'[i] = chunks[i])
  BY AppendEnd DEF ChunksInv
<1> QED
  BY <1>1 DEF ChunksInv, Slack

(* Cutting a window, up to a boundary near the cut or to the end.          *)
LEMMA AddWindow ==
    ASSUME Positions, WindowStart, AtomsBounded, target' = target,
           pc = "windows", NEW end \in Nat, CutTo(end),
           \/ cut >= LineTokens(Line)
           \/ cut \in DOMAIN Line.ends /\ end <= Line.ends[cut] + CharBytes - 1
    PROVE  AtomsBounded'
<1> DEFINE lo == IF cut = target THEN 0 ELSE cut - target
<1>1. WellFormedLine(Line)
  BY LookedAt DEF Positions
<1>2. /\ target \in Nat \ {0} /\ cut \in Nat /\ start \in Nat
      /\ DOMAIN Line.ends = 1 .. Len(Line.ends)
  BY <1>1, LineEnds DEF Positions
<1>3. lo \in Nat /\ lo <= cut /\ (lo = 0 \/ (lo \in DOMAIN Line.ends /\ Line.ends[lo] <= start))
  BY <1>2 DEF WindowStart, LineTokens
<1>4. cut - lo <= target
  BY <1>2, <1>3 DEF WindowStart, LineTokens
<1>5. /\ SliceTokens(Line, start, end) \in Nat
      /\ SliceTokens(Line, start, end) <= cut - lo + CharBytes - 1
  <2> HIDE DEF lo
  <2> QED
    BY <1>1, <1>2, <1>3, WindowTokens DEF LineTokens
<1>6. SliceTokens(Line, start, end) <= target + CharBytes - 1
  <2> HIDE DEF lo
  <2> QED
    BY <1>2, <1>3, <1>4, <1>5 DEF CharBytes
<1>7. CASE end > start
  <2> DEFINE e == Atom(Slice(s, u, l, start, end), SliceTokens(Line, start, end))
  <2>1. atoms' = Append(atoms, e)
    BY <1>7 DEF CutTo
  <2>2. e.tokens = SliceTokens(Line, start, end)
    BY DEF Atom
  <2> HIDE DEF e
  <2> QED
    BY <1>5, <1>6, <2>1, <2>2, AddAtom
<1>8. CASE ~(end > start)
  BY <1>8 DEF CutTo, AtomsBounded
<1> QED
  BY <1>7, <1>8
-----------------------------------------------------------------------------
(* An open chunk that holds its seed and nothing else.                     *)
LEMMA SeededBounded ==
    ASSUME NEW q, NEW n \in Nat, q = Seeded(n), NEW m \in Nat, n <= m
    PROVE  /\ q.seed \in Nat /\ q.tokens \in Nat /\ q.tokens <= m
           /\ q.tokens = q.seed /\ q.text = <<>>
<1>1. q.seed = n /\ q.tokens = n /\ q.text = <<>>
  BY DEF Seeded, Chunk
<1> QED
  BY <1>1

LEMMA InitInv == ASSUME Init PROVE Inv
<1>1. target \in Nat \ {0} /\ overlap \in Nat
  BY BudgetsAssumption DEF Init
<1>2. <<>> \in Seq(Range(<<>>)) /\ DOMAIN <<>> = {}
  BY EmptySeq
<1>3. Positions
  BY <1>1 DEF Init, Positions
<1>4. AtomsBounded /\ ChunksInv
  BY <1>2 DEF Init, AtomsBounded, ChunksInv
<1>5. OpenBounded
  <2>1. open = Seeded(0) /\ index \in Nat \ {0} /\ hasBody = FALSE
    BY DEF Init, NoSeed
  <2>2. target + Slack \in Nat /\ 0 <= target + Slack
    BY <1>1 DEF Slack, CharBytes
  <2>3. /\ open.seed \in Nat /\ open.tokens \in Nat
        /\ open.tokens <= target + Slack /\ open.tokens = open.seed
        /\ open.text = <<>>
    BY <2>1, <2>2, SeededBounded
  <2> QED
    BY <2>1, <2>3 DEF OpenBounded
<1> QED
  BY <1>3, <1>4, <1>5 DEF Init, Inv, WindowStart

(* The steps that split the text add atoms and touch nothing of a chunk.   *)
LEMMA SplitInv ==
    ASSUME Inv,
           \/ SplitSection \/ KeepUnit \/ SplitUnit \/ KeepLine \/ SplitLine
           \/ UnitSplit \/ CutWindow \/ LastWindow
    PROVE  Inv'
<1>0. /\ doc' = doc /\ target' = target /\ overlap' = overlap /\ s' = s
      /\ index' = index /\ open' = open /\ hasBody' = hasBody /\ chunks' = chunks
  BY DEF SplitSection, KeepUnit, SplitUnit, KeepLine, SplitLine, UnitSplit,
         CutWindow, LastWindow, args, packing
<1>1. OpenBounded' /\ ChunksInv'
  BY <1>0 DEF Inv, OpenBounded, ChunksInv, Slack
<1>2. Positions /\ WindowStart /\ AtomsBounded
  BY DEF Inv
<1>3. target \in Nat \ {0} /\ cut \in Nat /\ start \in Nat /\ CharBytes = 4
  BY <1>2 DEF Positions, CharBytes
<1>4. Positions' /\ WindowStart' /\ AtomsBounded'
  <2>1. CASE SplitSection
    <3>1. Positions' /\ WindowStart'
      BY <1>0, <1>2, <2>1 DEF SplitSection, Positions, WindowStart
    <3>2. AtomsBounded'
      BY <2>1, EmptySeq DEF SplitSection, AtomsBounded
    <3> QED
      BY <3>1, <3>2
  <2>2. CASE KeepUnit
    <3>1. Positions' /\ WindowStart'
      BY <1>0, <1>2, <2>2 DEF KeepUnit, Positions, WindowStart, Units, Unit
    <3>2. AtomsBounded'
      <4> DEFINE e == Atom(UnitText(s, u), Unit.tokens)
      <4>1. e.tokens = Unit.tokens /\ atoms' = Append(atoms, e)
        BY <2>2 DEF KeepUnit, Atom
      <4>2. Unit.tokens \in Nat /\ Unit.tokens <= target
        BY <1>2, <2>2, LookedAt DEF KeepUnit
      <4>3. e.tokens \in Nat /\ e.tokens <= target + CharBytes - 1
        <5> HIDE DEF e
        <5> QED
          BY <1>3, <4>1, <4>2
      <4> HIDE DEF e
      <4> QED
        BY <1>0, <1>2, <4>1, <4>3, AddAtom
    <3> QED
      BY <3>1, <3>2
  <2>3. CASE SplitUnit
    BY <1>0, <1>2, <2>3
    DEF SplitUnit, Positions, WindowStart, AtomsBounded, Units, Unit
  <2>4. CASE KeepLine
    <3>1. Positions' /\ WindowStart'
      BY <1>0, <1>2, <2>4 DEF KeepLine, Positions, WindowStart, Units, Unit
    <3>2. AtomsBounded'
      <4> DEFINE e == Atom(LineText(s, u, l), LineTokens(Line))
      <4>1. e.tokens = LineTokens(Line) /\ atoms' = Append(atoms, e)
        BY <2>4 DEF KeepLine, Atom
      <4>2. LineTokens(Line) \in Nat /\ LineTokens(Line) <= target
        BY <1>2, <2>4, LookedAt, LineEnds DEF KeepLine, LineTokens
      <4>3. e.tokens \in Nat /\ e.tokens <= target + CharBytes - 1
        <5> HIDE DEF e
        <5> QED
          BY <1>3, <4>1, <4>2
      <4> HIDE DEF e
      <4> QED
        BY <1>0, <1>2, <4>1, <4>3, AddAtom
    <3> QED
      BY <3>1, <3>2
  <2>5. CASE SplitLine
    BY <1>0, <1>2, <2>5
    DEF SplitLine, Positions, WindowStart, AtomsBounded, Units, Unit
  <2>6. CASE UnitSplit
    BY <1>0, <1>2, <2>6
    DEF UnitSplit, Positions, WindowStart, AtomsBounded, Units, Unit
  <2>7. CASE CutWindow
    <3>1. pc = "windows" /\ l <= Len(Unit.lines) /\ WellFormedLine(Line)
      BY <1>2, <2>7, LookedAt DEF CutWindow, Positions
    <3>2. cut \in 1 .. LineTokens(Line) /\ cut < LineTokens(Line)
      <4>1. LineTokens(Line) \in Nat /\ cut < LineTokens(Line)
        BY <2>7, <3>1, LineEnds DEF CutWindow, LineTokens
      <4>2. cut = target \/ cut - target \in 1 .. LineTokens(Line)
        BY <1>2, <3>1 DEF WindowStart
      <4>3. cut >= 1
        BY <1>3, <4>1, <4>2
      <4> QED
        BY <1>3, <4>1, <4>3
    <3>3. cut \in DOMAIN Line.ends /\ Line.ends[cut] \in Nat
      BY <3>1, <3>2, LineEnds DEF LineTokens
    <3>4. /\ Boundary(Line, cut) \in Line.ends[cut] .. Bytes(Line)
          /\ Boundary(Line, cut) <= Line.ends[cut] + CharBytes - 1
      BY <3>1, <3>3, BoundaryNear
    <3>5. Bytes(Line) \in Nat
      BY <3>1, LineEnds DEF Bytes
    <3>6. Boundary(Line, cut) \in Nat /\ Boundary(Line, cut) >= Line.ends[cut]
      BY <3>3, <3>4, <3>5
    <3>7. /\ start' = Boundary(Line, cut) /\ cut' = cut + target
          /\ pc' = pc /\ u' = u /\ l' = l /\ CutTo(Boundary(Line, cut))
      BY <2>7 DEF CutWindow
    <3>8. AtomsBounded'
      BY <1>0, <1>2, <3>1, <3>3, <3>4, <3>6, <3>7, AddWindow
    <3>9. Positions'
      BY <1>0, <1>2, <1>3, <3>6, <3>7 DEF Positions, Units, Unit
    <3>10. Line' = Line
      BY <1>0, <3>7 DEF Line, Unit, Units
    <3>11. cut' - target' = cut
      BY <1>0, <1>3, <3>7
    <3>12. WindowStart'
      BY <3>2, <3>6, <3>7, <3>10, <3>11 DEF WindowStart, LineTokens
    <3> QED
      BY <3>8, <3>9, <3>12
  <2>8. CASE LastWindow
    <3>1. pc = "windows" /\ l <= Len(Unit.lines) /\ WellFormedLine(Line)
      BY <1>2, <2>8, LookedAt DEF LastWindow, Positions
    <3>2. Bytes(Line) \in Nat
      BY <3>1, LineEnds DEF Bytes
    <3>3. AtomsBounded'
      BY <1>0, <1>2, <2>8, <3>1, <3>2, AddWindow DEF LastWindow
    <3>4. Positions' /\ WindowStart'
      BY <1>0, <1>2, <2>8 DEF LastWindow, Positions, WindowStart, Units, Unit
    <3> QED
      BY <3>3, <3>4
  <2> QED
    BY <2>1, <2>2, <2>3, <2>4, <2>5, <2>6, <2>7, <2>8
<1> QED
  BY <1>1, <1>4 DEF Inv

(* The steps that make chunks leave the atoms as they are.                 *)
LEMMA PackInv ==
    ASSUME Inv,
           \/ KeepSection \/ Return \/ StartPacking
           \/ PackAtom \/ DropSeed \/ EmitChunk \/ EmitLastChunk
    PROVE  Inv'
<1>0. doc' = doc /\ target' = target /\ overlap' = overlap /\ atoms' = atoms
      /\ pc' # "windows"
  BY DEF KeepSection, Return, StartPacking, PackAtom, DropSeed, EmitChunk,
         EmitLastChunk, TakeAtom, args
<1>1. AtomsBounded' /\ WindowStart'
  BY <1>0 DEF Inv, AtomsBounded, WindowStart
<1>2. Positions /\ AtomsBounded /\ OpenBounded /\ ChunksInv
  BY DEF Inv
<1>3. /\ target \in Nat \ {0} /\ overlap \in Nat /\ CharBytes = 4
      /\ Slack \in Nat /\ Slack >= 3 /\ Slack >= overlap /\ Slack' = Slack
  BY <1>0, <1>2 DEF Positions, CharBytes, Slack
<1>4. index \in 1 .. Len(atoms) =>
        /\ atoms[index].tokens \in Nat
        /\ atoms[index].tokens <= target + 3
  BY <1>2, <1>3, LenProperties DEF AtomsBounded
<1>5. Len(atoms) \in Nat /\ index \in Nat \ {0}
  BY <1>2, LenProperties DEF AtomsBounded, OpenBounded
<1>6. Positions' /\ OpenBounded' /\ ChunksInv'
  <2>1. CASE KeepSection
    <3>1. Positions'
      BY <1>0, <1>2, <2>1 DEF KeepSection, Positions
    <3>2. OpenBounded'
      BY <1>0, <1>2, <1>3, <2>1 DEF KeepSection, OpenBounded, packing
    <3>3. ChunksInv'
      <4> DEFINE e == Chunk(0, SectionText(s), doc[s].tokens)
      <4>1. e.tokens = doc[s].tokens /\ chunks' = Append(chunks, e)
        BY <2>1 DEF KeepSection, Chunk
      <4>2. doc[s].tokens \in Nat /\ doc[s].tokens <= target
        BY <1>2, <2>1, LookedAt DEF KeepSection
      <4> HIDE DEF e
      <4>3. e.tokens \in Nat /\ e.tokens <= target + Slack
        BY <1>3, <4>1, <4>2
      <4> QED
        BY <1>0, <1>2, <4>1, <4>3, AddChunk
    <3> QED
      BY <3>1, <3>2, <3>3
  <2>2. CASE Return
    BY <1>0, <1>2, <1>3, <2>2
    DEF Return, Positions, OpenBounded, ChunksInv, packing
  <2>3. CASE StartPacking
    <3>1. Positions' /\ ChunksInv'
      BY <1>0, <1>2, <1>3, <2>3 DEF StartPacking, Positions, ChunksInv
    <3>2. OpenBounded'
      <4>1. open' = Seeded(0) /\ index' \in Nat \ {0} /\ hasBody' = FALSE
        BY <2>3 DEF StartPacking, NoSeed
      <4>2. target' + Slack' \in Nat /\ 0 <= target' + Slack'
        BY <1>0, <1>3
      <4>3. /\ open'.seed \in Nat /\ open'.tokens \in Nat
            /\ open'.tokens <= target' + Slack' /\ open'.tokens = open'.seed
            /\ open'.text = <<>>
        BY <4>1, <4>2, SeededBounded
      <4> QED
        BY <4>1, <4>3 DEF OpenBounded
    <3> QED
      BY <3>1, <3>2
  <2>4. CASE PackAtom
    <3>1. PICK j \in JoinCosts :
            /\ IF hasBody THEN CandidateTokens(j) <= target
               ELSE open.seed > 0 => CandidateTokens(j) <= target + overlap
            /\ TakeAtom(open.seed, CandidateTokens(j))
      BY <2>4 DEF PackAtom
    <3>2. index \in 1 .. Len(atoms) /\ j \in Nat
      BY <1>5, <2>4, CostsAssumption DEF PackAtom
    <3>3. CandidateTokens(j) \in Nat
      BY <1>2, <1>4, <3>2 DEF OpenBounded, CandidateTokens
    <3>4. CandidateTokens(j) <= target + Slack
      <4>1. CASE hasBody \/ open.seed > 0
        BY <1>3, <3>1, <3>3, <4>1
      <4>2. CASE ~hasBody /\ ~(open.seed > 0)
        BY <1>2, <1>3, <1>4, <3>2, <4>2 DEF OpenBounded, CandidateTokens
      <4> QED
        BY <4>1, <4>2
    <3>5. /\ open'.seed = open.seed /\ open'.tokens = CandidateTokens(j)
          /\ hasBody' = TRUE /\ index' = index + 1
      BY <3>1 DEF TakeAtom, Chunk
    <3>6. OpenBounded'
      BY <1>0, <1>2, <1>3, <1>5, <3>3, <3>4, <3>5 DEF OpenBounded
    <3>7. Positions' /\ ChunksInv'
      BY <1>0, <1>2, <1>3, <2>4, <3>1 DEF PackAtom, TakeAtom, Positions, ChunksInv
    <3> QED
      BY <3>6, <3>7
  <2>5. CASE DropSeed
    <3>1. index \in 1 .. Len(atoms) /\ TakeAtom(0, atoms[index].tokens)
      BY <1>5, <2>5 DEF DropSeed
    <3>2. /\ open'.seed = 0 /\ open'.tokens = atoms[index].tokens
          /\ hasBody' = TRUE /\ index' = index + 1
      BY <3>1 DEF TakeAtom, Chunk
    <3>3. OpenBounded'
      BY <1>0, <1>3, <1>4, <1>5, <3>1, <3>2 DEF OpenBounded
    <3>4. Positions' /\ ChunksInv'
      BY <1>0, <1>2, <1>3, <2>5, <3>1 DEF DropSeed, TakeAtom, Positions, ChunksInv
    <3> QED
      BY <3>3, <3>4
  <2>6. CASE EmitChunk
    <3>1. PICK lost \in Strips : open' = Seeded(TailTokens(overlap, lost))
      BY <2>6 DEF EmitChunk
    <3>2. lost \in Nat /\ open.tokens \in Nat /\ overlap \in Nat
      BY <1>2, <1>3, CostsAssumption DEF OpenBounded
    <3>3. TailTokens(overlap, lost) \in Nat /\ TailTokens(overlap, lost) <= overlap
      BY <3>2 DEF TailTokens
    <3>4. hasBody' = FALSE /\ index' = index
      BY <2>6 DEF EmitChunk
    <3>5. OpenBounded'
      <4>1. target' + Slack' \in Nat /\ TailTokens(overlap, lost) <= target' + Slack'
        BY <1>0, <1>3, <3>3
      <4> QED
        BY <1>5, <3>1, <3>3, <3>4, <4>1, SeededBounded DEF OpenBounded
    <3>6. Positions'
      BY <1>0, <1>2, <2>6 DEF EmitChunk, Positions
    <3>7. ChunksInv'
      BY <1>0, <1>2, <2>6, AddChunk DEF EmitChunk, OpenBounded
    <3> QED
      BY <3>5, <3>6, <3>7
  <2>7. CASE EmitLastChunk
    <3>1. OpenBounded'
      <4>1. open' = Seeded(0) /\ index' = index /\ hasBody' = FALSE
        BY <2>7 DEF EmitLastChunk, NoSeed
      <4>2. target' + Slack' \in Nat /\ 0 <= target' + Slack'
        BY <1>0, <1>3
      <4> QED
        BY <1>5, <4>1, <4>2, SeededBounded DEF OpenBounded
    <3>2. Positions'
      BY <1>0, <1>2, <2>7 DEF EmitLastChunk, Positions
    <3>3. ChunksInv'
      <4>1. CASE hasBody
        BY <1>0, <1>2, <2>7, <4>1, AddChunk DEF EmitLastChunk, OpenBounded
      <4>2. CASE ~hasBody
        <5>1. chunks' = chunks /\ target' = target /\ Slack' = Slack
          BY <1>0, <2>7, <4>2 DEF EmitLastChunk, args, Slack
        <5>2. QED BY <1>2, <5>1 DEF ChunksInv
      <4>3. QED BY <4>1, <4>2
    <3> QED
      BY <3>1, <3>2, <3>3
  <2> QED
    BY <2>1, <2>2, <2>3, <2>4, <2>5, <2>6, <2>7
<1> QED
  BY <1>1, <1>6 DEF Inv

(* No chunk of chunk_markdown is over the ceiling that keeps its whole     *)
(* text within what the embedder reads: for every body, every budget of at *)
(* least one token, every cost of the joints and loss of the seeds.        *)
THEOREM ChunkCeiling == Spec => []ChunksBounded
<1>1. Init => Inv
  BY InitInv
<1>2. Inv /\ [Next]_vars => Inv'
  <2> SUFFICES ASSUME Inv, [Next]_vars PROVE Inv'
    OBVIOUS
  <2>1. CASE Next
    BY <2>1, SplitInv, PackInv DEF Next
  <2>2. CASE UNCHANGED vars
    BY <2>2 DEF vars, Inv, Positions, WindowStart, AtomsBounded, OpenBounded,
                ChunksInv, Slack, Units, Unit, Line
  <2> QED
    BY <2>1, <2>2
<1>3. Inv => ChunksBounded
  BY DEF Inv, ChunksInv, ChunksBounded
<1> QED
  BY <1>1, <1>2, <1>3, PTL DEF Spec
-----------------------------------------------------------------------------
(* A set of numbers that holds 0 and every successor of what it holds has  *)
(* them all: the least number outside it would be the successor of one     *)
(* inside.                                                                 *)
LEMMA Inductive ==
    ASSUME NEW S, 0 \in S, \A n \in Nat : n \in S => n + 1 \in S
    PROVE  Nat \subseteq S
<1> DEFINE R == OpToRel(<, Nat)
           T == Nat \ S
<1>1. IsWellFoundedOn(R, Nat) /\ \A x, y \in Nat : y < x => <<y, x>> \in R
  BY NatLessThanWellFounded DEF OpToRel
<1>2. ASSUME T # {} PROVE FALSE
  <2> HIDE DEF R
  <2>1. PICK n \in T : \A m \in T : <<m, n>> \notin R
    <3>1. T \subseteq Nat
      OBVIOUS
    <3> HIDE DEF T
    <3>2. QED BY <1>1, <1>2, <3>1, WFMin
  <2>2. n \in Nat /\ n # 0
    OBVIOUS
  <2>3. n - 1 \in Nat /\ n - 1 < n /\ (n - 1) + 1 = n
    BY <2>2
  <2>4. n - 1 \in S
    BY <1>1, <2>1, <2>2, <2>3
  <2>5. QED BY <2>1, <2>3, <2>4
<1>3. QED BY <1>2

(* What FlattenSeq has put together after each element of its argument.    *)
FlattensTo(f, q) ==
    /\ f[0] = <<>>
    /\ \A i \in 1 .. Len(q) : f[i] = f[i - 1] \o q[i]

LEMMA PartlyFlattened ==
    ASSUME NEW S, NEW q \in Seq(Seq(S))
    PROVE  \E f \in [0 .. Len(q) -> Seq(S)] : FlattensTo(f, q)
<1> DEFINE Upto(n, f) == f[0] = <<>> /\ \A i \in 1 .. n : f[i] = f[i - 1] \o q[i]
           D == {n \in Nat : n <= Len(q) => \E f \in [0 .. n -> Seq(S)] : Upto(n, f)}
<1>1. Len(q) \in Nat /\ \A i \in 1 .. Len(q) : q[i] \in Seq(S)
  BY LenProperties, ElementOfSeq
<1>2. <<>> \in Seq(S)
  BY EmptySeq
<1>3. 0 \in D
  <2>1. [i \in 0 .. 0 |-> <<>>] \in [0 .. 0 -> Seq(S)] /\ Upto(0, [i \in 0 .. 0 |-> <<>>])
    BY <1>2
  <2>2. QED BY <2>1
<1>4. ASSUME NEW n \in Nat, n \in D PROVE n + 1 \in D
  <2>1. SUFFICES ASSUME n + 1 <= Len(q)
                 PROVE  \E f \in [0 .. n + 1 -> Seq(S)] : Upto(n + 1, f)
    <3> HIDE DEF Upto
    <3>1. QED OBVIOUS
  <2>2. PICK f \in [0 .. n -> Seq(S)] : Upto(n, f)
    <3>1. n <= Len(q)
      BY <1>1, <2>1
    <3> HIDE DEF Upto
    <3>2. QED BY <1>4, <3>1
  <2> DEFINE g == [i \in 0 .. n + 1 |-> IF i <= n THEN f[i] ELSE f[n] \o q[n + 1]]
  <2>3. f[n] \in Seq(S) /\ q[n + 1] \in Seq(S)
    BY <1>1, <2>1, <2>2
  <2>4. f[n] \o q[n + 1] \in Seq(S)
    BY <2>3, ConcatProperties
  <2>5. g \in [0 .. n + 1 -> Seq(S)]
    <3>1. \A i \in 0 .. n + 1 : i <= n => f[i] \in Seq(S)
      BY <2>2
    <3>2. QED BY <2>4, <3>1
  <2>6. g[0] = <<>>
    BY <2>2
  <2>7. ASSUME NEW i \in 1 .. n + 1 PROVE g[i] = g[i - 1] \o q[i]
    <3>1. CASE i <= n
      <4>1. g[i] = f[i] /\ g[i - 1] = f[i - 1] /\ i \in 1 .. n
        BY <3>1, <2>7
      <4>2. QED BY <2>2, <4>1
    <3>2. CASE i = n + 1
      <4>1. g[i] = f[n] \o q[n + 1] /\ g[i - 1] = f[n]
        BY <3>2
      <4>2. QED BY <3>2, <4>1
    <3>3. i <= n \/ i = n + 1
      OBVIOUS
    <3> HIDE DEF g
    <3>4. QED BY <3>1, <3>2, <3>3
  <2>8. QED BY <2>5, <2>6, <2>7
<1>5. Nat \subseteq D
  <2> HIDE DEF D
  <2>1. QED BY <1>3, <1>4, Inductive
<1>6. \E f \in [0 .. Len(q) -> Seq(S)] : Upto(Len(q), f)
  <2> HIDE DEF Upto
  <2>1. QED BY <1>1, <1>5
<1>7. QED BY <1>6 DEF FlattensTo

LEMMA SameFlattening ==
    ASSUME NEW q, Len(q) \in Nat, NEW f, FlattensTo(f, q), NEW g, FlattensTo(g, q)
    PROVE  \A i \in 0 .. Len(q) : f[i] = g[i]
<1> DEFINE D == {n \in Nat : n <= Len(q) => f[n] = g[n]}
<1>1. 0 \in D
  BY DEF FlattensTo
<1>2. ASSUME NEW n \in Nat, n \in D PROVE n + 1 \in D
  <2>1. CASE n + 1 <= Len(q)
    <3>1. n + 1 \in 1 .. Len(q) /\ (n + 1) - 1 = n /\ n <= Len(q)
      BY <2>1
    <3>2. f[n + 1] = f[n] \o q[n + 1] /\ g[n + 1] = g[n] \o q[n + 1]
      BY <3>1 DEF FlattensTo
    <3>3. f[n] = g[n]
      BY <1>2, <3>1
    <3>4. f[n + 1] = g[n + 1]
      BY <3>2, <3>3
    <3> HIDE DEF D
    <3>5. QED BY <3>4 DEF D
  <2>2. CASE ~(n + 1 <= Len(q))
    BY <2>2
  <2>3. QED BY <2>1, <2>2
<1>3. Nat \subseteq D
  <2> HIDE DEF D
  <2>1. QED BY <1>1, <1>2, Inductive
<1>4. QED BY <1>3

(* FlattenSeq is where any such run ends.                                  *)
LEMMA FlattenedBy ==
    ASSUME NEW S, NEW q \in Seq(Seq(S)), NEW f, FlattensTo(f, q)
    PROVE  FlattenSeq(q) = f[Len(q)] /\ FlattenSeq(q) \in Seq(S)
<1> DEFINE n == Len(q)
           Is(F) == F = [i \in 1 .. n |-> IF i = 1 THEN q[i] ELSE F[i - 1] \o q[i]]
           F == CHOOSE F : Is(F)
<1>1. n \in Nat /\ \A i \in 1 .. n : q[i] \in Seq(S)
  BY LenProperties, ElementOfSeq
<1>2. PICK h \in [0 .. n -> Seq(S)] : FlattensTo(h, q)
  BY PartlyFlattened
<1>3. \A i \in 0 .. n : f[i] = h[i]
  BY <1>1, <1>2, SameFlattening
<1>4. f[n] \in Seq(S)
  BY <1>1, <1>2, <1>3
<1>5. CASE n = 0
  <2>1. q = <<>>
    BY <1>5, EmptySeq
  <2>2. FlattenSeq(q) = q
    BY <1>5 DEF FlattenSeq
  <2>3. QED BY <1>4, <1>5, <2>1, <2>2 DEF FlattensTo
<1>6. CASE n # 0
  <2> DEFINE G == [i \in 1 .. n |-> h[i]]
  <2>1. \A i \in 1 .. n : G[i] = IF i = 1 THEN q[i] ELSE G[i - 1] \o q[i]
    <3>1. ASSUME NEW i \in 1 .. n, i = 1 PROVE G[i] = q[i]
      <4>1. h[1] = <<>> \o q[1]
        <5>1. 1 \in 1 .. Len(q) /\ 1 - 1 = 0
          BY <3>1
        <5>2. h[1] = h[1 - 1] \o q[1] /\ h[0] = <<>>
          BY <1>2, <5>1 DEF FlattensTo
        <5>3. QED BY <5>1, <5>2
      <4>2. <<>> \o q[1] = q[1]
        BY <1>1, <3>1, ConcatEmptySeq
      <4>3. QED BY <3>1, <4>1, <4>2
    <3>2. ASSUME NEW i \in 1 .. n, i # 1 PROVE G[i] = G[i - 1] \o q[i]
      <4>1. i - 1 \in 1 .. n
        BY <1>1, <3>2
      <4>2. h[i] = h[i - 1] \o q[i]
        BY <1>2 DEF FlattensTo
      <4>3. QED BY <4>1, <4>2
    <3>3. QED BY <3>1, <3>2
  <2>2. Is(G)
    <3>1. G = [i \in 1 .. n |-> IF i = 1 THEN q[i] ELSE G[i - 1] \o q[i]]
      BY <2>1
    <3>2. QED BY <3>1
  <2>3. Is(F)
    <3> HIDE DEF Is, G
    <3>1. QED BY <2>2
  <2> HIDE DEF F
  <2>4. \A i \in 1 .. n : F[i] = IF i = 1 THEN q[i] ELSE F[i - 1] \o q[i]
    <3>1. F = [i \in 1 .. n |-> IF i = 1 THEN q[i] ELSE F[i - 1] \o q[i]]
      BY <2>3
    <3>2. QED BY <3>1
  <2> DEFINE e == [i \in 0 .. n |-> IF i = 0 THEN <<>> ELSE F[i]]
  <2>5. FlattensTo(e, q)
    <3>1. e[0] = <<>>
      BY <1>1
    <3>2. ASSUME NEW i \in 1 .. n, i = 1 PROVE e[i] = e[i - 1] \o q[i]
      <4>1. <<>> \o q[1] = q[1]
        BY <1>1, <3>2, ConcatEmptySeq
      <4>2. e[i] = q[1] /\ e[i - 1] = <<>>
        BY <2>4, <3>1, <3>2
      <4>3. QED BY <3>2, <4>1, <4>2
    <3>3. ASSUME NEW i \in 1 .. n, i # 1 PROVE e[i] = e[i - 1] \o q[i]
      <4>1. e[i] = F[i] /\ e[i - 1] = F[i - 1]
        BY <1>1, <3>3
      <4>2. QED BY <2>4, <3>3, <4>1
    <3>4. QED BY <3>1, <3>2, <3>3 DEF FlattensTo
  <2>6. e[n] = f[n]
    <3> HIDE DEF e
    <3>1. QED BY <1>1, <2>5, SameFlattening
  <2>7. FlattenSeq(q) = F[n]
    BY <1>6 DEF FlattenSeq, F
  <2>8. QED BY <1>1, <1>4, <1>6, <2>6, <2>7
<1>7. QED BY <1>5, <1>6

LEMMA FlattenNone == FlattenSeq(<<>>) = <<>>
BY DEF FlattenSeq

LEMMA FlattenAppend ==
    ASSUME NEW S, NEW q \in Seq(Seq(S)), NEW e \in Seq(S)
    PROVE  /\ FlattenSeq(q) \in Seq(S)
           /\ FlattenSeq(Append(q, e)) = FlattenSeq(q) \o e
           /\ FlattenSeq(Append(q, e)) \in Seq(S)
<1> DEFINE n == Len(q)
           a == Append(q, e)
<1>1. PICK f \in [0 .. n -> Seq(S)] : FlattensTo(f, q)
  BY PartlyFlattened
<1>2. FlattenSeq(q) = f[n] /\ FlattenSeq(q) \in Seq(S)
  BY <1>1, FlattenedBy
<1>3. /\ n \in Nat /\ a \in Seq(Seq(S)) /\ Len(a) = n + 1 /\ a[n + 1] = e
      /\ \A i \in 1 .. n : a[i] = q[i]
  BY AppendProperties, LenProperties
<1> DEFINE g == [i \in 0 .. n + 1 |-> IF i <= n THEN f[i] ELSE f[n] \o e]
<1>4. FlattensTo(g, a)
  <2>1. g[0] = <<>>
    BY <1>1, <1>3 DEF FlattensTo
  <2>2. ASSUME NEW i \in 1 .. n PROVE g[i] = g[i - 1] \o a[i]
    <3>1. g[i] = f[i] /\ g[i - 1] = f[i - 1]
      BY <1>3
    <3>2. QED BY <1>1, <1>3, <3>1 DEF FlattensTo
  <2>3. g[n + 1] = g[(n + 1) - 1] \o a[n + 1]
    BY <1>3
  <2> HIDE DEF g, n, a
  <2>4. \A i \in 1 .. Len(a) : i \in 1 .. n \/ i = n + 1
    BY <1>3
  <2>5. QED BY <2>1, <2>2, <2>3, <2>4 DEF FlattensTo
<1>5. g[n + 1] = f[n] \o e
  BY <1>3
<1> HIDE DEF g, a
<1>6. FlattenSeq(a) = g[n + 1] /\ FlattenSeq(a) \in Seq(S)
  BY <1>3, <1>4, FlattenedBy
<1>7. QED BY <1>2, <1>5, <1>6 DEF a

LEMMA ThreeJoined ==
    \A S : \A x, y, z \in Seq(S) : (x \o y) \o z = x \o (y \o z)
BY ConcatAssociative

LEMMA FlattenFirst ==
    ASSUME NEW S, NEW q \in Seq(Seq(S)), q # <<>>
    PROVE  FlattenSeq(q) = q[1] \o FlattenSeq(SubSeq(q, 2, Len(q)))
<1> DEFINE n == Len(q)
           t == SubSeq(q, 2, n)
<1>1. n \in Nat \ {0} /\ \A i \in 1 .. n : q[i] \in Seq(S)
  BY EmptySeq, LenProperties, ElementOfSeq
<1>2. /\ t \in Seq(Seq(S)) /\ Len(t) = n - 1
      /\ \A i \in 1 .. n - 1 : t[i] = q[i + 1]
  <2>1. 2 \in Int /\ n \in Int /\ \A i \in 2 .. n : q[i] \in Seq(S)
    BY <1>1
  <2>2. t \in Seq(Seq(S)) /\ Len(t) = (IF 2 <= n THEN n - 2 + 1 ELSE 0)
        /\ \A i \in 1 .. n - 2 + 1 : t[i] = q[2 + i - 1]
    BY <2>1, SubSeqProperties
  <2>3. ASSUME NEW i \in 1 .. n - 1 PROVE t[i] = q[i + 1]
    <3>1. i \in 1 .. n - 2 + 1 /\ 2 + i - 1 = i + 1
      BY <1>1
    <3> HIDE DEF t, n
    <3>2. QED BY <2>2, <3>1
  <2>4. Len(t) = n - 1
    <3> HIDE DEF t, n
    <3>1. QED BY <1>1, <2>2
  <2>5. QED BY <2>2, <2>3, <2>4
<1>3. PICK f : f \in [0 .. Len(t) -> Seq(S)] /\ FlattensTo(f, t)
  BY <1>2, PartlyFlattened
<1>4. FlattenSeq(t) = f[n - 1]
  BY <1>2, <1>3, FlattenedBy
<1> DEFINE g == [i \in 0 .. n |-> IF i = 0 THEN <<>> ELSE q[1] \o f[i - 1]]
<1>5. q[1] \in Seq(S) /\ \A i \in 0 .. n - 1 : f[i] \in Seq(S)
  <2>1. 0 .. Len(t) = 0 .. n - 1 /\ 1 \in 1 .. n
    BY <1>1, <1>2
  <2> HIDE DEF n, t
  <2>2. QED BY <1>1, <1>3, <2>1
<1>6. FlattensTo(g, q)
  <2>1. g[0] = <<>>
    BY <1>1
  <2>2. ASSUME NEW i \in 1 .. n, i = 1 PROVE g[i] = g[i - 1] \o q[i]
    <3>1. i \in 0 .. n /\ i # 0 /\ i - 1 = 0
      BY <1>1, <2>2
    <3>5. g[i] = q[1] \o f[i - 1]
      BY <3>1
    <3>2. f[0] = <<>>
      BY <1>3 DEF FlattensTo
    <3>3. q[1] \o <<>> = q[1] /\ <<>> \o q[1] = q[1]
      BY <1>5, ConcatEmptySeq
    <3> HIDE DEF g
    <3>4. QED BY <2>1, <2>2, <3>1, <3>2, <3>3, <3>5
  <2>3. ASSUME NEW i \in 2 .. n PROVE g[i] = g[i - 1] \o q[i]
    <3>1. i - 1 \in 1 .. n - 1 /\ i - 2 \in 0 .. n - 1
      BY <1>1
    <3>2. f[i - 1] = f[i - 2] \o t[i - 1]
      <4>1. i - 1 \in 1 .. Len(t) /\ (i - 1) - 1 = i - 2
        BY <1>2, <3>1
      <4>2. f[i - 1] = f[(i - 1) - 1] \o t[i - 1]
        BY <1>3, <4>1 DEF FlattensTo
      <4>3. QED BY <4>1, <4>2
    <3>3. t[i - 1] = q[i] /\ q[i] \in Seq(S)
      <4>1. (i - 1) + 1 = i /\ i \in 1 .. n
        BY <1>1
      <4>2. QED BY <1>1, <1>2, <3>1, <4>1
    <3>4. g[i] = q[1] \o f[i - 1] /\ g[i - 1] = q[1] \o f[i - 2]
      <4>1. i \in 0 .. n /\ i # 0 /\ i - 1 \in 0 .. n /\ i - 1 # 0 /\ (i - 1) - 1 = i - 2
        BY <1>1
      <4>2. QED BY <4>1
    <3>5. g[i - 1] \o q[i] = q[1] \o f[i - 1]
      <4>1. f[i - 2] \in Seq(S) /\ q[1] \in Seq(S) /\ q[i] \in Seq(S)
        BY <1>5, <3>1, <3>3
      <4>2. f[i - 1] = f[i - 2] \o q[i]
        BY <3>2, <3>3
      <4> HIDE DEF g, n, t
      <4>3. PICK x \in Seq(S), y \in Seq(S), z \in Seq(S) : x = q[1] /\ y = f[i - 2] /\ z = q[i]
        BY <4>1
      <4>4. (x \o y) \o z = x \o (y \o z)
        BY ThreeJoined
      <4>5. QED BY <3>4, <4>2, <4>3, <4>4
    <3>6. QED BY <3>4, <3>5
  <2> HIDE DEF g
  <2>4. \A i \in 1 .. n : i = 1 \/ i \in 2 .. n
    BY <1>1
  <2>5. ASSUME NEW i \in 1 .. n PROVE g[i] = g[i - 1] \o q[i]
    <3>1. QED BY <2>2, <2>3, <2>4
  <2>6. QED BY <2>1, <2>5 DEF FlattensTo
<1>7. g[n] = q[1] \o f[n - 1]
  <2>1. n \in 0 .. n /\ n # 0
    BY <1>1
  <2> HIDE DEF n
  <2>2. QED BY <2>1
<1> HIDE DEF g
<1>8. FlattenSeq(q) = g[n]
  BY <1>6, FlattenedBy
<1>9. QED BY <1>4, <1>7, <1>8
-----------------------------------------------------------------------------
(* The bytes of a body and where they are.                                 *)
Byte == Nat \X Nat \X Nat \X Nat
Text == Seq(Byte)
x ++ y == x \o y           \* a text and the text after it
TextsOf(parts) == \A i \in DOMAIN parts : parts[i].text \in Text

(* Slices of a line: none of nothing, and two that meet are one.           *)
LEMMA Slices ==
    ASSUME NEW i \in Nat, NEW j \in Nat, NEW k \in Nat,
           NEW from \in Nat, NEW mid \in Nat, NEW to \in Nat, from <= mid, mid <= to
    PROVE  /\ Slice(i, j, k, from, to) \in Text
           /\ Slice(i, j, k, from, from) = <<>>
           /\ Slice(i, j, k, from, mid) ++ Slice(i, j, k, mid, to) = Slice(i, j, k, from, to)
<1>1. ASSUME NEW a \in Nat, NEW b \in Nat, a <= b
      PROVE  /\ Slice(i, j, k, a, b) \in Text
             /\ Len(Slice(i, j, k, a, b)) = b - a
             /\ \A c \in 1 .. b - a : Slice(i, j, k, a, b)[c] = <<i, j, k, a + c>>
  <2>1. b - a \in Nat /\ \A c \in 1 .. b - a : <<i, j, k, a + c>> \in Byte
    BY <1>1 DEF Byte
  <2>2. Slice(i, j, k, a, b) \in [1 .. b - a -> Byte]
    BY <2>1 DEF Slice
  <2>3. Slice(i, j, k, a, b) \in Text
    BY <2>1, <2>2, SeqDef DEF Text
  <2>4. DOMAIN Slice(i, j, k, a, b) = 1 .. b - a
    BY <2>1 DEF Slice
  <2>5. DOMAIN Slice(i, j, k, a, b) = 1 .. Len(Slice(i, j, k, a, b))
        /\ Len(Slice(i, j, k, a, b)) \in Nat
    BY <2>3, LenProperties DEF Text
  <2>6. Len(Slice(i, j, k, a, b)) = b - a
    BY <2>1, <2>4, <2>5
  <2>7. QED BY <2>1, <2>3, <2>6 DEF Slice
<1>2. Slice(i, j, k, from, from) = <<>>
  <2>1. Slice(i, j, k, from, from) \in Seq(Byte) /\ Len(Slice(i, j, k, from, from)) = 0
    BY <1>1 DEF Text
  <2>2. QED BY <2>1, EmptySeq
<1> DEFINE x == Slice(i, j, k, from, mid)
           y == Slice(i, j, k, mid, to)
           z == Slice(i, j, k, from, to)
<1>3. /\ x \in Seq(Byte) /\ Len(x) = mid - from
      /\ \A c \in 1 .. mid - from : x[c] = <<i, j, k, from + c>>
  BY <1>1 DEF Text
<1>4. /\ y \in Seq(Byte) /\ Len(y) = to - mid
      /\ \A c \in 1 .. to - mid : y[c] = <<i, j, k, mid + c>>
  BY <1>1 DEF Text
<1>5. /\ z \in Seq(Byte) /\ Len(z) = to - from
      /\ \A c \in 1 .. to - from : z[c] = <<i, j, k, from + c>>
  <2>1. from <= to
    OBVIOUS
  <2>2. QED BY <1>1, <2>1 DEF Text
<1> HIDE DEF x, y, z
<1>6. /\ x \o y \in Seq(Byte) /\ Len(x \o y) = Len(x) + Len(y)
      /\ \A c \in 1 .. Len(x) + Len(y) :
            (x \o y)[c] = IF c <= Len(x) THEN x[c] ELSE y[c - Len(x)]
  BY <1>3, <1>4, ConcatProperties
<1>7. ASSUME NEW c \in 1 .. Len(x \o y) PROVE (x \o y)[c] = z[c]
  <2>1. c \in 1 .. to - from /\ Len(x) + Len(y) = to - from
    BY <1>3, <1>4, <1>6
  <2>2. CASE c <= Len(x)
    <3>1. c \in 1 .. mid - from /\ c \in 1 .. Len(x) + Len(y)
      BY <1>3, <1>6, <2>1, <2>2
    <3>2. (x \o y)[c] = x[c]
      BY <1>6, <2>2, <3>1
    <3>3. QED BY <1>3, <1>5, <2>1, <3>1, <3>2
  <2>3. CASE ~(c <= Len(x))
    <3>1. c - Len(x) \in 1 .. to - mid /\ mid + (c - Len(x)) = from + c
      BY <1>3, <2>1, <2>3
    <3>2. (x \o y)[c] = y[c - Len(x)]
      BY <1>6, <2>1, <2>3
    <3>3. QED BY <1>4, <1>5, <2>1, <3>1, <3>2
  <2>4. QED BY <2>2, <2>3
<1>8. x \o y = z
  <2>1. Len(x \o y) = Len(z)
    BY <1>3, <1>4, <1>5, <1>6
  <2>2. QED BY <1>5, <1>6, <1>7, <2>1, SeqEqual
<1>9. QED BY <1>2, <1>5, <1>8 DEF x, y, z, Text, ++

(* One more text at the end of what is flattened.                          *)
LEMMA OneMore ==
    ASSUME NEW n \in Nat, NEW p \in [1 .. n -> Text], NEW q \in [1 .. n + 1 -> Text],
           \A i \in 1 .. n : p[i] = q[i]
    PROVE  /\ FlattenSeq(p) \in Text /\ FlattenSeq(q) \in Text
           /\ FlattenSeq(q) = FlattenSeq(p) ++ q[n + 1]
<1>1. q[n + 1] \in Text
  <2>1. n + 1 \in 1 .. n + 1
    OBVIOUS
  <2>2. QED BY <2>1
<1>2. p \in Seq(Text) /\ q \in Seq(Text)
  BY SeqDef
<1>3. Len(p) = n /\ Len(q) = n + 1
  <2>1. Len(p) \in Nat /\ Len(q) \in Nat /\ 1 .. n = 1 .. Len(p) /\ 1 .. n + 1 = 1 .. Len(q)
    BY <1>2, LenProperties
  <2>2. QED BY <2>1
<1>4. /\ Append(p, q[n + 1]) \in Seq(Text) /\ Len(Append(p, q[n + 1])) = n + 1
      /\ \A i \in 1 .. n : Append(p, q[n + 1])[i] = p[i]
      /\ Append(p, q[n + 1])[n + 1] = q[n + 1]
  BY <1>1, <1>2, <1>3, AppendProperties
<1>5. Append(p, q[n + 1]) = q
  <2>1. \A i \in 1 .. n + 1 : i \in 1 .. n \/ i = n + 1
    OBVIOUS
  <2>2. \A i \in 1 .. n + 1 : Append(p, q[n + 1])[i] = q[i]
    BY <1>4, <2>1
  <2>3. QED BY <1>2, <1>3, <1>4, <2>2, SeqEqual
<1>6. QED BY <1>1, <1>2, <1>5, FlattenAppend DEF Text, ++

LEMMA FlattenTyped ==
    ASSUME NEW n \in Nat, NEW q \in [1 .. n -> Text]
    PROVE  FlattenSeq(q) \in Text /\ (n = 0 => FlattenSeq(q) = <<>>)
<1>1. q \in Seq(Text)
  BY SeqDef
<1>2. FlattenSeq(q) \in Text
  <2>1. \A e \in Text : FlattenSeq(q) \in Text
    BY <1>1, FlattenAppend DEF Text
  <2>2. QED BY <2>1, EmptySeq DEF Text
<1>3. ASSUME n = 0 PROVE FlattenSeq(q) = <<>>
  <2>1. Len(q) \in Nat /\ 1 .. Len(q) = 1 .. 0
    BY <1>1, <1>3, LenProperties
  <2>2. Len(q) = 0
    <3>1. Len(q) # 0 => 1 \in 1 .. Len(q)
      BY <2>1
    <3>2. 1 \notin 1 .. 0
      OBVIOUS
    <3>3. QED BY <2>1, <3>1, <3>2
  <2>3. q = <<>>
    BY <1>1, <2>2, EmptySeq
  <2>4. QED BY <2>3, FlattenNone
<1>4. QED BY <1>2, <1>3

(* The texts of parts, when one is added and when the first is taken.      *)
LEMMA TextsAdded ==
    ASSUME NEW q, q \in Seq(Range(q)), TextsOf(q), NEW e, e.text \in Text
    PROVE  /\ Texts(q) \in Text /\ TextsOf(Append(q, e))
           /\ Texts(Append(q, e)) = Texts(q) ++ e.text
<1> DEFINE n == Len(q)
           a == Append(q, e)
           p == [i \in DOMAIN q |-> q[i].text]
           r == [i \in DOMAIN a |-> a[i].text]
<1>1. n \in Nat /\ DOMAIN q = 1 .. n
  BY LenProperties
<1>2. DOMAIN a = 1 .. n + 1 /\ a[n + 1] = e /\ \A i \in 1 .. n : a[i] = q[i]
  <2> DEFINE S == Range(q) \cup {e}
  <2>1. q \in Seq(S) /\ e \in S
    OBVIOUS
  <2> HIDE DEF S
  <2>2. a \in Seq(S) /\ Len(a) = n + 1 /\ (\A i \in 1 .. n : a[i] = q[i]) /\ a[n + 1] = e
    BY <2>1, AppendProperties
  <2>3. QED BY <2>2, LenProperties
<1> HIDE DEF n, a
<1>3. \A i \in 1 .. n : p[i] = q[i].text /\ q[i].text \in Text
  BY <1>1 DEF TextsOf
<1>4. \A i \in 1 .. n + 1 : r[i] = a[i].text
  BY <1>2
<1>5. \A i \in 1 .. n + 1 : a[i].text \in Text /\ (i \in 1 .. n => a[i].text = q[i].text)
  <2>1. \A i \in 1 .. n + 1 : i \in 1 .. n \/ i = n + 1
    BY <1>1
  <2>2. QED BY <1>2, <1>3, <2>1
<1>6. TextsOf(a)
  BY <1>2, <1>5 DEF TextsOf
<1>7. p \in [1 .. n -> Text] /\ r \in [1 .. n + 1 -> Text]
  BY <1>1, <1>2, <1>3, <1>5
<1>8. r[n + 1] = e.text /\ \A i \in 1 .. n : p[i] = r[i]
  <2>1. n + 1 \in 1 .. n + 1 /\ \A i \in 1 .. n : i \in 1 .. n + 1
    BY <1>1
  <2> HIDE DEF p, r
  <2>2. QED BY <1>2, <1>3, <1>4, <1>5, <2>1
<1> HIDE DEF p, r
<1>9. /\ FlattenSeq(p) \in Text /\ FlattenSeq(r) = FlattenSeq(p) ++ e.text
  <2>1. FlattenSeq(p) \in Text /\ FlattenSeq(r) = FlattenSeq(p) ++ r[n + 1]
    BY <1>1, <1>7, <1>8, OneMore
  <2>2. QED BY <1>8, <2>1
<1>10. QED BY <1>6, <1>9 DEF a, p, r, Texts, ++

LEMMA NoTexts == Texts(<<>>) = <<>> /\ <<>> \in Text
<1>1. [i \in DOMAIN <<>> |-> <<>>[i].text] = <<>>
  OBVIOUS
<1>2. QED BY <1>1, FlattenNone, EmptySeq DEF Texts, Text

LEMMA TextsFrom ==
    ASSUME NEW q, q \in Seq(Range(q)), TextsOf(q), NEW i \in 1 .. Len(q)
    PROVE  /\ Texts(From(q, i)) = q[i].text ++ Texts(From(q, i + 1))
           /\ Texts(From(q, i + 1)) \in Text
<1> DEFINE n == Len(q)
           a == From(q, i)
           b == From(q, i + 1)
           p == [c \in DOMAIN a |-> a[c].text]
           r == [c \in DOMAIN b |-> b[c].text]
<1>1. n \in Nat /\ DOMAIN q = 1 .. n /\ \A c \in 1 .. n : q[c] \in Range(q) /\ q[c].text \in Text
  BY LenProperties, ElementOfSeq DEF TextsOf
<1>2. i \in 1 .. n
  OBVIOUS
<1>3. /\ a \in Seq(Range(q)) /\ Len(a) = n - i + 1 /\ DOMAIN a = 1 .. n - i + 1
      /\ \A c \in 1 .. n - i + 1 : a[c] = q[i + c - 1]
  <2>1. \A c \in i .. n : q[c] \in Range(q)
    BY <1>1
  <2>2. /\ a \in Seq(Range(q)) /\ Len(a) = (IF i <= n THEN n - i + 1 ELSE 0)
        /\ \A c \in 1 .. n - i + 1 : a[c] = q[i + c - 1]
    BY <1>1, <2>1, SubSeqProperties DEF From
  <2> HIDE DEF a, n
  <2>3. Len(a) = n - i + 1
    BY <1>1, <2>2 DEF n
  <2>4. QED BY <2>2, <2>3, LenProperties
<1>4. /\ b \in Seq(Range(q)) /\ Len(b) = n - i /\ DOMAIN b = 1 .. n - i
      /\ \A c \in 1 .. n - i : b[c] = q[i + c]
  <2>1. (\A c \in i + 1 .. n : q[c] \in Range(q)) /\ i + 1 \in Int /\ n \in Int
    BY <1>1
  <2>2. /\ b \in Seq(Range(q)) /\ Len(b) = (IF i + 1 <= n THEN n - (i + 1) + 1 ELSE 0)
        /\ \A c \in 1 .. n - (i + 1) + 1 : b[c] = q[(i + 1) + c - 1]
    BY <2>1, SubSeqProperties DEF From
  <2> HIDE DEF b, n
  <2>3. Len(b) = n - i
    <3>1. CASE i + 1 <= n
      BY <1>1, <2>2, <3>1
    <3>2. CASE ~(i + 1 <= n)
      <4>1. i = n
        BY <1>1, <1>2, <3>2
      <4>2. QED BY <1>1, <2>2, <3>2, <4>1
    <3>3. QED BY <3>1, <3>2
  <2>4. ASSUME NEW c \in 1 .. n - i PROVE b[c] = q[i + c]
    <3>1. c \in 1 .. n - (i + 1) + 1 /\ (i + 1) + c - 1 = i + c
      BY <1>1
    <3>2. QED BY <2>2, <3>1
  <2>5. QED BY <2>2, <2>3, <2>4, LenProperties
<1> HIDE DEF a, b, n
<1>5. /\ p \in [1 .. n - i + 1 -> Text] /\ r \in [1 .. n - i -> Text]
      /\ \A c \in 1 .. n - i : r[c] = p[c + 1]
      /\ p[1] = q[i].text
  <2>1. ASSUME NEW c \in 1 .. n - i + 1
        PROVE  p[c] = q[i + c - 1].text /\ p[c] \in Text
    <3>1. i + c - 1 \in 1 .. n
      BY <1>1 DEF n
    <3>2. QED BY <1>1, <1>3, <3>1
  <2>2. ASSUME NEW c \in 1 .. n - i PROVE r[c] = q[i + c].text /\ r[c] \in Text
    <3>1. i + c \in 1 .. n
      BY <1>1 DEF n
    <3>2. QED BY <1>1, <1>4, <3>1
  <2>3. DOMAIN p = 1 .. n - i + 1 /\ DOMAIN r = 1 .. n - i
    BY <1>3, <1>4
  <2>4. ASSUME NEW c \in 1 .. n - i PROVE r[c] = p[c + 1]
    <3>1. c + 1 \in 1 .. n - i + 1 /\ i + (c + 1) - 1 = i + c
      BY <1>1
    <3> HIDE DEF p, r
    <3>2. p[c + 1] = q[i + (c + 1) - 1].text
      BY <2>1, <3>1
    <3>3. QED BY <2>2, <3>1, <3>2
  <2>5. p[1] = q[i].text
    <3>1. 1 \in 1 .. n - i + 1 /\ i + 1 - 1 = i
      BY <1>1 DEF n
    <3> HIDE DEF p, r
    <3>2. QED BY <2>1, <3>1
  <2>6. p \in [1 .. n - i + 1 -> Text]
    BY <2>1, <2>3
  <2>7. r \in [1 .. n - i -> Text]
    BY <2>2, <2>3
  <2> HIDE DEF p, r
  <2>8. QED BY <2>4, <2>5, <2>6, <2>7
<1> HIDE DEF p, r
<1>6. n - i + 1 \in Nat /\ n - i \in Nat /\ n - i + 1 # 0
  BY <1>1 DEF n
<1>7. p \in Seq(Text) /\ r \in Seq(Text)
  BY <1>5, <1>6, SeqDef
<1>8. Len(p) = n - i + 1 /\ Len(r) = n - i
  <2>1. /\ Len(p) \in Nat /\ Len(r) \in Nat
        /\ 1 .. n - i + 1 = 1 .. Len(p) /\ 1 .. n - i = 1 .. Len(r)
    BY <1>5, <1>7, LenProperties
  <2>2. QED BY <1>6, <2>1
<1>9. p # <<>>
  BY <1>6, <1>8, EmptySeq
<1>10. r = SubSeq(p, 2, Len(p))
  <2>1. \A c \in 2 .. Len(p) : p[c] \in Text
    BY <1>7, ElementOfSeq
  <2>2. /\ SubSeq(p, 2, Len(p)) \in Seq(Text)
        /\ Len(SubSeq(p, 2, Len(p))) = (IF 2 <= Len(p) THEN Len(p) - 2 + 1 ELSE 0)
        /\ \A c \in 1 .. Len(p) - 2 + 1 : SubSeq(p, 2, Len(p))[c] = p[2 + c - 1]
    BY <1>6, <1>8, <2>1, SubSeqProperties
  <2>3. Len(SubSeq(p, 2, Len(p))) = Len(r)
    BY <1>6, <1>8, <2>2
  <2>4. ASSUME NEW c \in 1 .. Len(r) PROVE r[c] = SubSeq(p, 2, Len(p))[c]
    <3>1. c \in 1 .. n - i /\ c \in 1 .. Len(p) - 2 + 1 /\ 2 + c - 1 = c + 1
      BY <1>6, <1>8
    <3>2. QED BY <1>5, <2>2, <3>1
  <2>5. QED BY <1>7, <2>2, <2>3, <2>4, SeqEqual
<1>11. FlattenSeq(p) = p[1] \o FlattenSeq(SubSeq(p, 2, Len(p)))
  BY <1>7, <1>9, FlattenFirst DEF Text
<1>12. FlattenSeq(r) \in Text
  <2>1. \A e \in Text : FlattenSeq(r) \in Text
    BY <1>7, FlattenAppend DEF Text
  <2>2. QED BY <2>1, EmptySeq DEF Text
<1>13. Texts(a) = FlattenSeq(p) /\ Texts(b) = FlattenSeq(r)
  BY DEF Texts, p, r
<1>14. QED BY <1>5, <1>10, <1>11, <1>12, <1>13 DEF a, b, ++
-----------------------------------------------------------------------------
(* What the walk has split off.                                            *)
UnitsTo(n) == FlattenSeq([j \in 1 .. n |-> UnitText(s, j)])
LinesTo(n) == FlattenSeq([k \in 1 .. n |-> LineText(s, u, k)])

LEMMA SameTexts ==
    ASSUME doc' = doc
    PROVE  /\ \A n : Sections(n)' = Sections(n)
           /\ \A n : s' = s => UnitsTo(n)' = UnitsTo(n)
           /\ \A n : s' = s /\ u' = u => LinesTo(n)' = LinesTo(n)
           /\ \A i, j, k : LineText(i, j, k)' = LineText(i, j, k)
           /\ \A i, j : UnitText(i, j)' = UnitText(i, j)
           /\ \A i : SectionText(i)' = SectionText(i)
<1>1. ASSUME NEW i, NEW j, NEW k PROVE LineText(i, j, k)' = LineText(i, j, k)
  BY DEF LineText
<1>2. ASSUME NEW i, NEW j PROVE UnitText(i, j)' = UnitText(i, j)
  BY <1>1 DEF UnitText
<1>3. ASSUME NEW i PROVE SectionText(i)' = SectionText(i)
  BY <1>2 DEF SectionText
<1>4. ASSUME NEW n PROVE Sections(n)' = Sections(n)
  BY <1>3 DEF Sections
<1>5. ASSUME NEW n, s' = s PROVE UnitsTo(n)' = UnitsTo(n)
  BY <1>2, <1>5 DEF UnitsTo
<1>6. ASSUME NEW n, s' = s, u' = u PROVE LinesTo(n)' = LinesTo(n)
  BY <1>1, <1>6 DEF LinesTo
<1>7. QED BY <1>1, <1>2, <1>3, <1>4, <1>5, <1>6

\* What is split off after a step, told by what the step makes of the walk.
LEMMA SplitOffNext ==
    ASSUME doc' = doc
    PROVE  /\ pc' = "sections" => \A n : n = s' - 1 => SplitOff' = Sections(n)
           /\ pc' = "pack" => \A n : n = s' => SplitOff' = Sections(n)
           /\ pc' = "done" => SplitOff' = Sections(Len(doc))
           /\ pc' = "units" /\ s' = s =>
                 \A n : n = u' - 1 => SplitOff' = Sections(s - 1) ++ UnitsTo(n)
           /\ pc' = "lines" /\ s' = s /\ u' = u =>
                 \A n : n = l' - 1 =>
                    SplitOff' = (Sections(s - 1) ++ UnitsTo(u - 1)) ++ LinesTo(n)
           /\ pc' = "windows" /\ s' = s /\ u' = u /\ l' = l =>
                 SplitOff' = ((Sections(s - 1) ++ UnitsTo(u - 1)) ++ LinesTo(l - 1))
                                ++ Slice(s, u, l, 0, start')
<1>1. ASSUME NEW n, n = s' - 1, pc' = "sections" PROVE SplitOff' = Sections(n)
  <2>1. SplitOff' = Sections(n)'
    BY <1>1 DEF SplitOff, Sections
  <2>2. QED BY <2>1, SameTexts
<1>2. ASSUME NEW n, n = s', pc' = "pack" PROVE SplitOff' = Sections(n)
  <2>1. SplitOff' = Sections(n)'
    BY <1>2 DEF SplitOff, Sections
  <2>2. QED BY <2>1, SameTexts
<1>3. ASSUME pc' = "done" PROVE SplitOff' = Sections(Len(doc))
  <2>1. PICK n : n = Len(doc)
    OBVIOUS
  <2>2. SplitOff' = Sections(n)'
    BY <1>3, <2>1 DEF SplitOff, Sections
  <2>3. QED BY <2>1, <2>2, SameTexts
<1>4. ASSUME NEW n, n = u' - 1, pc' = "units", s' = s
      PROVE  SplitOff' = Sections(s - 1) ++ UnitsTo(n)
  <2>1. PICK m : m = s - 1
    OBVIOUS
  <2>2. SplitOff' = Sections(m)' ++ UnitsTo(n)'
    BY <1>4, <2>1 DEF SplitOff, ToUnit, Sections, UnitsTo, ++
  <2>3. Sections(m)' = Sections(m) /\ UnitsTo(n)' = UnitsTo(n)
    BY <1>4, SameTexts
  <2>4. QED BY <2>1, <2>2, <2>3
<1>5. ASSUME pc' \in {"lines", "windows"}, s' = s, u' = u, NEW n, n = l' - 1
      PROVE  ToLine' = (Sections(s - 1) ++ UnitsTo(u - 1)) ++ LinesTo(n)
  <2>1. PICK m, k : m = s - 1 /\ k = u - 1
    OBVIOUS
  <2>2. ToLine' = (Sections(m)' ++ UnitsTo(k)') ++ LinesTo(n)'
    BY <1>5, <2>1 DEF ToLine, ToUnit, Sections, UnitsTo, LinesTo, ++
  <2>3. Sections(m)' = Sections(m) /\ UnitsTo(k)' = UnitsTo(k) /\ LinesTo(n)' = LinesTo(n)
    BY <1>5, SameTexts
  <2>4. QED BY <2>1, <2>2, <2>3
<1>6. pc' = "lines" => SplitOff' = ToLine'
  BY DEF SplitOff
<1>7. ASSUME pc' = "windows", s' = s, u' = u, l' = l
      PROVE  SplitOff' = ToLine' ++ Slice(s, u, l, 0, start')
  BY <1>7 DEF SplitOff, Slice, ++
<1>8. ASSUME pc' = "windows", s' = s, u' = u, l' = l
      PROVE  SplitOff' = ((Sections(s - 1) ++ UnitsTo(u - 1)) ++ LinesTo(l - 1))
                            ++ Slice(s, u, l, 0, start')
  <2>1. PICK n : n = l' - 1
    OBVIOUS
  <2>2. ToLine' = (Sections(s - 1) ++ UnitsTo(u - 1)) ++ LinesTo(n)
    BY <1>5, <1>8, <2>1
  <2>3. QED BY <1>7, <1>8, <2>1, <2>2
<1>9. ASSUME NEW n, n = l' - 1, pc' = "lines", s' = s, u' = u
      PROVE  SplitOff' = (Sections(s - 1) ++ UnitsTo(u - 1)) ++ LinesTo(n)
  BY <1>5, <1>6, <1>9
<1>10. QED BY <1>1, <1>2, <1>3, <1>4, <1>8, <1>9

\* The lists of a body and the texts under them.
LEMMA BodyTexts ==
    ASSUME doc \in Documents, NEW i \in 1 .. Len(doc)
    PROVE  /\ Len(doc) \in Nat /\ i \in Nat /\ SectionText(i) \in Text
           /\ Len(doc[i].units) \in Nat
           /\ DOMAIN doc[i].units = 1 .. Len(doc[i].units)
           /\ \A j \in 1 .. Len(doc[i].units) :
                 /\ j \in Nat /\ UnitText(i, j) \in Text
                 /\ Len(doc[i].units[j].lines) \in Nat
                 /\ DOMAIN doc[i].units[j].lines = 1 .. Len(doc[i].units[j].lines)
                 /\ \A k \in 1 .. Len(doc[i].units[j].lines) :
                       k \in Nat /\ LineText(i, j, k) \in Text
<1>1. WellFormedSection(doc[i]) /\ Len(doc) \in Nat /\ i \in Nat
  BY DocumentsAssumption, LenProperties DEF IsList
<1>2. Len(doc[i].units) \in Nat /\ DOMAIN doc[i].units = 1 .. Len(doc[i].units)
  BY <1>1, LenProperties DEF WellFormedSection, IsList
<1>3. ASSUME NEW j \in 1 .. Len(doc[i].units)
      PROVE  /\ j \in Nat /\ UnitText(i, j) \in Text
             /\ Len(doc[i].units[j].lines) \in Nat
             /\ DOMAIN doc[i].units[j].lines = 1 .. Len(doc[i].units[j].lines)
             /\ \A k \in 1 .. Len(doc[i].units[j].lines) :
                   k \in Nat /\ LineText(i, j, k) \in Text
  <2> DEFINE lines == doc[i].units[j].lines
  <2>1. WellFormedUnit(doc[i].units[j]) /\ j \in Nat
    BY <1>1, <1>2 DEF WellFormedSection
  <2>2. Len(lines) \in Nat /\ DOMAIN lines = 1 .. Len(lines)
    BY <2>1, LenProperties DEF WellFormedUnit, IsList
  <2>3. ASSUME NEW k \in 1 .. Len(lines) PROVE k \in Nat /\ LineText(i, j, k) \in Text
    <3>1. WellFormedLine(lines[k]) /\ k \in Nat
      BY <2>1, <2>2 DEF WellFormedUnit
    <3>2. Bytes(lines[k]) \in Nat
      BY <3>1, LineEnds DEF Bytes
    <3>3. Slice(i, j, k, 0, Bytes(lines[k])) \in Text
      <4>1. 0 \in Nat /\ 0 <= 0 /\ 0 <= Bytes(lines[k])
        BY <3>2
      <4> HIDE DEF lines
      <4>2. QED BY <1>1, <2>1, <3>1, <3>2, <4>1, Slices
    <3>4. QED BY <3>1, <3>3 DEF LineText
  <2>4. UnitText(i, j) \in Text
    <3>1. [k \in 1 .. Len(lines) |-> LineText(i, j, k)] \in [1 .. Len(lines) -> Text]
      BY <2>3
    <3>2. FlattenSeq([k \in 1 .. Len(lines) |-> LineText(i, j, k)]) \in Text
      BY <2>2, <3>1, FlattenTyped
    <3>3. QED BY <2>2, <3>2 DEF UnitText
  <2>5. QED BY <2>1, <2>2, <2>3, <2>4
<1>4. SectionText(i) \in Text
  <2>1. [j \in 1 .. Len(doc[i].units) |-> UnitText(i, j)] \in [1 .. Len(doc[i].units) -> Text]
    BY <1>3
  <2>2. FlattenSeq([j \in 1 .. Len(doc[i].units) |-> UnitText(i, j)]) \in Text
    BY <1>2, <2>1, FlattenTyped
  <2>3. QED BY <1>2, <2>2 DEF SectionText
<1>5. QED BY <1>1, <1>2, <1>3, <1>4

LEMMA NextSection ==
    ASSUME doc \in Documents, NEW n \in Nat, n <= Len(doc)
    PROVE  /\ Sections(n) \in Text /\ Sections(0) = <<>>
           /\ n < Len(doc) => Sections(n + 1) = Sections(n) ++ SectionText(n + 1)
<1>1. Len(doc) \in Nat
  BY DocumentsAssumption, LenProperties DEF IsList
<1>2. \A i \in 1 .. Len(doc) : SectionText(i) \in Text
  BY BodyTexts
<1>3. Sections(n) \in Text /\ Sections(0) = <<>>
  <2>1. /\ [i \in 1 .. n |-> SectionText(i)] \in [1 .. n -> Text]
        /\ [i \in 1 .. 0 |-> SectionText(i)] \in [1 .. 0 -> Text]
    <3>1. \A i \in 1 .. n : SectionText(i) \in Text
      BY <1>1, <1>2
    <3>2. QED BY <3>1
  <2>2. QED BY <2>1, FlattenTyped DEF Sections
<1>4. ASSUME n < Len(doc) PROVE Sections(n + 1) = Sections(n) ++ SectionText(n + 1)
  <2> DEFINE p == [i \in 1 .. n |-> SectionText(i)]
             q == [i \in 1 .. n + 1 |-> SectionText(i)]
  <2>1. \A i \in 1 .. n + 1 : SectionText(i) \in Text
    BY <1>1, <1>2, <1>4
  <2>2. p \in [1 .. n -> Text] /\ q \in [1 .. n + 1 -> Text]
    BY <2>1
  <2>3. (\A i \in 1 .. n : p[i] = q[i]) /\ q[n + 1] = SectionText(n + 1)
    OBVIOUS
  <2> HIDE DEF p, q
  <2>4. FlattenSeq(q) = FlattenSeq(p) ++ SectionText(n + 1)
    BY <2>2, <2>3, OneMore
  <2>5. QED BY <2>4 DEF p, q, Sections
<1>5. QED BY <1>3, <1>4

LEMMA NextUnit ==
    ASSUME doc \in Documents, s \in 1 .. Len(doc), NEW n \in Nat, n <= Len(Units)
    PROVE  /\ UnitsTo(n) \in Text /\ UnitsTo(0) = <<>>
           /\ n < Len(Units) => UnitsTo(n + 1) = UnitsTo(n) ++ UnitText(s, n + 1)
           /\ UnitsTo(Len(Units)) = SectionText(s)
<1>1. /\ Len(Units) \in Nat /\ DOMAIN Units = 1 .. Len(Units)
      /\ \A j \in 1 .. Len(Units) : UnitText(s, j) \in Text
  BY BodyTexts DEF Units
<1>2. UnitsTo(n) \in Text /\ UnitsTo(0) = <<>>
  <2>1. /\ [j \in 1 .. n |-> UnitText(s, j)] \in [1 .. n -> Text]
        /\ [j \in 1 .. 0 |-> UnitText(s, j)] \in [1 .. 0 -> Text]
    <3>1. \A j \in 1 .. n : UnitText(s, j) \in Text
      BY <1>1
    <3>2. QED BY <3>1
  <2>2. QED BY <2>1, FlattenTyped DEF UnitsTo
<1>3. ASSUME n < Len(Units) PROVE UnitsTo(n + 1) = UnitsTo(n) ++ UnitText(s, n + 1)
  <2> DEFINE p == [j \in 1 .. n |-> UnitText(s, j)]
             q == [j \in 1 .. n + 1 |-> UnitText(s, j)]
  <2>1. \A j \in 1 .. n + 1 : UnitText(s, j) \in Text
    BY <1>1, <1>3
  <2>2. p \in [1 .. n -> Text] /\ q \in [1 .. n + 1 -> Text]
    BY <2>1
  <2>3. (\A j \in 1 .. n : p[j] = q[j]) /\ q[n + 1] = UnitText(s, n + 1)
    OBVIOUS
  <2> HIDE DEF p, q
  <2>4. FlattenSeq(q) = FlattenSeq(p) ++ UnitText(s, n + 1)
    BY <2>2, <2>3, OneMore
  <2>5. QED BY <2>4 DEF p, q, UnitsTo
<1>4. UnitsTo(Len(Units)) = SectionText(s)
  BY <1>1 DEF UnitsTo, SectionText, Units
<1>5. QED BY <1>2, <1>3, <1>4

LEMMA NextLine ==
    ASSUME doc \in Documents, s \in 1 .. Len(doc), u \in 1 .. Len(Units),
           NEW n \in Nat, n <= Len(Unit.lines)
    PROVE  /\ LinesTo(n) \in Text /\ LinesTo(0) = <<>>
           /\ n < Len(Unit.lines) => LinesTo(n + 1) = LinesTo(n) ++ LineText(s, u, n + 1)
           /\ LinesTo(Len(Unit.lines)) = UnitText(s, u)
<1>1. /\ Len(Unit.lines) \in Nat /\ DOMAIN Unit.lines = 1 .. Len(Unit.lines)
      /\ \A k \in 1 .. Len(Unit.lines) : LineText(s, u, k) \in Text
  BY BodyTexts DEF Units, Unit
<1>2. LinesTo(n) \in Text /\ LinesTo(0) = <<>>
  <2>1. /\ [k \in 1 .. n |-> LineText(s, u, k)] \in [1 .. n -> Text]
        /\ [k \in 1 .. 0 |-> LineText(s, u, k)] \in [1 .. 0 -> Text]
    <3>1. \A k \in 1 .. n : LineText(s, u, k) \in Text
      BY <1>1
    <3>2. QED BY <3>1
  <2>2. QED BY <2>1, FlattenTyped DEF LinesTo
<1>3. ASSUME n < Len(Unit.lines) PROVE LinesTo(n + 1) = LinesTo(n) ++ LineText(s, u, n + 1)
  <2> DEFINE p == [k \in 1 .. n |-> LineText(s, u, k)]
             q == [k \in 1 .. n + 1 |-> LineText(s, u, k)]
  <2>1. \A k \in 1 .. n + 1 : LineText(s, u, k) \in Text
    BY <1>1, <1>3
  <2>2. p \in [1 .. n -> Text] /\ q \in [1 .. n + 1 -> Text]
    BY <2>1
  <2>3. (\A k \in 1 .. n : p[k] = q[k]) /\ q[n + 1] = LineText(s, u, n + 1)
    OBVIOUS
  <2> HIDE DEF p, q
  <2>4. FlattenSeq(q) = FlattenSeq(p) ++ LineText(s, u, n + 1)
    BY <2>2, <2>3, OneMore
  <2>5. QED BY <2>4 DEF p, q, LinesTo
<1>4. LinesTo(Len(Unit.lines)) = UnitText(s, u)
  BY <1>1 DEF LinesTo, UnitText, Units, Unit
<1>5. QED BY <1>2, <1>3, <1>4

-----------------------------------------------------------------------------
(* What is in chunks and atoms is what the walk has split off: the loops   *)
(* stop where their lists end, and a window starts where the one before it *)
(* was cut, which is never after the next boundary.                        *)
WindowsMeet ==
    /\ start <= Bytes(Line)
    /\ \/ cut = target /\ start = 0
       \/ cut - target \in DOMAIN Line.ends /\ start = Boundary(Line, cut - target)

PlaceInv ==
    /\ s <= Len(doc) + 1
    /\ pc \in {"units", "lines", "windows", "pack"} => s <= Len(doc)
    /\ pc = "units" => u <= Len(Units) + 1
    /\ pc = "lines" => l <= Len(Unit.lines) + 1
    /\ pc = "windows" => WindowsMeet

TextInv == TextsOf(atoms) /\ TextsOf(chunks) /\ open.text \in Text

ByteInv == PlaceInv /\ TextInv /\ EveryByteOnce

LEMMA Regrouped ==
    ASSUME NEW x \in Text, NEW y \in Text, NEW z \in Text
    PROVE  (x ++ y) ++ z = x ++ (y ++ z) /\ x ++ y \in Text
BY ConcatAssociative, ConcatProperties DEF Text, ++

LEMMA NothingAdded ==
    ASSUME NEW x \in Text
    PROVE  x ++ <<>> = x /\ <<>> ++ x = x
BY ConcatEmptySeq DEF Text, ++

\* A text added on both sides.
LEMMA Both ==
    ASSUME NEW x \in Text, NEW y \in Text, NEW o \in Text, NEW e \in Text
    PROVE  x ++ y = o => x ++ (y ++ e) = o ++ e
<1>1. (x ++ y) ++ e = x ++ (y ++ e)
  BY Regrouped
<1>2. ASSUME x ++ y = o PROVE x ++ (y ++ e) = o ++ e
  BY <1>1, <1>2
<1>3. QED BY <1>2

LEMMA InitBytes == ASSUME Init PROVE ByteInv
<1>1. /\ doc \in Documents /\ pc = "sections" /\ s = 1 /\ atoms = <<>> /\ chunks = <<>>
      /\ open.text = <<>>
  BY DEF Init, NoSeed, Seeded, Chunk
<1>2. Len(doc) \in Nat
  BY <1>1, DocumentsAssumption, LenProperties DEF IsList
<1>3. PlaceInv
  BY <1>1, <1>2 DEF PlaceInv
<1>4. TextInv
  BY <1>1, NoTexts DEF TextInv, TextsOf
<1>5. SplitOff = <<>> /\ Pending = <<>> /\ Texts(chunks) = <<>>
  <2>1. Sections(0) = <<>> /\ s - 1 = 0
    BY <1>1, <1>2, NextSection
  <2>2. SplitOff = Sections(s - 1)
    BY <1>1 DEF SplitOff
  <2>3. QED BY <1>1, <2>1, <2>2, NoTexts DEF Pending
<1>6. EveryByteOnce
  BY <1>5, NoTexts, NothingAdded DEF EveryByteOnce, ++
<1>7. QED BY <1>3, <1>4, <1>6 DEF ByteInv

(* The text of chunks and atoms in a state.                                *)
LEMMA Held ==
    ASSUME Inv, ByteInv
    PROVE  /\ doc \in Documents /\ Len(doc) \in Nat
           /\ s \in Nat \ {0} /\ u \in Nat \ {0} /\ l \in Nat \ {0}
           /\ Texts(chunks) \in Text /\ Texts(atoms) \in Text
           /\ Sections(s - 1) \in Text
           /\ s <= Len(doc) => Sections(s) = Sections(s - 1) ++ SectionText(s)
           /\ ToUnit = Sections(s - 1) ++ UnitsTo(u - 1)
           /\ ToLine = ToUnit ++ LinesTo(l - 1)
<1>1. doc \in Documents /\ s \in Nat \ {0} /\ u \in Nat \ {0} /\ l \in Nat \ {0}
  BY DEF Inv, Positions
<1>2. Len(doc) \in Nat
  BY <1>1, DocumentsAssumption, LenProperties DEF IsList
<1>3. s - 1 \in Nat /\ s - 1 <= Len(doc) /\ (s - 1) + 1 = s /\ (s <= Len(doc) => s - 1 < Len(doc))
  BY <1>1, <1>2 DEF ByteInv, PlaceInv
<1>4. Texts(chunks) \in Text /\ Texts(atoms) \in Text
  <2>1. PICK e : e.text = <<>>
    <3>1. NoSeed.text = <<>>
      BY DEF NoSeed, Seeded, Chunk
    <3>2. QED BY <3>1
  <2>2. QED BY <2>1, NoTexts, TextsAdded DEF Inv, AtomsBounded, ChunksInv, ByteInv, TextInv
<1>5. /\ Sections(s - 1) \in Text
      /\ s <= Len(doc) => Sections(s) = Sections(s - 1) ++ SectionText(s)
  <2>1. /\ Sections(s - 1) \in Text
        /\ s - 1 < Len(doc) => Sections((s - 1) + 1) = Sections(s - 1) ++ SectionText((s - 1) + 1)
    BY <1>1, <1>3, NextSection
  <2>2. QED BY <1>3, <2>1
<1>6. ToUnit = Sections(s - 1) ++ UnitsTo(u - 1) /\ ToLine = ToUnit ++ LinesTo(l - 1)
  BY DEF ToUnit, ToLine, UnitsTo, LinesTo, ++
<1>7. QED BY <1>1, <1>2, <1>4, <1>5, <1>6

(* The steps over the sections.                                            *)
LEMMA SectionBytes ==
    ASSUME Inv, ByteInv, KeepSection \/ SplitSection \/ Return
    PROVE  ByteInv'
<1>0. doc' = doc /\ open' = open /\ (\A n : Sections(n)' = Sections(n))
  BY SameTexts DEF KeepSection, SplitSection, Return, args, packing
<1>1. Texts(chunks) = Sections(s - 1) /\ pc = "sections"
  <2>1. pc = "sections"
    BY DEF KeepSection, SplitSection, Return
  <2>2. Texts(chunks) ++ <<>> = Sections(s - 1)
    BY <2>1 DEF ByteInv, EveryByteOnce, Pending, SplitOff, ++
  <2>3. QED BY <2>1, <2>2, Held, NothingAdded
<1>2. CASE KeepSection
  <2> DEFINE c == Chunk(0, SectionText(s), doc[s].tokens)
  <2>1. /\ s <= Len(doc) /\ chunks' = Append(chunks, c) /\ s' = s + 1 /\ pc' = "sections"
        /\ atoms' = atoms
    BY <1>1, <1>2 DEF KeepSection
  <2>2. c.text = SectionText(s) /\ SectionText(s) \in Text
    BY <2>1, Held, BodyTexts DEF Chunk
  <2> HIDE DEF c
  <2>3. Texts(chunks') = Texts(chunks) ++ SectionText(s) /\ TextsOf(chunks')
    BY <2>1, <2>2, TextsAdded DEF Inv, ChunksInv, ByteInv, TextInv
  <2>4. Texts(chunks') = Sections(s)
    BY <1>1, <2>1, <2>3, Held
  <2>5. SplitOff' = Sections(s) /\ Pending' = <<>> /\ Sections(s) \in Text
    <3>1. s' - 1 = s
      BY <2>1, Held
    <3>2. SplitOff' = Sections(s)
      BY <1>0, <2>1, <3>1, SplitOffNext
    <3>3. Sections(s) \in Text
      BY <2>1, Held, NextSection
    <3>4. QED BY <2>1, <3>2, <3>3 DEF Pending
  <2>6. EveryByteOnce'
    BY <2>4, <2>5, NothingAdded DEF EveryByteOnce, ++
  <2>7. PlaceInv' /\ TextInv'
    BY <1>0, <2>1, <2>3, Held DEF PlaceInv, TextInv, ByteInv
  <2>8. QED BY <2>6, <2>7 DEF ByteInv
<1>3. CASE SplitSection
  <2>1. /\ s <= Len(doc) /\ chunks' = chunks /\ s' = s /\ pc' = "units" /\ u' = 1
        /\ atoms' = <<>>
    BY <1>3 DEF SplitSection
  <2>2. Units' = Units /\ Len(Units) \in Nat
    BY <1>0, <2>1, Held, BodyTexts DEF Units
  <2>3. SplitOff' = Sections(s - 1) ++ UnitsTo(0)
    <3>1. 0 = u' - 1
      BY <2>1
    <3>2. QED BY <1>0, <2>1, <3>1, SplitOffNext
  <2>4. UnitsTo(0) = <<>> /\ Pending' = <<>>
    <3>1. s \in 1 .. Len(doc) /\ 0 <= Len(Units)
      BY <2>1, <2>2, Held
    <3>2. UnitsTo(0) = <<>>
      BY <2>1, <2>2, <3>1, Held, NextUnit
    <3>3. QED BY <2>1, <3>2, NoTexts DEF Pending
  <2>5. EveryByteOnce'
    BY <1>1, <2>1, <2>3, <2>4, Held DEF EveryByteOnce, ++
  <2>6. TextInv'
    BY <1>0, <2>1, NoTexts DEF TextInv, TextsOf, ByteInv
  <2>7. PlaceInv'
    BY <1>0, <2>1, <2>2, Held DEF PlaceInv, ByteInv
  <2>8. QED BY <2>5, <2>6, <2>7 DEF ByteInv
<1>4. CASE Return
  <2>1. s > Len(doc) /\ chunks' = chunks /\ s' = s /\ pc' = "done" /\ atoms' = atoms
    BY <1>4 DEF Return
  <2>2. s - 1 = Len(doc)
    BY <2>1, Held DEF ByteInv, PlaceInv
  <2>3. SplitOff' = Sections(s - 1) /\ Pending' = <<>>
    <3>1. SplitOff' = Sections(Len(doc))
      BY <1>0, <2>1, SplitOffNext
    <3>2. QED BY <2>1, <2>2, <3>1 DEF Pending
  <2>4. EveryByteOnce'
    BY <1>1, <2>1, <2>3, Held, NothingAdded DEF EveryByteOnce, ++
  <2>5. PlaceInv' /\ TextInv'
    BY <1>0, <2>1, Held DEF PlaceInv, TextInv, ByteInv
  <2>6. QED BY <2>4, <2>5 DEF ByteInv
<1>5. QED BY <1>2, <1>3, <1>4

(* The steps over the units of a section add their texts to the atoms.     *)
LEMMA UnitBytes ==
    ASSUME Inv, ByteInv, KeepUnit \/ SplitUnit \/ UnitSplit \/ StartPacking
    PROVE  ByteInv'
<1>0. /\ doc' = doc /\ open'.text \in Text /\ s' = s /\ chunks' = chunks
      /\ s \in 1 .. Len(doc) /\ Units' = Units
  <2>1. /\ doc' = doc /\ s' = s /\ chunks' = chunks /\ s <= Len(doc)
        /\ (open' = open \/ open' = NoSeed)
    BY DEF KeepUnit, SplitUnit, UnitSplit, StartPacking, args, packing, ByteInv, PlaceInv
  <2>2. NoSeed.text = <<>> /\ <<>> \in Text
    BY NoTexts DEF NoSeed, Seeded, Chunk
  <2>3. QED BY <2>1, <2>2, Held DEF Units, ByteInv, TextInv
<1> DEFINE x == Texts(chunks)
           y == Texts(atoms)
           w == Sections(s - 1)
<1>1. /\ x \in Text /\ y \in Text /\ w \in Text /\ Len(Units) \in Nat
      /\ s \in Nat /\ u \in Nat \ {0} /\ l \in Nat \ {0} /\ doc \in Documents
  BY <1>0, Held, BodyTexts DEF Units
<1>2. CASE KeepUnit
  <2> DEFINE e == Atom(UnitText(s, u), Unit.tokens)
  <2>1. /\ u <= Len(Units) /\ atoms' = Append(atoms, e) /\ u' = u + 1 /\ pc = "units"
        /\ pc' = "units" /\ open' = open
    BY <1>2 DEF KeepUnit, packing
  <2>2. UnitText(s, u) \in Text
    <3>1. u \in 1 .. Len(Units)
      BY <1>1, <2>1
    <3>2. QED BY <1>0, <1>1, <3>1, BodyTexts DEF Units
  <2>3. e.text = UnitText(s, u)
    BY DEF Atom
  <2> HIDE DEF e
  <2>4. Texts(atoms') = y ++ UnitText(s, u) /\ TextsOf(atoms')
    BY <2>1, <2>2, <2>3, TextsAdded DEF Inv, AtomsBounded, ByteInv, TextInv
  <2>5. UnitsTo(u) = UnitsTo(u - 1) ++ UnitText(s, u) /\ UnitsTo(u - 1) \in Text
    <3>1. u - 1 \in Nat /\ u - 1 < Len(Units) /\ (u - 1) + 1 = u
      BY <1>1, <2>1
    <3>2. /\ UnitsTo(u - 1) \in Text
          /\ UnitsTo((u - 1) + 1) = UnitsTo(u - 1) ++ UnitText(s, (u - 1) + 1)
      BY <1>0, <1>1, <3>1, NextUnit
    <3>3. QED BY <3>1, <3>2
  <2>6. x ++ y = w ++ UnitsTo(u - 1)
    BY <2>1, Held DEF ByteInv, EveryByteOnce, Pending, SplitOff, ++
  <2>7. SplitOff' = w ++ UnitsTo(u) /\ Pending' = Texts(atoms')
    <3>1. u = u' - 1
      BY <1>1, <2>1
    <3>2. QED BY <1>0, <2>1, <3>1, SplitOffNext DEF Pending, Texts
  <2> HIDE DEF x, y, w
  <2>8. x ++ (y ++ UnitText(s, u)) = w ++ (UnitsTo(u - 1) ++ UnitText(s, u))
    <3>1. (x ++ y) ++ UnitText(s, u) = x ++ (y ++ UnitText(s, u))
      BY <1>1, <2>2, Regrouped
    <3>2. (w ++ UnitsTo(u - 1)) ++ UnitText(s, u) = w ++ (UnitsTo(u - 1) ++ UnitText(s, u))
      BY <1>1, <2>2, <2>5, Regrouped
    <3>3. QED BY <2>6, <3>1, <3>2
  <2>9. EveryByteOnce'
    BY <1>0, <2>4, <2>5, <2>7, <2>8 DEF EveryByteOnce, x, ++
  <2>10. PlaceInv' /\ TextInv'
    BY <1>0, <1>1, <2>1, <2>4 DEF PlaceInv, TextInv, ByteInv
  <2>11. QED BY <2>9, <2>10 DEF ByteInv
<1>3. CASE SplitUnit
  <2>1. /\ u <= Len(Units) /\ atoms' = atoms /\ u' = u /\ l' = 1 /\ pc = "units"
        /\ pc' = "lines" /\ open' = open
    BY <1>3 DEF SplitUnit, packing
  <2>2. Unit' = Unit /\ Len(Unit.lines) \in Nat
    BY <1>0, <1>1, <2>1, BodyTexts DEF Unit, Units
  <2>3. x ++ y = w ++ UnitsTo(u - 1)
    BY <2>1, Held DEF ByteInv, EveryByteOnce, Pending, SplitOff, ++
  <2>4. w ++ UnitsTo(u - 1) \in Text
    <3>1. u - 1 \in Nat /\ u - 1 <= Len(Units)
      BY <1>1, <2>1
    <3>2. UnitsTo(u - 1) \in Text
      BY <1>0, <1>1, <3>1, NextUnit
    <3>3. QED BY <1>1, <3>2, Regrouped
  <2>5. SplitOff' = (w ++ UnitsTo(u - 1)) ++ LinesTo(0) /\ Pending' = y
    <3>1. 0 = l' - 1
      BY <2>1
    <3>2. QED BY <1>0, <2>1, <3>1, SplitOffNext DEF Pending, Texts
  <2>6. LinesTo(0) = <<>>
    <3>1. u \in 1 .. Len(Units) /\ 0 <= Len(Unit.lines)
      BY <1>1, <2>1, <2>2
    <3>2. QED BY <1>0, <1>1, <3>1, NextLine
  <2>7. EveryByteOnce'
    BY <1>0, <2>3, <2>4, <2>5, <2>6, NothingAdded DEF EveryByteOnce, ++
  <2>8. PlaceInv' /\ TextInv'
    BY <1>0, <1>1, <2>1, <2>2 DEF PlaceInv, TextInv, ByteInv
  <2>9. QED BY <2>7, <2>8 DEF ByteInv
<1>4. CASE UnitSplit
  <2>1. /\ l > Len(Unit.lines) /\ atoms' = atoms /\ u' = u + 1 /\ pc = "lines"
        /\ pc' = "units" /\ open' = open /\ u <= Len(Units)
    BY <1>4 DEF UnitSplit, packing, Inv, Positions
  <2>2. Len(Unit.lines) \in Nat /\ u \in 1 .. Len(Units)
    BY <1>0, <1>1, <2>1, BodyTexts DEF Unit, Units
  <2>3. l - 1 = Len(Unit.lines)
    BY <1>1, <2>1, <2>2 DEF ByteInv, PlaceInv
  <2>4. x ++ y = (w ++ UnitsTo(u - 1)) ++ UnitText(s, u)
    <3>1. LinesTo(l - 1) = UnitText(s, u)
      BY <1>0, <1>1, <2>2, <2>3, NextLine
    <3>2. QED BY <2>1, <3>1, Held DEF ByteInv, EveryByteOnce, Pending, SplitOff, ++
  <2>5. /\ UnitsTo(u) = UnitsTo(u - 1) ++ UnitText(s, u) /\ UnitsTo(u - 1) \in Text
        /\ UnitText(s, u) \in Text
    <3>1. u - 1 \in Nat /\ u - 1 < Len(Units) /\ (u - 1) + 1 = u
      BY <1>1, <2>1
    <3>2. /\ UnitsTo(u - 1) \in Text
          /\ UnitsTo((u - 1) + 1) = UnitsTo(u - 1) ++ UnitText(s, (u - 1) + 1)
      BY <1>0, <1>1, <3>1, NextUnit
    <3>3. UnitText(s, u) \in Text
      BY <1>0, <1>1, <2>2, BodyTexts DEF Units
    <3>4. QED BY <3>1, <3>2, <3>3
  <2>6. SplitOff' = w ++ UnitsTo(u) /\ Pending' = y
    <3>1. u = u' - 1
      BY <1>1, <2>1
    <3>2. QED BY <1>0, <2>1, <3>1, SplitOffNext DEF Pending, Texts
  <2>7. (w ++ UnitsTo(u - 1)) ++ UnitText(s, u) = w ++ (UnitsTo(u - 1) ++ UnitText(s, u))
    BY <1>1, <2>5, Regrouped
  <2>8. EveryByteOnce'
    BY <1>0, <2>4, <2>5, <2>6, <2>7 DEF EveryByteOnce, ++
  <2>9. PlaceInv' /\ TextInv'
    BY <1>0, <1>1, <2>1 DEF PlaceInv, TextInv, ByteInv
  <2>10. QED BY <2>8, <2>9 DEF ByteInv
<1>5. CASE StartPacking
  <2>1. /\ u > Len(Units) /\ atoms' = atoms /\ pc = "units" /\ pc' = "pack"
        /\ index' = 1 /\ open' = NoSeed
    BY <1>5 DEF StartPacking
  <2>2. u - 1 = Len(Units)
    BY <1>1, <2>1 DEF ByteInv, PlaceInv
  <2>3. x ++ y = w ++ SectionText(s)
    <3>1. UnitsTo(u - 1) = SectionText(s)
      BY <1>0, <1>1, <2>2, NextUnit
    <3>2. QED BY <2>1, <3>1, Held DEF ByteInv, EveryByteOnce, Pending, SplitOff, ++
  <2>4. SplitOff' = Sections(s) /\ Sections(s) = w ++ SectionText(s)
    <3>1. s = s' /\ s <= Len(doc)
      BY <1>0
    <3>2. QED BY <1>0, <2>1, <3>1, SplitOffNext, Held
  <2>5. Pending' = y
    <3>1. Pending' = open'.text ++ Texts(From(atoms, 1))
      BY <2>1 DEF Pending, Texts, From, ++
    <3>2. From(atoms, 1) = atoms
      BY SubSeqFull DEF From, Inv, AtomsBounded
    <3>3. open'.text = <<>>
      BY <2>1 DEF NoSeed, Seeded, Chunk
    <3>4. QED BY <1>1, <3>1, <3>2, <3>3, NothingAdded
  <2>6. EveryByteOnce'
    BY <1>0, <2>3, <2>4, <2>5 DEF EveryByteOnce, ++
  <2>7. PlaceInv' /\ TextInv'
    BY <1>0, <1>1, <2>1 DEF PlaceInv, TextInv, ByteInv
  <2>8. QED BY <2>6, <2>7 DEF ByteInv
<1>6. QED BY <1>2, <1>3, <1>4, <1>5

(* The steps over the lines of a unit and the windows of a line.           *)
LEMMA LineBytes ==
    ASSUME Inv, ByteInv, KeepLine \/ SplitLine \/ CutWindow \/ LastWindow
    PROVE  ByteInv'
<1>0. /\ doc' = doc /\ open' = open /\ s' = s /\ u' = u /\ chunks' = chunks
      /\ s \in 1 .. Len(doc) /\ u \in 1 .. Len(Units) /\ Units' = Units /\ Unit' = Unit
      /\ pc \in {"lines", "windows"}
  <2>1. /\ doc' = doc /\ open' = open /\ s' = s /\ u' = u /\ chunks' = chunks
        /\ pc \in {"lines", "windows"}
    BY DEF KeepLine, SplitLine, CutWindow, LastWindow, args, packing
  <2>2. s <= Len(doc) /\ u <= Len(Units)
    BY <2>1 DEF Inv, Positions
  <2>3. s \in 1 .. Len(doc)
    BY <2>2, Held
  <2>4. Len(Units) \in Nat
    BY <2>3, Held, BodyTexts DEF Units
  <2>5. u \in 1 .. Len(Units)
    BY <2>2, <2>4, Held
  <2>6. QED BY <2>1, <2>3, <2>5 DEF Units, Unit
<1> DEFINE x == Texts(chunks)
           y == Texts(atoms)
           w == Sections(s - 1) ++ UnitsTo(u - 1)
           v == LinesTo(l - 1)
<1>1. /\ x \in Text /\ y \in Text /\ Len(Unit.lines) \in Nat
      /\ s \in Nat /\ u \in Nat /\ l \in Nat \ {0} /\ doc \in Documents
      /\ \A k \in 1 .. Len(Unit.lines) : LineText(s, u, k) \in Text
  BY <1>0, Held, BodyTexts DEF Units, Unit
<1>2. w \in Text
  <2>1. u - 1 \in Nat /\ u - 1 <= Len(Units) /\ Sections(s - 1) \in Text
    BY <1>0, Held
  <2>2. UnitsTo(u - 1) \in Text
    BY <1>0, <1>1, <2>1, NextUnit
  <2>3. QED BY <2>1, <2>2, Regrouped
<1>3. l <= Len(Unit.lines) + 1
  BY <1>0, <1>1 DEF Inv, Positions, ByteInv, PlaceInv
<1>4. /\ v \in Text
      /\ l <= Len(Unit.lines) => LinesTo(l) = v ++ LineText(s, u, l)
  <2>1. l - 1 \in Nat /\ l - 1 <= Len(Unit.lines) /\ (l - 1) + 1 = l
    BY <1>1, <1>3
  <2>2. /\ LinesTo(l - 1) \in Text
        /\ l - 1 < Len(Unit.lines) =>
              LinesTo((l - 1) + 1) = LinesTo(l - 1) ++ LineText(s, u, (l - 1) + 1)
    BY <1>0, <1>1, <2>1, NextLine
  <2>3. QED BY <1>1, <2>1, <2>2
<1>5. /\ pc = "lines" => x ++ y = w ++ v
      /\ pc = "windows" => x ++ y = (w ++ v) ++ Slice(s, u, l, 0, start)
  <2>1. ToLine = w ++ v
    BY Held
  <2>2. QED BY <2>1 DEF ByteInv, EveryByteOnce, Pending, SplitOff, ++
<1> HIDE DEF x, y, w, v
\* A text that goes from what is left to the atoms.
<1>6. ASSUME NEW t \in Text, NEW z \in Text, x ++ y = (w ++ v) ++ z
      PROVE  x ++ (y ++ t) = (w ++ v) ++ (z ++ t)
  <2>1. (x ++ y) ++ t = x ++ (y ++ t)
    BY <1>1, <1>6, Regrouped
  <2>2. w ++ v \in Text
    BY <1>2, <1>4, Regrouped
  <2>3. ((w ++ v) ++ z) ++ t = (w ++ v) ++ (z ++ t)
    BY <1>6, <2>2, Regrouped
  <2>4. QED BY <1>6, <2>1, <2>3
<1>7. w ++ v \in Text
  BY <1>2, <1>4, Regrouped
<1>8. CASE KeepLine
  <2> DEFINE e == Atom(LineText(s, u, l), LineTokens(Line))
  <2>1. /\ l <= Len(Unit.lines) /\ atoms' = Append(atoms, e) /\ l' = l + 1 /\ pc = "lines"
        /\ pc' = "lines"
    BY <1>8 DEF KeepLine
  <2>2. LineText(s, u, l) \in Text
    BY <1>1, <2>1
  <2>3. e.text = LineText(s, u, l)
    BY DEF Atom
  <2> HIDE DEF e
  <2>4. Texts(atoms') = y ++ LineText(s, u, l) /\ TextsOf(atoms')
    BY <2>1, <2>2, <2>3, TextsAdded DEF Inv, AtomsBounded, ByteInv, TextInv, y
  <2>5. SplitOff' = w ++ (v ++ LineText(s, u, l)) /\ Pending' = Texts(atoms')
    <3>1. l = l' - 1
      BY <1>1, <2>1
    <3>2. SplitOff' = w ++ LinesTo(l)
      BY <1>0, <2>1, <3>1, SplitOffNext DEF w
    <3>3. QED BY <1>4, <2>1, <3>2 DEF Pending, Texts
  <2>6. x ++ (y ++ LineText(s, u, l)) = w ++ (v ++ LineText(s, u, l))
    <3>1. (x ++ y) ++ LineText(s, u, l) = x ++ (y ++ LineText(s, u, l))
      BY <1>1, <2>2, Regrouped
    <3>2. (w ++ v) ++ LineText(s, u, l) = w ++ (v ++ LineText(s, u, l))
      BY <1>2, <1>4, <2>2, Regrouped
    <3>3. QED BY <1>5, <2>1, <3>1, <3>2
  <2>7. EveryByteOnce'
    BY <1>0, <2>4, <2>5, <2>6 DEF EveryByteOnce, ++, x
  <2>8. PlaceInv' /\ TextInv'
    BY <1>0, <1>1, <2>1, <2>4 DEF PlaceInv, TextInv, ByteInv
  <2>9. QED BY <2>7, <2>8 DEF ByteInv
<1>9. CASE SplitLine
  <2>1. /\ l <= Len(Unit.lines) /\ atoms' = atoms /\ l' = l /\ pc = "lines"
        /\ pc' = "windows" /\ cut' = target /\ start' = 0 /\ target' = target
    BY <1>9 DEF SplitLine, args
  <2>2. SplitOff' = (w ++ v) ++ Slice(s, u, l, 0, 0)
    BY <1>0, <2>1, SplitOffNext DEF w, v
  <2>3. Slice(s, u, l, 0, 0) = <<>>
    BY <1>1, Slices
  <2>4. EveryByteOnce'
    BY <1>0, <1>5, <1>7, <2>1, <2>2, <2>3, NothingAdded DEF EveryByteOnce, Pending, Texts, ++, x, y
  <2>5. Line' = Line /\ Bytes(Line) \in Nat
    <3>1. Line' = Line
      BY <1>0, <2>1 DEF Line
    <3>2. WellFormedLine(Line)
      BY <1>0, <2>1, LookedAt DEF Inv
    <3>3. QED BY <3>1, <3>2, LineEnds DEF Bytes
  <2>6. WindowsMeet'
    <3>1. Bytes(Line') \in Nat /\ Bytes(Line)' = Bytes(Line')
      BY <2>5 DEF Bytes
    <3>2. QED BY <2>1, <2>5, <3>1 DEF WindowsMeet
  <2>7. PlaceInv' /\ TextInv'
    BY <1>0, <1>1, <2>1, <2>6 DEF PlaceInv, TextInv, ByteInv
  <2>8. QED BY <2>4, <2>7 DEF ByteInv
\* Cutting at a byte not before the start: what is cut goes to the atoms.
<1>10. ASSUME pc = "windows", NEW end \in Nat, start <= end, CutTo(end)
       PROVE  /\ Slice(s, u, l, 0, end) \in Text /\ TextsOf(atoms')
              /\ x ++ Texts(atoms') = (w ++ v) ++ Slice(s, u, l, 0, end)
  <2>1. start \in Nat /\ 0 \in Nat /\ 0 <= start
    BY DEF Inv, Positions
  <2>2. Slice(s, u, l, 0, start) \in Text
    BY <1>1, <2>1, Slices
  <2>3. /\ Slice(s, u, l, start, end) \in Text /\ Slice(s, u, l, 0, end) \in Text
        /\ Slice(s, u, l, 0, start) ++ Slice(s, u, l, start, end) = Slice(s, u, l, 0, end)
    <3>1. start <= start /\ start <= end /\ end \in Nat /\ s \in Nat /\ u \in Nat /\ l \in Nat
      BY <1>1, <1>10, <2>1
    <3>2. Slice(s, u, l, start, end) \in Text
      BY ONLY <2>1, <3>1, Slices
    <3>3. \A from \in Nat : from <= start =>
             /\ Slice(s, u, l, from, end) \in Text
             /\ Slice(s, u, l, from, start) ++ Slice(s, u, l, start, end)
                   = Slice(s, u, l, from, end)
      BY ONLY <2>1, <3>1, Slices
    <3>4. QED BY <2>1, <3>2, <3>3
  <2>4. CASE end > start
    <3> DEFINE e == Atom(Slice(s, u, l, start, end), SliceTokens(Line, start, end))
    <3>1. atoms' = Append(atoms, e)
      BY <1>10, <2>4 DEF CutTo
    <3>2. e.text = Slice(s, u, l, start, end)
      BY DEF Atom
    <3> HIDE DEF e
    <3>3. Texts(atoms') = y ++ Slice(s, u, l, start, end) /\ TextsOf(atoms')
      BY <2>3, <3>1, <3>2, TextsAdded DEF Inv, AtomsBounded, ByteInv, TextInv, y
    <3>4. x ++ (y ++ Slice(s, u, l, start, end))
             = (w ++ v) ++ (Slice(s, u, l, 0, start) ++ Slice(s, u, l, start, end))
      BY <1>5, <1>6, <1>10, <2>2, <2>3
    <3>5. QED BY <2>3, <3>3, <3>4
  <2>5. CASE ~(end > start)
    <3>1. end = start
      BY <1>10, <2>1, <2>5
    <3>2. atoms' = atoms
      BY <1>10, <2>5 DEF CutTo
    <3>3. QED BY <1>5, <1>10, <2>3, <3>1, <3>2 DEF ByteInv, TextInv, TextsOf, y
  <2>6. QED BY <2>4, <2>5
<1>11. CASE CutWindow
  <2>1. /\ pc = "windows" /\ pc' = "windows" /\ cut < LineTokens(Line) /\ l' = l
        /\ start' = Boundary(Line, cut) /\ cut' = cut + target /\ target' = target
        /\ CutTo(Boundary(Line, cut)) /\ l <= Len(Unit.lines)
    BY <1>11 DEF CutWindow, args, Inv, Positions
  <2>2. WellFormedLine(Line) /\ Line' = Line
    BY <1>0, <2>1, LookedAt DEF Inv, Line
  <2>3. /\ target \in Nat \ {0} /\ cut \in Nat /\ start \in Nat /\ WindowsMeet
        /\ LineTokens(Line) = Len(Line.ends) /\ Len(Line.ends) \in Nat \ {0}
        /\ DOMAIN Line.ends = 1 .. Len(Line.ends)
    BY <2>1, <2>2, LineEnds DEF Inv, Positions, ByteInv, PlaceInv, LineTokens
  <2>4. cut \in DOMAIN Line.ends
    <3>1. cut = target \/ cut - target \in 1 .. Len(Line.ends)
      BY <2>3 DEF WindowsMeet
    <3>2. cut >= 1
      BY <2>3, <3>1
    <3>3. QED BY <2>1, <2>3, <3>2
  <2>5. Boundary(Line, cut) \in Line.ends[cut] .. Bytes(Line) /\ Line.ends[cut] \in Nat
        /\ Bytes(Line) \in Nat /\ Boundary(Line, cut) \notin Line.cont
    BY <2>2, <2>3, <2>4, LineEnds, BoundaryNear DEF Bytes
  <2>6. Boundary(Line, cut) \in Nat /\ Boundary(Line, cut) <= Bytes(Line)
    BY <2>5
  <2>7. start <= Boundary(Line, cut)
    <3>1. CASE cut = target /\ start = 0
      BY <2>6, <3>1
    <3>2. CASE cut - target \in DOMAIN Line.ends /\ start = Boundary(Line, cut - target)
      <4>1. /\ start \in Line.ends[cut - target] .. Bytes(Line)
            /\ \A o \in Line.ends[cut - target] .. start - 1 : o \in Line.cont
        BY <2>2, <3>2, BoundaryNear
      <4>2. Line.ends[cut - target] \in Nat /\ Line.ends[cut - target] < Line.ends[cut]
        <5>1. cut - target \in 1 .. Len(Line.ends) /\ cut \in 1 .. Len(Line.ends)
              /\ cut - target < cut
          BY <2>3, <2>4, <3>2
        <5>2. QED BY <2>2, <5>1, LineEnds
      <4>3. CASE Boundary(Line, cut) < start
        <5>1. Boundary(Line, cut) \in Line.ends[cut - target] .. start - 1
          BY <2>3, <2>5, <2>6, <4>2, <4>3
        <5>2. QED BY <2>5, <4>1, <5>1
      <4>4. QED BY <2>3, <2>6, <4>3
    <3>3. QED BY <2>3, <3>1, <3>2 DEF WindowsMeet
  <2> DEFINE b == Boundary(Line, cut)
  <2>8. /\ TextsOf(atoms')
        /\ x ++ Texts(atoms') = (w ++ v) ++ Slice(s, u, l, 0, b)
    BY <1>10, <2>1, <2>6, <2>7
  <2>9. SplitOff' = (w ++ v) ++ Slice(s, u, l, 0, b) /\ Pending' = Texts(atoms')
    BY <1>0, <2>1, SplitOffNext DEF w, v, Pending, Texts
  <2>10. EveryByteOnce'
    BY <1>0, <2>8, <2>9 DEF EveryByteOnce, ++, x
  <2>11. WindowsMeet'
    <3>1. cut' - target' = cut
      BY <2>1, <2>3
    <3>2. Bytes(Line)' = Bytes(Line) /\ (\A n : Boundary(Line, n)' = Boundary(Line, n))
      BY <2>2 DEF Bytes, Boundary
    <3>3. start' <= Bytes(Line)'
      BY <2>1, <2>6, <3>2
    <3>4. PICK n : n = cut
      OBVIOUS
    <3>5. start' = Boundary(Line, n)' /\ n \in DOMAIN Line'.ends /\ n = cut' - target'
      BY <2>1, <2>2, <2>4, <3>1, <3>2, <3>4
    <3>6. QED BY <3>3, <3>5 DEF WindowsMeet, Boundary
  <2>12. PlaceInv' /\ TextInv'
    BY <1>0, <1>1, <2>1, <2>8, <2>11 DEF PlaceInv, TextInv, ByteInv
  <2>13. QED BY <2>10, <2>12 DEF ByteInv
<1>12. CASE LastWindow
  <2>1. /\ pc = "windows" /\ pc' = "lines" /\ l' = l + 1 /\ CutTo(Bytes(Line))
        /\ l <= Len(Unit.lines)
    BY <1>12 DEF LastWindow, Inv, Positions
  <2>2. WellFormedLine(Line)
    BY <2>1, LookedAt DEF Inv
  <2>3. Bytes(Line) \in Nat /\ start <= Bytes(Line)
    BY <2>1, <2>2, LineEnds DEF Bytes, ByteInv, PlaceInv, WindowsMeet
  <2>4. Slice(s, u, l, 0, Bytes(Line)) = LineText(s, u, l)
    BY DEF LineText, Line, Unit, Units
  <2>5. /\ TextsOf(atoms') /\ LineText(s, u, l) \in Text
        /\ x ++ Texts(atoms') = (w ++ v) ++ LineText(s, u, l)
    BY <1>10, <2>1, <2>3, <2>4
  <2>6. SplitOff' = w ++ (v ++ LineText(s, u, l)) /\ Pending' = Texts(atoms')
    <3>1. l = l' - 1
      BY <1>1, <2>1
    <3>2. SplitOff' = w ++ LinesTo(l)
      BY <1>0, <2>1, <3>1, SplitOffNext DEF w
    <3>3. QED BY <1>4, <2>1, <3>2 DEF Pending, Texts
  <2>7. (w ++ v) ++ LineText(s, u, l) = w ++ (v ++ LineText(s, u, l))
    BY <1>2, <1>4, <2>5, Regrouped
  <2>8. EveryByteOnce'
    BY <1>0, <2>5, <2>6, <2>7 DEF EveryByteOnce, ++, x
  <2>9. PlaceInv' /\ TextInv'
    BY <1>0, <1>1, <2>1, <2>5 DEF PlaceInv, TextInv, ByteInv
  <2>10. QED BY <2>8, <2>9 DEF ByteInv
<1>13. QED BY <1>8, <1>9, <1>11, <1>12

(* The steps of the packing loop.                                          *)
LEMMA PackBytes ==
    ASSUME Inv, ByteInv, PackAtom \/ DropSeed \/ EmitChunk \/ EmitLastChunk
    PROVE  ByteInv'
<1> DEFINE x == Texts(chunks)
           y == open.text
           z == Texts(From(atoms, index))
<1>0. /\ doc' = doc /\ atoms' = atoms /\ pc = "pack" /\ s \in 1 .. Len(doc)
      /\ Len(atoms) \in Nat /\ index \in Nat \ {0}
  <2>1. doc' = doc /\ atoms' = atoms /\ pc = "pack"
    BY DEF PackAtom, DropSeed, TakeAtom, EmitChunk, EmitLastChunk, args
  <2>2. s <= Len(doc)
    BY <2>1 DEF ByteInv, PlaceInv
  <2>3. QED BY <2>1, <2>2, Held, LenProperties DEF Inv, AtomsBounded, OpenBounded
<1>1. index > Len(atoms) => z = <<>>
  <2>1. ASSUME index > Len(atoms) PROVE From(atoms, index) = <<>>
    BY <1>0, <2>1, SubSeqEmpty DEF From
  <2>2. QED BY <2>1, NoTexts
<1>2. index <= Len(atoms) =>
         /\ z = atoms[index].text ++ Texts(From(atoms, index + 1))
         /\ Texts(From(atoms, index + 1)) \in Text /\ atoms[index].text \in Text
  <2>1. ASSUME index <= Len(atoms)
        PROVE  /\ z = atoms[index].text ++ Texts(From(atoms, index + 1))
               /\ Texts(From(atoms, index + 1)) \in Text /\ atoms[index].text \in Text
    <3>1. index \in 1 .. Len(atoms) /\ TextsOf(atoms) /\ atoms \in Seq(Range(atoms))
      BY <1>0, <2>1 DEF ByteInv, TextInv, Inv, AtomsBounded
    <3>2. atoms[index].text \in Text
      BY <3>1, LenProperties DEF TextsOf
    <3>3. QED BY <3>1, <3>2, TextsFrom
  <2>2. QED BY <2>1
<1>3. x \in Text /\ y \in Text /\ z \in Text
  <2>1. x \in Text /\ y \in Text
    BY Held DEF ByteInv, TextInv
  <2>2. index <= Len(atoms) \/ index > Len(atoms)
    BY <1>0
  <2>3. QED BY <1>1, <1>2, <2>1, <2>2, NoTexts, Regrouped
<1>4. x ++ (y ++ z) = Sections(s) /\ Sections(s) \in Text
  <2>1. x ++ (y ++ z) = Sections(s)
    BY <1>0 DEF ByteInv, EveryByteOnce, Pending, SplitOff, ++
  <2>2. QED BY <1>3, <2>1, Regrouped
<1> HIDE DEF x, y, z
\* An atom goes from those left to pack to the open chunk.
<1>5. CASE PackAtom \/ DropSeed
  <2> DEFINE a == atoms[index].text
             r == Texts(From(atoms, index + 1))
  <2>1. PICK seed, tokens : index <= Len(atoms) /\ TakeAtom(seed, tokens)
    BY <1>5 DEF PackAtom, DropSeed
  <2>2. /\ index <= Len(atoms) /\ index' = index + 1 /\ s' = s /\ pc' = "pack"
        /\ chunks' = chunks
    BY <1>0, <2>1 DEF TakeAtom
  <2>3. open'.text = y ++ a
    BY <2>1 DEF TakeAtom, Chunk, ++, y
  <2>4. z = a ++ r /\ r \in Text /\ a \in Text
    BY <1>2, <2>2
  <2>5. SplitOff' = Sections(s)
    <3>1. s = s'
      BY <2>2
    <3>2. QED BY <1>0, <2>2, <3>1, SplitOffNext
  <2>6. Pending' = (y ++ a) ++ r
    BY <1>0, <2>2, <2>3 DEF Pending, Texts, From, ++
  <2> HIDE DEF a, r
  <2>7. (y ++ a) ++ r = y ++ z /\ y ++ a \in Text
    BY <1>3, <2>4, Regrouped
  <2>8. EveryByteOnce'
    BY <1>4, <2>2, <2>5, <2>6, <2>7 DEF EveryByteOnce, ++, x
  <2>9. PlaceInv' /\ TextInv'
    BY <1>0, <2>2, <2>3, <2>7, Held DEF PlaceInv, TextInv, ByteInv
  <2>10. QED BY <2>8, <2>9 DEF ByteInv
\* The open chunk goes to the chunks.
<1>6. CASE EmitChunk \/ EmitLastChunk
  <2>1. open'.text = <<>> /\ chunks' = IF hasBody THEN Append(chunks, open) ELSE chunks
    BY <1>6 DEF EmitChunk, EmitLastChunk, NoSeed, Seeded, Chunk
  <2>2. Texts(chunks') = x ++ y /\ TextsOf(chunks')
    <3>1. CASE hasBody
      BY <2>1, <3>1, TextsAdded DEF Inv, ChunksInv, ByteInv, TextInv, x, y
    <3>2. CASE ~hasBody
      <4>1. y = <<>> /\ chunks' = chunks /\ TextsOf(chunks)
        BY <2>1, <3>2 DEF Inv, OpenBounded, ByteInv, TextInv, y
      <4>2. TextsOf(chunks') /\ Texts(chunks') = x
        BY <4>1 DEF TextsOf, x
      <4>3. QED BY <1>3, <4>1, <4>2, NothingAdded
    <3>3. QED BY <3>1, <3>2
  <2>3. (x ++ y) ++ z = Sections(s)
    BY <1>3, <1>4, Regrouped
  <2>4. CASE EmitChunk
    <3>1. index' = index /\ s' = s /\ pc' = "pack"
      BY <1>0, <2>4 DEF EmitChunk
    <3>2. SplitOff' = Sections(s)
      <4>1. s = s'
        BY <3>1
      <4>2. QED BY <1>0, <3>1, <4>1, SplitOffNext
    <3>3. Pending' = z
      <4>1. Pending' = <<>> ++ z
        BY <1>0, <2>1, <3>1 DEF Pending, Texts, From, ++, z
      <4>2. QED BY <1>3, <4>1, NothingAdded
    <3>4. EveryByteOnce'
      BY <2>2, <2>3, <3>2, <3>3 DEF EveryByteOnce, ++
    <3>5. PlaceInv' /\ TextInv'
      BY <1>0, <2>1, <2>2, <3>1, NoTexts, Held DEF PlaceInv, TextInv, ByteInv
    <3>6. QED BY <3>4, <3>5 DEF ByteInv
  <2>5. CASE EmitLastChunk
    <3>1. index > Len(atoms) /\ s' = s + 1 /\ pc' = "sections"
      BY <2>5 DEF EmitLastChunk
    <3>2. Texts(chunks') = Sections(s)
      BY <1>1, <1>3, <2>2, <2>3, <3>1, Regrouped, NothingAdded
    <3>3. SplitOff' = Sections(s) /\ Pending' = <<>>
      <4>1. s = s' - 1
        BY <1>0, <3>1
      <4>2. SplitOff' = Sections(s)
        BY <1>0, <3>1, <4>1, SplitOffNext
      <4>3. QED BY <3>1, <4>2 DEF Pending
    <3>4. EveryByteOnce'
      BY <1>4, <3>2, <3>3, NothingAdded DEF EveryByteOnce, ++
    <3>5. PlaceInv' /\ TextInv'
      BY <1>0, <2>1, <2>2, <3>1, NoTexts, Held DEF PlaceInv, TextInv, ByteInv
    <3>6. QED BY <3>4, <3>5 DEF ByteInv
  <2>6. QED BY <1>6, <2>4, <2>5
<1>7. QED BY <1>5, <1>6

LEMMA SameBytes == ASSUME Inv, ByteInv, UNCHANGED vars PROVE ByteInv'
<1>1. /\ doc' = doc /\ pc' = pc /\ s' = s /\ u' = u /\ l' = l /\ cut' = cut /\ start' = start
      /\ target' = target /\ atoms' = atoms /\ index' = index /\ open' = open
      /\ chunks' = chunks
  BY DEF vars, args
<1>2. Units' = Units /\ Unit' = Unit /\ Line' = Line
  BY <1>1 DEF Units, Unit, Line
<1>3. PlaceInv'
  BY <1>1, <1>2 DEF ByteInv, PlaceInv, WindowsMeet, Boundary, Bytes
<1>4. TextInv'
  BY <1>1 DEF ByteInv, TextInv, TextsOf
<1>5. Pending' = Pending
  BY <1>1 DEF Pending, Texts, From
<1>6. SplitOff' = SplitOff
  <2>1. PICK n : n = s - 1
    OBVIOUS
  <2>2. PICK m : m = u - 1
    OBVIOUS
  <2>3. PICK k : k = l - 1
    OBVIOUS
  <2>4. n = s' - 1 /\ m = u' - 1 /\ k = l' - 1 /\ s = s'
    BY <1>1, <2>1, <2>2, <2>3
  <2>5. /\ pc = "sections" => SplitOff' = Sections(n)
        /\ pc = "pack" => SplitOff' = Sections(s)
        /\ pc = "done" => SplitOff' = Sections(Len(doc))
        /\ pc = "units" => SplitOff' = Sections(s - 1) ++ UnitsTo(m)
        /\ pc = "lines" =>
              SplitOff' = (Sections(s - 1) ++ UnitsTo(u - 1)) ++ LinesTo(k)
        /\ pc = "windows" =>
              SplitOff' = ((Sections(s - 1) ++ UnitsTo(u - 1)) ++ LinesTo(l - 1))
                             ++ Slice(s, u, l, 0, start')
    BY <1>1, <2>4, SplitOffNext
  <2>6. /\ pc = "sections" => SplitOff = Sections(n)
        /\ pc = "pack" => SplitOff = Sections(s)
        /\ pc = "done" => SplitOff = Sections(Len(doc))
        /\ pc = "units" => SplitOff = Sections(s - 1) ++ UnitsTo(m)
        /\ pc = "lines" =>
              SplitOff = (Sections(s - 1) ++ UnitsTo(u - 1)) ++ LinesTo(k)
        /\ pc = "windows" =>
              SplitOff = ((Sections(s - 1) ++ UnitsTo(u - 1)) ++ LinesTo(l - 1))
                            ++ Slice(s, u, l, 0, start)
    BY <2>1, <2>2, <2>3 DEF SplitOff, ToLine, ToUnit, UnitsTo, LinesTo, ++
  <2>7. pc \in {"sections", "units", "lines", "windows", "pack", "done"}
    BY DEF Inv, Positions
  <2>8. QED BY <1>1, <2>5, <2>6, <2>7
<1>7. EveryByteOnce'
  BY <1>1, <1>5, <1>6 DEF ByteInv, EveryByteOnce, Texts
<1>8. QED BY <1>3, <1>4, <1>7 DEF ByteInv

LEMMA BytesInvariant == Spec => [](Inv /\ ByteInv)
<1>1. Init => Inv /\ ByteInv
  BY InitInv, InitBytes
<1>2. Inv /\ ByteInv /\ [Next]_vars => Inv' /\ ByteInv'
  <2> SUFFICES ASSUME Inv, ByteInv, [Next]_vars PROVE Inv' /\ ByteInv'
    OBVIOUS
  <2>1. CASE Next
    BY <2>1, SplitInv, PackInv, SectionBytes, UnitBytes, LineBytes, PackBytes DEF Next
  <2>2. CASE UNCHANGED vars
    <3>1. Inv'
      BY <2>2 DEF vars, Inv, Positions, WindowStart, AtomsBounded, OpenBounded,
                  ChunksInv, Slack, Units, Unit, Line
    <3>2. QED BY <2>2, <3>1, SameBytes
  <2> QED
    BY <2>1, <2>2
<1> QED
  BY <1>1, <1>2, PTL DEF Spec

(* Whatever the body, the budget and the joints, every byte of it is in    *)
(* exactly one chunk's text, in order: nothing is lost or doubled where a  *)
(* cut falls into a character, a chunk closes or a seed is dropped.        *)
THEOREM EveryByteIsKept == Spec => []EveryByteOnce
<1>1. Inv /\ ByteInv => EveryByteOnce
  BY DEF ByteInv
<1>2. QED BY BytesInvariant, <1>1, PTL

(* What chunk_markdown returns holds the whole body: its chunks, without   *)
(* their seeds, are the texts of all sections one after the other.         *)
THEOREM ReturnsWholeBody == Spec => [](pc = "done" => Texts(chunks) = Sections(Len(doc)))
<1>1. ASSUME Inv, ByteInv, pc = "done" PROVE Texts(chunks) = Sections(Len(doc))
  <2>1. Texts(chunks) ++ <<>> = Sections(Len(doc))
    BY <1>1 DEF ByteInv, EveryByteOnce, Pending, SplitOff, ++
  <2>2. QED BY <1>1, <2>1, Held, NothingAdded
<1>2. Inv /\ ByteInv => (pc = "done" => Texts(chunks) = Sections(Len(doc)))
  BY <1>1
<1>3. Spec => [](Inv /\ ByteInv)
  BY BytesInvariant
<1>4. QED BY <1>2, <1>3, PTL
-----------------------------------------------------------------------------
(* The ratings of the answers and the reports.                             *)
Turn == [question : Questions, found : {o.found : o \in Outcomes},
         sim : {o.sim : o \in Outcomes}, declines : {o.declines : o \in Outcomes}]
Rating == [turn : Nat, value : Values, seen : Values \cup {NoValue},
           at : {"sent", "read", "flushed", "committed", "failed"},
           heard : {"waiting", "ok", "error", "lost"}, alone : BOOLEAN]
Shown == [shown : Values \cup {NoValue}, previous : Values \cup {NoValue},
          pending : BOOLEAN]

FeedbackTypes ==
    /\ MaxTurns \in Nat
    /\ Len(turns) <= MaxTurns /\ since \in Nat \ {0}
    /\ feedback \in [1 .. Len(turns) -> Values \cup {NoValue}]
    /\ page \in [1 .. Len(turns) -> Shown]
    /\ turns \in Seq(Turn)
    /\ ratings \in Seq(Rating)
    /\ \A i \in DOMAIN ratings : ratings[i].turn \in DOMAIN page

Latest(i, t) == i \in Of(t) /\ \A j \in Of(t) : j <= i

\* What the page may have been told, and which request of an answer is pending.
HeardInv ==
    /\ \A i \in DOMAIN ratings :
          /\ ratings[i].heard = "ok" => ratings[i].at \in {"flushed", "committed", "failed"}
          /\ ratings[i].heard = "error" => ratings[i].at = "failed"
          /\ ratings[i].heard = "waiting" =>
                 Latest(i, ratings[i].turn) /\ page[ratings[i].turn].pending
    /\ \A t \in DOMAIN page :
          page[t].pending => \E i \in Of(t) : ratings[i].heard = "waiting"

\* A request that ran alone started after the earlier ones had ended, and ended
\* before the later ones started.
AloneInv ==
    \A i, j \in DOMAIN ratings :
        ratings[j].turn = ratings[i].turn /\ j < i /\ (ratings[i].alone \/ ratings[j].alone)
            => ~UnderWay(j)

\* What the last request of an answer leaves, stored and shown.
LastInv ==
    \A t \in DOMAIN page, i \in DOMAIN ratings : Latest(i, t) =>
        /\ ratings[i].alone /\ ratings[i].at \in {"read", "flushed"} =>
               ratings[i].seen = feedback[t]
        /\ ratings[i].alone /\ ratings[i].at = "committed" => feedback[t] = ratings[i].value
        /\ page[t].shown = IF ratings[i].heard \in {"waiting", "ok"} THEN ratings[i].value
                           ELSE page[t].previous

\* Nothing has gone wrong with a request yet.
Sound(i) ==
    /\ ratings[i].alone /\ ratings[i].heard # "lost"
    /\ ratings[i].heard = "ok" => ratings[i].at \in {"flushed", "committed"}

\* While nothing has, what the page showed before the last request is stored
\* until that request commits.
BeforeInv ==
    \A t \in DOMAIN page :
        /\ Of(t) = {} => feedback[t] = page[t].shown
        /\ \A i \in DOMAIN ratings :
              Latest(i, t) /\ (\A j \in Of(t) : Sound(j)) /\ ratings[i].at # "committed" =>
                  feedback[t] = page[t].previous

FeedbackInv == FeedbackTypes /\ HeardInv /\ AloneInv /\ LastInv /\ BeforeInv

-----------------------------------------------------------------------------
\* Appending to a sequence leaves what it held.
LEMMA Appended ==
    ASSUME NEW T, NEW q \in Seq(T), NEW e \in T
    PROVE  /\ Append(q, e) \in Seq(T) /\ Len(Append(q, e)) = Len(q) + 1
           /\ Len(q) \in Nat /\ DOMAIN q = 1 .. Len(q)
           /\ DOMAIN Append(q, e) = 1 .. Len(q) + 1
           /\ \A i \in 1 .. Len(q) : Append(q, e)[i] = q[i]
           /\ Append(q, e)[Len(q) + 1] = e
OBVIOUS

\* A sequence is a function on the numbers up to its length.
LEMMA SequenceIsFunction ==
    ASSUME NEW T, NEW n \in Nat
    PROVE  /\ \A f \in [1 .. n -> T] : f \in Seq(T) /\ Len(f) = n /\ DOMAIN f = 1 .. n
           /\ \A q \in Seq(T) : Len(q) = n => q \in [1 .. n -> T]
OBVIOUS

\* A set of numbers with a bound has a greatest.
LEMMA Greatest ==
    ASSUME NEW n \in Nat, NEW S \in SUBSET (1 .. n), S # {}
    PROVE  \E m \in S : \A x \in S : x <= m
<1> DEFINE R == OpToRel(<, Nat)
           T == {n - x : x \in S}
<1>1. IsWellFoundedOn(R, Nat) /\ \A x, y \in Nat : y < x => <<y, x>> \in R
  BY NatLessThanWellFounded DEF OpToRel
<1>2. \A x \in S : x \in Nat /\ x <= n /\ n - x \in Nat
  OBVIOUS
<1>3. T \subseteq Nat /\ T # {}
  BY <1>2
<1> HIDE DEF R
<1>4. PICK d \in T : \A e \in T : <<e, d>> \notin R
  BY <1>1, <1>3, WFMin
<1>5. PICK m \in S : d = n - m
  BY <1>4
<1>6. ASSUME NEW x \in S PROVE x <= m
  <2>1. ~(n - x < n - m)
    BY <1>1, <1>3, <1>4, <1>5
  <2>2. QED BY <1>2, <2>1
<1>7. QED BY <1>6

\* An answer that was rated has a last rating.
LEMMA HasLast ==
    ASSUME FeedbackTypes, NEW t \in DOMAIN page, Of(t) # {}
    PROVE  \E i \in DOMAIN ratings : Latest(i, t)
<1>1. Of(t) \subseteq 1 .. Len(ratings) /\ Len(ratings) \in Nat
  BY DEF Of, FeedbackTypes
<1>2. QED BY <1>1, Greatest DEF Latest, Of

\* The types, as facts about each element.
LEMMA Typed ==
    ASSUME FeedbackTypes
    PROVE  /\ ratings \in [1 .. Len(ratings) -> Rating] /\ Len(ratings) \in Nat
           /\ DOMAIN ratings = 1 .. Len(ratings)
           /\ Len(turns) \in Nat /\ DOMAIN page = 1 .. Len(turns)
           /\ \A i \in DOMAIN ratings :
                 /\ ratings[i] \in Rating /\ ratings[i].turn \in DOMAIN page
                 /\ feedback[ratings[i].turn] \in Values \cup {NoValue}
           /\ \A t \in DOMAIN page : page[t] \in Shown
<1>1. /\ ratings \in [1 .. Len(ratings) -> Rating] /\ Len(ratings) \in Nat
      /\ Len(turns) \in Nat
  BY DEF FeedbackTypes
<1>2. /\ page \in [1 .. Len(turns) -> Shown]
      /\ feedback \in [1 .. Len(turns) -> Values \cup {NoValue}]
      /\ \A i \in DOMAIN ratings : ratings[i].turn \in DOMAIN page
  BY DEF FeedbackTypes
<1>3. QED BY <1>1, <1>2

\* The record of one request is replaced.
LEMMA Replaced ==
    ASSUME FeedbackTypes, NEW i \in DOMAIN ratings, NEW r \in Rating,
           ratings' = [ratings EXCEPT ![i] = r]
    PROVE  /\ ratings' \in Seq(Rating) /\ DOMAIN ratings' = DOMAIN ratings
           /\ \A j \in DOMAIN ratings \ {i} : ratings'[j] = ratings[j]
           /\ ratings'[i] = r
<1>1. PICK n \in Nat : ratings \in [1 .. n -> Rating] /\ DOMAIN ratings = 1 .. n
  BY Typed
<1>2. ratings' \in [1 .. n -> Rating]
  BY <1>1
<1>3. QED BY <1>1, <1>2

\* A step of a request at the server moves it on; its commit may write.
LEMMA ServerEffect ==
    ASSUME FeedbackTypes, NEW i \in DOMAIN ratings,
           Read(i) \/ Flush(i) \/ Commit(i) \/ Fail(i)
    PROVE  /\ ratings' \in Seq(Rating) /\ DOMAIN ratings' = DOMAIN ratings
           /\ \A j \in DOMAIN ratings \ {i} : ratings'[j] = ratings[j]
           /\ ratings'[i].turn = ratings[i].turn /\ ratings'[i].value = ratings[i].value
           /\ ratings'[i].alone = ratings[i].alone
           /\ ratings'[i].heard = ratings[i].heard
           /\ UNCHANGED <<report, page>>
           /\ UnderWay(i)
           /\ \/ /\ ratings'[i].at = "read" /\ UNCHANGED feedback
                 /\ ratings[i].at = "sent"
                 /\ ratings'[i].seen = feedback[ratings[i].turn]
              \/ /\ ratings'[i].at = "flushed" /\ UNCHANGED feedback
                 /\ ratings[i].at = "read" /\ ratings'[i].seen = ratings[i].seen
              \/ /\ ratings'[i].at = "committed" /\ ratings[i].at = "flushed"
                 /\ feedback' = IF Writes(i)
                                 THEN [feedback EXCEPT ![ratings[i].turn] = ratings[i].value]
                                 ELSE feedback
              \/ /\ ratings'[i].at = "failed" /\ UNCHANGED feedback
<1>1. /\ ratings[i] \in Rating /\ ratings[i].turn \in DOMAIN page
      /\ feedback[ratings[i].turn] \in Values \cup {NoValue}
  BY Typed
<1>2. ASSUME NEW w \in {"read", "flushed", "committed", "failed"}, GoTo(i, w)
      PROVE  /\ ratings' \in Seq(Rating) /\ DOMAIN ratings' = DOMAIN ratings
             /\ \A j \in DOMAIN ratings \ {i} : ratings'[j] = ratings[j]
             /\ ratings'[i] = [ratings[i] EXCEPT !.at = w]
  <2> DEFINE r == [ratings[i] EXCEPT !.at = w]
  <2>1. r \in Rating /\ ratings' = [ratings EXCEPT ![i] = r]
    BY <1>1, <1>2 DEF GoTo, Rating
  <2> HIDE DEF r
  <2>2. QED BY <2>1, Replaced DEF r
<1>3. CASE Read(i)
  <2> DEFINE r == [ratings[i] EXCEPT !.at = "read", !.seen = feedback[ratings[i].turn]]
  <2>1. r \in Rating
    BY <1>1 DEF Rating
  <2>2. ratings' = [ratings EXCEPT ![i] = r]
    BY <1>3 DEF Read
  <2>3. /\ r.turn = ratings[i].turn /\ r.value = ratings[i].value
        /\ r.alone = ratings[i].alone /\ r.heard = ratings[i].heard
        /\ r.at = "read" /\ r.seen = feedback[ratings[i].turn]
    BY <1>1 DEF Rating
  <2> HIDE DEF r
  <2>4. QED BY <1>3, <2>1, <2>2, <2>3, Replaced DEF Read, UnderWay
<1>4. CASE Flush(i)
  <2>1. GoTo(i, "flushed")
    BY <1>4 DEF Flush
  <2>2. QED BY <1>1, <1>2, <1>4, <2>1 DEF Flush, UnderWay, Rating
<1>5. CASE Commit(i)
  <2>1. GoTo(i, "committed")
    BY <1>5 DEF Commit
  <2>2. QED BY <1>1, <1>2, <1>5, <2>1 DEF Commit, UnderWay, Rating
<1>6. CASE Fail(i)
  <2>1. GoTo(i, "failed")
    BY <1>6 DEF Fail
  <2>2. QED BY <1>1, <1>2, <1>6, <2>1 DEF Fail, UnderWay, Rating
<1>7. QED BY <1>3, <1>4, <1>5, <1>6

\* What the client is told changes the page, for the answer in question.
LEMMA PageEffect ==
    ASSUME FeedbackTypes, NEW i \in DOMAIN ratings,
           Confirm(i) \/ Refuse(i) \/ LoseReply(i)
    PROVE  LET t == ratings[i].turn IN
           /\ ratings' \in Seq(Rating) /\ DOMAIN ratings' = DOMAIN ratings
           /\ \A j \in DOMAIN ratings \ {i} : ratings'[j] = ratings[j]
           /\ ratings'[i].turn = ratings[i].turn /\ ratings'[i].value = ratings[i].value
           /\ ratings'[i].alone = ratings[i].alone /\ ratings'[i].at = ratings[i].at
           /\ ratings'[i].seen = ratings[i].seen
           /\ UNCHANGED <<report, feedback>>
           /\ ratings[i].heard = "waiting"
           /\ page' \in [1 .. Len(turns) -> Shown]
           /\ \A b \in DOMAIN page \ {t} : page'[b] = page[b]
           /\ page'[t].previous = page[t].previous /\ ~page'[t].pending
           /\ \/ /\ ratings'[i].heard = "ok" /\ page'[t].shown = page[t].shown
                 /\ ratings[i].at \in {"flushed", "committed"}
              \/ /\ ratings'[i].heard \in {"error", "lost"}
                 /\ page'[t].shown = page[t].previous
                 /\ ratings'[i].heard = "error" => ratings[i].at = "failed"
<1> DEFINE t == ratings[i].turn
<1>1. /\ ratings[i] \in Rating /\ t \in DOMAIN page /\ page[t] \in Shown
      /\ page \in [1 .. Len(turns) -> Shown] /\ DOMAIN page = 1 .. Len(turns)
  BY Typed DEF FeedbackTypes
<1>2. ASSUME NEW w \in {"ok", "error", "lost"}, Heard(i, w)
      PROVE  /\ ratings' \in Seq(Rating) /\ DOMAIN ratings' = DOMAIN ratings
             /\ \A j \in DOMAIN ratings \ {i} : ratings'[j] = ratings[j]
             /\ ratings'[i].turn = ratings[i].turn /\ ratings'[i].value = ratings[i].value
             /\ ratings'[i].alone = ratings[i].alone /\ ratings'[i].at = ratings[i].at
             /\ ratings'[i].seen = ratings[i].seen /\ ratings'[i].heard = w
  <2> DEFINE r == [ratings[i] EXCEPT !.heard = w]
  <2>1. r \in Rating /\ ratings' = [ratings EXCEPT ![i] = r]
    BY <1>1, <1>2 DEF Heard, Rating
  <2>2. /\ r.turn = ratings[i].turn /\ r.value = ratings[i].value
        /\ r.alone = ratings[i].alone /\ r.at = ratings[i].at
        /\ r.seen = ratings[i].seen /\ r.heard = w
    BY <1>1 DEF Rating
  <2> HIDE DEF r
  <2>3. QED BY <2>1, <2>2, Replaced
<1>3. ASSUME Revert(t)
      PROVE  /\ page' \in [1 .. Len(turns) -> Shown]
             /\ \A b \in DOMAIN page \ {t} : page'[b] = page[b]
             /\ page'[t].previous = page[t].previous /\ ~page'[t].pending
             /\ page'[t].shown = page[t].previous
  <2> DEFINE r == [page[t] EXCEPT !.shown = page[t].previous, !.pending = FALSE]
  <2>1. r \in Shown /\ page' = [page EXCEPT ![t] = r]
    BY <1>1, <1>3 DEF Revert, Shown
  <2>2. r.previous = page[t].previous /\ ~r.pending /\ r.shown = page[t].previous
    BY <1>1 DEF Shown
  <2> HIDE DEF r, t
  <2>3. QED BY <1>1, <2>1, <2>2
<1>4. CASE Confirm(i)
  <2> DEFINE r == [page[t] EXCEPT !.pending = FALSE]
  <2>1. r \in Shown /\ page' = [page EXCEPT ![t] = r]
    BY <1>1, <1>4 DEF Confirm, Shown
  <2>2. r.previous = page[t].previous /\ ~r.pending /\ r.shown = page[t].shown
    BY <1>1 DEF Shown
  <2> HIDE DEF r
  <2>3. QED BY <1>1, <1>2, <1>4, <2>1, <2>2 DEF Confirm
<1>5. CASE Refuse(i)
  BY <1>2, <1>3, <1>5 DEF Refuse
<1>6. CASE LoseReply(i)
  BY <1>2, <1>3, <1>6 DEF LoseReply
<1>7. QED BY <1>4, <1>5, <1>6

\* A new request: the page shows its value; those under way are not alone.
LEMMA SelectEffect ==
    ASSUME FeedbackTypes, NEW t \in DOMAIN page, NEW v \in Values, Select(t, v)
    PROVE  LET n == Len(ratings) IN
           /\ n \in Nat /\ DOMAIN ratings = 1 .. n /\ DOMAIN ratings' = 1 .. n + 1
           /\ ratings' \in Seq(Rating)
           /\ \A j \in 1 .. n :
                 /\ ratings'[j].turn = ratings[j].turn /\ ratings'[j].value = ratings[j].value
                 /\ ratings'[j].seen = ratings[j].seen /\ ratings'[j].at = ratings[j].at
                 /\ ratings'[j].heard = ratings[j].heard
                 /\ ratings'[j].alone <=>
                        ratings[j].alone /\ ~(ratings[j].turn = t /\ UnderWay(j))
           /\ ratings'[n + 1] = [turn |-> t, value |-> v, seen |-> NoValue, at |-> "sent",
                                 heard |-> "waiting",
                                 alone |-> {i \in Of(t) : UnderWay(i)} = {}]
           /\ UNCHANGED <<report, feedback>>
           /\ ~page[t].pending
           /\ page' \in [1 .. Len(turns) -> Shown]
           /\ \A b \in DOMAIN page \ {t} : page'[b] = page[b]
           /\ page'[t] = [shown |-> v, previous |-> page[t].shown, pending |-> TRUE]
<1> DEFINE others == {i \in Of(t) : UnderWay(i)}
           new(j) == IF j \in others THEN [ratings[j] EXCEPT !.alone = FALSE] ELSE ratings[j]
           old == [j \in DOMAIN ratings |-> new(j)]
           sent == [turn |-> t, value |-> v, seen |-> NoValue, at |-> "sent",
                    heard |-> "waiting", alone |-> others = {}]
           shown == [shown |-> v, previous |-> page[t].shown, pending |-> TRUE]
<1>1. /\ ratings' = Append(old, sent) /\ UNCHANGED <<report, feedback>>
      /\ ~page[t].pending /\ page' = [page EXCEPT ![t] = shown]
  <2>1. page' = [page EXCEPT ![t] = [shown |-> v, previous |-> @.shown, pending |-> TRUE]]
    BY DEF Select
  <2>2. QED BY <2>1 DEF Select
<1>2. /\ page[t] \in Shown /\ page \in [1 .. Len(turns) -> Shown]
      /\ DOMAIN page = 1 .. Len(turns) /\ t \in Nat
  BY Typed DEF FeedbackTypes
<1>3. shown \in Shown
  BY <1>2 DEF Shown
<1>4. sent \in Rating
  BY <1>2 DEF Rating
<1>5. ASSUME NEW j \in DOMAIN ratings
      PROVE  /\ new(j) \in Rating
             /\ new(j).turn = ratings[j].turn /\ new(j).value = ratings[j].value
             /\ new(j).seen = ratings[j].seen /\ new(j).at = ratings[j].at
             /\ new(j).heard = ratings[j].heard
             /\ new(j).alone <=> ratings[j].alone /\ ~(ratings[j].turn = t /\ UnderWay(j))
  <2>1. ratings[j] \in Rating
    BY Typed
  <2>2. j \in others <=> ratings[j].turn = t /\ UnderWay(j)
    BY DEF Of
  <2> HIDE DEF others
  <2>3. QED BY <2>1, <2>2 DEF Rating
<1>6. PICK n \in Nat : n = Len(ratings) /\ DOMAIN ratings = 1 .. n
  BY Typed
<1> HIDE DEF new, sent, shown
<1>7. old \in Seq(Rating) /\ Len(old) = n /\ \A j \in 1 .. n : old[j] = new(j)
  BY <1>5, <1>6
<1> HIDE DEF old
<1>8. /\ ratings' \in Seq(Rating) /\ DOMAIN ratings' = 1 .. n + 1
      /\ \A j \in 1 .. n : ratings'[j] = new(j)
      /\ ratings'[n + 1] = sent
  BY <1>1, <1>4, <1>7, Appended
<1>9. /\ page' \in [1 .. Len(turns) -> Shown]
      /\ \A b \in DOMAIN page \ {t} : page'[b] = page[b]
      /\ page'[t] = shown
  BY <1>1, <1>2, <1>3
<1>10. \A j \in 1 .. n :
                 /\ ratings'[j].turn = ratings[j].turn /\ ratings'[j].value = ratings[j].value
                 /\ ratings'[j].seen = ratings[j].seen /\ ratings'[j].at = ratings[j].at
                 /\ ratings'[j].heard = ratings[j].heard
                 /\ ratings'[j].alone <=>
                        ratings[j].alone /\ ~(ratings[j].turn = t /\ UnderWay(j))
  BY <1>5, <1>6, <1>8
<1>11. QED BY <1>1, <1>6, <1>8, <1>9, <1>10 DEF sent, shown

\* An answer comes with no rating.
LEMMA AnswerEffect ==
    ASSUME FeedbackTypes, NEW q \in Questions, NEW o \in Outcomes, Answer(q, o)
    PROVE  LET n == Len(turns) IN
           /\ n \in Nat /\ n + 1 <= MaxTurns /\ DOMAIN page = 1 .. n
           /\ turns' \in Seq(Turn) /\ Len(turns') = n + 1
           /\ page' \in [1 .. n + 1 -> Shown] /\ DOMAIN page' = 1 .. n + 1
           /\ feedback' \in [1 .. n + 1 -> Values \cup {NoValue}]
           /\ \A t \in 1 .. n : page'[t] = page[t] /\ feedback'[t] = feedback[t]
           /\ feedback'[n + 1] = NoValue
           /\ page'[n + 1].shown = NoValue /\ ~page'[n + 1].pending
           /\ UNCHANGED <<since, ratings>>
<1> DEFINE blank == [shown |-> NoValue, previous |-> NoValue, pending |-> FALSE]
           turn == [question |-> q, found |-> o.found, sim |-> o.sim,
                    declines |-> o.declines]
<1>1. PICK n \in Nat : n = Len(turns) /\ n < MaxTurns
  BY Typed DEF Answer
<1>2. /\ page \in Seq(Shown) /\ Len(page) = n /\ DOMAIN page = 1 .. n
      /\ feedback \in Seq(Values \cup {NoValue}) /\ Len(feedback) = n
      /\ turns \in Seq(Turn)
  <2>1. /\ page \in [1 .. n -> Shown] /\ feedback \in [1 .. n -> Values \cup {NoValue}]
        /\ turns \in Seq(Turn)
    BY <1>1 DEF FeedbackTypes
  <2>2. QED BY <2>1, SequenceIsFunction
<1>3. blank \in Shown /\ turn \in Turn
  BY DEF Shown, Turn
<1>4. /\ turns' = Append(turns, turn) /\ feedback' = Append(feedback, NoValue)
      /\ page' = Append(page, blank) /\ UNCHANGED <<since, ratings>>
  BY DEF Answer
<1>5. blank.shown = NoValue /\ ~blank.pending
  OBVIOUS
<1> HIDE DEF blank, turn
<1>6. turns' \in Seq(Turn) /\ Len(turns') = n + 1
  BY <1>1, <1>2, <1>3, <1>4, Appended
<1>7. /\ page' \in Seq(Shown) /\ Len(page') = n + 1 /\ DOMAIN page' = 1 .. n + 1
      /\ \A t \in 1 .. n : page'[t] = page[t]
      /\ page'[n + 1] = blank
  BY <1>1, <1>2, <1>3, <1>4, Appended
<1>8. /\ feedback' \in Seq(Values \cup {NoValue}) /\ Len(feedback') = n + 1
      /\ \A t \in 1 .. n : feedback'[t] = feedback[t]
      /\ feedback'[n + 1] = NoValue
  BY <1>1, <1>2, <1>4, Appended
<1>9. n + 1 <= MaxTurns
  BY <1>1 DEF FeedbackTypes
<1>10. /\ page' \in [1 .. n + 1 -> Shown]
       /\ feedback' \in [1 .. n + 1 -> Values \cup {NoValue}]
  BY <1>1, <1>7, <1>8, SequenceIsFunction
<1>11. QED BY <1>1, <1>2, <1>4, <1>5, <1>6, <1>7, <1>8, <1>9, <1>10

-----------------------------------------------------------------------------
\* The server's steps preserve the invariant.
LEMMA ServerStep ==
    ASSUME FeedbackInv, NEW i \in DOMAIN ratings,
           Read(i) \/ Flush(i) \/ Commit(i) \/ Fail(i)
    PROVE  FeedbackInv'
<1> DEFINE t == ratings[i].turn
<1>0. FeedbackTypes /\ HeardInv /\ AloneInv /\ LastInv /\ BeforeInv
  BY DEF FeedbackInv
<1>1. /\ \A b : Of(b)' = Of(b)
      /\ \A j \in DOMAIN ratings : UnderWay(j)' => UnderWay(j)
      /\ DOMAIN ratings' = DOMAIN ratings /\ UNCHANGED report /\ UNCHANGED page
      /\ UnderWay(i) /\ t \in DOMAIN page /\ ratings[i] \in Rating
      /\ t \in 1 .. Len(turns)
  BY <1>0, ServerEffect, Typed DEF Of, UnderWay
<1>2. \A b : \A j \in DOMAIN ratings : Latest(j, b)' <=> Latest(j, b)
  BY <1>1 DEF Latest
<1>3. /\ \A b \in DOMAIN page \ {t} : feedback'[b] = feedback[b]
      /\ feedback' \in [1 .. Len(turns) -> Values \cup {NoValue}]
      /\ ratings[i].value \in Values
  <2>1. /\ feedback \in [1 .. Len(turns) -> Values \cup {NoValue}]
        /\ DOMAIN page = 1 .. Len(turns) /\ ratings[i].value \in Values
    BY <1>0, <1>1, Typed DEF FeedbackTypes, Rating
  <2>2. UNCHANGED feedback \/ feedback' = [feedback EXCEPT ![t] = ratings[i].value]
    BY <1>0, ServerEffect
  <2> HIDE DEF t
  <2>3. QED BY <1>1, <2>1, <2>2
<1>4. FeedbackTypes'
  BY <1>0, <1>1, <1>3, ServerEffect DEF FeedbackTypes, report
<1>5. HeardInv'
  <2>1. ASSUME NEW j \in DOMAIN ratings
        PROVE  /\ ratings'[j].heard = ratings[j].heard /\ ratings'[j].turn = ratings[j].turn
               /\ ratings[j].at \in {"flushed", "committed", "failed"}
                      => ratings'[j].at \in {"flushed", "committed", "failed"}
               /\ ratings[j].at = "failed" => ratings'[j].at = "failed"
    BY <1>0, ServerEffect DEF UnderWay
  <2>2. ASSUME NEW j \in DOMAIN ratings, ratings'[j].heard = "waiting"
        PROVE  Latest(j, ratings[j].turn)' /\ page'[ratings'[j].turn].pending
    <3>1. PICK b : b = ratings[j].turn /\ b = ratings'[j].turn
      BY <2>1
    <3>2. Latest(j, b) /\ page[b].pending
      BY <1>0, <2>1, <2>2, <3>1 DEF HeardInv
    <3>3. Latest(j, b)' /\ page'[b].pending
      BY <1>1, <1>2, <3>2
    <3>4. Latest(j, ratings[j].turn)' <=> Latest(j, b)'
      BY <3>1 DEF Latest, Of
    <3>5. QED BY <3>1, <3>3, <3>4
  <2>3. ASSUME NEW b \in DOMAIN page, page'[b].pending
        PROVE  \E j \in Of(b) : ratings'[j].heard = "waiting"
    BY <1>0, <1>1, <2>1, <2>3 DEF HeardInv, Of
  <2>4. QED BY <1>0, <1>1, <2>1, <2>2, <2>3 DEF HeardInv
<1>6. AloneInv'
  BY <1>0, <1>1, ServerEffect DEF AloneInv
\* A request that ran alone had no other under way with it.
<1>7. ASSUME NEW j \in DOMAIN ratings, j # i, Latest(j, t), ratings[j].alone PROVE FALSE
  <2>1. i \in Of(t) /\ i \in Nat /\ j \in Nat /\ i < j /\ ratings[j].turn = t
    <3>1. i \in Of(t) /\ i \in Nat /\ j \in Nat
      BY <1>0, Typed DEF Of
    <3>2. QED BY <1>7, <3>1 DEF Latest, Of
  <2>2. QED BY <1>0, <1>1, <1>7, <2>1 DEF AloneInv
<1>8. ASSUME NEW j \in DOMAIN ratings, ratings[i].alone, Latest(j, t) PROVE j = i
  <2>1. i \in Of(t) /\ i \in Nat /\ j \in Nat /\ ratings[j].turn = t /\ i <= j
    <3>1. i \in Of(t) /\ i \in Nat /\ j \in Nat
      BY <1>0, Typed DEF Of
    <3>2. QED BY <1>8, <3>1 DEF Latest, Of
  <2>2. QED BY <1>0, <1>1, <1>8, <2>1 DEF AloneInv
<1>9. LastInv'
  <2> SUFFICES ASSUME NEW b \in DOMAIN page, NEW j \in DOMAIN ratings, Latest(j, b)
               PROVE  /\ ratings'[j].alone /\ ratings'[j].at \in {"read", "flushed"} =>
                             ratings'[j].seen = feedback'[b]
                      /\ ratings'[j].alone /\ ratings'[j].at = "committed" =>
                             feedback'[b] = ratings'[j].value
                      /\ page'[b].shown = IF ratings'[j].heard \in {"waiting", "ok"}
                                           THEN ratings'[j].value ELSE page'[b].previous
    BY <1>1, <1>2 DEF LastInv
  <2>1. /\ ratings[j].alone /\ ratings[j].at \in {"read", "flushed"} =>
               ratings[j].seen = feedback[b]
        /\ ratings[j].alone /\ ratings[j].at = "committed" => feedback[b] = ratings[j].value
        /\ page[b].shown = IF ratings[j].heard \in {"waiting", "ok"} THEN ratings[j].value
                           ELSE page[b].previous
    BY <1>0 DEF LastInv
  <2>2. ratings[j].turn = b
    BY DEF Latest, Of
  <2>3. page'[b].shown = IF ratings'[j].heard \in {"waiting", "ok"}
                         THEN ratings'[j].value ELSE page'[b].previous
    BY <1>0, <1>1, <2>1, ServerEffect
  <2>4. CASE j # i
    <3>1. ratings'[j] = ratings[j] /\ (b = t => ~ratings[j].alone)
      BY <1>0, <1>7, <2>4, ServerEffect
    <3>2. QED BY <1>3, <2>1, <2>3, <3>1
  <2>5. CASE j = i
    <3>1. b = t /\ feedback[b] \in Values \cup {NoValue}
      BY <1>0, <2>2, <2>5, Typed
    <3>2. /\ ratings'[i].at = "read" => ratings'[i].seen = feedback'[t]
          /\ ratings'[i].at = "flushed" => /\ ratings[i].at = "read" /\ UNCHANGED feedback
                                          /\ ratings'[i].seen = ratings[i].seen
          /\ ratings'[i].at = "committed" =>
                 /\ ratings[i].at = "flushed"
                 /\ feedback' = IF Writes(i) THEN [feedback EXCEPT ![t] = ratings[i].value]
                                ELSE feedback
          /\ ratings'[i].alone = ratings[i].alone /\ ratings'[i].value = ratings[i].value
      BY <1>0, ServerEffect
    <3>3. ratings'[i].at = "committed" /\ ratings[i].alone => feedback'[t] = ratings[i].value
      <4>1. feedback \in [1 .. Len(turns) -> Values \cup {NoValue}]
        BY <1>0 DEF FeedbackTypes
      <4> HIDE DEF t
      <4>2. QED BY <1>1, <2>1, <2>5, <3>1, <3>2, <4>1 DEF Writes
    <3>4. QED BY <2>1, <2>3, <2>5, <3>1, <3>2, <3>3
  <2>6. QED BY <2>4, <2>5
<1>10. BeforeInv'
  <2>1. \A j \in DOMAIN ratings : Sound(j)' => Sound(j)
    <3>1. ASSUME NEW j \in DOMAIN ratings, Sound(j)' PROVE Sound(j)
      <4>1. /\ ratings'[j].heard = ratings[j].heard /\ ratings'[j].alone = ratings[j].alone
            /\ ratings[j].heard = "ok" => ratings[j].at \in {"flushed", "committed", "failed"}
            /\ ratings[j].at = "failed" => ratings'[j].at = "failed"
        BY <1>0, <1>1, ServerEffect DEF HeardInv, UnderWay
      <4>2. QED BY <3>1, <4>1 DEF Sound
    <3>2. QED BY <3>1
  <2>2. ASSUME NEW b \in DOMAIN page, Of(b) = {} PROVE feedback'[b] = page'[b].shown
    <3>1. b # t
      BY <2>2 DEF Of
    <3>2. QED BY <1>0, <1>1, <1>3, <2>2, <3>1 DEF BeforeInv
  <2>3. ASSUME NEW b \in DOMAIN page, NEW j \in DOMAIN ratings, Latest(j, b),
               \A k \in Of(b) : Sound(k)', ratings'[j].at # "committed"
        PROVE  feedback'[b] = page'[b].previous
    <3>1. \A k \in Of(b) : Sound(k)
      BY <2>1, <2>3 DEF Of
    <3>2. ratings[j].at # "committed"
      BY <1>0, <2>3, ServerEffect, <1>1 DEF UnderWay
    <3>3. feedback[b] = page[b].previous
      BY <1>0, <2>3, <3>1, <3>2 DEF BeforeInv
    <3>4. CASE b # t
      BY <1>1, <1>3, <3>3, <3>4
    <3>5. CASE b = t
      <4>1. j = i
        BY <1>8, <2>3, <3>1, <3>5 DEF Sound, Of
      <4>2. UNCHANGED feedback
        BY <1>0, <2>3, <4>1, ServerEffect
      <4>3. QED BY <1>1, <3>3, <4>2
    <3>6. QED BY <3>4, <3>5
  <2>4. QED BY <1>1, <1>2, <2>2, <2>3 DEF BeforeInv
<1>11. QED BY <1>4, <1>5, <1>6, <1>9, <1>10 DEF FeedbackInv

\* So do the page's,
LEMMA PageStep ==
    ASSUME FeedbackInv, NEW i \in DOMAIN ratings,
           Confirm(i) \/ Refuse(i) \/ LoseReply(i)
    PROVE  FeedbackInv'
<1> DEFINE t == ratings[i].turn
<1>0. FeedbackTypes /\ HeardInv /\ AloneInv /\ LastInv /\ BeforeInv
  BY DEF FeedbackInv
<1>1. /\ \A b : Of(b)' = Of(b)
      /\ \A j \in DOMAIN ratings : UnderWay(j)' <=> UnderWay(j)
      /\ DOMAIN ratings' = DOMAIN ratings /\ DOMAIN page' = DOMAIN page
      /\ UNCHANGED report /\ UNCHANGED feedback
      /\ t \in DOMAIN page /\ ratings[i] \in Rating
  <2>1. /\ DOMAIN ratings' = DOMAIN ratings /\ UNCHANGED report /\ UNCHANGED feedback
        /\ \A j \in DOMAIN ratings : /\ ratings'[j].turn = ratings[j].turn
                                     /\ ratings'[j].at = ratings[j].at
        /\ page' \in [1 .. Len(turns) -> Shown]
    BY <1>0, PageEffect
  <2>2. QED BY <1>0, <2>1, Typed DEF Of, UnderWay
<1>2. \A b : \A j \in DOMAIN ratings : Latest(j, b)' <=> Latest(j, b)
  BY <1>1 DEF Latest
<1>3. Latest(i, t)
  BY <1>0, PageEffect DEF HeardInv
<1>4. \A b : \A j \in DOMAIN ratings : Latest(j, b) => (b = t <=> j = i)
  <2>1. \A j \in DOMAIN ratings : j \in Nat
    BY <1>0, Typed
  <2>2. QED BY <1>3, <2>1 DEF Latest, Of
<1>5. FeedbackTypes'
  <2>1. \A j \in DOMAIN ratings : ratings'[j].turn = ratings[j].turn
    BY <1>0, PageEffect
  <2>2. QED BY <1>0, <1>1, <2>1, PageEffect DEF FeedbackTypes, report
<1>6. HeardInv'
  <2>1. ASSUME NEW j \in DOMAIN ratings
        PROVE  /\ ratings'[j].heard = "ok" =>
                      ratings'[j].at \in {"flushed", "committed", "failed"}
               /\ ratings'[j].heard = "error" => ratings'[j].at = "failed"
               /\ ratings'[j].heard = "waiting" =>
                      /\ ratings[j].heard = "waiting" /\ j # i
                      /\ ratings'[j].turn = ratings[j].turn
    BY <1>0, PageEffect DEF HeardInv
  <2>2. ASSUME NEW j \in DOMAIN ratings, ratings'[j].heard = "waiting"
        PROVE  Latest(j, ratings'[j].turn) /\ page'[ratings'[j].turn].pending
    <3>1. /\ Latest(j, ratings[j].turn) /\ page[ratings[j].turn].pending
          /\ ratings[j].turn \in DOMAIN page
      BY <1>0, <2>1, <2>2, Typed DEF HeardInv
    <3>2. ratings[j].turn # t
      BY <1>4, <2>1, <2>2, <3>1
    <3>3. QED BY <1>0, <2>1, <2>2, <3>1, <3>2, PageEffect
  <2>3. ASSUME NEW b \in DOMAIN page, page'[b].pending
        PROVE  \E j \in Of(b) : ratings'[j].heard = "waiting"
    <3>1. b # t /\ page[b].pending
      BY <1>0, <2>3, PageEffect
    <3>2. PICK j \in Of(b) : ratings[j].heard = "waiting"
      BY <1>0, <3>1 DEF HeardInv
    <3>3. j # i /\ j \in DOMAIN ratings
      BY <3>1 DEF Of
    <3>4. QED BY <1>0, <3>2, <3>3, PageEffect
  <2>4. QED BY <1>1, <1>2, <2>1, <2>2, <2>3 DEF HeardInv
<1>7. AloneInv'
  BY <1>0, <1>1, PageEffect DEF AloneInv
<1>8. LastInv'
  <2> SUFFICES ASSUME NEW b \in DOMAIN page, NEW j \in DOMAIN ratings, Latest(j, b)
               PROVE  /\ ratings'[j].alone /\ ratings'[j].at \in {"read", "flushed"} =>
                             ratings'[j].seen = feedback'[b]
                      /\ ratings'[j].alone /\ ratings'[j].at = "committed" =>
                             feedback'[b] = ratings'[j].value
                      /\ page'[b].shown = IF ratings'[j].heard \in {"waiting", "ok"}
                                           THEN ratings'[j].value ELSE page'[b].previous
    BY <1>1, <1>2 DEF LastInv
  <2>1. /\ ratings[j].alone /\ ratings[j].at \in {"read", "flushed"} =>
               ratings[j].seen = feedback[b]
        /\ ratings[j].alone /\ ratings[j].at = "committed" => feedback[b] = ratings[j].value
        /\ page[b].shown = IF ratings[j].heard \in {"waiting", "ok"} THEN ratings[j].value
                           ELSE page[b].previous
    BY <1>0 DEF LastInv
  <2>2. CASE j # i
    BY <1>0, <1>1, <1>4, <2>1, <2>2, PageEffect
  <2>3. CASE j = i
    <3>1. b = t
      BY <1>4, <2>3
    <3>2. /\ page'[t].previous = page[t].previous
          /\ \/ ratings'[i].heard = "ok" /\ page'[t].shown = page[t].shown
             \/ ratings'[i].heard \in {"error", "lost"} /\ page'[t].shown = page[t].previous
          /\ ratings[i].heard = "waiting" /\ ratings'[i].value = ratings[i].value
      BY <1>0, PageEffect
    <3>3. /\ ratings'[i].alone = ratings[i].alone /\ ratings'[i].at = ratings[i].at
          /\ ratings'[i].seen = ratings[i].seen /\ UNCHANGED feedback
      BY <1>0, PageEffect
    <3>4. page'[b].shown = IF ratings'[j].heard \in {"waiting", "ok"}
                           THEN ratings'[j].value ELSE page'[b].previous
      <4> HIDE DEF t
      <4>1. QED BY <2>1, <2>3, <3>1, <3>2
    <3>5. QED BY <2>1, <2>3, <3>1, <3>2, <3>3, <3>4
  <2>4. QED BY <2>2, <2>3
<1>9. BeforeInv'
  <2>1. \A j \in DOMAIN ratings : Sound(j)' => Sound(j)
    BY <1>0, PageEffect DEF Sound
  <2>2. \A b \in DOMAIN page :
            /\ page'[b].previous = page[b].previous
            /\ Of(b) = {} => page'[b].shown = page[b].shown
    BY <1>0, PageEffect DEF Of
  <2>3. \A j \in DOMAIN ratings : ratings'[j].at = ratings[j].at
    BY <1>0, PageEffect
  <2>4. ASSUME NEW b \in DOMAIN page, NEW j \in DOMAIN ratings, Latest(j, b),
               \A k \in Of(b) : Sound(k)', ratings'[j].at # "committed"
        PROVE  feedback'[b] = page'[b].previous
    <3>1. \A k \in Of(b) : Sound(k)
      BY <2>1, <2>4 DEF Of
    <3>2. feedback[b] = page[b].previous
      BY <1>0, <2>3, <2>4, <3>1 DEF BeforeInv
    <3>3. feedback'[b] = feedback[b]
      BY <1>1
    <3>4. page'[b].previous = page[b].previous
      BY <2>2
    <3>5. QED BY <3>2, <3>3, <3>4
  <2>5. ASSUME NEW b \in DOMAIN page, Of(b) = {} PROVE feedback'[b] = page'[b].shown
    <3>1. feedback'[b] = feedback[b]
      BY <1>1
    <3>2. page'[b].shown = page[b].shown
      BY <2>2, <2>5
    <3>3. QED BY <1>0, <2>5, <3>1, <3>2 DEF BeforeInv
  <2>6. QED BY <1>1, <1>2, <2>4, <2>5 DEF BeforeInv
<1>10. QED BY <1>5, <1>6, <1>7, <1>8, <1>9 DEF FeedbackInv

\* When nothing has gone wrong and nothing is under way, the rating shown is stored.
LEMMA StoredIsShown ==
    ASSUME FeedbackInv, NEW t \in DOMAIN page, ~page[t].pending,
           \A j \in Of(t) : Sound(j) /\ ~UnderWay(j)
    PROVE  feedback[t] = page[t].shown
<1>0. FeedbackTypes /\ HeardInv /\ LastInv /\ BeforeInv
  BY DEF FeedbackInv
<1>1. CASE Of(t) = {}
  BY <1>0, <1>1 DEF BeforeInv
<1>2. CASE Of(t) # {}
  <2>1. PICK i \in DOMAIN ratings : Latest(i, t)
    BY <1>0, <1>2, HasLast
  <2>2. Sound(i) /\ ~UnderWay(i) /\ ratings[i].turn = t /\ ratings[i] \in Rating
    BY <1>0, <2>1, Typed DEF Latest, Of
  <2>3. ratings[i].heard # "waiting"
    BY <1>0, <2>2 DEF HeardInv
  <2>4. CASE ratings[i].heard = "ok"
    <3>1. ratings[i].at = "committed" /\ ratings[i].alone
      BY <2>2, <2>4 DEF Sound, UnderWay
    <3>2. QED BY <1>0, <2>1, <2>4, <3>1 DEF LastInv
  <2>5. CASE ratings[i].heard = "error"
    <3>1. ratings[i].at = "failed"
      BY <1>0, <2>5 DEF HeardInv
    <3>2. feedback[t] = page[t].previous
      BY <1>0, <2>1, <3>1 DEF BeforeInv
    <3>3. QED BY <1>0, <2>1, <2>5, <3>2 DEF LastInv
  <2>6. QED BY <2>2, <2>3, <2>4, <2>5 DEF Sound, Rating
<1>3. QED BY <1>1, <1>2

\* a press of a button,
LEMMA SelectStep ==
    ASSUME FeedbackInv, NEW t \in DOMAIN page, NEW v \in Values, Select(t, v)
    PROVE  FeedbackInv'
<1>0. FeedbackTypes /\ HeardInv /\ AloneInv /\ LastInv /\ BeforeInv
  BY DEF FeedbackInv
<1>1. PICK n \in Nat :
         /\ n = Len(ratings) /\ DOMAIN ratings = 1 .. n /\ DOMAIN ratings' = 1 .. n + 1
         /\ ratings' \in Seq(Rating)
         /\ \A j \in 1 .. n :
               /\ ratings'[j].turn = ratings[j].turn /\ ratings'[j].value = ratings[j].value
               /\ ratings'[j].seen = ratings[j].seen /\ ratings'[j].at = ratings[j].at
               /\ ratings'[j].heard = ratings[j].heard
               /\ ratings'[j].alone <=>
                      ratings[j].alone /\ ~(ratings[j].turn = t /\ UnderWay(j))
         /\ ratings'[n + 1] = [turn |-> t, value |-> v, seen |-> NoValue, at |-> "sent",
                               heard |-> "waiting",
                               alone |-> {i \in Of(t) : UnderWay(i)} = {}]
         /\ UNCHANGED report /\ UNCHANGED feedback
         /\ ~page[t].pending
         /\ page' \in [1 .. Len(turns) -> Shown]
         /\ \A b \in DOMAIN page \ {t} : page'[b] = page[b]
         /\ page'[t] = [shown |-> v, previous |-> page[t].shown, pending |-> TRUE]
  BY <1>0, SelectEffect
<1>2. /\ ratings'[n + 1].turn = t /\ ratings'[n + 1].value = v
      /\ ratings'[n + 1].at = "sent" /\ ratings'[n + 1].heard = "waiting"
      /\ ratings'[n + 1].alone <=> \A j \in Of(t) : ~UnderWay(j)
      /\ page'[t].shown = v /\ page'[t].previous = page[t].shown /\ page'[t].pending
  <2>1. {i \in Of(t) : UnderWay(i)} = {} <=>
           \A j \in Of(t) : ~UnderWay(j)
    OBVIOUS
  <2>2. /\ ratings'[n + 1].turn = t /\ ratings'[n + 1].value = v
        /\ ratings'[n + 1].at = "sent" /\ ratings'[n + 1].heard = "waiting"
        /\ ratings'[n + 1].alone = ({i \in Of(t) : UnderWay(i)} = {})
    BY <1>1
  <2>3. page'[t].shown = v /\ page'[t].previous = page[t].shown /\ page'[t].pending
    BY <1>1
  <2>4. QED BY <2>1, <2>2, <2>3
<1>3. DOMAIN page' = DOMAIN page /\ \A j \in 1 .. n : j \in DOMAIN ratings /\ j < n + 1
  BY <1>0, <1>1, Typed
<1>4. /\ \A b : b # t => Of(b)' = Of(b)
      /\ Of(t)' = Of(t) \cup {n + 1}
      /\ Of(t) \subseteq 1 .. n
  BY <1>1, <1>2, <1>3 DEF Of
<1>5. /\ \A b : b # t => \A j \in 1 .. n : Latest(j, b)' <=> Latest(j, b)
      /\ \A j \in 1 .. n : ~Latest(j, t)'
      /\ Latest(n + 1, t)' /\ \A b : Latest(n + 1, b)' => b = t
  <2>1. \A b : b # t => \A j \in 1 .. n : Latest(j, b)' <=> Latest(j, b)
    BY <1>4 DEF Latest
  <2>2. \A j \in 1 .. n : ~(n + 1 <= j) /\ j <= n + 1
    BY <1>1
  <2>3. \A j \in 1 .. n : ~Latest(j, t)'
    BY <1>4, <2>2 DEF Latest
  <2>4. Latest(n + 1, t)'
    BY <1>1, <1>4, <2>2 DEF Latest
  <2>5. ASSUME NEW b, Latest(n + 1, b)' PROVE b = t
    BY <1>2, <2>5 DEF Latest, Of
  <2>6. QED BY <2>1, <2>3, <2>4, <2>5
<1>6. FeedbackTypes'
  <2>1. \A j \in DOMAIN ratings' : ratings'[j].turn \in DOMAIN page'
    BY <1>0, <1>1, <1>2, <1>3, Typed
  <2>2. QED BY <1>0, <1>1, <2>1 DEF FeedbackTypes, report
<1>7. HeardInv'
  <2>1. ASSUME NEW j \in DOMAIN ratings'
        PROVE  /\ ratings'[j].heard = "ok" =>
                      ratings'[j].at \in {"flushed", "committed", "failed"}
               /\ ratings'[j].heard = "error" => ratings'[j].at = "failed"
    BY <1>0, <1>1, <1>2, <1>3 DEF HeardInv
  <2>2. ASSUME NEW j \in 1 .. n, NEW b, b = ratings[j].turn, ratings'[j].heard = "waiting"
        PROVE  Latest(j, b)' /\ page'[b].pending
    <3>1. Latest(j, b) /\ page[b].pending /\ b \in DOMAIN page
      BY <1>0, <1>1, <1>3, <2>2, Typed DEF HeardInv
    <3>2. b # t
      BY <1>1, <3>1
    <3>3. QED BY <1>1, <1>5, <3>1, <3>2
  <2>3. ASSUME NEW b \in DOMAIN page, page'[b].pending
        PROVE  \E j \in Of(b)' : ratings'[j].heard = "waiting"
    <3>1. CASE b = t
      BY <1>2, <1>4, <3>1
    <3>2. CASE b # t
      <4>1. PICK j \in Of(b) : ratings[j].heard = "waiting"
        BY <1>0, <1>1, <2>3, <3>2 DEF HeardInv
      <4>2. j \in 1 .. n
        BY <1>1 DEF Of
      <4>3. QED BY <1>1, <1>4, <3>2, <4>1, <4>2
    <3>3. QED BY <3>1, <3>2
  <2>4. ASSUME NEW j \in DOMAIN ratings', ratings'[j].heard = "waiting"
        PROVE  Latest(j, ratings[j].turn)' /\ page'[ratings'[j].turn].pending
    <3>1. PICK b : b = ratings'[j].turn
      OBVIOUS
    <3>2. Latest(j, b)' /\ page'[b].pending
      <4>1. CASE j = n + 1
        BY <1>2, <1>5, <3>1, <4>1
      <4>2. CASE j \in 1 .. n
        BY <1>1, <2>2, <2>4, <3>1, <4>2
      <4>3. QED BY <1>1, <4>1, <4>2
    <3>3. Latest(j, ratings[j].turn)' <=> Latest(j, b)'
      BY <3>1 DEF Latest, Of
    <3>4. QED BY <3>1, <3>2, <3>3
  <2>5. QED BY <1>3, <2>1, <2>3, <2>4 DEF HeardInv
<1>8. AloneInv'
  <2> SUFFICES ASSUME NEW i \in DOMAIN ratings', NEW j \in DOMAIN ratings',
                      ratings'[j].turn = ratings'[i].turn, j < i,
                      ratings'[i].alone \/ ratings'[j].alone
               PROVE  ~UnderWay(j)'
    BY DEF AloneInv
  <2>1. j \in 1 .. n
    BY <1>1
  <2>2. UnderWay(j)' <=> UnderWay(j)
    BY <1>1, <2>1 DEF UnderWay
  <2>3. CASE i = n + 1
    <3>1. j \in Of(t)
      BY <1>1, <1>2, <2>1, <2>3 DEF Of
    <3>2. QED BY <1>1, <1>2, <2>1, <2>2, <2>3, <3>1
  <2>4. CASE i \in 1 .. n
    BY <1>0, <1>1, <2>1, <2>2, <2>4 DEF AloneInv
  <2>5. QED BY <1>1, <2>3, <2>4
<1>9. LastInv'
  <2> SUFFICES ASSUME NEW b \in DOMAIN page, NEW j \in DOMAIN ratings', Latest(j, b)'
               PROVE  /\ ratings'[j].alone /\ ratings'[j].at \in {"read", "flushed"} =>
                             ratings'[j].seen = feedback'[b]
                      /\ ratings'[j].alone /\ ratings'[j].at = "committed" =>
                             feedback'[b] = ratings'[j].value
                      /\ page'[b].shown = IF ratings'[j].heard \in {"waiting", "ok"}
                                           THEN ratings'[j].value ELSE page'[b].previous
    BY <1>3 DEF LastInv
  <2>1. CASE j = n + 1
    BY <1>2, <1>5, <2>1
  <2>2. CASE j \in 1 .. n
    <3>1. b # t /\ Latest(j, b)
      BY <1>5, <2>2
    <3>2. page'[b] = page[b] /\ feedback'[b] = feedback[b] /\ j \in DOMAIN ratings
      BY <1>1, <2>2, <3>1
    <3>3. /\ ratings[j].alone /\ ratings[j].at \in {"read", "flushed"} =>
                 ratings[j].seen = feedback[b]
          /\ ratings[j].alone /\ ratings[j].at = "committed" =>
                 feedback[b] = ratings[j].value
          /\ page[b].shown = IF ratings[j].heard \in {"waiting", "ok"}
                             THEN ratings[j].value ELSE page[b].previous
      BY <1>0, <3>1, <3>2 DEF LastInv
    <3>4. QED BY <1>1, <2>2, <3>2, <3>3
  <2>3. QED BY <1>1, <2>1, <2>2
<1>10. \A j \in 1 .. n : Sound(j)' => Sound(j)
  BY <1>1 DEF Sound
<1>11. BeforeInv'
  <2>1. ASSUME NEW b \in DOMAIN page, Of(b)' = {} PROVE feedback'[b] = page'[b].shown
    <3>1. b # t
      BY <1>4, <2>1
    <3>2. QED BY <1>0, <1>1, <1>4, <2>1, <3>1 DEF BeforeInv
  <2>2. ASSUME NEW b \in DOMAIN page, NEW j \in DOMAIN ratings', Latest(j, b)',
               \A k \in Of(b)' : Sound(k)', ratings'[j].at # "committed"
        PROVE  feedback'[b] = page'[b].previous
    <3>1. CASE b = t
      <4>1. \A k \in Of(t) : Sound(k)
        BY <1>4, <1>10, <2>2, <3>1
      <4>2. ratings'[n + 1].alone
        BY <1>4, <2>2, <3>1 DEF Sound
      <4>3. feedback[t] = page[t].shown
        BY <1>1, <1>2, <4>1, <4>2, StoredIsShown
      <4>4. QED BY <1>1, <1>2, <3>1, <4>3
    <3>2. CASE b # t
      <4>1. j \in 1 .. n /\ j \in DOMAIN ratings /\ Latest(j, b)
        BY <1>1, <1>5, <2>2, <3>2
      <4>2. \A k \in Of(b) : Sound(k)
        <5>1. Of(b) \subseteq 1 .. n
          BY <1>1 DEF Of
        <5>2. QED BY <1>4, <1>10, <2>2, <3>2, <5>1
      <4>3. feedback[b] = page[b].previous
        BY <1>0, <1>1, <2>2, <4>1, <4>2 DEF BeforeInv
      <4>4. QED BY <1>1, <3>2, <4>3
    <3>3. QED BY <3>1, <3>2
  <2>3. QED BY <1>3, <2>1, <2>2 DEF BeforeInv
<1>12. QED BY <1>6, <1>7, <1>8, <1>9, <1>11 DEF FeedbackInv

\* and a new answer.
LEMMA AnswerStep ==
    ASSUME FeedbackInv, NEW q \in Questions, NEW o \in Outcomes, Answer(q, o)
    PROVE  FeedbackInv'
<1>0. FeedbackTypes /\ HeardInv /\ AloneInv /\ LastInv /\ BeforeInv
  BY DEF FeedbackInv
<1>1. PICK n \in Nat :
         /\ n + 1 <= MaxTurns /\ DOMAIN page = 1 .. n
         /\ turns' \in Seq(Turn) /\ Len(turns') = n + 1
         /\ page' \in [1 .. n + 1 -> Shown] /\ DOMAIN page' = 1 .. n + 1
         /\ feedback' \in [1 .. n + 1 -> Values \cup {NoValue}]
         /\ \A t \in 1 .. n : page'[t] = page[t] /\ feedback'[t] = feedback[t]
         /\ feedback'[n + 1] = NoValue
         /\ page'[n + 1].shown = NoValue /\ ~page'[n + 1].pending
         /\ UNCHANGED since /\ UNCHANGED ratings
  BY <1>0, AnswerEffect
<1>2. /\ \A b : Of(b)' = Of(b)
      /\ \A b : \A j \in DOMAIN ratings : Latest(j, b)' <=> Latest(j, b)
      /\ \A j \in DOMAIN ratings : /\ Sound(j)' <=> Sound(j)
                                   /\ UnderWay(j)' <=> UnderWay(j)
                                   /\ ratings[j].turn \in 1 .. n
      /\ Of(n + 1) = {}
  BY <1>0, <1>1, Typed DEF Of, Latest, Sound, UnderWay
<1>3. FeedbackTypes'
  BY <1>0, <1>1, <1>2 DEF FeedbackTypes
<1>4. HeardInv'
  BY <1>0, <1>1, <1>2 DEF HeardInv
<1>5. AloneInv'
  BY <1>0, <1>1, <1>2 DEF AloneInv
<1>6. \A j \in DOMAIN ratings : ~Latest(j, n + 1)
  BY <1>2 DEF Latest
<1>7. LastInv'
  BY <1>0, <1>1, <1>2, <1>6 DEF LastInv
<1>8. BeforeInv'
  <2>1. ASSUME NEW b \in DOMAIN page', Of(b)' = {} PROVE feedback'[b] = page'[b].shown
    <3>1. CASE b = n + 1
      BY <1>1, <3>1
    <3>2. CASE b \in 1 .. n
      <4>1. feedback[b] = page[b].shown
        BY <1>0, <1>1, <1>2, <2>1, <3>2 DEF BeforeInv
      <4>2. QED BY <1>1, <3>2, <4>1
    <3>3. QED BY <1>1, <2>1, <3>1, <3>2
  <2>2. ASSUME NEW b \in DOMAIN page', NEW j \in DOMAIN ratings', Latest(j, b)',
               \A k \in Of(b)' : Sound(k)', ratings'[j].at # "committed"
        PROVE  feedback'[b] = page'[b].previous
    <3>1. j \in DOMAIN ratings /\ Latest(j, b) /\ ratings[j].at # "committed"
      BY <1>1, <1>2, <2>2
    <3>2. b # n + 1 /\ b \in 1 .. n
      BY <1>1, <1>6, <2>2, <3>1
    <3>3. \A k \in Of(b) : Sound(k)
      BY <1>2, <2>2 DEF Of
    <3>4. feedback[b] = page[b].previous
      BY <1>0, <1>1, <3>1, <3>2, <3>3 DEF BeforeInv
    <3>5. QED BY <1>1, <3>2, <3>4
  <2>3. QED BY <2>1, <2>2 DEF BeforeInv
<1>9. QED BY <1>3, <1>4, <1>5, <1>7, <1>8 DEF FeedbackInv

\* The inductive invariant of the ratings.
THEOREM FeedbackSafety == FeedbackSpec => []FeedbackInv
<1>1. FeedbackInit => FeedbackInv
  BY MaxTurnsAssumption DEF FeedbackInit, FeedbackInv, FeedbackTypes, HeardInv, AloneInv, LastInv,
     BeforeInv
<1>2. FeedbackInv /\ [FeedbackNext]_feedbackVars => FeedbackInv'
  <2> SUFFICES ASSUME FeedbackInv, [FeedbackNext]_feedbackVars PROVE FeedbackInv'
    OBVIOUS
  <2>1. CASE UNCHANGED <<turns, feedback, page, ratings>> /\ since' \in Nat \ {0}
    <3>1. FeedbackTypes'
      BY <2>1 DEF FeedbackInv, FeedbackTypes, Shown, Turn, Rating, Values
    <3>2. HeardInv'
      BY <2>1 DEF FeedbackInv, HeardInv, Latest, Of
    <3>3. AloneInv'
      BY <2>1 DEF FeedbackInv, AloneInv, UnderWay
    <3>4. LastInv'
      BY <2>1 DEF FeedbackInv, LastInv, Latest, Of
    <3>5. BeforeInv'
      BY <2>1 DEF FeedbackInv, BeforeInv, Sound, Latest, Of
    <3>6. QED BY <3>1, <3>2, <3>3, <3>4, <3>5 DEF FeedbackInv
  <2>2. CASE LeaveWindow
    BY <2>1, <2>2 DEF LeaveWindow, FeedbackInv, FeedbackTypes
  <2>3. CASE UNCHANGED feedbackVars
    BY <2>1, <2>3 DEF feedbackVars, report, FeedbackInv, FeedbackTypes
  <2>4. QED BY <2>2, <2>3, AnswerStep, SelectStep, ServerStep, PageStep DEF FeedbackNext,
               Rate
<1>3. QED BY <1>1, <1>2, PTL DEF FeedbackSpec

\* Once a rating has settled, what the page of the client shows is what is stored,
\* whatever was refused, reverted, lost or raced before.
THEOREM ShownRatingIsStored == FeedbackSpec => []SettledRatingStored
<1>1. FeedbackInv => SettledRatingStored
  <2> SUFFICES ASSUME FeedbackInv, NEW t \in DOMAIN page, Settled(t), Trusted(t)
               PROVE  feedback[t] = page[t].shown
    BY DEF SettledRatingStored
  <2>1. CASE \A i \in Of(t) : Clean(i)
    <3>1. \A i \in Of(t) : Sound(i) /\ ~UnderWay(i)
      BY <2>1 DEF Clean, Sound, Settled
    <3>2. QED BY <3>1, StoredIsShown DEF Settled
  <2>2. CASE \E i \in Of(t) : Confirmed(i)
    <3>1. PICK i \in Of(t) : Confirmed(i)
      BY <2>2
    <3>2. Latest(i, t) /\ i \in DOMAIN ratings
      BY <3>1 DEF Confirmed, Latest, Of
    <3>3. ratings[i].alone /\ ratings[i].heard = "ok" /\ ratings[i].at = "committed"
      BY <3>1 DEF Confirmed, Clean
    <3>4. QED BY <3>2, <3>3 DEF FeedbackInv, LastInv
  <2>3. QED BY <2>1, <2>2 DEF Trusted
<1>2. QED BY <1>1, FeedbackSafety, PTL

-----------------------------------------------------------------------------
\* Least of a set that has a least number is that number.
LEMMA LeastOf ==
    ASSUME NEW S \in SUBSET Nat, NEW n \in S, \A m \in S : n <= m
    PROVE  Least(S) = n
<1>1. \A k \in S : (\A m \in S : k <= m) => k = n
  <2>1. ASSUME NEW k \in S, \A m \in S : k <= m PROVE k = n
    <3>1. k <= n /\ n <= k /\ k \in Nat /\ n \in Nat
      BY <2>1
    <3>2. QED BY <3>1
  <2>2. QED BY <2>1
<1>2. QED BY <1>1 DEF Least

\* The report has finitely many groups, no more than there are answers.
LEMMA GroupsFinite ==
    ASSUME FeedbackTypes
    PROVE  /\ IsFiniteSet(Groups) /\ Cardinality(Groups) \in Nat
           /\ Cardinality(Groups) <= MaxTurns
           /\ \A text : Group(text).count \in Nat
           /\ WeakTurns \subseteq DOMAIN turns
<1>1. Len(turns) \in Nat /\ Len(turns) <= MaxTurns /\ since \in Nat \ {0}
      /\ DOMAIN turns = 1 .. Len(turns)
  BY DEF FeedbackTypes
<1>2. WeakTurns \subseteq 1 .. Len(turns)
  <2>1. WeakTurns \subseteq Window
    BY DEF WeakTurns, Newest
  <2>2. QED BY <1>1, <2>1 DEF Window
<1>3. /\ IsFiniteSet(1 .. Len(turns)) /\ Cardinality(1 .. Len(turns)) = Len(turns)
  <2>1. PICK n \in Nat : n = Len(turns)
    BY <1>1
  <2>2. IsFiniteSet(1 .. n) /\ Cardinality(1 .. n) = IF 1 > n THEN 0 ELSE n - 1 + 1
    BY FS_Interval, 1 \in Int, n \in Int
  <2>3. Cardinality(1 .. n) = n
    BY <2>2
  <2>4. QED BY <2>1, <2>2, <2>3
<1>4. /\ IsFiniteSet(WeakTurns) /\ Cardinality(WeakTurns) <= Len(turns)
      /\ Cardinality(WeakTurns) \in Nat
  BY <1>1, <1>2, <1>3, FS_Subset, FS_CardinalityType
<1>5. /\ IsFiniteSet(Groups) /\ Cardinality(Groups) <= Cardinality(WeakTurns)
  <2> DEFINE f == [t \in WeakTurns |-> Group(Normalized[turns[t].question])]
  <2>1. f \in Surjection(WeakTurns, Groups)
    BY DEF Groups, Surjection
  <2>2. QED BY <1>4, <2>1, FS_Surjection
<1>6. ASSUME NEW text PROVE Group(text).count \in Nat
  <2> DEFINE entries == {t \in WeakTurns : Normalized[turns[t].question] = text}
  <2>1. Cardinality(entries) \in Nat
    <3>1. entries \subseteq WeakTurns
      OBVIOUS
    <3> HIDE DEF entries
    <3>2. QED BY <1>4, <3>1, FS_Subset, FS_CardinalityType
  <2>2. Group(text).count = Cardinality(entries)
    BY DEF Group
  <2>3. QED BY <2>1, <2>2
<1>7. Cardinality(Groups) \in Nat /\ Cardinality(Groups) <= MaxTurns
  <2>1. Cardinality(Groups) \in Nat
    BY <1>5, FS_CardinalityType
  <2>2. QED BY <1>1, <1>4, <1>5, <2>1 DEF FeedbackTypes
<1>8. QED BY <1>1, <1>2, <1>5, <1>6, <1>7

\* A limit no smaller than the number of groups keeps them all.
LEMMA WholeReport ==
    ASSUME FeedbackTypes, NEW S \in WeakQueries(MaxTurns)
    PROVE  S = Groups
<1>1. /\ IsFiniteSet(Groups) /\ Cardinality(Groups) \in Nat
      /\ Cardinality(Groups) <= MaxTurns
  BY GroupsFinite
<1>2. Least({MaxTurns, Cardinality(Groups)}) = Cardinality(Groups)
  BY <1>1, LeastOf DEF FeedbackTypes
<1>3. S \subseteq Groups /\ Cardinality(S) = Cardinality(Groups)
  BY <1>2 DEF WeakQueries
<1>4. QED BY <1>1, <1>3, FS_Subset

\* The group of a weak turn is in the report.
LEMMA WeakTurnIsReported ==
    ASSUME NEW t \in Newest(ScanLimit, Window), Kind(t) # "none"
    PROVE  LET g == Group(Normalized[turns[t].question]) IN
           /\ g \in Groups /\ g.text = Normalized[turns[t].question]
           /\ Kind(t) \in g.kinds
<1>1. t \in WeakTurns
  BY DEF WeakTurns
<1>2. \A text : /\ Group(text).text = text
               /\ Group(text).kinds =
                     {Kind(b) : b \in {w \in WeakTurns :
                                               Normalized[turns[w].question] = text}}
  BY DEF Group
<1>3. QED BY <1>1, <1>2 DEF Groups

\* A thumbs-down the page of the client shows is in the report as one.
THEOREM ThumbsDownIsReported == FeedbackSpec => []RatedDownIsReported
<1>1. FeedbackInv /\ SettledRatingStored => RatedDownIsReported
  <2> SUFFICES ASSUME FeedbackInv, SettledRatingStored,
                      NEW t \in Newest(ScanLimit, Window),
                      Settled(t), Trusted(t), page[t].shown = -1,
                      NEW S \in WeakQueries(MaxTurns)
               PROVE  \E g \in S : /\ g.text = Normalized[turns[t].question]
                                   /\ "negative_feedback" \in g.kinds
    BY DEF RatedDownIsReported
  <2>1. t \in DOMAIN page
    BY Typed DEF FeedbackInv, FeedbackTypes, Newest, Window
  <2>2. Kind(t) = "negative_feedback"
    BY <2>1 DEF SettledRatingStored, Kind
  <2>3. S = Groups
    BY WholeReport DEF FeedbackInv
  <2>4. QED BY <2>2, <2>3, WeakTurnIsReported
<1>2. QED BY <1>1, FeedbackSafety, ShownRatingIsStored, PTL

\* The two reports agree: a question nothing was found for that weak_queries scans
\* is one of its groups, and a limit of one drops it only for one asked as often.
THEOREM GapsAreReported == FeedbackSpec => []GapsAreWeak
<1>1. FeedbackInv => GapsAreWeak
  <2> SUFFICES ASSUME FeedbackInv,
                      NEW t \in ContentGaps(MaxTurns)
                                \cap Newest(ScanLimit, Window)
               PROVE  LET text == Normalized[turns[t].question]
                      IN  /\ \E g \in Groups : g.text = text
                          /\ \A S \in WeakQueries(1) :
                                 \E g \in S : g.count >= Group(text).count
    BY DEF GapsAreWeak
  <2>1. turns[t].found = FALSE
    BY DEF ContentGaps, Newest
  <2>2. Kind(t) # "none"
    BY <2>1 DEF Kind
  <2> DEFINE g == Group(Normalized[turns[t].question])
  <2>3. g \in Groups /\ g.text = Normalized[turns[t].question]
    BY <2>2, WeakTurnIsReported
  <2>4. ASSUME NEW S \in WeakQueries(1) PROVE \E h \in S : h.count >= g.count
    <3>1. IsFiniteSet(Groups) /\ Cardinality(Groups) \in Nat /\ FeedbackTypes
      BY GroupsFinite DEF FeedbackInv
    <3>2. Cardinality(Groups) # 0
      BY <2>3, <3>1, FS_EmptySet
    <3>3. Least({1, Cardinality(Groups)}) = 1
      BY <3>1, <3>2, LeastOf
    <3>4. /\ S \subseteq Groups /\ Cardinality(S) = 1
          /\ \A x \in Groups \ S, h \in S : ~Ahead(x, h)
      BY <3>3 DEF WeakQueries
    <3>5. PICK h \in S : TRUE
      BY <3>4, FS_EmptySet
    <3>6. h.count \in Nat /\ g.count \in Nat
      <4>1. \A x \in Groups : x.count \in Nat
        BY <3>1, GroupsFinite DEF Groups
      <4>2. QED BY <2>3, <3>4, <4>1
    <3> HIDE DEF g
    <3>7. CASE g \in S
      BY <3>6, <3>7
    <3>8. CASE g \notin S
      BY <2>3, <3>4, <3>6, <3>8 DEF Ahead
    <3>9. QED BY <3>7, <3>8
  <2>5. QED BY <2>3, <2>4
<1>2. QED BY <1>1, FeedbackSafety, PTL
=============================================================================
