------------------------------ MODULE Chunking ------------------------------
(***************************************************************************)
(* rag/chunking.py: how the markdown body of a content item becomes the    *)
(* chunks that are embedded.  chunk_markdown walks the sections; a section *)
(* over the budget is split into units (paragraphs), units over the budget *)
(* into lines, lines over the budget into token windows, and the atoms so  *)
(* obtained are packed greedily into overlapping chunks.                   *)
(*                                                                         *)
(* A document is a sequence of sections, a section holds units, a unit     *)
(* lines (the blank ones are gone); each comes with the tokens its text    *)
(* encodes to.  A line is [ends |-> <<e1, ..., en>>, cont |-> C] where e_i *)
(* is the byte at which its i-th token ends and C holds the byte offsets   *)
(* that are UTF-8 continuation bytes: tokens and characters cut the same   *)
(* bytes in two ways.  A slice of a line has the tokens it touches.  What  *)
(* the packing loop joins costs a few tokens more, the encoder may merge   *)
(* over a joint: the cost is any member of JoinCosts.                      *)
(***************************************************************************)
EXTENDS Integers, Sequences, SequencesExt, FiniteSets

CONSTANTS
    Documents,   \* the bodies considered
    Budgets,     \* pairs <<target_tokens, overlap_tokens>>
    JoinCosts,   \* tokens a separator may add, re-encoding included
    Strips       \* tokens a seed may lose to a character cut at its start

VARIABLES
    doc, target, overlap,   \* the arguments of the call
    pc,
    s, u, l,                \* the section, unit and line looked at
    cut, start,             \* _token_windows: next token cut, start of the window
    atoms, index,           \* the atoms of the section, the next one to pack
    open, hasBody,          \* the chunk being packed; has it an atom?
    chunks                  \* the chunks emitted

args == <<doc, target, overlap>>
vars == <<doc, target, overlap, pc, s, u, l, cut, start, atoms, index, open, hasBody,
          chunks>>
packing == <<index, open, hasBody>>

CharBytes == 4              \* the longest UTF-8 character

WellFormedLine(line) ==
    /\ line.ends \in Seq(Nat \ {0}) /\ line.ends # <<>>
    /\ \A i, j \in DOMAIN line.ends : i < j => line.ends[i] < line.ends[j]
    /\ line.cont \subseteq 1 .. line.ends[Len(line.ends)] - 1
    /\ \A b \in line.cont : \E e \in b + 1 .. b + CharBytes - 1 : e \notin line.cont
IsList(q) == q \in Seq(Range(q))
WellFormedUnit(unit) ==
    /\ unit.tokens \in Nat /\ IsList(unit.lines)
    /\ \A k \in 1 .. Len(unit.lines) : WellFormedLine(unit.lines[k])
WellFormedSection(section) ==
    /\ section.tokens \in Nat /\ IsList(section.units)
    /\ \A j \in 1 .. Len(section.units) : WellFormedUnit(section.units[j])

ASSUME DocumentsAssumption ==
    \A d \in Documents :
        IsList(d) /\ \A i \in 1 .. Len(d) : WellFormedSection(d[i])
ASSUME BudgetsAssumption == Budgets \subseteq (Nat \ {0}) \X Nat
ASSUME CostsAssumption == JoinCosts \subseteq Nat /\ Strips \subseteq Nat
-----------------------------------------------------------------------------
(* Texts.  A byte is named by its place <<section, unit, line, offset>>.   *)

Bytes(line) == line.ends[Len(line.ends)]
LineTokens(line) == Len(line.ends)
Slice(i, j, k, from, to) == [b \in 1 .. to - from |-> <<i, j, k, from + b>>]
LineText(i, j, k) == Slice(i, j, k, 0, Bytes(doc[i].units[j].lines[k]))
UnitText(i, j) ==
    FlattenSeq([k \in DOMAIN doc[i].units[j].lines |-> LineText(i, j, k)])
SectionText(i) == FlattenSeq([j \in DOMAIN doc[i].units |-> UnitText(i, j)])

(* What the walk looks at.                                                 *)
Units == doc[s].units
Unit == Units[u]
Line == Unit.lines[l]

(* The tokens a slice touches.                                             *)
TokenStart(line, t) == IF t = 1 THEN 0 ELSE line.ends[t - 1]
Touched(line, from, to) ==
    {t \in DOMAIN line.ends : line.ends[t] > from /\ TokenStart(line, t) < to}
SliceTokens(line, from, to) == Cardinality(Touched(line, from, to))

Atom(text, tokens) == [text |-> text, tokens |-> tokens]
Chunk(seed, text, tokens) == [seed |-> seed, text |-> text, tokens |-> tokens]

(* `parts` at the top of the packing loop: the seed, or nothing.           *)
Seeded(seed) == Chunk(seed, <<>>, seed)
NoSeed == Seeded(0)
-----------------------------------------------------------------------------
Init ==
    /\ doc \in Documents
    /\ \E b \in Budgets : target = b[1] /\ overlap = b[2]
    /\ pc = "sections"
    /\ s = 1 /\ u = 1 /\ l = 1
    /\ cut = 0 /\ start = 0
    /\ atoms = <<>> /\ index = 1
    /\ open = NoSeed /\ hasBody = FALSE
    /\ chunks = <<>>

(* chunk_markdown: a section within the budget is one chunk, whole.        *)
KeepSection ==
    /\ pc = "sections" /\ s <= Len(doc)
    /\ doc[s].tokens <= target
    /\ chunks' = Append(chunks, Chunk(0, SectionText(s), doc[s].tokens))
    /\ s' = s + 1
    /\ UNCHANGED <<args, pc, u, l, cut, start, atoms, packing>>

SplitSection ==
    /\ pc = "sections" /\ s <= Len(doc)
    /\ doc[s].tokens > target
    /\ pc' = "units"
    /\ u' = 1 /\ atoms' = <<>>
    /\ UNCHANGED <<args, s, l, cut, start, packing, chunks>>

Return ==
    /\ pc = "sections" /\ s > Len(doc)
    /\ pc' = "done"
    /\ UNCHANGED <<args, s, u, l, cut, start, atoms, packing, chunks>>

(* The flat pass over the units of a section.                              *)
KeepUnit ==
    /\ pc = "units" /\ u <= Len(Units)
    /\ Unit.tokens <= target
    /\ atoms' = Append(atoms, Atom(UnitText(s, u), Unit.tokens))
    /\ u' = u + 1
    /\ UNCHANGED <<args, pc, s, l, cut, start, packing, chunks>>

(* _split_oversized_unit: line by line, a single line being the unit.      *)
SplitUnit ==
    /\ pc = "units" /\ u <= Len(Units)
    /\ Unit.tokens > target
    /\ pc' = "lines" /\ l' = 1
    /\ UNCHANGED <<args, s, u, cut, start, atoms, packing, chunks>>

KeepLine ==
    /\ pc = "lines" /\ l <= Len(Unit.lines)
    /\ LineTokens(Line) <= target
    /\ atoms' = Append(atoms, Atom(LineText(s, u, l), LineTokens(Line)))
    /\ l' = l + 1
    /\ UNCHANGED <<args, pc, s, u, cut, start, packing, chunks>>

SplitLine ==
    /\ pc = "lines" /\ l <= Len(Unit.lines)
    /\ LineTokens(Line) > target
    /\ pc' = "windows"
    /\ cut' = target /\ start' = 0
    /\ UNCHANGED <<args, s, u, l, atoms, packing, chunks>>

UnitSplit ==
    /\ pc = "lines" /\ l > Len(Unit.lines)
    /\ pc' = "units" /\ u' = u + 1
    /\ UNCHANGED <<args, s, l, cut, start, atoms, packing, chunks>>

(* _token_windows: a token cut inside a character moves to its end; a      *)
(* window that became empty is skipped, the rest of the line is the last.  *)
Boundary(line, t) ==
    CHOOSE e \in line.ends[t] .. Bytes(line) :
        /\ e \notin line.cont
        /\ \A o \in line.ends[t] .. e - 1 : o \in line.cont

\* Mutant: each window is decoded on its own, the character on the cut is in
\* neither.
CutToWhole(end) ==
    LET line == Line
        stop == IF cut < LineTokens(line) THEN line.ends[cut] ELSE end
        whole == CHOOSE e \in start .. stop :
                    e \notin line.cont /\ \A o \in e + 1 .. stop : o \in line.cont
    IN  atoms' = IF stop > start /\ whole > start
                 THEN Append(atoms, Atom(Slice(s, u, l, start, whole),
                                         SliceTokens(line, start, whole)))
                 ELSE atoms

CutTo(end) ==
    atoms' = IF end > start
             THEN Append(atoms, Atom(Slice(s, u, l, start, end),
                                     SliceTokens(Line, start, end)))
             ELSE atoms

CutWindow ==
    /\ pc = "windows" /\ cut < LineTokens(Line)
    /\ CutTo(Boundary(Line, cut))
    /\ start' = Boundary(Line, cut)
    /\ cut' = cut + target
    /\ UNCHANGED <<args, pc, s, u, l, packing, chunks>>

LastWindow ==
    /\ pc = "windows" /\ cut >= LineTokens(Line)
    /\ CutTo(Bytes(Line))
    /\ pc' = "lines" /\ l' = l + 1
    /\ UNCHANGED <<args, s, u, cut, start, packing, chunks>>

(* The packing loop of _split_long_section.                                *)
StartPacking ==
    /\ pc = "units" /\ u > Len(Units)
    /\ pc' = "pack"
    /\ index' = 1 /\ open' = NoSeed /\ hasBody' = FALSE
    /\ UNCHANGED <<args, s, u, l, cut, start, atoms, chunks>>

(* count_tokens of the candidate: what is open joined with the atom.       *)
CandidateTokens(j) ==
    IF open.tokens = 0 THEN atoms[index].tokens
    ELSE open.tokens + j + atoms[index].tokens

TakeAtom(seed, tokens) ==
    /\ open' = Chunk(seed, open.text \o atoms[index].text, tokens)
    /\ hasBody' = TRUE
    /\ index' = index + 1
    /\ UNCHANGED <<args, pc, s, u, l, cut, start, atoms, chunks>>

\* Mutant: the first atom is taken with its seed, whatever they add up to.
PackAnyFirstAtom ==
    /\ pc = "pack" /\ index <= Len(atoms)
    /\ \E j \in JoinCosts :
        /\ hasBody => CandidateTokens(j) <= target
        /\ TakeAtom(open.seed, CandidateTokens(j))

(* An atom that keeps the chunk within the budget, or its first atom with  *)
(* the seed as long as the hard ceiling allows.                            *)
PackAtom ==
    /\ pc = "pack" /\ index <= Len(atoms)
    /\ \E j \in JoinCosts :
        /\ IF hasBody THEN CandidateTokens(j) <= target
           ELSE open.seed > 0 => CandidateTokens(j) <= target + overlap
        /\ TakeAtom(open.seed, CandidateTokens(j))

\* Mutant: every atom is expected to be within the budget alone.
DropSeedIfFits ==
    /\ pc = "pack" /\ index <= Len(atoms)
    /\ ~hasBody /\ open.seed > 0
    /\ \E j \in JoinCosts : CandidateTokens(j) > target + overlap
    /\ atoms[index].tokens <= target
    /\ TakeAtom(0, atoms[index].tokens)

(* The first atom does not fit with the seed: the seed is dropped.         *)
DropSeed ==
    /\ pc = "pack" /\ index <= Len(atoms)
    /\ ~hasBody /\ open.seed > 0
    /\ \E j \in JoinCosts : CandidateTokens(j) > target + overlap
    /\ TakeAtom(0, atoms[index].tokens)

(* _tail_tokens: at most n tokens of the chunk, fewer when the slice       *)
(* starts inside a character.                                              *)
TailTokens(n, lost) ==
    LET tail == IF n <= open.tokens THEN n ELSE open.tokens
    IN  IF tail > lost THEN tail - lost ELSE 0

EmitChunk ==
    /\ pc = "pack" /\ hasBody
    /\ index <= Len(atoms)
    /\ \E j \in JoinCosts : CandidateTokens(j) > target
    /\ chunks' = Append(chunks, open)
    /\ \E lost \in Strips : open' = Seeded(TailTokens(overlap, lost))
    /\ hasBody' = FALSE
    /\ UNCHANGED <<args, pc, s, u, l, cut, start, atoms, index>>

(* A section without atoms has no chunk.                                   *)
EmitLastChunk ==
    /\ pc = "pack" /\ index > Len(atoms)
    /\ chunks' = IF hasBody THEN Append(chunks, open) ELSE chunks
    /\ open' = NoSeed /\ hasBody' = FALSE
    /\ pc' = "sections" /\ s' = s + 1
    /\ UNCHANGED <<args, u, l, cut, start, atoms, index>>

Next ==
    \/ KeepSection \/ SplitSection \/ Return
    \/ KeepUnit \/ SplitUnit \/ KeepLine \/ SplitLine \/ UnitSplit
    \/ CutWindow \/ LastWindow
    \/ StartPacking \/ PackAtom \/ DropSeed \/ EmitChunk \/ EmitLastChunk

Spec == Init /\ [][Next]_vars
FairSpec == Spec /\ WF_vars(Next)
-----------------------------------------------------------------------------
From(seq, i) == SubSeq(seq, i, Len(seq))
Texts(parts) == FlattenSeq([i \in DOMAIN parts |-> parts[i].text])

(* The text already split off the document: whole sections, and of the     *)
(* current one the units, the lines and the slice of a line done.          *)
Sections(n) == FlattenSeq([i \in 1 .. n |-> SectionText(i)])
ToUnit == Sections(s - 1) \o FlattenSeq([j \in 1 .. u - 1 |-> UnitText(s, j)])
ToLine == ToUnit \o FlattenSeq([k \in 1 .. l - 1 |-> LineText(s, u, k)])
SplitOff ==
    CASE pc = "sections" -> Sections(s - 1)
      [] pc = "units"    -> ToUnit
      [] pc = "lines"    -> ToLine
      [] pc = "windows"  -> ToLine \o Slice(s, u, l, 0, start)
      [] pc = "pack"     -> Sections(s)
      [] pc = "done"     -> Sections(Len(doc))

(* The atoms of the section that no chunk holds yet.                       *)
Pending ==
    CASE pc = "pack" -> open.text \o Texts(From(atoms, index))
      [] pc \in {"units", "lines", "windows"} -> Texts(atoms)
      [] OTHER -> <<>>

(* The chunks, their seeds aside, hold every byte of the body exactly once *)
(* and in document order, at every point of the walk: however the token    *)
(* cuts fall into characters, no byte is lost between two windows, and no  *)
(* atom is dropped or packed twice when a chunk closes or loses its seed.  *)
EveryByteOnce == Texts(chunks) \o Pending = SplitOff

(* The ceiling of chunk_markdown (F1c), over which the embedder would cut  *)
(* the text: no chunk exceeds target + overlap tokens, whatever the joints *)
(* cost.  A window may run past its cut to the end of a character, so an   *)
(* overlap shorter than a character gives the latter's bytes as the slack. *)
Slack == IF overlap < CharBytes - 1 THEN CharBytes - 1 ELSE overlap
ChunksBounded == \A i \in DOMAIN chunks : chunks[i].tokens <= target + Slack

(* The call returns: every turn of every loop consumes something, also     *)
(* when the atom alone is over the budget.                                 *)
Returns == <>(pc = "done")
=============================================================================
