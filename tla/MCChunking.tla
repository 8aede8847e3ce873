----------------------------- MODULE MCChunking -----------------------------
(***************************************************************************)
(* Bodies and budgets for the model checker.                               *)
(***************************************************************************)
EXTENDS Chunking

(* Every way to cut n bytes into tokens, and into characters of at most    *)
(* CharBytes bytes.                                                        *)
LinesOf(n) ==
    {[ends |-> SetToSortSeq(e \cup {n}, <), cont |-> c] :
        e \in SUBSET (1 .. n - 1),
        c \in {d \in SUBSET (1 .. n - 1) :
                 \A b \in 0 .. n - CharBytes : ~(b + 1 .. b + CharBytes \subseteq d)}}

Ascii(n) == [ends |-> [i \in 1 .. n |-> i], cont |-> {}]

(* Texts of several parts encode to the tokens of the parts and j for each *)
(* joint.                                                                  *)
UnitOf(lines, j) ==
    [lines |-> lines,
     tokens |-> FoldLeft(LAMBDA n, line : n + LineTokens(line) + j, -j, lines)]
SectionOf(units, j) ==
    [units |-> units,
     tokens |-> FoldLeft(LAMBDA n, unit : n + unit.tokens + j, -j, units)]
Para(line) == UnitOf(<<line>>, 0)

(* One line of every shape, alone and under a heading; a paragraph of      *)
(* several lines; a section short enough to stay whole.                    *)
MCDocuments ==
    {<<>>}
    \cup {<<SectionOf(<<Para(line)>>, 0)>> : line \in UNION {LinesOf(n) : n \in 1 .. 5}}
    \cup {<<SectionOf(<<Para(Ascii(1)), Para(line)>>, j)>> :
            line \in LinesOf(4), j \in {0, 1}}
    \cup {<<SectionOf(<<UnitOf(<<line, Ascii(2)>>, j), Para(Ascii(1))>>, j),
            SectionOf(<<Para(Ascii(1))>>, 0)>> : line \in LinesOf(4), j \in {0, 1}}
    \cup {<<SectionOf(<<Para(Ascii(2)), Para(Ascii(2)), UnitOf(<<Ascii(1), Ascii(1)>>, j)>>,
                      j)>> : j \in {0, 1}}

MCBudgets == {<<1, 0>>, <<2, 0>>, <<2, 1>>, <<3, 3>>}
=============================================================================
