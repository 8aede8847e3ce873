--------------------------- MODULE ToolCallsProofs ---------------------------
(***************************************************************************)
(* What the tools guarantee for any number of exchanges, callers and calls.*)
(***************************************************************************)
EXTENDS ToolCalls, FiniteSetTheorems, WellFoundedInduction, TLAPS

\* The call a session is at: its exchange or its client counts them.
Number(a) == IF a \in Agents THEN agent[a].calls ELSE caller[a].calls

Escaped(a) == a \in Agents /\ agent[a].pc = "escaped"

\* A session runs the call its exchange is at, and holds rows of that call only;
\* between calls it holds none, but for an exception on its way to the route.
SessionOf(a) ==
    /\ a \in Agents => (tx[a].at # "idle" <=> agent[a].pc = "tool")
    /\ tx[a].at # "idle" => tx[a].by = <<a, Number(a)>> /\ Number(a) > 0
    /\ tx[a].at = "idle" /\ ~Escaped(a) => Held(a) = {}
    /\ \A r \in written[a] : r.by = <<a, Number(a)>> /\ Number(a) > 0
    /\ tx[a].at = "idle" => tx[a].by = Before
SessionInv == \A a \in Actors : SessionOf(a)

\* What is left of an exchange's cap.
CapOf(a) ==
    /\ agent[a].pc = "ask" => agent[a].calls < MaxToolCalls
    /\ agent[a].pc = "announced" => agent[a].calls > 0 /\ tx[a].call \in Call
CapInv == \A a \in Agents : CapOf(a)

\* How far a call has come.
Working == {"slug", "insert", "row", "remove", "delete", "names", "new_tag", "old_tag", "links"}
StageOf(a) ==
    /\ tx[a].at \in {"slug", "insert"} => tx[a].call.tool = "draft"
    /\ tx[a].at \in {"row", "embed"} => tx[a].call.tool = "edit"
    /\ tx[a].at \in {"remove", "delete"} => tx[a].call.tool \in {"edit", "tag"}
    /\ tx[a].at \in Working =>
           tx[a].call.tool \in {"draft", "edit", "tag"}
    /\ tx[a].at \in {"new_tag", "old_tag"} => tx[a].todo # << >>
    /\ tx[a].at = "insert" => tx[a].item \in Titles \X Nat
    /\ tx[a].at \in Working \ {"slug"} =>
           tx[a].item \in Items
    /\ \/ tx[a].at \in {"embed", "returned"}
       \/ tx[a].at \in {"names", "new_tag", "old_tag", "links"} /\ tx[a].call.tool = "draft"
       => written[a] # {}
StageInv == \A a \in Actors : StageOf(a)

\* A key has one committed row, one uncommitted row and one uncommitted writer.
OneEach(rows) == \A r, s \in rows : r.key = s.key => r = s
KeysInv ==
    /\ OneEach(db)
    /\ \A a \in Actors : OneEach(written[a])
    /\ \A a, b \in Actors : a # b => Held(a) \cap Held(b) = {}

\* A tag the session may link to: committed or its own, and not soft-deleted.
LiveIn(rows, x) == \E t \in rows : t.key = Tag(x) /\ t.by # Deleted
LinksOfSession(a) ==
    /\ \A r \in written[a] : r.key[1] = "link" => LiveIn(db \cup written[a], r.key[3])
    /\ tx[a].at \in Working =>
           \A x \in ToSet(Names(tx[a].call)) :
               x \in ToSet(tx[a].todo) \/ LiveIn(db \cup written[a], x)
    /\ tx[a].at = "links" => tx[a].todo = << >>
LinksInv == LinksReachTags /\ \A a \in Actors : LinksOfSession(a)

\* Every call in a conversation but the one under way is followed by its answer.
TalkOf(g) ==
    /\ \A i \in 1..Len(g.conversation) :
          g.conversation[i][1] = "call" /\ i < Len(g.conversation) =>
              g.conversation[i + 1] = <<"answer", g.conversation[i][2]>>
    /\ g.pc = "ask" /\ g.conversation # << >> =>
          g.conversation[Len(g.conversation)][1] # "call"
    /\ g.pc \in {"announced", "tool"} =>
          /\ g.conversation # << >>
          /\ g.conversation[Len(g.conversation)] = <<"call", g.calls>>
TalkInv == \A a \in Agents : TalkOf(agent[a])

ToolInv ==
    /\ SessionInv /\ CapInv /\ StageInv /\ KeysInv
    /\ LinksInv /\ TalkInv /\ ResultsAreCommitted

-----------------------------------------------------------------------------
(***************************************************************************)
(* Types.                                                                  *)
(***************************************************************************)
LEMMA NamesAreTags ==
    ASSUME NEW call \in Call, call.tool \in {"draft", "edit", "tag"}
    PROVE  Names(call) \in Seq(TagNames)
  BY DEF Names, Call

LEMMA NamesOf ==
    ASSUME TypeOK, StageInv, NEW a \in Actors, tx[a].at \in Working
    PROVE  /\ tx[a].call \in Call /\ Names(tx[a].call) \in Seq(TagNames)
           /\ ToSet(Names(tx[a].call)) \subseteq TagNames
  <1>1. tx[a].call.tool \in {"draft", "edit", "tag"}
    BY DEF StageInv, StageOf, Working
  <1>2. tx[a].call \in Call
    BY <1>1 DEF TypeOK, Transaction, NoCall
  <1>3. Names(tx[a].call) \in Seq(TagNames)
    BY <1>1, <1>2, NamesAreTags
  <1> QED BY <1>2, <1>3 DEF ToSet

LEMMA ImageFinite ==
    ASSUME NEW S, IsFiniteSet(S), NEW f, DOMAIN f = S
    PROVE  IsFiniteSet({f[x] : x \in S})
  <1> DEFINE T == {f[x] : x \in S}
  <1>1. [x \in S |-> f[x]] \in Surjection(S, T)
    BY DEF Surjection
  <1> QED BY <1>1, FS_Surjection

LEMMA ToSetFinite ==
    ASSUME NEW S, NEW s \in Seq(S)
    PROVE  IsFiniteSet(ToSet(s))
  <1>1. IsFiniteSet(1..Len(s))
    BY FS_Interval
  <1>2. DOMAIN s = 1..Len(s)
    OBVIOUS
  <1>3. ToSet(s) = {s[i] : i \in 1..Len(s)}
    BY <1>2 DEF ToSet
  <1> QED BY <1>1, <1>2, <1>3, ImageFinite

LEMMA KeyOf ==
    /\ \A t \in Titles : \A n \in Nat : Slug(t, n) \in Key
    /\ \A x \in TagNames : Tag(x) \in Key
    /\ \A i \in Items : \A x \in TagNames : Link(i, x) \in Links
    /\ \A i \in Items : Item(i) \in Key
    /\ Links \subseteq Key
  BY DEF Slug, Tag, Link, Item, Key, Links

LEMMA Single == ASSUME NEW x PROVE IsFiniteSet({x})
  BY FS_Singleton

\* The keys a statement writes are keys, and finitely many.
LEMMA TouchesTyped ==
    ASSUME TypeOK, StageInv, NEW a \in Actors, tx[a].at # "delete"
    PROVE  Touches(a) \subseteq Key /\ IsFiniteSet(Touches(a))
  <1> DEFINE names == ToSet(Names(tx[a].call)) \ tx[a].linked
             links == {Link(tx[a].item, x) : x \in names}
  <1>1. CASE tx[a].at = "insert"
    <2>1. Touches(a) = {Slug(tx[a].item[1], tx[a].item[2])} /\ tx[a].item \in Titles \X Nat
      BY <1>1 DEF Touches, At, StageInv, StageOf, Working
    <2>2. tx[a].item[1] \in Titles /\ tx[a].item[2] \in Nat
      BY <2>1
    <2> QED BY <2>1, <2>2, KeyOf, Single
  <1>2. CASE tx[a].at \in {"new_tag", "old_tag"}
    <2>1. Touches(a) = {Tag(Head(tx[a].todo))} /\ tx[a].todo \in Seq(TagNames) /\ tx[a].todo # << >>
      BY <1>2 DEF Touches, At, StageInv, StageOf, Working, TypeOK, Transaction
    <2>2. Head(tx[a].todo) \in TagNames
      BY <2>1
    <2> QED BY <2>1, <2>2, KeyOf, Single
  <1>3. CASE tx[a].at = "row"
    <2>1. Touches(a) = {Item(tx[a].item)} /\ tx[a].item \in Items
      BY <1>3 DEF Touches, At, StageInv, StageOf, Working
    <2> QED BY <2>1, KeyOf, Single
  <1>4. CASE tx[a].at = "links"
    <2>1. tx[a].item \in Items /\ names \subseteq TagNames /\ IsFiniteSet(names)
      BY <1>4, NamesOf, ToSetFinite, FS_Subset DEF StageInv, StageOf, Working
    <2>2. IsFiniteSet(links)
      <3> DEFINE f == [x \in names |-> Link(tx[a].item, x)]
      <3>1. links = {f[x] : x \in names} /\ DOMAIN f = names
        OBVIOUS
      <3> HIDE DEF f, links, names
      <3> QED BY ONLY <2>1, <3>1, ImageFinite
    <2>3. links \subseteq Key /\ Item(tx[a].item) \in Key
      BY <2>1, KeyOf
    <2>4. Touches(a) = links \/ Touches(a) = links \cup {Item(tx[a].item)}
      BY <1>4 DEF Touches, At
    <2> HIDE DEF links
    <2> QED BY <2>2, <2>3, <2>4, FS_AddElement
  <1>5. CASE tx[a].at \notin {"insert", "new_tag", "old_tag", "row", "delete", "links"}
    BY <1>5, FS_EmptySet DEF Touches, At
  <1> QED BY <1>1, <1>2, <1>3, <1>4, <1>5

\* What a statement writes: rows of its call, in place of those it had.
LEMMA Writes ==
    ASSUME TypeOK, StageInv, NEW a \in Actors, tx[a].at # "delete", Write(a),
           tx[a].by \in Actors \X (Nat \ {0})
    PROVE  /\ written' \in [Actors -> SUBSET Rows]
           /\ \A b \in Actors : IsFiniteSet(written'[b])
           /\ \A b \in Actors \ {a} : written'[b] = written[b]
           /\ written'[a] = {r \in written[a] : r.key \notin Touches(a)}
                                \cup {Row(k, tx[a].by) : k \in Touches(a)}
  <1> DEFINE old == {r \in written[a] : r.key \notin Touches(a)}
             new == {Row(k, tx[a].by) : k \in Touches(a)}
  <1>1. Touches(a) \subseteq Key /\ IsFiniteSet(Touches(a))
    BY TouchesTyped
  <1>2. new \subseteq Rows
    BY <1>1 DEF Row, Rows
  <1>3. IsFiniteSet(new)
    <2> DEFINE f == [k \in Touches(a) |-> Row(k, tx[a].by)]
    <2>1. new = {f[k] : k \in Touches(a)} /\ DOMAIN f = Touches(a)
      OBVIOUS
    <2> HIDE DEF f, new
    <2> QED BY ONLY <1>1, <2>1, ImageFinite
  <1>4. old \in SUBSET written[a] /\ IsFiniteSet(written[a]) /\ written[a] \subseteq Rows
    BY DEF TypeOK
  <1>5. IsFiniteSet(old)
    BY ONLY <1>4, FS_Subset
  <1>6. IsFiniteSet(old \cup new)
    BY ONLY <1>3, <1>5, FS_Union
  <1>7. written' = [written EXCEPT ![a] = old \cup new]
    BY DEF Write
  <1>8. written \in [Actors -> SUBSET Rows] /\ \A b \in Actors : IsFiniteSet(written[b])
    BY DEF TypeOK
  <1> HIDE DEF old, new
  <1>9. written'[a] = old \cup new /\ \A b \in Actors \ {a} : written'[b] = written[b]
    BY <1>7, <1>8
  <1>10. written' \in [Actors -> SUBSET Rows]
    BY <1>2, <1>4, <1>7, <1>8
  <1>11. \A b \in Actors : IsFiniteSet(written'[b])
    BY <1>6, <1>8, <1>9
  <1> QED BY <1>9, <1>10, <1>11 DEF old, new

\* What a statement sees is rows, and the links of an item are links.
LEMMA VisibleTyped ==
    ASSUME TypeOK, NEW a \in Actors
    PROVE  /\ Visible(a) \subseteq db \cup written[a] /\ Visible(a) \subseteq Rows
           /\ LinksOf(a) \subseteq Links /\ Doomed(a) \subseteq Rows /\ Gone(a) \subseteq Links
  <1>1. db \subseteq Rows /\ written[a] \subseteq Rows
    BY DEF TypeOK
  <1>2. Visible(a) \subseteq db \cup written[a] /\ Visible(a) \subseteq Rows
    BY <1>1 DEF Visible
  <1>3. \A k \in Key : k[1] = "link" => k \in Links
    BY DEF Key
  <1>4. LinksOf(a) \subseteq Links
    BY <1>2, <1>3 DEF LinksOf, Keys, Rows
  <1>5. \A r \in Doomed(a) : r \in Rows /\ r.key \in LinksOf(a)
    BY <1>2 DEF Doomed
  <1>6. Gone(a) \subseteq LinksOf(a)
    BY <1>5 DEF Gone, Keys
  <1> QED BY <1>2, <1>4, <1>5, <1>6

LEMMA LeastOf ==
    ASSUME NEW S \in SUBSET Nat, S # {}
    PROVE  \E m \in S : \A n \in S : m <= n
  <1> DEFINE R == OpToRel(<, Nat)
  <1>1. IsWellFoundedOn(R, Nat) /\ \A x, y \in Nat : y < x => <<y, x>> \in R
    BY NatLessThanWellFounded DEF OpToRel
  <1> HIDE DEF R
  <1>2. PICK x \in S : \A y \in S : <<y, x>> \notin R
    BY <1>1, WFMin
  <1>3. \A y \in S : ~(y < x)
    BY <1>1, <1>2
  <1> QED BY <1>3

\* The slug a draft gets is free when it is chosen, and the first free one.
LEMMA SlugIsFree ==
    ASSUME TypeOK, NEW a \in Actors, NEW title
    PROVE  /\ FreeSuffix(title, a) \in Nat \ {0}
           /\ FreeSuffix(title, a) \notin TakenSuffixes(title, a)
           /\ 1..(FreeSuffix(title, a) - 1) \subseteq TakenSuffixes(title, a)
  <1> DEFINE T == TakenSuffixes(title, a)
             slugs == {k \in Keys(Visible(a)) : k[1] = "slug" /\ k[2] = title}
  <1>1. IsFiniteSet(Visible(a))
    <2>1. IsFiniteSet(db) /\ IsFiniteSet(written[a])
      BY DEF TypeOK
    <2>2. IsFiniteSet(db \cup written[a])
      BY <2>1, FS_Union
    <2>3. Visible(a) \in SUBSET (db \cup written[a])
      BY DEF Visible
    <2> QED BY ONLY <2>2, <2>3, FS_Subset
  <1>2. IsFiniteSet(Keys(Visible(a)))
    <2> DEFINE f == [r \in Visible(a) |-> r.key]
    <2>1. Keys(Visible(a)) = {f[r] : r \in Visible(a)} /\ DOMAIN f = Visible(a)
      BY DEF Keys
    <2> HIDE DEF f
    <2> QED BY ONLY <1>1, <2>1, ImageFinite
  <1>3. IsFiniteSet(slugs)
    <2>1. slugs \in SUBSET Keys(Visible(a))
      OBVIOUS
    <2> QED BY ONLY <1>2, <2>1, FS_Subset
  <1>4. IsFiniteSet(T)
    <2> DEFINE f == [k \in slugs |-> k[3]]
    <2>1. T = {f[k] : k \in slugs} /\ DOMAIN f = slugs
      BY DEF TakenSuffixes
    <2> HIDE DEF f, slugs, T
    <2> QED BY ONLY <1>3, <2>1, ImageFinite
  <1> HIDE DEF T
  <1> DEFINE c == Cardinality(T)
             Free == {n \in 1..(c + 1) : n \notin T}
  <1>5. c \in Nat
    BY <1>4, FS_CardinalityType
  <1>6. Free # {}
    <2> SUFFICES ASSUME Free = {} PROVE FALSE
      OBVIOUS
    <2>1. 1..(c + 1) \in SUBSET T
      BY <1>5
    <2>2. Cardinality(1..(c + 1)) = c + 1
      BY <1>5, FS_Interval
    <2>3. Cardinality(1..(c + 1)) <= c
      BY ONLY <1>4, <2>1, FS_Subset
    <2> QED BY <1>5, <2>2, <2>3
  <1>7. PICK m \in Free : \A n \in Free : m <= n
    <2>1. Free \in SUBSET Nat
      BY <1>5
    <2> QED BY ONLY <1>6, <2>1, LeastOf
  <1>8. m \in 1..(c + 1) /\ m \notin T /\ 1..(m - 1) \subseteq T
    <2>1. m \in 1..(c + 1) /\ m \notin T
      BY <1>7
    <2>2. ASSUME NEW n \in 1..(m - 1) PROVE n \in T
      <3>1. n \in 1..(c + 1) /\ ~(m <= n)
        BY <1>5, <2>1
      <3> QED BY <1>7, <3>1
    <2> QED BY <2>1, <2>2
  <1>9. \E n \in 1..(c + 1) : n \notin T /\ 1..(n - 1) \subseteq T
    BY <1>8
  <1>10. FreeSuffix(title, a) = CHOOSE n \in 1..(c + 1) : n \notin T /\ 1..(n - 1) \subseteq T
    BY DEF FreeSuffix, T
  <1>11. /\ FreeSuffix(title, a) \in 1..(c + 1) /\ FreeSuffix(title, a) \notin T
         /\ 1..(FreeSuffix(title, a) - 1) \subseteq T
    BY ONLY <1>9, <1>10
  <1> QED BY <1>5, <1>11 DEF T

-----------------------------------------------------------------------------
(***************************************************************************)
(* One statement of a tool leaves everything alone but its own             *)
(* transaction, and stays in it.                                           *)
(***************************************************************************)
Moved(a) ==
    /\ tx[a].at # "idle" /\ tx'[a].at # "idle"
    /\ tx' \in [Actors -> Transaction] /\ \A b \in Actors \ {a} : tx'[b] = tx[b]
    /\ tx'[a].call = tx[a].call /\ tx'[a].by = tx[a].by
    /\ db' = db /\ landed' = landed /\ agent' = agent /\ caller' = caller

\* Its rows stay, or those of the statement join them.
Kept(a) == written' = written /\ removed' = removed
Wrote(a) ==
    /\ removed' = removed
    /\ written' \in [Actors -> SUBSET Rows] /\ \A b \in Actors : IsFiniteSet(written'[b])
    /\ \A b \in Actors \ {a} : written'[b] = written[b]
    /\ written'[a] = {r \in written[a] : r.key \notin Touches(a)}
                         \cup {Row(k, tx[a].by) : k \in Touches(a)}
    /\ Touches(a) \subseteq Key /\ \A b \in Actors \ {a} : Touches(a) \cap Held(b) = {}
Cut(a) ==
    /\ written' = written
    /\ removed' \in [Actors -> SUBSET Links]
    /\ removed' = [removed EXCEPT ![a] = @ \cup Gone(a)]
    /\ Touches(a) = Gone(a) /\ \A b \in Actors \ {a} : Touches(a) \cap Held(b) = {}

LEMMA GotoMoves ==
    ASSUME TypeOK, NEW a \in Actors, NEW stage \in Stages \ {"idle"}, tx[a].at # "idle",
           Goto(a, stage), UNCHANGED <<db, landed, agent, caller>>
    PROVE  Moved(a) /\ tx'[a] = [tx[a] EXCEPT !.at = stage]
  <1>1. tx \in [Actors -> Transaction]
    BY DEF TypeOK
  <1>2. tx' = [tx EXCEPT ![a] = [tx[a] EXCEPT !.at = stage]]
    BY DEF Goto
  <1>3. tx[a] \in Transaction
    BY <1>1
  <1>4. [tx[a] EXCEPT !.at = stage] \in Transaction
    BY ONLY <1>3, stage \in Stages DEF Transaction
  <1>5. tx' \in [Actors -> Transaction] /\ tx'[a] = [tx[a] EXCEPT !.at = stage]
        /\ \A b \in Actors \ {a} : tx'[b] = tx[b]
    BY ONLY <1>1, <1>2, <1>4
  <1>6. tx'[a].at = stage /\ tx'[a].call = tx[a].call /\ tx'[a].by = tx[a].by
    BY ONLY <1>3, <1>5 DEF Transaction
  <1> QED BY <1>5, <1>6 DEF Moved

LEMMA NumberIsNat ==
    ASSUME TypeOK, NEW a \in Actors
    PROVE  Number(a) \in Nat
  <1>1. CASE a \in Agents
    <2>1. agent[a] \in Exchange
      BY <1>1 DEF TypeOK
    <2>2. agent[a].calls \in 0..MaxToolCalls
      BY <2>1 DEF Exchange
    <2> QED BY <1>1, <2>2, CapsAssumption DEF Number
  <1>2. CASE a \notin Agents
    <2>1. caller[a].calls \in 0..MaxCallerCalls
      BY <1>2 DEF TypeOK, Actors
    <2> QED BY <1>2, <2>1, CapsAssumption DEF Number
  <1> QED BY <1>1, <1>2

LEMMA BySession ==
    ASSUME TypeOK, SessionInv, NEW a \in Actors, tx[a].at # "idle"
    PROVE  tx[a].by \in Actors \X (Nat \ {0}) /\ tx[a].by = <<a, Number(a)>>
  <1>1. tx[a].by = <<a, Number(a)>> /\ Number(a) > 0
    BY DEF SessionInv, SessionOf
  <1> QED BY <1>1, NumberIsNat

LEMMA WriteWrote ==
    ASSUME TypeOK, SessionInv, StageInv, NEW a \in Actors,
           tx[a].at \notin {"idle", "delete"}, ~Blocked(a), Write(a), UNCHANGED removed
    PROVE  Wrote(a)
  <1>1. tx[a].by \in Actors \X (Nat \ {0})
    BY BySession
  <1>2. \A b \in Actors \ {a} : Touches(a) \cap Held(b) = {}
    BY DEF Blocked, WaitsFor
  <1>3. Touches(a) \subseteq Key
    BY TouchesTyped
  <1> QED BY <1>1, <1>2, <1>3, Writes DEF Wrote

LEMMA WriteMoves ==
    ASSUME TypeOK, SessionInv, NEW a \in Actors, tx[a].at # "idle", Wrote(a)
    PROVE  /\ \A x : LiveIn(db \cup written[a], x) => LiveIn(db \cup written'[a], x)
           /\ written[a] # {} \/ Touches(a) # {} => written'[a] # {}
           /\ \A r \in written'[a] :
                 \/ r \in written[a]
                 \/ r.key \in Touches(a) /\ r.by = tx[a].by
           /\ \A k \in Touches(a) : \E r \in written'[a] : r.key = k /\ r.by # Deleted
  <1>1. tx[a].by = <<a, Number(a)>> /\ Number(a) > 0 /\ Number(a) \in Nat
    BY NumberIsNat DEF SessionInv, SessionOf
  <1>2. tx[a].by # Deleted
    BY <1>1 DEF Deleted
  <1>3. \A k \in Touches(a) : Row(k, tx[a].by) \in written'[a]
    BY DEF Wrote
  <1>4. \A k : Row(k, tx[a].by).key = k /\ Row(k, tx[a].by).by = tx[a].by
    BY DEF Row
  <1>5. \A r \in written[a] : r.key \in Touches(a) \/ r \in written'[a]
    BY DEF Wrote
  <1>6. \A r \in written'[a] : r \in written[a] \/ \E k \in Touches(a) : r = Row(k, tx[a].by)
    BY DEF Wrote
  <1>7. \A x : LiveIn(db \cup written[a], x) => LiveIn(db \cup written'[a], x)
    <2> SUFFICES ASSUME NEW x, NEW t \in db \cup written[a], t.key = Tag(x), t.by # Deleted
                 PROVE  \E u \in db \cup written'[a] : u.key = Tag(x) /\ u.by # Deleted
      BY DEF LiveIn
    <2>1. CASE t \in db \/ t \in written'[a]
      BY <2>1
    <2>2. CASE t \notin db /\ t \notin written'[a]
      <3>1. t.key \in Touches(a)
        BY <2>2, <1>5
      <3>2. Row(t.key, tx[a].by) \in db \cup written'[a]
        BY <1>3, <3>1
      <3>3. Row(t.key, tx[a].by).key = Tag(x) /\ Row(t.key, tx[a].by).by # Deleted
        BY <1>2, <1>4
      <3> QED BY ONLY <3>2, <3>3
    <2> QED BY <2>1, <2>2
  <1>8. written[a] # {} \/ Touches(a) # {} => written'[a] # {}
    BY <1>3, <1>5
  <1>9. \A r \in written'[a] :
            r \in written[a] \/ (r.key \in Touches(a) /\ r.by = tx[a].by)
    BY <1>4, <1>6
  <1>10. \A k \in Touches(a) : \E r \in written'[a] : r.key = k /\ r.by # Deleted
    BY <1>2, <1>3, <1>4
  <1> QED BY ONLY <1>7, <1>8, <1>9, <1>10

\* What a statement leaves to show of the links of its session.
LEMMA LinksKept ==
    ASSUME TypeOK, SessionInv, LinksInv, NEW a \in Actors, Moved(a),
           \/ written' = written
           \/ /\ Wrote(a)
              /\ \A k \in Touches(a) : k[1] = "link" => LiveIn(db \cup written[a], k[3])
    PROVE  /\ \A x : LiveIn(db \cup written[a], x) => LiveIn(db' \cup written'[a], x)
           /\ \A r \in written'[a] : r.key[1] = "link" => LiveIn(db' \cup written'[a], r.key[3])
  <1>1. db' = db
    BY DEF Moved
  <1>2. \A x : LiveIn(db \cup written[a], x) => LiveIn(db \cup written'[a], x)
    <2>1. CASE written' = written
      BY <2>1
    <2>2. CASE Wrote(a)
      BY <2>2, WriteMoves DEF Moved
    <2> QED BY <2>1, <2>2
  <1>3. \A r \in written[a] : r.key[1] = "link" => LiveIn(db \cup written[a], r.key[3])
    BY DEF LinksInv, LinksOfSession, Working
  <1>4. ASSUME NEW r \in written'[a], r.key[1] = "link"
        PROVE  LiveIn(db \cup written[a], r.key[3])
    <2>1. CASE r \in written[a]
      BY <2>1, <1>3, <1>4
    <2>2. CASE r \notin written[a]
      <3>1. Wrote(a) /\ \A k \in Touches(a) : k[1] = "link" => LiveIn(db \cup written[a], k[3])
        BY <2>2
      <3>2. r.key \in Touches(a)
        BY <3>1, <2>2, WriteMoves DEF Moved
      <3> QED BY <3>1, <3>2, <1>4
    <2> QED BY <2>1, <2>2
  <1> QED BY <1>1, <1>2, <1>4

\* What each statement does to its session.
SoundStep(a) ==
    /\ Moved(a) /\ (Kept(a) \/ Wrote(a) \/ Cut(a))
    /\ StageOf(a)' /\ LinksOfSession(a)'

LEMMA GenerateSlugStep ==
    ASSUME TypeOK, SessionInv, StageInv, LinksInv, NEW a \in Actors, GenerateSlug(a)
    PROVE  SoundStep(a)
  <1> DEFINE title == tx[a].call.title
             item == <<title, FreeSuffix(title, a)>>
  <1>1. tx[a] \in Transaction /\ tx \in [Actors -> Transaction]
    BY DEF TypeOK
  <1>2. tx[a].at = "slug" /\ tx[a].call.tool = "draft" /\ tx[a].call \in Call
    BY NamesOf DEF GenerateSlug, At, StageInv, StageOf, Working
  <1>3. title \in Titles
    BY ONLY <1>2 DEF Call
  <1>4. item \in Titles \X Nat
    BY <1>3, SlugIsFree
  <1>5. tx' = [tx EXCEPT ![a] = [tx[a] EXCEPT !.at = "insert", !.item = item]]
    BY <1>1 DEF GenerateSlug, Transaction
  <1> HIDE DEF item
  <1>6. [tx[a] EXCEPT !.at = "insert", !.item = item] \in Transaction
    BY ONLY <1>1, <1>4 DEF Transaction, Items, Stages
  <1>7. /\ tx' \in [Actors -> Transaction] /\ \A b \in Actors \ {a} : tx'[b] = tx[b]
        /\ tx'[a] = [tx[a] EXCEPT !.at = "insert", !.item = item]
    BY ONLY <1>1, <1>5, <1>6
  <1>8. /\ tx'[a].at = "insert" /\ tx'[a].item = item /\ tx'[a].call = tx[a].call
        /\ tx'[a].by = tx[a].by /\ tx'[a].todo = tx[a].todo
    BY ONLY <1>1, <1>7 DEF Transaction
  <1>9. Moved(a) /\ Kept(a) /\ written' = written /\ db' = db
    BY <1>2, <1>7, <1>8 DEF Moved, Kept, GenerateSlug, store
  <1>10. StageOf(a)'
    BY <1>2, <1>4, <1>8 DEF StageOf, Items, Working
  <1>11. LinksOfSession(a)'
    BY <1>2, <1>8, <1>9 DEF LinksInv, LinksOfSession, Working
  <1> QED BY <1>9, <1>10, <1>11 DEF SoundStep

LEMMA InsertDraftStep ==
    ASSUME TypeOK, SessionInv, StageInv, LinksInv, NEW a \in Actors, InsertDraft(a)
    PROVE  SoundStep(a)
  <1>1. tx[a].at = "insert" /\ Goto(a, "names") /\ Write(a) /\ ~Blocked(a) /\ UNCHANGED removed
    BY DEF InsertDraft, At
  <1>2. Moved(a) /\ tx'[a] = [tx[a] EXCEPT !.at = "names"]
    <2>1. "names" \in Stages \ {"idle"} /\ UNCHANGED <<db, landed, agent, caller>>
      BY DEF InsertDraft, Stages
    <2> QED BY ONLY <1>1, <2>1, TypeOK, a \in Actors, GotoMoves
  <1>3. Wrote(a)
    BY <1>1, WriteWrote
  <1>4. Touches(a) = {Slug(tx[a].item[1], tx[a].item[2])}
    BY <1>1 DEF Touches, At
  <1>5. written'[a] # {}
    BY <1>1, <1>3, <1>4, WriteMoves
  <1>6. tx[a] \in Transaction
    BY DEF TypeOK
  <1>7. /\ tx'[a].at = "names" /\ tx'[a].item = tx[a].item /\ tx'[a].call = tx[a].call
        /\ tx'[a].todo = tx[a].todo
    BY ONLY <1>2, <1>6 DEF Transaction
  <1>8. tx[a].call.tool = "draft" /\ tx[a].item \in Items
    BY <1>1 DEF StageInv, StageOf, Working
  <1>9. StageOf(a)'
    BY <1>5, <1>7, <1>8 DEF StageOf, Working
  <1>10. \A k \in Touches(a) : k[1] # "link"
    BY <1>4 DEF Slug
  <1>11. /\ \A x : LiveIn(db \cup written[a], x) => LiveIn(db' \cup written'[a], x)
         /\ \A r \in written'[a] : r.key[1] = "link" => LiveIn(db' \cup written'[a], r.key[3])
    BY <1>2, <1>3, <1>10, LinksKept
  <1>12. \A x \in ToSet(Names(tx[a].call)) :
             x \in ToSet(tx[a].todo) \/ LiveIn(db \cup written[a], x)
    BY <1>1 DEF LinksInv, LinksOfSession, Working
  <1>13. LinksOfSession(a)'
    BY <1>7, <1>11, <1>12 DEF LinksOfSession, Working
  <1> QED BY <1>2, <1>3, <1>9, <1>13 DEF SoundStep

LEMMA UpdateItemStep ==
    ASSUME TypeOK, SessionInv, StageInv, LinksInv, NEW a \in Actors, UpdateItem(a)
    PROVE  SoundStep(a)
  <1>1. tx[a].at = "row" /\ Goto(a, "remove") /\ Write(a) /\ ~Blocked(a) /\ UNCHANGED removed
    BY DEF UpdateItem, At
  <1>2. Moved(a) /\ tx'[a] = [tx[a] EXCEPT !.at = "remove"]
    <2>1. "remove" \in Stages \ {"idle"} /\ UNCHANGED <<db, landed, agent, caller>>
      BY DEF UpdateItem, Stages
    <2> QED BY ONLY <1>1, <2>1, TypeOK, a \in Actors, GotoMoves
  <1>3. Wrote(a)
    BY <1>1, WriteWrote
  <1>4. Touches(a) = {Item(tx[a].item)}
    BY <1>1 DEF Touches, At
  <1>6. tx[a] \in Transaction
    BY DEF TypeOK
  <1>7. /\ tx'[a].at = "remove" /\ tx'[a].item = tx[a].item /\ tx'[a].call = tx[a].call
        /\ tx'[a].todo = tx[a].todo
    BY ONLY <1>2, <1>6 DEF Transaction
  <1>8. tx[a].call.tool = "edit" /\ tx[a].item \in Items
    BY <1>1 DEF StageInv, StageOf, Working
  <1>9. StageOf(a)'
    BY <1>7, <1>8 DEF StageOf, Working
  <1>10. \A k \in Touches(a) : k[1] # "link"
    BY <1>4 DEF Item
  <1>11. /\ \A x : LiveIn(db \cup written[a], x) => LiveIn(db' \cup written'[a], x)
         /\ \A r \in written'[a] : r.key[1] = "link" => LiveIn(db' \cup written'[a], r.key[3])
    BY <1>2, <1>3, <1>10, LinksKept
  <1>12. \A x \in ToSet(Names(tx[a].call)) :
             x \in ToSet(tx[a].todo) \/ LiveIn(db \cup written[a], x)
    BY <1>1 DEF LinksInv, LinksOfSession, Working
  <1>13. LinksOfSession(a)'
    BY <1>7, <1>11, <1>12 DEF LinksOfSession, Working
  <1> QED BY <1>2, <1>3, <1>9, <1>13 DEF SoundStep

LEMMA FindLinksStep ==
    ASSUME TypeOK, SessionInv, StageInv, LinksInv, NEW a \in Actors, FindLinks(a)
    PROVE  SoundStep(a)
  <1> DEFINE new == [tx[a] EXCEPT !.at = "delete", !.snapshot = Doomed(a)]
  <1>1. tx[a].at = "remove"
    BY DEF FindLinks, At
  <1>2. tx \in [Actors -> Transaction] /\ tx[a] \in Transaction
    BY DEF TypeOK
  <1>3. tx' = [tx EXCEPT ![a] = new]
    BY <1>2 DEF FindLinks, Transaction
  <1>4. Doomed(a) \subseteq Rows
    BY VisibleTyped
  <1>5. new \in Transaction
    BY ONLY <1>2, <1>4 DEF Transaction, Stages
  <1>6. tx' \in [Actors -> Transaction] /\ tx'[a] = new /\ \A b \in Actors \ {a} : tx'[b] = tx[b]
    BY ONLY <1>2, <1>3, <1>5
  <1>7. /\ tx'[a].at = "delete" /\ tx'[a].item = tx[a].item /\ tx'[a].call = tx[a].call
        /\ tx'[a].todo = tx[a].todo /\ tx'[a].by = tx[a].by
    BY ONLY <1>2, <1>6 DEF Transaction
  <1>8. Moved(a) /\ Kept(a) /\ written' = written /\ db' = db
    BY <1>1, <1>6, <1>7 DEF Moved, Kept, FindLinks, store
  <1>9. tx[a].call.tool \in {"edit", "tag"} /\ tx[a].item \in Items
    BY <1>1 DEF StageInv, StageOf, Working
  <1>10. StageOf(a)'
    BY <1>7, <1>9 DEF StageOf, Working
  <1>11. LinksOfSession(a)'
    BY <1>1, <1>7, <1>8 DEF LinksInv, LinksOfSession, Working
  <1> QED BY <1>8, <1>10, <1>11 DEF SoundStep

LEMMA RemoveLinksStep ==
    ASSUME TypeOK, SessionInv, StageInv, LinksInv, NEW a \in Actors, RemoveLinks(a)
    PROVE  SoundStep(a)
  <1> DEFINE left == IF tx[a].call.tool = "edit" THEN {} ELSE LinksOf(a) \ Gone(a)
             linked == {k[3] : k \in left}
             new == [tx[a] EXCEPT !.at = "names", !.snapshot = {}, !.linked = linked]
  <1>1. tx[a].at = "delete" /\ ~Blocked(a)
    BY DEF RemoveLinks, At
  <1>2. tx \in [Actors -> Transaction] /\ tx[a] \in Transaction
    BY DEF TypeOK
  <1>3. tx' = [tx EXCEPT ![a] = new]
    BY <1>2 DEF RemoveLinks, Transaction
  <1>4. linked \subseteq TagNames
    <2>1. left \subseteq Links
      BY VisibleTyped
    <2> QED BY ONLY <2>1 DEF Links
  <1> HIDE DEF linked, left
  <1>5. new \in Transaction
    BY ONLY <1>2, <1>4 DEF Transaction, Stages
  <1>6. tx' \in [Actors -> Transaction] /\ tx'[a] = new /\ \A b \in Actors \ {a} : tx'[b] = tx[b]
    BY ONLY <1>2, <1>3, <1>5
  <1>7. /\ tx'[a].at = "names" /\ tx'[a].item = tx[a].item /\ tx'[a].call = tx[a].call
        /\ tx'[a].todo = tx[a].todo /\ tx'[a].by = tx[a].by
    BY ONLY <1>2, <1>6 DEF Transaction
  <1>8. Moved(a) /\ written' = written /\ db' = db
    BY <1>1, <1>6, <1>7 DEF Moved, RemoveLinks
  <1>9. Cut(a)
    <2>1. removed' = [removed EXCEPT ![a] = removed[a] \cup Gone(a)]
      BY DEF RemoveLinks
    <2>2. Gone(a) \subseteq Links
      BY VisibleTyped
    <2>3. removed \in [Actors -> SUBSET Links]
      BY DEF TypeOK
    <2>4. removed' \in [Actors -> SUBSET Links]
      BY ONLY <2>1, <2>2, <2>3
    <2>5. Touches(a) = Gone(a)
      BY <1>1 DEF Touches, At
    <2>6. \A b \in Actors \ {a} : Touches(a) \cap Held(b) = {}
      BY <1>1 DEF Blocked, WaitsFor
    <2> QED BY <1>8, <2>1, <2>4, <2>5, <2>6 DEF Cut
  <1>10. tx[a].call.tool \in {"edit", "tag"} /\ tx[a].item \in Items
    BY <1>1 DEF StageInv, StageOf, Working
  <1>11. StageOf(a)'
    BY <1>7, <1>10 DEF StageOf, Working
  <1>12. LinksOfSession(a)'
    BY <1>1, <1>7, <1>8 DEF LinksInv, LinksOfSession, Working
  <1> QED BY <1>8, <1>9, <1>11, <1>12 DEF SoundStep

\* Taking the first of the names still to look up.
LEMMA NextName ==
    ASSUME NEW s \in Seq(TagNames), s # << >>
    PROVE  /\ Tail(s) \in Seq(TagNames) /\ Head(s) \in TagNames
           /\ \A x \in ToSet(s) : x = Head(s) \/ x \in ToSet(Tail(s))
  <1>1. Tail(s) \in Seq(TagNames) /\ Head(s) \in TagNames /\ Head(s) = s[1]
        /\ Len(Tail(s)) = Len(s) - 1 /\ \A i \in 1..(Len(s) - 1) : Tail(s)[i] = s[i + 1]
    OBVIOUS
  <1>2. ASSUME NEW i \in DOMAIN s, i # 1
        PROVE  s[i] \in ToSet(Tail(s))
    <2>1. i - 1 \in DOMAIN Tail(s) /\ i - 1 \in 1..(Len(s) - 1) /\ (i - 1) + 1 = i
      BY <1>1, <1>2
    <2>2. Tail(s)[i - 1] = s[i]
      BY <1>1, <2>1
    <2> QED BY <2>1, <2>2 DEF ToSet
  <1> QED BY <1>1, <1>2 DEF ToSet

LEMMA LookUpTagStep ==
    ASSUME TypeOK, SessionInv, StageInv, LinksInv, NEW a \in Actors, LookUpTag(a)
    PROVE  SoundStep(a)
  <1> DEFINE found == {r \in Visible(a) : r.key = Tag(Head(tx[a].todo))}
             next == IF found = {} THEN "new_tag"
                     ELSE IF \E r \in found : r.by = Deleted THEN "old_tag" ELSE "names"
             todo == IF next = "names" THEN Tail(tx[a].todo) ELSE tx[a].todo
             new == [tx[a] EXCEPT !.at = next, !.todo = todo]
  <1>1. tx[a].at = "names" /\ tx[a].todo # << >>
    BY DEF LookUpTag, At
  <1>2. tx \in [Actors -> Transaction] /\ tx[a] \in Transaction
    BY DEF TypeOK
  <1>3. tx[a].todo \in Seq(TagNames)
    BY <1>2 DEF Transaction
  <1>4. tx' = [tx EXCEPT ![a] = new]
    BY <1>2 DEF LookUpTag, Transaction
  <1>5. next \in {"names", "new_tag", "old_tag"} /\ todo \in Seq(TagNames)
    BY <1>1, <1>3, NextName
  <1>6. next = "names" => todo = Tail(tx[a].todo)
    OBVIOUS
  <1>7. next # "names" => todo = tx[a].todo
    OBVIOUS
  <1>8. next = "names" => LiveIn(db \cup written[a], Head(tx[a].todo))
    BY VisibleTyped DEF LiveIn
  <1> HIDE DEF next, todo
  <1>9. new \in Transaction
    BY ONLY <1>2, <1>5 DEF Transaction, Stages
  <1>10. tx' \in [Actors -> Transaction] /\ tx'[a] = new /\ \A b \in Actors \ {a} : tx'[b] = tx[b]
    BY ONLY <1>2, <1>4, <1>9
  <1>11. /\ tx'[a].at = next /\ tx'[a].item = tx[a].item /\ tx'[a].call = tx[a].call
         /\ tx'[a].todo = todo /\ tx'[a].by = tx[a].by
    BY ONLY <1>2, <1>10 DEF Transaction
  <1>12. Moved(a) /\ Kept(a) /\ written' = written /\ db' = db
    BY <1>1, <1>5, <1>10, <1>11 DEF Moved, Kept, LookUpTag, store
  <1>13. /\ tx[a].call.tool \in {"draft", "edit", "tag"} /\ tx[a].item \in Items
         /\ tx[a].call.tool = "draft" => written[a] # {}
    BY <1>1 DEF StageInv, StageOf, Working
  <1>14. StageOf(a)'
    BY <1>1, <1>5, <1>7, <1>11, <1>12, <1>13 DEF StageOf, Working
  <1>15. \A x \in ToSet(Names(tx[a].call)) :
             x \in ToSet(tx[a].todo) \/ LiveIn(db \cup written[a], x)
    BY <1>1 DEF LinksInv, LinksOfSession, Working
  <1>16. \A x \in ToSet(Names(tx[a].call)) : x \in ToSet(todo) \/ LiveIn(db \cup written[a], x)
    BY <1>1, <1>3, <1>6, <1>7, <1>8, <1>15, NextName
  <1>17. \A r \in written[a] : r.key[1] = "link" => LiveIn(db \cup written[a], r.key[3])
    BY DEF LinksInv, LinksOfSession, Working
  <1>18. LinksOfSession(a)'
    BY ONLY <1>5, <1>11, <1>12, <1>16, <1>17 DEF LinksOfSession, Working
  <1> QED BY <1>12, <1>14, <1>18 DEF SoundStep

LEMMA FlushTagStep ==
    ASSUME TypeOK, SessionInv, StageInv, LinksInv, NEW a \in Actors, FlushTag(a)
    PROVE  SoundStep(a)
  <1> DEFINE todo == Tail(tx[a].todo)
             new == [tx[a] EXCEPT !.at = "names", !.todo = todo]
  <1>1. tx[a].at \in {"new_tag", "old_tag"} /\ Write(a) /\ ~Blocked(a) /\ UNCHANGED removed
    BY DEF FlushTag
  <1>2. tx \in [Actors -> Transaction] /\ tx[a] \in Transaction
    BY DEF TypeOK
  <1>3. tx[a].todo \in Seq(TagNames) /\ tx[a].todo # << >>
    BY <1>1, <1>2 DEF Transaction, StageInv, StageOf, Working
  <1>4. tx' = [tx EXCEPT ![a] = new]
    BY <1>2 DEF FlushTag, Transaction
  <1>5. todo \in Seq(TagNames)
    BY <1>3, NextName
  <1> HIDE DEF todo
  <1>9. new \in Transaction
    BY ONLY <1>2, <1>5 DEF Transaction, Stages
  <1>10. tx' \in [Actors -> Transaction] /\ tx'[a] = new /\ \A b \in Actors \ {a} : tx'[b] = tx[b]
    BY ONLY <1>2, <1>4, <1>9
  <1>11. /\ tx'[a].at = "names" /\ tx'[a].item = tx[a].item /\ tx'[a].call = tx[a].call
         /\ tx'[a].todo = todo /\ tx'[a].by = tx[a].by
    BY ONLY <1>2, <1>10 DEF Transaction
  <1>12. Moved(a) /\ db' = db
    BY <1>1, <1>10, <1>11 DEF Moved, FlushTag
  <1>13. Wrote(a)
    BY <1>1, WriteWrote
  <1>14. Touches(a) = {Tag(Head(tx[a].todo))}
    BY <1>1 DEF Touches, At
  <1>15. \A k \in Touches(a) : k[1] # "link"
    BY <1>14 DEF Tag
  <1>16. written'[a] # {} /\ LiveIn(db \cup written'[a], Head(tx[a].todo))
    <2>1. /\ written[a] # {} \/ Touches(a) # {} => written'[a] # {}
          /\ \A k \in Touches(a) : \E r \in written'[a] : r.key = k /\ r.by # Deleted
      BY <1>1, <1>13, WriteMoves
    <2>2. \E r \in written'[a] : r.key = Tag(Head(tx[a].todo)) /\ r.by # Deleted
      BY ONLY <1>14, <2>1
    <2> QED BY ONLY <2>1, <2>2, <1>14 DEF LiveIn
  <1>17. /\ tx[a].call.tool \in {"draft", "edit", "tag"} /\ tx[a].item \in Items
    BY <1>1 DEF StageInv, StageOf, Working
  <1>18. StageOf(a)'
    BY <1>11, <1>16, <1>17 DEF StageOf, Working
  <1>19. /\ \A x : LiveIn(db \cup written[a], x) => LiveIn(db' \cup written'[a], x)
         /\ \A r \in written'[a] : r.key[1] = "link" => LiveIn(db' \cup written'[a], r.key[3])
    BY <1>12, <1>13, <1>15, LinksKept
  <1>20. \A x \in ToSet(Names(tx[a].call)) :
             x \in ToSet(tx[a].todo) \/ LiveIn(db \cup written[a], x)
    BY <1>1 DEF LinksInv, LinksOfSession, Working
  <1>21. \A x \in ToSet(Names(tx[a].call)) : x \in ToSet(todo) \/ LiveIn(db' \cup written'[a], x)
    BY <1>3, <1>12, <1>16, <1>19, <1>20, NextName DEF todo
  <1>22. LinksOfSession(a)'
    BY ONLY <1>11, <1>19, <1>21 DEF LinksOfSession, Working
  <1> QED BY <1>12, <1>13, <1>18, <1>22 DEF SoundStep

LEMMA NamesDoneStep ==
    ASSUME TypeOK, SessionInv, StageInv, LinksInv, NEW a \in Actors, NamesDone(a)
    PROVE  SoundStep(a)
  <1>1. tx[a].at = "names" /\ tx[a].todo = << >> /\ Goto(a, "links")
    BY DEF NamesDone, At
  <1>2. Moved(a) /\ tx'[a] = [tx[a] EXCEPT !.at = "links"]
    <2>1. "links" \in Stages \ {"idle"} /\ UNCHANGED <<db, landed, agent, caller>>
      BY DEF NamesDone, Stages, store
    <2> QED BY ONLY <1>1, <2>1, TypeOK, a \in Actors, GotoMoves
  <1>3. Kept(a) /\ written' = written /\ db' = db
    BY DEF NamesDone, store, Kept
  <1>4. tx[a] \in Transaction
    BY DEF TypeOK
  <1>5. /\ tx'[a].at = "links" /\ tx'[a].item = tx[a].item /\ tx'[a].call = tx[a].call
        /\ tx'[a].todo = tx[a].todo
    BY ONLY <1>2, <1>4 DEF Transaction
  <1>6. /\ tx[a].call.tool \in {"draft", "edit", "tag"} /\ tx[a].item \in Items
        /\ tx[a].call.tool = "draft" => written[a] # {}
    BY <1>1 DEF StageInv, StageOf, Working
  <1>7. StageOf(a)'
    BY <1>3, <1>5, <1>6 DEF StageOf, Working
  <1>8. LinksOfSession(a)'
    BY <1>1, <1>3, <1>5 DEF LinksInv, LinksOfSession, Working
  <1> QED BY <1>2, <1>3, <1>7, <1>8 DEF SoundStep

LEMMA InsertLinksStep ==
    ASSUME TypeOK, SessionInv, StageInv, LinksInv, NEW a \in Actors, InsertLinks(a)
    PROVE  SoundStep(a)
  <1> DEFINE next == IF tx[a].call.tool = "edit" /\ tx[a].item \in Published
                     THEN "embed" ELSE "returned"
             links == {Link(tx[a].item, x) : x \in ToSet(Names(tx[a].call)) \ tx[a].linked}
  <1>1. tx[a].at = "links" /\ Goto(a, next) /\ Write(a) /\ ~Blocked(a) /\ UNCHANGED removed
    BY DEF InsertLinks, At
  <1>2. next \in {"embed", "returned"} /\ (next = "embed" => tx[a].call.tool = "edit")
    OBVIOUS
  <1> HIDE DEF next
  <1>3. Moved(a) /\ tx'[a] = [tx[a] EXCEPT !.at = next]
    <2>1. next \in Stages \ {"idle"} /\ UNCHANGED <<db, landed, agent, caller>>
      BY <1>2 DEF InsertLinks, Stages
    <2> QED BY ONLY <1>1, <2>1, TypeOK, a \in Actors, GotoMoves
  <1>4. Wrote(a)
    BY <1>1, WriteWrote
  <1>5. tx[a] \in Transaction
    BY DEF TypeOK
  <1>6. tx'[a].at = next /\ tx'[a].call = tx[a].call
    BY ONLY <1>3, <1>5 DEF Transaction
  <1>7. Touches(a) = links \cup (IF tx[a].call.tool = "draft" THEN {} ELSE {Item(tx[a].item)})
    BY <1>1 DEF Touches, At
  <1>8. written'[a] # {}
    <2>1. tx[a].call.tool = "draft" => written[a] # {}
      BY <1>1 DEF StageInv, StageOf, Working
    <2>2. tx[a].call.tool # "draft" => Touches(a) # {}
      BY <1>7
    <2> QED BY <1>1, <1>4, <2>1, <2>2, WriteMoves
  <1>9. StageOf(a)'
    BY <1>2, <1>6, <1>8 DEF StageOf, Working
  <1>10. \A x \in ToSet(Names(tx[a].call)) : LiveIn(db \cup written[a], x)
    <2>1. tx[a].todo = << >> /\ \A x \in ToSet(Names(tx[a].call)) :
              x \in ToSet(tx[a].todo) \/ LiveIn(db \cup written[a], x)
      BY <1>1 DEF LinksInv, LinksOfSession, Working
    <2>2. ToSet(<< >>) = {}
      BY DEF ToSet
    <2> QED BY ONLY <2>1, <2>2
  <1>11. \A k \in Touches(a) : k[1] = "link" => LiveIn(db \cup written[a], k[3])
    <2>1. \A k \in links : LiveIn(db \cup written[a], k[3])
      BY <1>10 DEF Link
    <2>2. Item(tx[a].item)[1] # "link"
      BY DEF Item
    <2> QED BY ONLY <1>7, <2>1, <2>2
  <1>12. \A r \in written'[a] : r.key[1] = "link" => LiveIn(db' \cup written'[a], r.key[3])
    BY <1>3, <1>4, <1>11, LinksKept
  <1>13. LinksOfSession(a)'
    BY ONLY <1>2, <1>6, <1>12 DEF LinksOfSession, Working
  <1> QED BY <1>3, <1>4, <1>9, <1>13 DEF SoundStep

\* A call that has come to its end, or to an error, keeps what it wrote until
\* its transaction ends.
LEMMA OutcomeStep ==
    ASSUME TypeOK, SessionInv, StageInv, LinksInv, NEW a \in Actors, tx[a].at # "idle",
           NEW next \in {"returned", "failed", "raised"}, Goto(a, next),
           next = "returned" => tx[a].at = "embed",
           UNCHANGED <<store, agent, caller>>
    PROVE  SoundStep(a)
  <1>1. Moved(a) /\ tx'[a] = [tx[a] EXCEPT !.at = next]
    <2>1. next \in Stages \ {"idle"} /\ UNCHANGED <<db, landed, agent, caller>>
      BY DEF Stages, store
    <2> QED BY <2>1, GotoMoves
  <1>2. Kept(a) /\ written' = written /\ db' = db
    BY DEF store, Kept
  <1>3. tx[a] \in Transaction
    BY DEF TypeOK
  <1>4. tx'[a].at = next /\ tx'[a].call = tx[a].call
    BY ONLY <1>1, <1>3 DEF Transaction
  <1>5. next = "returned" => written[a] # {}
    BY DEF StageInv, StageOf, Working
  <1>6. StageOf(a)'
    BY <1>2, <1>4, <1>5 DEF StageOf, Working
  <1>7. LinksOfSession(a)'
    BY <1>2, <1>4 DEF LinksInv, LinksOfSession, Working
  <1> QED BY <1>1, <1>2, <1>6, <1>7 DEF SoundStep

LEMMA ToolStepIsSound ==
    ASSUME TypeOK, SessionInv, StageInv, LinksInv, NEW a \in Actors, ToolStep(a)
    PROVE  SoundStep(a)
  <1>1. CASE RebuildChunks(a)
    <2>1. PICK next \in {"returned", "failed"} : Goto(a, next)
      BY <1>1 DEF RebuildChunks
    <2>2. tx[a].at = "embed" /\ UNCHANGED <<store, agent, caller>>
      BY <1>1 DEF RebuildChunks, At
    <2> QED BY <2>1, <2>2, OutcomeStep
  <1>2. CASE DatabaseError(a)
    <2>1. tx[a].at # "idle"
      <3>1. Collision(a) \/ Touches(a) # {}
        BY <1>2 DEF DatabaseError, WaitsFor
      <3> QED BY <3>1 DEF Collision, Touches, At
    <2>2. Goto(a, "raised") /\ UNCHANGED <<store, agent, caller>>
      BY <1>2 DEF DatabaseError
    <2> QED BY <2>1, <2>2, OutcomeStep
  <1> QED BY <1>1, <1>2, GenerateSlugStep, InsertDraftStep, UpdateItemStep, FindLinksStep,
             RemoveLinksStep, LookUpTagStep, FlushTagStep, NamesDoneStep, InsertLinksStep DEF ToolStep

-----------------------------------------------------------------------------
(***************************************************************************)
(* A step of one session leaves the others as they are; what it commits    *)
(* takes no tag from them.                                                 *)
(***************************************************************************)
Others(a) ==
    \A b \in Actors \ {a} :
        /\ tx'[b] = tx[b] /\ written'[b] = written[b] /\ removed'[b] = removed[b]
        /\ b \in Agents => agent'[b] = agent[b]
        /\ b \in Callers => caller'[b] = caller[b]

LEMMA TagsStay ==
    ASSUME TypeOK, SessionInv, NEW a \in Actors, db' = db \/ Commit(a)
    PROVE  /\ \A x : LiveIn(db, x) => LiveIn(db', x)
           /\ Commit(a) => \A x : LiveIn(db \cup written[a], x) => LiveIn(db', x)
  <1>1. CASE ~Commit(a)
    BY <1>1
  <1>2. CASE Commit(a)
    <2> SUFFICES ASSUME NEW x, NEW t \in db \cup written[a], t.key = Tag(x), t.by # Deleted
                 PROVE  LiveIn(db', x)
      BY <1>2 DEF LiveIn
    <2>1. db' = {r \in db : r.key \notin Held(a)} \cup written[a]
      BY <1>2 DEF Commit
    <2>2. \A r \in written[a] : r.by # Deleted
      <3>1. written[a] # {} => Number(a) > 0
        BY DEF SessionInv, SessionOf
      <3> QED BY <3>1, NumberIsNat DEF SessionInv, SessionOf, Deleted
    <2>3. CASE t \in db'
      BY <2>3 DEF LiveIn
    <2>4. CASE t \notin db'
      <3>1. t.key \in Held(a)
        BY <2>1, <2>4
      <3>2. t.key \notin removed[a]
        <4>1. removed[a] \subseteq Links
          BY DEF TypeOK
        <4> QED BY <4>1 DEF Links, Tag
      <3>3. PICK r \in written[a] : r.key = Tag(x)
        BY <3>1, <3>2 DEF Held, Keys
      <3> QED BY <2>1, <2>2, <3>3 DEF LiveIn
    <2> QED BY <2>3, <2>4
  <1> QED BY <1>1, <1>2

LEMMA OthersKeep ==
    ASSUME TypeOK, SessionInv, CapInv, StageInv, LinksInv, TalkInv,
           NEW a \in Actors, Others(a), db' = db \/ Commit(a), NEW b \in Actors \ {a}
    PROVE  /\ SessionOf(b)' /\ StageOf(b)' /\ LinksOfSession(b)'
           /\ b \in Agents => CapOf(b)' /\ TalkOf(agent'[b])
  <1>1. /\ tx'[b] = tx[b] /\ written'[b] = written[b] /\ removed'[b] = removed[b]
        /\ b \in Agents => agent'[b] = agent[b]
        /\ b \in Callers => caller'[b] = caller[b]
    BY DEF Others
  <1>2. Number(b)' = Number(b) /\ Escaped(b)' = Escaped(b) /\ Held(b)' = Held(b)
    BY <1>1 DEF Number, Escaped, Held, Actors
  <1>3. SessionOf(b) /\ StageOf(b) /\ LinksOfSession(b) /\ (b \in Agents => CapOf(b) /\ TalkOf(agent[b]))
    BY DEF SessionInv, CapInv, StageInv, LinksInv, TalkInv
  <1>4. SessionOf(b)'
    BY <1>1, <1>2, <1>3 DEF SessionOf
  <1>5. StageOf(b)'
    BY <1>1, <1>3 DEF StageOf, Working
  <1>6. b \in Agents => CapOf(b)' /\ TalkOf(agent'[b])
    BY <1>1, <1>3 DEF CapOf
  <1>7. \A x : LiveIn(db \cup written[b], x) => LiveIn(db' \cup written'[b], x)
    <2>1. \A x : LiveIn(db, x) => LiveIn(db', x)
      BY TagsStay
    <2> QED BY <1>1, <2>1 DEF LiveIn
  <1>8. LinksOfSession(b)'
    BY <1>1, <1>3, <1>7 DEF LinksOfSession, Working
  <1> QED BY <1>4, <1>5, <1>6, <1>8

LEMMA Frame ==
    ASSUME TypeOK, SessionInv, CapInv, StageInv, LinksInv, TalkInv,
           NEW a \in Actors, Others(a), db' = db \/ Commit(a),
           SessionOf(a)', StageOf(a)', LinksOfSession(a)',
           a \in Agents => CapOf(a)' /\ TalkOf(agent'[a])
    PROVE  SessionInv' /\ CapInv' /\ StageInv' /\ TalkInv' /\ \A b \in Actors : LinksOfSession(b)'
  <1>1. \A b \in Actors \ {a} : /\ SessionOf(b)' /\ StageOf(b)' /\ LinksOfSession(b)'
                                /\ b \in Agents => CapOf(b)' /\ TalkOf(agent'[b])
    BY OthersKeep
  <1>2. \A b \in Actors : SessionOf(b)' /\ StageOf(b)' /\ LinksOfSession(b)'
    BY <1>1
  <1>3. \A b \in Agents : CapOf(b)' /\ TalkOf(agent'[b])
    BY <1>1 DEF Actors
  <1>4. SessionInv' /\ StageInv'
    BY <1>2 DEF SessionInv, StageInv
  <1>5. CapInv' /\ TalkInv'
    BY <1>3 DEF CapInv, TalkInv
  <1> QED BY <1>2, <1>4, <1>5

\* What only the statements of tools and the ends of transactions touch.
LEMMA StoreKeeps ==
    ASSUME KeysInv, LinksInv, UNCHANGED store
    PROVE  KeysInv' /\ LinksReachTags'
  BY DEF KeysInv, OneEach, Held, LinksInv, LinksReachTags, store

LEMMA ToolStepKeeps ==
    ASSUME TypeOK, ToolInv, NEW a \in Actors, ToolStep(a)
    PROVE  TypeOK' /\ ToolInv'
  <1>1. SoundStep(a)
    BY ToolStepIsSound DEF ToolInv
  <1>2. Moved(a) /\ StageOf(a)' /\ LinksOfSession(a)' /\ (Kept(a) \/ Wrote(a) \/ Cut(a))
    BY <1>1 DEF SoundStep
  <1>3. /\ tx[a].at # "idle" /\ tx'[a].at # "idle" /\ tx'[a].call = tx[a].call
        /\ tx'[a].by = tx[a].by /\ db' = db /\ landed' = landed /\ agent' = agent
        /\ caller' = caller /\ tx' \in [Actors -> Transaction]
        /\ \A b \in Actors \ {a} : tx'[b] = tx[b]
    BY <1>2 DEF Moved
  <1>4. /\ written' \in [Actors -> SUBSET Rows] /\ removed' \in [Actors -> SUBSET Links]
        /\ \A b \in Actors : IsFiniteSet(written'[b])
        /\ \A b \in Actors \ {a} : written'[b] = written[b] /\ removed'[b] = removed[b]
    <2>1. CASE Kept(a)
      BY <2>1 DEF Kept, TypeOK
    <2>2. CASE Wrote(a)
      BY <2>2 DEF Wrote, TypeOK
    <2>3. CASE Cut(a)
      BY <2>3 DEF Cut, TypeOK
    <2> QED BY <1>2, <2>1, <2>2, <2>3
  <1>5. TypeOK'
    BY <1>3, <1>4 DEF TypeOK
  <1>6. Others(a)
    BY <1>3, <1>4 DEF Others
  <1>7. \A r \in written'[a] : r.by = <<a, Number(a)>>
    <2>1. \A r \in written[a] : r.by = <<a, Number(a)>>
      BY DEF ToolInv, SessionInv, SessionOf
    <2>2. tx[a].by = <<a, Number(a)>>
      BY <1>3, BySession DEF ToolInv
    <2>3. CASE written' = written
      BY <2>1, <2>3
    <2>4. CASE Wrote(a)
      <3>1. \A r \in written'[a] : r \in written[a] \/ r.by = tx[a].by
        BY <1>3, <2>4, WriteMoves DEF ToolInv
      <3> QED BY <2>1, <2>2, <3>1
    <2> QED BY <1>2, <2>3, <2>4 DEF Kept, Cut
  <1>8. SessionOf(a)'
    <2>1. SessionOf(a)
      BY DEF ToolInv, SessionInv
    <2>2. Number(a)' = Number(a)
      BY <1>3 DEF Number
    <2> QED BY <1>3, <1>7, <2>1, <2>2 DEF SessionOf
  <1>9. a \in Agents => CapOf(a)' /\ TalkOf(agent'[a])
    BY <1>3 DEF ToolInv, CapInv, CapOf, TalkInv
  <1>10. SessionInv' /\ CapInv' /\ StageInv' /\ TalkInv' /\ \A b \in Actors : LinksOfSession(b)'
    BY <1>2, <1>3, <1>6, <1>8, <1>9, Frame DEF ToolInv
  <1>11. LinksInv'
    <2>1. LinksReachTags
      BY DEF ToolInv, LinksInv
    <2> QED BY <1>3, <1>10, <2>1 DEF LinksReachTags, LinksInv
  <1>12. ResultsAreCommitted'
    BY <1>3 DEF ToolInv, ResultsAreCommitted
  <1>13. KeysInv'
    <2>1. KeysInv
      BY DEF ToolInv
    <2>2. CASE Kept(a)
      BY <1>3, <2>1, <2>2 DEF Kept, KeysInv, OneEach, Held
    <2>3. CASE Wrote(a)
      <3>1. OneEach(written'[a])
        <4>1. /\ written'[a] = {r \in written[a] : r.key \notin Touches(a)}
                                   \cup {Row(k, tx[a].by) : k \in Touches(a)}
              /\ OneEach(written[a])
          BY <2>1, <2>3 DEF Wrote, KeysInv
        <4> QED BY ONLY <4>1 DEF OneEach, Row
      <3>2. Held(a)' \subseteq Held(a) \cup Touches(a)
        <4>1. /\ written'[a] = {r \in written[a] : r.key \notin Touches(a)}
                                   \cup {Row(k, tx[a].by) : k \in Touches(a)}
              /\ removed'[a] = removed[a]
          BY <2>3 DEF Wrote
        <4> QED BY ONLY <4>1 DEF Held, Keys, Row
      <3>3. \A b \in Actors \ {a} : Held(b)' = Held(b) /\ Touches(a) \cap Held(b) = {}
        BY <1>4, <2>3 DEF Held, Wrote
      <3>4. \A b \in Actors \ {a} : OneEach(written'[b])
        BY <1>4, <2>1 DEF KeysInv
      <3>5. \A b \in Actors \ {a} : Held(a)' \cap Held(b)' = {}
        BY <2>1, <3>2, <3>3 DEF KeysInv
      <3>6. \A b, c \in Actors : b # c => Held(b)' \cap Held(c)' = {}
        <4> SUFFICES ASSUME NEW b \in Actors, NEW c \in Actors, b # c
                     PROVE  Held(b)' \cap Held(c)' = {}
          OBVIOUS
        <4>1. CASE b = a
          BY <3>5, <4>1
        <4>2. CASE c = a
          BY <3>5, <4>2
        <4>3. CASE b # a /\ c # a
          BY <2>1, <3>3, <4>3 DEF KeysInv
        <4> QED BY <4>1, <4>2, <4>3
      <3> QED BY <1>3, <2>1, <3>1, <3>4, <3>6 DEF KeysInv
    <2>4. CASE Cut(a)
      <3>1. Held(a)' \subseteq Held(a) \cup Touches(a)
        <4>1. removed \in [Actors -> SUBSET Links]
          BY DEF TypeOK
        <4> QED BY <2>4, <4>1 DEF Held, Cut
      <3>3. \A b \in Actors \ {a} : Held(b)' = Held(b) /\ Touches(a) \cap Held(b) = {}
        BY <1>4, <2>4 DEF Held, Cut
      <3>5. \A b \in Actors \ {a} : Held(a)' \cap Held(b)' = {}
        BY <2>1, <3>1, <3>3 DEF KeysInv
      <3>6. \A b, c \in Actors : b # c => Held(b)' \cap Held(c)' = {}
        <4> SUFFICES ASSUME NEW b \in Actors, NEW c \in Actors, b # c
                     PROVE  Held(b)' \cap Held(c)' = {}
          OBVIOUS
        <4>1. CASE b = a
          BY <3>5, <4>1
        <4>2. CASE c = a
          BY <3>5, <4>2
        <4>3. CASE b # a /\ c # a
          BY <2>1, <3>3, <4>3 DEF KeysInv
        <4> QED BY <4>1, <4>2, <4>3
      <3> QED BY <1>3, <2>1, <2>4, <3>6 DEF KeysInv, Cut
    <2> QED BY <1>2, <2>2, <2>3, <2>4
  <1> QED BY <1>5, <1>10, <1>11, <1>12, <1>13 DEF ToolInv

-----------------------------------------------------------------------------
(***************************************************************************)
(* The exchange: what is added to its conversation.                        *)
(***************************************************************************)
Talk == Seq({"call", "answer", "text"} \X Nat)

LEMMA TalkSame ==
    ASSUME NEW h, NEW g, TalkOf(h), g.conversation = h.conversation,
           \/ g.pc \in {"ended", "escaped"}
           \/ h.pc = "announced" /\ g.pc = "tool" /\ g.calls = h.calls
    PROVE  TalkOf(g)
  BY DEF TalkOf

LEMMA TalkAsked ==
    ASSUME NEW h, NEW g, NEW kind \in {"call", "text"}, NEW n \in Nat, TalkOf(h),
           h.pc = "ask", h.conversation \in Talk,
           g.conversation = Append(h.conversation, <<kind, n>>),
           \/ kind = "call" /\ g.pc = "announced" /\ g.calls = n
           \/ kind = "text" /\ g.pc = "ask"
    PROVE  TalkOf(g) /\ g.conversation \in Talk
  <1> DEFINE old == h.conversation
             new == g.conversation
  <1>1. /\ Len(new) = Len(old) + 1 /\ Len(old) \in Nat /\ new \in Talk
        /\ new[Len(old) + 1] = <<kind, n>> /\ \A i \in 1..Len(old) : new[i] = old[i]
    BY DEF Talk
  <1>2. /\ \A i \in 1..Len(old) : old[i][1] = "call" /\ i < Len(old) =>
              old[i + 1] = <<"answer", old[i][2]>>
        /\ old # << >> => old[Len(old)][1] # "call"
    BY DEF TalkOf
  <1>3. ASSUME NEW i \in 1..Len(new), new[i][1] = "call", i < Len(new)
        PROVE  new[i + 1] = <<"answer", new[i][2]>>
    <2>1. i \in 1..Len(old) /\ new[i] = old[i]
      BY <1>1, <1>3
    <2>2. i # Len(old)
      BY <1>2, <1>3, <2>1
    <2>3. i < Len(old) /\ i + 1 \in 1..Len(old)
      BY <1>1, <2>1, <2>2
    <2> QED BY <1>1, <1>2, <1>3, <2>1, <2>3
  <1>4. new # << >> /\ new[Len(new)] = <<kind, n>>
    <2>1. Len(new) # 0 /\ new[Len(new)] = <<kind, n>>
      <3> HIDE DEF old, new
      <3> QED BY ONLY <1>1
    <2>2. new # << >>
      <3> HIDE DEF new
      <3> QED BY ONLY <2>1
    <2> QED BY <2>1, <2>2
  <1>5. <<kind, n>>[1] = kind
    OBVIOUS
  <1> QED BY <1>1, <1>3, <1>4, <1>5 DEF TalkOf

LEMMA TalkAnswered ==
    ASSUME NEW h, NEW g, TalkOf(h), h.pc = "tool", h.conversation \in Talk, h.calls \in Nat,
           g.conversation = Append(h.conversation, <<"answer", h.calls>>),
           g.pc \in {"ask", "ended"}
    PROVE  TalkOf(g) /\ g.conversation \in Talk
  <1> DEFINE old == h.conversation
             new == g.conversation
  <1>1. /\ Len(new) = Len(old) + 1 /\ Len(old) \in Nat /\ new \in Talk
        /\ new[Len(old) + 1] = <<"answer", h.calls>> /\ \A i \in 1..Len(old) : new[i] = old[i]
    BY DEF Talk
  <1>2. /\ \A i \in 1..Len(old) : old[i][1] = "call" /\ i < Len(old) =>
              old[i + 1] = <<"answer", old[i][2]>>
        /\ old[Len(old)] = <<"call", h.calls>>
    BY DEF TalkOf
  <1>3. ASSUME NEW i \in 1..Len(new), new[i][1] = "call", i < Len(new)
        PROVE  new[i + 1] = <<"answer", new[i][2]>>
    <2>1. i \in 1..Len(old) /\ new[i] = old[i]
      BY <1>1, <1>3
    <2>2. CASE i = Len(old)
      <3>1. new[i][2] = h.calls
        BY <1>2, <2>1, <2>2
      <3> QED BY <1>1, <2>2, <3>1
    <2>3. CASE i # Len(old)
      <3>1. i < Len(old) /\ i + 1 \in 1..Len(old)
        BY <1>1, <2>1, <2>3
      <3> QED BY <1>1, <1>2, <1>3, <2>1, <3>1
    <2> QED BY <2>2, <2>3
  <1>4. new # << >> /\ new[Len(new)][1] # "call"
    <2>1. Len(new) # 0 /\ new[Len(new)] = <<"answer", h.calls>>
      <3> HIDE DEF old, new
      <3> QED BY ONLY <1>1
    <2>2. new # << >>
      <3> HIDE DEF new
      <3> QED BY ONLY <2>1
    <2>3. <<"answer", h.calls>>[1] = "answer"
      OBVIOUS
    <2> QED BY <2>1, <2>2, <2>3
  <1> QED BY <1>1, <1>3, <1>4 DEF TalkOf

\* A step of an exchange between two calls.
LEMMA AskStep ==
    ASSUME TypeOK, ToolInv, NEW a \in Agents, agent[a].pc = "ask",
           NEW g \in Exchange, agent' = [agent EXCEPT ![a] = g],
           NEW t \in Transaction, tx' = [tx EXCEPT ![a] = t], UNCHANGED <<store, caller>>,
           t.at = "idle", t.by = Before, g.pc # "tool",
           g.events = agent[a].events, TalkOf(g),
           g.pc = "ask" => g.calls < MaxToolCalls,
           g.pc = "announced" => g.calls > 0 /\ t.call \in Call
    PROVE  TypeOK' /\ ToolInv'
  <1>1. a \in Actors /\ a \notin Callers
    BY ActorsAssumption DEF Actors
  <1>2. agent \in [Agents -> Exchange] /\ tx \in [Actors -> Transaction]
    BY DEF TypeOK
  <1>3. /\ agent' \in [Agents -> Exchange] /\ agent'[a] = g
        /\ \A b \in Agents \ {a} : agent'[b] = agent[b]
    BY ONLY <1>2, g \in Exchange, agent' = [agent EXCEPT ![a] = g]
  <1>4. /\ tx' \in [Actors -> Transaction] /\ tx'[a] = t
        /\ \A b \in Actors \ {a} : tx'[b] = tx[b]
    BY ONLY <1>1, <1>2, t \in Transaction, tx' = [tx EXCEPT ![a] = t]
  <1>5. db' = db /\ written' = written /\ removed' = removed /\ landed' = landed /\ caller' = caller
    BY DEF store
  <1>6. TypeOK'
    BY <1>3, <1>4, <1>5 DEF TypeOK
  <1>7. Others(a)
    BY <1>3, <1>4, <1>5 DEF Others, Actors
  <1>8. Held(a) = {} /\ Held(a)' = {} /\ written'[a] = {}
    <2>1. tx[a].at = "idle"
      BY <1>1 DEF ToolInv, SessionInv, SessionOf
    <2>2. Held(a) = {}
      BY <1>1, <2>1 DEF ToolInv, SessionInv, SessionOf, Escaped
    <2> QED BY <1>5, <2>2 DEF Held, Keys
  <1>9. SessionOf(a)'
    BY <1>3, <1>4, <1>8 DEF SessionOf
  <1>10. StageOf(a)' /\ LinksOfSession(a)'
    BY <1>4, <1>8 DEF StageOf, LinksOfSession, Working
  <1>11. CapOf(a)' /\ TalkOf(agent'[a])
    BY <1>3, <1>4 DEF CapOf
  <1>12. SessionInv' /\ CapInv' /\ StageInv' /\ TalkInv' /\ \A b \in Actors : LinksOfSession(b)'
    BY <1>1, <1>5, <1>7, <1>9, <1>10, <1>11, Frame DEF ToolInv
  <1>13. KeysInv' /\ LinksReachTags'
    BY StoreKeeps DEF ToolInv
  <1>14. ResultsAreCommitted'
    <2>1. \A b \in Agents : agent'[b].events = agent[b].events
      BY <1>3
    <2> QED BY <1>5, <2>1 DEF ToolInv, ResultsAreCommitted
  <1> QED BY <1>6, <1>12, <1>13, <1>14 DEF ToolInv, LinksInv

LEMMA ExchangeOf ==
    ASSUME TypeOK, ToolInv, NEW a \in Agents
    PROVE  /\ agent[a] \in Exchange /\ agent[a].conversation \in Talk /\ agent[a].calls \in Nat
           /\ tx[a] \in Transaction /\ TalkOf(agent[a]) /\ CapOf(a)
           /\ agent[a].pc # "tool" => tx[a].at = "idle" /\ tx[a].by = Before
           /\ tx = [tx EXCEPT ![a] = tx[a]]
  <1>1. a \in Actors /\ agent[a] \in Exchange /\ tx[a] \in Transaction
    BY DEF TypeOK, Actors
  <1>2. agent[a].conversation \in Talk /\ agent[a].calls \in Nat
    <2>1. agent[a].conversation \in Talk
      BY ONLY <1>1 DEF Exchange, Talk
    <2>2. agent[a].calls \in 0..MaxToolCalls
      BY ONLY <1>1 DEF Exchange
    <2> QED BY <2>1, <2>2, CapsAssumption
  <1>3. TalkOf(agent[a]) /\ CapOf(a)
    BY DEF ToolInv, TalkInv, CapInv
  <1>4. agent[a].pc # "tool" => tx[a].at = "idle" /\ tx[a].by = Before
    BY <1>1 DEF ToolInv, SessionInv, SessionOf
  <1>5. tx = [tx EXCEPT ![a] = tx[a]]
    BY DEF TypeOK
  <1> QED BY <1>1, <1>2, <1>3, <1>4, <1>5

LEMMA RestStep ==
    ASSUME TypeOK, ToolInv, NEW a \in Agents, agent[a].pc = "ask",
           NEW g \in Exchange, agent' = [agent EXCEPT ![a] = g], UNCHANGED <<store, tx, caller>>,
           g.pc \in {"ended", "escaped"}, g.events = agent[a].events,
           g.conversation = agent[a].conversation
    PROVE  TypeOK' /\ ToolInv'
  <1>1. /\ tx[a] \in Transaction /\ tx[a].at = "idle" /\ tx[a].by = Before
        /\ TalkOf(agent[a]) /\ tx' = [tx EXCEPT ![a] = tx[a]]
    BY ExchangeOf
  <1>2. TalkOf(g)
    BY <1>1, TalkSame
  <1> QED BY <1>1, <1>2, AskStep

LEMMA Ends ==
    ASSUME NEW g \in Exchange, NEW how \in {"done", "failed", "gone", "limit"}
    PROVE  /\ Ended(g, how) \in Exchange /\ Ended(g, how).pc = "ended"
           /\ Ended(g, how).events = g.events /\ Ended(g, how).conversation = g.conversation
           /\ Ended(g, how).calls = g.calls
  BY DEF Ended, Exchange

LEMMA Steps ==
    ASSUME TypeOK, NEW a \in Agents
    PROVE  /\ Stepped(a) \in Exchange /\ Stepped(a).events = agent[a].events
           /\ Stepped(a).conversation = agent[a].conversation
           /\ Stepped(a).calls = agent[a].calls /\ Stepped(a).pc = agent[a].pc
  <1>1. agent[a] \in Exchange
    BY DEF TypeOK
  <1>2. agent[a].steps + 1 \in Nat
    <2>1. agent[a].steps \in Nat
      BY ONLY <1>1 DEF Exchange
    <2> QED BY ONLY <2>1
  <1>3. Stepped(a) = [agent[a] EXCEPT !.steps = agent[a].steps + 1]
    BY DEF Stepped
  <1> QED BY ONLY <1>1, <1>2, <1>3 DEF Exchange

LEMMA FinishKeeps ==
    ASSUME TypeOK, ToolInv, NEW a \in Agents, Finish(a)
    PROVE  TypeOK' /\ ToolInv'
  <1>1. agent[a].pc = "ask" /\ UNCHANGED <<store, tx, caller>>
    BY DEF Finish
  <1>2. PICK how \in {"done", "limit"} : agent' = [agent EXCEPT ![a] = Ended(Stepped(a), how)]
    <2>1. \A how : Set(a, Ended(Stepped(a), how))
                    <=> agent' = [agent EXCEPT ![a] = Ended(Stepped(a), how)]
      BY DEF Set
    <2>2. CASE agent[a].steps >= MaxSteps
      BY <2>1, <2>2 DEF Finish
    <2>3. CASE ~(agent[a].steps >= MaxSteps)
      BY <2>1, <2>3 DEF Finish
    <2> QED BY <2>2, <2>3
  <1>3. /\ Ended(Stepped(a), how) \in Exchange /\ Ended(Stepped(a), how).pc = "ended"
        /\ Ended(Stepped(a), how).events = agent[a].events
        /\ Ended(Stepped(a), how).conversation = agent[a].conversation
    BY Steps, Ends
  <1> QED BY <1>1, <1>2, <1>3, RestStep

LEMMA ProviderFailsKeeps ==
    ASSUME TypeOK, ToolInv, NEW a \in Agents, ProviderFails(a)
    PROVE  TypeOK' /\ ToolInv'
  <1> DEFINE g == [Stepped(a) EXCEPT !.pc = "escaped", !.end = "error"]
  <1>1. agent[a].pc = "ask" /\ UNCHANGED <<store, tx, caller>> /\ agent' = [agent EXCEPT ![a] = g]
    BY DEF ProviderFails, Querying, Asking, Set
  <1>2. Stepped(a) \in Exchange
    BY Steps
  <1>3. /\ g \in Exchange /\ g.pc = "escaped" /\ g.events = Stepped(a).events
        /\ g.conversation = Stepped(a).conversation
    BY ONLY <1>2 DEF Exchange
  <1> QED BY ONLY <1>1, <1>3, Steps, RestStep, TypeOK, ToolInv, a \in Agents

LEMMA AnswerTextKeeps ==
    ASSUME TypeOK, ToolInv, NEW a \in Agents, AnswerText(a)
    PROVE  TypeOK' /\ ToolInv'
  <1> DEFINE talk == Append(agent[a].conversation, <<"text", 0>>)
             g == [Stepped(a) EXCEPT !.finished = TRUE, !.told = TRUE, !.conversation = talk]
  <1>1. agent[a].pc = "ask" /\ UNCHANGED <<store, tx, caller>>
    BY DEF AnswerText, Querying, Asking
  <1>2. /\ Stepped(a) \in Exchange /\ Stepped(a).events = agent[a].events
        /\ Stepped(a).conversation = agent[a].conversation
        /\ Stepped(a).calls = agent[a].calls /\ Stepped(a).pc = agent[a].pc
    BY Steps
  <1>3. agent' = [agent EXCEPT ![a] = g]
    <2>1. AnswerText(a) => agent' = [agent EXCEPT ![a] =
             [Stepped(a) EXCEPT !.finished = TRUE, !.told = TRUE,
                                !.conversation = Append(Stepped(a).conversation, <<"text", 0>>)]]
      BY ONLY <1>2 DEF AnswerText, Set, Exchange
    <2> QED BY <1>2, <2>1
  <1>4. /\ agent[a].conversation \in Talk /\ TalkOf(agent[a]) /\ CapOf(a)
        /\ tx[a] \in Transaction /\ tx[a].at = "idle" /\ tx[a].by = Before
        /\ tx' = [tx EXCEPT ![a] = tx[a]]
    BY <1>1, ExchangeOf
  <1>5. talk \in Talk
    BY <1>4 DEF Talk
  <1> HIDE DEF talk
  <1>6. /\ g \in Exchange /\ g.pc = Stepped(a).pc /\ g.events = Stepped(a).events
        /\ g.calls = Stepped(a).calls /\ g.conversation = talk
    BY ONLY <1>2, <1>5 DEF Exchange, Talk
  <1> HIDE DEF g
  <1>7. TalkOf(g)
    <2>1. g.conversation = Append(agent[a].conversation, <<"text", 0>>) /\ g.pc = "ask"
      BY ONLY <1>1, <1>2, <1>6 DEF talk
    <2> QED BY ONLY <1>1, <1>4, <2>1, TalkAsked
  <1>8. g.calls < MaxToolCalls
    BY <1>1, <1>2, <1>4, <1>6 DEF CapOf
  <1> QED BY <1>1, <1>2, <1>3, <1>4, <1>6, <1>7, <1>8, AskStep

\* The attempt at the next call of an answer.
LEMMA AttemptKeeps ==
    ASSUME TypeOK, ToolInv, NEW a \in Agents, agent[a].pc = "ask",
           NEW h \in Exchange, h.pc = "ask", h.calls = agent[a].calls,
           h.events = agent[a].events, h.conversation = agent[a].conversation,
           NEW call \in Call, NEW rest \in Seq(Call),
           tx' = [tx EXCEPT ![a].call = call], Attempt(a, h, call, rest),
           UNCHANGED <<store, caller>>
    PROVE  TypeOK' /\ ToolInv'
  <1> DEFINE t == [tx[a] EXCEPT !.call = call]
             talk == Append(h.conversation, <<"call", h.calls + 1>>)
             refused == [h EXCEPT !.queue = rest, !.pc = "escaped", !.end = "error"]
             told == [h EXCEPT !.queue = rest, !.pc = "announced", !.calls = h.calls + 1,
                               !.conversation = talk]
  <1>1. /\ agent[a].conversation \in Talk /\ TalkOf(agent[a]) /\ CapOf(a) /\ h.calls \in Nat
        /\ tx[a] \in Transaction /\ tx[a].at = "idle" /\ tx[a].by = Before
    BY ExchangeOf
  <1>2. t \in Transaction /\ t.at = "idle" /\ t.by = Before /\ t.call = call
    BY ONLY <1>1, call \in Call DEF Transaction
  <1>3. tx' = [tx EXCEPT ![a] = t]
    OBVIOUS
  <1>4. agent' = [agent EXCEPT ![a] = refused] \/ agent' = [agent EXCEPT ![a] = told]
    BY DEF Attempt, Set
  <1>5. h.calls + 1 \in 0..MaxToolCalls /\ h.calls + 1 > 0 /\ h.calls + 1 \in Nat
    BY <1>1, CapsAssumption DEF CapOf
  <1> HIDE DEF t
  <1>6. CASE agent' = [agent EXCEPT ![a] = refused]
    <2>1. /\ refused \in Exchange /\ refused.pc = "escaped" /\ refused.events = h.events
          /\ refused.conversation = h.conversation
      BY ONLY h \in Exchange, rest \in Seq(Call) DEF Exchange
    <2> HIDE DEF refused
    <2>2. TalkOf(refused)
      <3>1. refused.conversation = agent[a].conversation
        BY <2>1
      <3> QED BY ONLY <1>1, <2>1, <3>1, TalkSame
    <2> QED BY <1>2, <1>3, <1>6, <2>1, <2>2, AskStep
  <1>7. CASE agent' = [agent EXCEPT ![a] = told]
    <2>1. talk \in Talk
      BY <1>1, <1>5 DEF Talk
    <2>2. talk = Append(agent[a].conversation, <<"call", h.calls + 1>>)
      OBVIOUS
    <2> HIDE DEF talk
    <2>3. /\ told \in Exchange /\ told.pc = "announced" /\ told.events = h.events
          /\ told.conversation = talk /\ told.calls = h.calls + 1
      BY ONLY <1>5, <2>1, h \in Exchange, rest \in Seq(Call) DEF Exchange, Talk
    <2> HIDE DEF told
    <2>4. TalkOf(told)
      <3>1. told.conversation = Append(agent[a].conversation, <<"call", h.calls + 1>>)
        BY <2>2, <2>3
      <3> QED BY ONLY <1>1, <1>5, <2>3, <3>1, agent[a].pc = "ask", TalkAsked
    <2> QED BY <1>2, <1>3, <1>5, <1>7, <2>3, <2>4, AskStep
  <1> QED BY <1>4, <1>6, <1>7

LEMMA FirstOf ==
    ASSUME NEW S, NEW s \in Seq(S), s # << >>
    PROVE  Head(s) \in S /\ Tail(s) \in Seq(S) /\ Head(s) = s[1]
  OBVIOUS

LEMMA NextQueuedKeeps ==
    ASSUME TypeOK, ToolInv, NEW a \in Agents, NextQueued(a)
    PROVE  TypeOK' /\ ToolInv'
  <1> DEFINE queue == agent[a].queue
  <1>1. agent[a].pc = "ask" /\ queue # << >> /\ UNCHANGED <<store, caller>>
        /\ tx' = [tx EXCEPT ![a].call = Head(queue)]
        /\ Attempt(a, Stepped(a), Head(queue), Tail(queue))
    BY DEF NextQueued, Asking
  <1>2. queue \in Seq(Call)
    <2>1. agent[a] \in Exchange
      BY ExchangeOf
    <2> QED BY ONLY <2>1 DEF Exchange
  <1>3. Head(queue) \in Call /\ Tail(queue) \in Seq(Call)
    BY ONLY <1>1, <1>2, FirstOf
  <1> HIDE DEF queue
  <1>4. /\ Stepped(a) \in Exchange /\ Stepped(a).events = agent[a].events
        /\ Stepped(a).conversation = agent[a].conversation
        /\ Stepped(a).calls = agent[a].calls /\ Stepped(a).pc = agent[a].pc
    BY Steps
  <1> QED BY <1>1, <1>3, <1>4, AttemptKeeps

LEMMA AnswerCallsKeeps ==
    ASSUME TypeOK, ToolInv, NEW a \in Agents, AnswerCalls(a)
    PROVE  TypeOK' /\ ToolInv'
  <1> DEFINE h == [Stepped(a) EXCEPT !.told = TRUE]
  <1>1. PICK batch \in Batches : /\ tx' = [tx EXCEPT ![a].call = batch[1]]
                                 /\ Attempt(a, h, batch[1], Tail(batch))
    BY DEF AnswerCalls
  <1>2. agent[a].pc = "ask" /\ UNCHANGED <<store, caller>>
    BY DEF AnswerCalls, Querying, Asking
  <1>3. batch \in Seq(Call) /\ batch # << >>
    BY CallsAssumption
  <1>4. batch[1] \in Call /\ Tail(batch) \in Seq(Call)
    BY ONLY <1>3, FirstOf
  <1>5. /\ Stepped(a) \in Exchange /\ Stepped(a).events = agent[a].events
        /\ Stepped(a).conversation = agent[a].conversation
        /\ Stepped(a).calls = agent[a].calls /\ Stepped(a).pc = agent[a].pc
    BY Steps
  <1>6. /\ h \in Exchange /\ h.events = Stepped(a).events
        /\ h.conversation = Stepped(a).conversation
        /\ h.calls = Stepped(a).calls /\ h.pc = Stepped(a).pc
    BY ONLY <1>5 DEF Exchange
  <1> HIDE DEF h
  <1> QED BY <1>1, <1>2, <1>4, <1>5, <1>6, AttemptKeeps

-----------------------------------------------------------------------------
(***************************************************************************)
(* A call begins, in an exchange or at an MCP session.                     *)
(***************************************************************************)
LEMMA StartIsSound ==
    ASSUME TypeOK, NEW a \in Actors, NEW call \in Call, NEW n \in Nat \ {0},
           Start(a, call, n), Held(a) = {}, UNCHANGED store
    PROVE  /\ tx' \in [Actors -> Transaction] /\ \A b \in Actors \ {a} : tx'[b] = tx[b]
           /\ tx'[a].at # "idle" /\ tx'[a].by = <<a, n>>
           /\ StageOf(a)' /\ LinksOfSession(a)'
  <1> DEFINE at == CASE call.tool = "draft" -> "slug"
                     [] call.tool = "edit" -> "row"
                     [] call.tool = "tag" -> "remove"
                     [] OTHER -> "failed"
             item == IF at \in {"row", "remove"} THEN call.content ELSE Before
             todo == IF at = "failed" THEN << >> ELSE Names(call)
             new == [Idle EXCEPT !.at = at, !.call = call, !.by = <<a, n>>,
                                 !.item = item, !.todo = todo]
  <1>1. tx' = [tx EXCEPT ![a] = new]
    BY DEF Start
  <1>2. /\ at \in {"slug", "row", "remove", "failed"}
        /\ at = "slug" => call.tool = "draft"
        /\ at = "row" => call.tool = "edit"
        /\ at = "remove" => call.tool = "tag"
        /\ at # "failed" => call.tool \in {"draft", "edit", "tag"}
    OBVIOUS
  <1>3. at \in {"row", "remove"} => call.content \in Contents
    <2>1. at \in {"row", "remove"} => call.tool \in {"edit", "tag"}
      OBVIOUS
    <2> HIDE DEF at
    <2> QED BY ONLY <2>1, call \in Call DEF Call
  <1>4. (at \in {"row", "remove"} => item \in Items) /\ item \in {Before} \cup Items
    BY <1>3 DEF Items
  <1>5. todo \in Seq(TagNames) /\ (at # "failed" => todo = Names(call))
    <2>1. at # "failed" => Names(call) \in Seq(TagNames)
      BY <1>2, NamesAreTags
    <2> QED BY <2>1
  <1> HIDE DEF at, item, todo
  <1>6. /\ new \in Transaction /\ new.at = at /\ new.call = call /\ new.by = <<a, n>>
        /\ new.item = item /\ new.todo = todo
    BY ONLY <1>2, <1>4, <1>5, a \in Actors, call \in Call, n \in Nat \ {0}
       DEF Idle, Transaction, Stages
  <1> HIDE DEF new
  <1>7. tx \in [Actors -> Transaction]
    BY DEF TypeOK
  <1>8. tx' \in [Actors -> Transaction] /\ tx'[a] = new /\ \A b \in Actors \ {a} : tx'[b] = tx[b]
    BY ONLY <1>1, <1>6, <1>7, a \in Actors
  <1>9. StageOf(a)'
    BY <1>2, <1>4, <1>6, <1>8 DEF StageOf, Working
  <1>10. written'[a] = {}
    BY DEF Held, Keys, store
  <1>11. LinksOfSession(a)'
    BY <1>2, <1>5, <1>6, <1>8, <1>10 DEF LinksOfSession, Working
  <1> QED BY <1>2, <1>6, <1>8, <1>9, <1>11

Clients == [calls : 0..MaxCallerCalls, ok : SUBSET (1..MaxCallerCalls)]

\* The counters of the others are left alone.
Alone(a) ==
    /\ agent' \in [Agents -> Exchange] /\ caller' \in [Callers -> Clients]
    /\ \A b \in Actors \ {a} : /\ b \in Agents => agent'[b] = agent[b]
                               /\ b \in Callers => caller'[b] = caller[b]

LEMMA BeginStep ==
    ASSUME TypeOK, ToolInv, NEW a \in Actors, NEW call \in Call, NEW n \in Nat \ {0},
           Start(a, call, n), Held(a) = {}, UNCHANGED store, Alone(a), Number(a)' = n,
           a \in Agents => agent'[a].pc = "tool" /\ TalkOf(agent'[a]),
           ResultsAreCommitted'
    PROVE  TypeOK' /\ ToolInv'
  <1>1. /\ tx' \in [Actors -> Transaction] /\ \A b \in Actors \ {a} : tx'[b] = tx[b]
        /\ tx'[a].at # "idle" /\ tx'[a].by = <<a, n>>
        /\ StageOf(a)' /\ LinksOfSession(a)'
    BY StartIsSound
  <1>2. db' = db /\ written' = written /\ removed' = removed /\ landed' = landed
    BY DEF store
  <1>3. TypeOK'
    BY <1>1, <1>2 DEF TypeOK, Alone, Clients
  <1>4. Others(a)
    BY <1>1, <1>2 DEF Others, Alone
  <1>5. Held(a)' = {} /\ written'[a] = {}
    BY <1>2 DEF Held, Keys
  <1>6. SessionOf(a)'
    BY <1>1, <1>5 DEF SessionOf
  <1>7. a \in Agents => CapOf(a)' /\ TalkOf(agent'[a])
    BY DEF CapOf
  <1>8. SessionInv' /\ CapInv' /\ StageInv' /\ TalkInv' /\ \A b \in Actors : LinksOfSession(b)'
    BY <1>1, <1>2, <1>4, <1>6, <1>7, Frame DEF ToolInv
  <1>9. KeysInv' /\ LinksReachTags'
    BY StoreKeeps DEF ToolInv
  <1> QED BY <1>3, <1>8, <1>9 DEF ToolInv, LinksInv

LEMMA StartToolKeeps ==
    ASSUME TypeOK, ToolInv, NEW a \in Agents, StartTool(a)
    PROVE  TypeOK' /\ ToolInv'
  <1> DEFINE g == [agent[a] EXCEPT !.pc = "tool"]
  <1>1. /\ agent[a].pc = "announced" /\ Start(a, tx[a].call, agent[a].calls)
        /\ agent' = [agent EXCEPT ![a] = g] /\ UNCHANGED <<store, caller>>
    BY DEF StartTool, Set
  <1>2. /\ agent[a] \in Exchange /\ agent[a].calls \in Nat /\ TalkOf(agent[a]) /\ CapOf(a)
        /\ tx[a].at = "idle"
    BY <1>1, ExchangeOf
  <1>3. tx[a].call \in Call /\ agent[a].calls \in Nat \ {0}
    BY <1>1, <1>2 DEF CapOf
  <1>4. /\ g \in Exchange /\ g.pc = "tool" /\ g.calls = agent[a].calls
        /\ g.events = agent[a].events /\ g.conversation = agent[a].conversation
    BY ONLY <1>2 DEF Exchange
  <1> HIDE DEF g
  <1>5. TalkOf(g)
    BY <1>1, <1>2, <1>4, TalkSame
  <1>6. a \in Actors /\ a \notin Callers
    BY ActorsAssumption DEF Actors
  <1>7. /\ agent' \in [Agents -> Exchange] /\ agent'[a] = g
        /\ \A b \in Agents \ {a} : agent'[b] = agent[b]
    <2>1. agent \in [Agents -> Exchange]
      BY DEF TypeOK
    <2> QED BY ONLY <1>1, <1>4, <2>1, a \in Agents
  <1>8. Alone(a)
    BY <1>1, <1>7 DEF Alone, TypeOK, Clients
  <1>9. Held(a) = {}
    BY <1>1, <1>2, <1>6 DEF ToolInv, SessionInv, SessionOf, Escaped
  <1>10. Number(a)' = agent[a].calls
    BY <1>4, <1>7 DEF Number
  <1>11. ResultsAreCommitted'
    <2>1. \A b \in Agents : agent'[b].events = agent[b].events
      BY <1>4, <1>7
    <2> QED BY <1>1, <2>1 DEF ToolInv, ResultsAreCommitted, store
  <1> QED BY <1>1, <1>3, <1>4, <1>5, <1>6, <1>7, <1>8, <1>9, <1>10, <1>11, BeginStep

LEMMA CallToolKeeps ==
    ASSUME TypeOK, ToolInv, NEW m \in Callers, CallTool(m)
    PROVE  TypeOK' /\ ToolInv'
  <1> DEFINE n == caller[m].calls + 1
  <1>1. PICK call \in Calls : Start(m, call, n)
    BY DEF CallTool
  <1>2. /\ tx[m].at = "idle" /\ caller[m].calls < MaxCallerCalls /\ UNCHANGED <<store, agent>>
        /\ caller' = [caller EXCEPT ![m].calls = n]
    BY DEF CallTool, At
  <1>3. m \in Actors /\ m \notin Agents /\ call \in Call
    BY ActorsAssumption, CallsAssumption DEF Actors
  <1>4. caller \in [Callers -> Clients]
    BY DEF TypeOK, Clients
  <1>5. n \in 0..MaxCallerCalls /\ n \in Nat \ {0}
    <2>1. caller[m].calls \in 0..MaxCallerCalls
      BY <1>4 DEF Clients
    <2> QED BY <1>2, <2>1, CapsAssumption
  <1> HIDE DEF n
  <1>6. /\ caller' \in [Callers -> Clients] /\ caller'[m].calls = n
        /\ caller'[m].ok = caller[m].ok
        /\ \A b \in Callers \ {m} : caller'[b] = caller[b]
    BY ONLY <1>2, <1>4, <1>5, m \in Callers DEF Clients
  <1>7. Alone(m)
    BY <1>2, <1>6 DEF Alone, TypeOK
  <1>8. Held(m) = {}
    BY <1>2, <1>3 DEF ToolInv, SessionInv, SessionOf, Escaped
  <1>9. Number(m)' = n
    BY <1>3, <1>6 DEF Number
  <1>10. ResultsAreCommitted'
    <2>1. \A b \in Callers : caller'[b].ok = caller[b].ok
      BY <1>6
    <2> QED BY <1>2, <2>1 DEF ToolInv, ResultsAreCommitted, store
  <1> QED BY <1>1, <1>2, <1>3, <1>5, <1>7, <1>8, <1>9, <1>10, BeginStep

-----------------------------------------------------------------------------
(***************************************************************************)
(* A transaction ends.                                                     *)
(***************************************************************************)
LEMMA EndStep ==
    ASSUME TypeOK, ToolInv, NEW a \in Actors, Commit(a) \/ Rollback(a),
           NEW t \in Transaction, tx' = [tx EXCEPT ![a] = t], t.at = "idle", t.by = Before,
           Alone(a), ResultsAreCommitted',
           a \in Agents => /\ agent'[a].pc \in {"ask", "ended"} /\ TalkOf(agent'[a])
                           /\ agent'[a].pc = "ask" => agent'[a].calls < MaxToolCalls
    PROVE  TypeOK' /\ ToolInv'
  <1>1. /\ tx' \in [Actors -> Transaction] /\ tx'[a] = t
        /\ \A b \in Actors \ {a} : tx'[b] = tx[b]
    BY DEF TypeOK
  <1>2. /\ written' = [written EXCEPT ![a] = {}] /\ removed' = [removed EXCEPT ![a] = {}]
    BY DEF Commit, Rollback
  <1>3. /\ written \in [Actors -> SUBSET Rows] /\ removed \in [Actors -> SUBSET Links]
        /\ \A b \in Actors : IsFiniteSet(written[b])
    BY DEF TypeOK
  <1>4. /\ written' \in [Actors -> SUBSET Rows] /\ removed' \in [Actors -> SUBSET Links]
        /\ written'[a] = {} /\ removed'[a] = {}
        /\ \A b \in Actors \ {a} : written'[b] = written[b] /\ removed'[b] = removed[b]
    BY ONLY <1>2, <1>3, a \in Actors
  <1>5. \A b \in Actors : IsFiniteSet(written'[b])
    BY <1>3, <1>4, FS_EmptySet
  <1>6. (db' = db /\ landed' = landed) \/ Commit(a)
    BY DEF Rollback
  <1>7. Commit(a) => /\ db' = {r \in db : r.key \notin Held(a)} \cup written[a]
                     /\ landed' = landed \cup {r.by : r \in written[a]}
    BY DEF Commit
  <1>8. db' \subseteq Rows /\ IsFiniteSet(db')
    <2>1. db \subseteq Rows /\ IsFiniteSet(db)
      BY DEF TypeOK
    <2>2. IsFiniteSet(db \cup written[a])
      BY <1>3, <2>1, FS_Union
    <2>3. Commit(a) => db' \in SUBSET (db \cup written[a])
      BY <1>7
    <2>4. Commit(a) => IsFiniteSet(db')
      BY ONLY <2>2, <2>3, FS_Subset
    <2> QED BY <1>3, <1>6, <2>1, <2>3, <2>4
  <1>9. landed' \subseteq Actors \X (Nat \ {0})
    <2>1. \A r \in written[a] : r.by \in Actors \X (Nat \ {0})
      <3>1. \A r \in written[a] : r.by = <<a, Number(a)>> /\ Number(a) > 0
        BY DEF ToolInv, SessionInv, SessionOf
      <3>2. Number(a) > 0 => <<a, Number(a)>> \in Actors \X (Nat \ {0})
        BY NumberIsNat
      <3> QED BY ONLY <3>1, <3>2
    <2> QED BY <1>6, <1>7, <2>1 DEF TypeOK
  <1>10. TypeOK'
    BY <1>1, <1>4, <1>5, <1>8, <1>9 DEF TypeOK, Alone, Clients
  <1>11. Others(a)
    BY <1>1, <1>4 DEF Others, Alone
  <1>12. Held(a)' = {}
    BY <1>4 DEF Held, Keys
  <1>13. SessionOf(a)'
    BY <1>1, <1>4, <1>12 DEF SessionOf
  <1>14. StageOf(a)' /\ LinksOfSession(a)'
    BY <1>1, <1>4 DEF StageOf, LinksOfSession, Working
  <1>15. a \in Agents => CapOf(a)' /\ TalkOf(agent'[a])
    BY DEF CapOf
  <1>16. SessionInv' /\ CapInv' /\ StageInv' /\ TalkInv' /\ \A b \in Actors : LinksOfSession(b)'
    BY <1>6, <1>11, <1>13, <1>14, <1>15, Frame DEF ToolInv
  <1>17. KeysInv'
    <2>1. KeysInv
      BY DEF ToolInv
    <2>2. OneEach(db')
      BY <1>6, <1>7, <2>1 DEF KeysInv, OneEach, Held, Keys
    <2>3. \A b \in Actors : OneEach(written'[b])
      BY <1>4, <2>1 DEF KeysInv, OneEach
    <2>4. \A b \in Actors \ {a} : Held(b)' = Held(b)
      BY <1>4 DEF Held
    <2>5. \A b, c \in Actors : b # c => Held(b)' \cap Held(c)' = {}
      BY <1>12, <2>1, <2>4 DEF KeysInv
    <2> QED BY <2>2, <2>3, <2>5 DEF KeysInv
  <1>18. LinksReachTags'
    <2>1. /\ \A x : LiveIn(db, x) => LiveIn(db', x)
          /\ Commit(a) => \A x : LiveIn(db \cup written[a], x) => LiveIn(db', x)
      BY <1>6, TagsStay DEF ToolInv
    <2>2. \A r \in db : r.key[1] = "link" => LiveIn(db, r.key[3])
      BY DEF ToolInv, LinksInv, LinksReachTags, LiveIn
    <2>3. \A r \in written[a] : r.key[1] = "link" => LiveIn(db \cup written[a], r.key[3])
      BY DEF ToolInv, LinksInv, LinksOfSession, Working
    <2>4. \A r \in db' : r.key[1] = "link" => LiveIn(db', r.key[3])
      BY <1>6, <1>7, <2>1, <2>2, <2>3
    <2> QED BY <2>4 DEF LinksReachTags, LiveIn
  <1> QED BY <1>10, <1>16, <1>17, <1>18 DEF ToolInv, LinksInv

LEMMA Proceeds ==
    ASSUME NEW g \in Exchange
    PROVE  /\ Proceed(g) \in Exchange /\ Proceed(g).pc \in {"ask", "ended"}
           /\ Proceed(g).pc = "ask" => Proceed(g).calls < MaxToolCalls
           /\ Proceed(g).events = g.events /\ Proceed(g).conversation = g.conversation
  <1>1. CASE g.calls >= MaxToolCalls
    <2>1. Proceed(g) = Ended(g, "done")
      BY <1>1 DEF Proceed
    <2> QED BY <2>1, Ends
  <1>2. CASE ~(g.calls >= MaxToolCalls)
    <2>1. Proceed(g) = [g EXCEPT !.pc = "ask"]
      BY <1>2 DEF Proceed
    <2>2. g.calls \in 0..MaxToolCalls
      BY DEF Exchange
    <2>3. g.calls < MaxToolCalls
      BY <1>2, <2>2, CapsAssumption
    <2>4. /\ [g EXCEPT !.pc = "ask"] \in Exchange /\ [g EXCEPT !.pc = "ask"].calls = g.calls
          /\ [g EXCEPT !.pc = "ask"].events = g.events /\ [g EXCEPT !.pc = "ask"].pc = "ask"
          /\ [g EXCEPT !.pc = "ask"].conversation = g.conversation
      BY DEF Exchange
    <2> QED BY <2>1, <2>3, <2>4
  <1> QED BY <1>1, <1>2

\* The answer to the call under way joins the conversation.
LEMMA Answers ==
    ASSUME TypeOK, ToolInv, NEW a \in Agents, agent[a].pc = "tool"
    PROVE  /\ Answered(agent[a]) \in Exchange /\ Answered(agent[a]).events = agent[a].events
           /\ Answered(agent[a]).calls = agent[a].calls /\ agent[a].calls \in 1..MaxToolCalls
           /\ Answered(agent[a]).conversation =
                  Append(agent[a].conversation, <<"answer", agent[a].calls>>)
           /\ tx[a].at # "idle" /\ Number(a) = agent[a].calls
           /\ \A g : g.pc \in {"ask", "ended"} /\ g.conversation = Answered(agent[a]).conversation
                  => TalkOf(g)
  <1> DEFINE talk == Append(agent[a].conversation, <<"answer", agent[a].calls>>)
  <1>1. /\ agent[a] \in Exchange /\ agent[a].conversation \in Talk /\ agent[a].calls \in Nat
        /\ TalkOf(agent[a])
    BY ExchangeOf
  <1>2. talk \in Talk
    BY <1>1 DEF Talk
  <1>3. Answered(agent[a]) = [agent[a] EXCEPT !.conversation = talk]
    BY DEF Answered
  <1> HIDE DEF talk
  <1>4. /\ Answered(agent[a]) \in Exchange /\ Answered(agent[a]).events = agent[a].events
        /\ Answered(agent[a]).calls = agent[a].calls /\ Answered(agent[a]).conversation = talk
    BY ONLY <1>1, <1>2, <1>3 DEF Exchange, Talk
  <1>5. a \in Actors /\ tx[a].at # "idle"
    BY DEF ToolInv, SessionInv, SessionOf, Actors
  <1>6. Number(a) = agent[a].calls /\ Number(a) > 0
    BY <1>5 DEF ToolInv, SessionInv, SessionOf, Number
  <1>7. agent[a].calls \in 1..MaxToolCalls
    <2>1. agent[a].calls \in 0..MaxToolCalls
      BY <1>1 DEF Exchange
    <2> QED BY <1>6, <2>1, CapsAssumption
  <1>8. ASSUME NEW g, g.pc \in {"ask", "ended"}, g.conversation = talk
        PROVE  TalkOf(g)
    <2>1. g.conversation = Append(agent[a].conversation, <<"answer", agent[a].calls>>)
      BY <1>8 DEF talk
    <2> QED BY ONLY <1>1, <1>8, <2>1, agent[a].pc = "tool", TalkAnswered
  <1> QED BY <1>4, <1>5, <1>6, <1>7, <1>8 DEF talk

LEMMA IdleIsTyped == Idle \in Transaction /\ Idle.at = "idle" /\ Idle.by = Before
  BY DEF Idle, Transaction, Stages, NoCall

\* Only the exchange's own record changes.
LEMMA OwnRecord ==
    ASSUME TypeOK, NEW a \in Agents, NEW g \in Exchange, agent' = [agent EXCEPT ![a] = g],
           UNCHANGED caller
    PROVE  /\ Alone(a) /\ agent'[a] = g /\ a \in Actors
           /\ \A b \in Agents \ {a} : agent'[b] = agent[b]
  <1>1. agent \in [Agents -> Exchange] /\ caller \in [Callers -> Clients]
    BY DEF TypeOK, Clients
  <1>2. /\ agent' \in [Agents -> Exchange] /\ agent'[a] = g
        /\ \A b \in Agents \ {a} : agent'[b] = agent[b]
    BY ONLY <1>1, a \in Agents, g \in Exchange, agent' = [agent EXCEPT ![a] = g]
  <1>3. \A b \in Actors \ {a} : /\ b \in Agents => agent'[b] = agent[b]
                                /\ b \in Callers => caller'[b] = caller[b]
    BY <1>2
  <1> QED BY <1>1, <1>2, <1>3 DEF Alone, Actors

\* What is landed by the commit of a call that returned.
LEMMA Lands ==
    ASSUME TypeOK, ToolInv, NEW a \in Actors, tx[a].at = "returned", Commit(a)
    PROVE  landed' = landed \cup {<<a, Number(a)>>}
  <1>1. written[a] # {}
    BY DEF ToolInv, StageInv, StageOf, Working
  <1>2. \A r \in written[a] : r.by = <<a, Number(a)>>
    BY DEF ToolInv, SessionInv, SessionOf
  <1>3. {r.by : r \in written[a]} = {<<a, Number(a)>>}
    BY <1>1, <1>2
  <1> QED BY <1>3 DEF Commit

LEMMA Outcomes ==
    ASSUME NEW x \in Exchange, NEW told \in SUBSET (1..MaxToolCalls)
    PROVE  /\ [x EXCEPT !.failures = 0, !.events = told] \in Exchange
           /\ [x EXCEPT !.failures = 0, !.events = told].events = told
           /\ [x EXCEPT !.failures = 0, !.events = told].conversation = x.conversation
           /\ [x EXCEPT !.failures = 1, !.told = FALSE] \in Exchange
           /\ [x EXCEPT !.failures = 1, !.told = FALSE].events = x.events
           /\ [x EXCEPT !.failures = 1, !.told = FALSE].conversation = x.conversation
  <1> DEFINE y == [x EXCEPT !.failures = 0, !.events = told]
             z == [x EXCEPT !.failures = 1, !.told = FALSE]
  <1>1. 0 \in 0..1 /\ 1 \in 0..1
    OBVIOUS
  <1>2. y \in Exchange
    BY <1>1 DEF Exchange
  <1>3. y.events = told /\ y.conversation = x.conversation
    BY DEF Exchange
  <1>4. z \in Exchange
    BY <1>1 DEF Exchange
  <1>5. z.events = x.events /\ z.conversation = x.conversation
    BY DEF Exchange
  <1> QED BY <1>2, <1>3, <1>4, <1>5

LEMMA ToolSucceedsKeeps ==
    ASSUME TypeOK, ToolInv, NEW a \in Agents, ToolSucceeds(a)
    PROVE  TypeOK' /\ ToolInv'
  <1> DEFINE told == agent[a].events \cup {agent[a].calls}
             h == [Answered(agent[a]) EXCEPT !.failures = 0, !.events = told]
             g == Proceed(h)
  <1>1. agent[a].pc = "tool" /\ tx[a].at = "returned" /\ Commit(a) /\ UNCHANGED caller
        /\ tx' = [tx EXCEPT ![a] = Idle]
    BY DEF ToolSucceeds, At, Rest
  <1>2. /\ Answered(agent[a]) \in Exchange /\ Answered(agent[a]).events = agent[a].events
        /\ Answered(agent[a]).calls = agent[a].calls /\ agent[a].calls \in 1..MaxToolCalls
        /\ tx[a].at # "idle" /\ Number(a) = agent[a].calls
        /\ \A k : k.pc \in {"ask", "ended"} /\ k.conversation = Answered(agent[a]).conversation
               => TalkOf(k)
    BY <1>1, Answers
  <1>3. agent' = [agent EXCEPT ![a] = g]
    BY <1>2 DEF ToolSucceeds, Set, Exchange
  <1>4. told \in SUBSET (1..MaxToolCalls)
    <2>1. agent[a].events \in SUBSET (1..MaxToolCalls)
      <3>1. agent[a] \in Exchange
        BY DEF TypeOK
      <3> QED BY <3>1 DEF Exchange
    <2> QED BY <1>2, <2>1
  <1> HIDE DEF told
  <1>5. /\ h \in Exchange /\ h.events = told
        /\ h.conversation = Answered(agent[a]).conversation
    BY <1>2, <1>4, Outcomes
  <1> HIDE DEF h
  <1>6. /\ g \in Exchange /\ g.pc \in {"ask", "ended"} /\ g.events = told
        /\ g.pc = "ask" => g.calls < MaxToolCalls
        /\ g.conversation = Answered(agent[a]).conversation
    BY <1>5, Proceeds
  <1> HIDE DEF g
  <1>7. /\ Alone(a) /\ agent'[a] = g /\ a \in Actors
        /\ \A b \in Agents \ {a} : agent'[b] = agent[b]
    BY <1>1, <1>3, <1>6, OwnRecord
  <1>8. landed' = landed \cup {<<a, agent[a].calls>>}
    BY <1>1, <1>2, <1>7, Lands
  <1>9. ResultsAreCommitted'
    <2>1. ResultsAreCommitted
      BY DEF ToolInv
    <2>2. {n \in 1..MaxToolCalls : <<a, n>> \in landed'} = agent'[a].events
      BY <1>2, <1>6, <1>7, <1>8, <2>1 DEF told, ResultsAreCommitted
    <2>3. ASSUME NEW b \in Agents \ {a}
          PROVE  {n \in 1..MaxToolCalls : <<b, n>> \in landed'} = agent'[b].events
      BY <1>7, <1>8, <2>1 DEF ResultsAreCommitted
    <2>4. ASSUME NEW m \in Callers
          PROVE  {n \in 1..MaxCallerCalls : <<m, n>> \in landed'} = caller'[m].ok
      <3>1. m # a
        BY ActorsAssumption
      <3> QED BY <1>1, <1>8, <2>1, <3>1 DEF ResultsAreCommitted
    <2> QED BY <2>2, <2>3, <2>4 DEF ResultsAreCommitted
  <1> QED BY <1>1, <1>2, <1>6, <1>7, <1>9, IdleIsTyped, EndStep

\* A transaction that is rolled back lands nothing.
LEMMA NothingLands ==
    ASSUME ToolInv, UNCHANGED landed, UNCHANGED caller,
           \A b \in Agents : agent'[b].events = agent[b].events
    PROVE  ResultsAreCommitted'
  BY DEF ToolInv, ResultsAreCommitted

LEMMA ToolFailsKeeps ==
    ASSUME TypeOK, ToolInv, NEW a \in Agents, ToolFails(a)
    PROVE  TypeOK' /\ ToolInv'
  <1> DEFINE h == [Answered(agent[a]) EXCEPT !.failures = 1, !.told = FALSE]
             g == IF agent[a].failures > 0 THEN Ended(agent[a], "failed") ELSE Proceed(h)
  <1>1. agent[a].pc = "tool" /\ Rollback(a) /\ UNCHANGED caller /\ agent' = [agent EXCEPT ![a] = g]
        /\ tx' = [tx EXCEPT ![a] = Idle]
    BY DEF ToolFails, Rest, Set
  <1>2. /\ Answered(agent[a]) \in Exchange /\ Answered(agent[a]).events = agent[a].events
        /\ \A k : k.pc \in {"ask", "ended"} /\ k.conversation = Answered(agent[a]).conversation
               => TalkOf(k)
    BY <1>1, Answers
  <1>3. agent[a] \in Exchange /\ TalkOf(agent[a])
    BY ExchangeOf
  <1>4. /\ h \in Exchange /\ h.events = agent[a].events
        /\ h.conversation = Answered(agent[a]).conversation
    BY <1>2, Outcomes
  <1> HIDE DEF h
  <1>5. /\ g \in Exchange /\ g.pc \in {"ask", "ended"} /\ g.events = agent[a].events
        /\ g.pc = "ask" => g.calls < MaxToolCalls
        /\ TalkOf(g)
    <2>1. CASE agent[a].failures > 0
      <3>1. g = Ended(agent[a], "failed")
        BY <2>1
      <3>2. /\ Ended(agent[a], "failed") \in Exchange /\ Ended(agent[a], "failed").pc = "ended"
            /\ Ended(agent[a], "failed").events = agent[a].events
            /\ Ended(agent[a], "failed").conversation = agent[a].conversation
        BY <1>3, Ends
      <3> HIDE DEF g
      <3>3. TalkOf(g)
        BY ONLY <1>3, <3>1, <3>2, TalkSame
      <3> QED BY <3>1, <3>2, <3>3
    <2>2. CASE ~(agent[a].failures > 0)
      <3>1. g = Proceed(h)
        BY <2>2
      <3>2. /\ Proceed(h) \in Exchange /\ Proceed(h).pc \in {"ask", "ended"}
            /\ Proceed(h).pc = "ask" => Proceed(h).calls < MaxToolCalls
            /\ Proceed(h).events = h.events /\ Proceed(h).conversation = h.conversation
        BY <1>4, Proceeds
      <3> HIDE DEF g
      <3> QED BY <1>2, <1>4, <3>1, <3>2
    <2> QED BY <2>1, <2>2
  <1> HIDE DEF g
  <1>6. /\ Alone(a) /\ agent'[a] = g /\ a \in Actors
        /\ \A b \in Agents \ {a} : agent'[b] = agent[b]
    BY <1>1, <1>5, OwnRecord
  <1>7. ResultsAreCommitted'
    BY <1>1, <1>5, <1>6, NothingLands DEF Rollback
  <1> QED BY <1>1, <1>5, <1>6, <1>7, IdleIsTyped, EndStep

\* The error leaves the loop before its transaction ends: what the call wrote is
\* still there, and still of that call.
LEMMA ToolRaisesKeeps ==
    ASSUME TypeOK, ToolInv, NEW a \in Agents, ToolRaises(a)
    PROVE  TypeOK' /\ ToolInv'
  <1> DEFINE g == [agent[a] EXCEPT !.pc = "escaped", !.end = "error"]
  <1>1. agent[a].pc = "tool" /\ UNCHANGED <<store, caller>> /\ agent' = [agent EXCEPT ![a] = g]
        /\ tx' = [tx EXCEPT ![a] = Idle]
    BY DEF ToolRaises, Rest, Set
  <1>2. agent[a] \in Exchange /\ TalkOf(agent[a])
    BY ExchangeOf
  <1>3. /\ g \in Exchange /\ g.pc = "escaped" /\ g.events = agent[a].events
        /\ g.conversation = agent[a].conversation /\ g.calls = agent[a].calls
    BY ONLY <1>2 DEF Exchange
  <1> HIDE DEF g
  <1>4. TalkOf(g)
    BY ONLY <1>2, <1>3, TalkSame
  <1>5. /\ Alone(a) /\ agent'[a] = g /\ a \in Actors
        /\ \A b \in Agents \ {a} : agent'[b] = agent[b]
    BY <1>1, <1>3, OwnRecord
  <1>6. /\ tx' \in [Actors -> Transaction] /\ tx'[a] = Idle
        /\ \A b \in Actors \ {a} : tx'[b] = tx[b]
    BY <1>1, <1>5, IdleIsTyped DEF TypeOK
  <1>7. db' = db /\ written' = written /\ removed' = removed /\ landed' = landed
    BY <1>1 DEF store
  <1>8. TypeOK'
    BY <1>5, <1>6, <1>7 DEF TypeOK, Alone, Clients
  <1>9. Others(a)
    BY <1>5, <1>6, <1>7 DEF Others, Alone
  <1>10. SessionOf(a)'
    <2>1. Number(a)' = Number(a)
      BY <1>3, <1>5 DEF Number
    <2>2. \A r \in written[a] : r.by = <<a, Number(a)>> /\ Number(a) > 0
      BY <1>5 DEF ToolInv, SessionInv, SessionOf
    <2>3. Escaped(a)'
      BY <1>3, <1>5 DEF Escaped
    <2> QED BY <1>3, <1>5, <1>6, <1>7, <2>1, <2>2, <2>3, IdleIsTyped DEF SessionOf
  <1>11. StageOf(a)'
    BY <1>6, IdleIsTyped DEF StageOf, Working
  <1>12. LinksOfSession(a)'
    BY <1>5, <1>6, <1>7, IdleIsTyped DEF ToolInv, LinksInv, LinksOfSession, Working
  <1>13. CapOf(a)' /\ TalkOf(agent'[a])
    BY <1>3, <1>4, <1>5 DEF CapOf
  <1>14. SessionInv' /\ CapInv' /\ StageInv' /\ TalkInv' /\ \A b \in Actors : LinksOfSession(b)'
    BY <1>5, <1>7, <1>9, <1>10, <1>11, <1>12, <1>13, Frame DEF ToolInv
  <1>15. KeysInv' /\ LinksReachTags'
    BY <1>1, StoreKeeps DEF ToolInv
  <1>16. ResultsAreCommitted'
    BY <1>1, <1>3, <1>5, <1>7, NothingLands
  <1> QED BY <1>8, <1>14, <1>15, <1>16 DEF ToolInv, LinksInv

LEMMA RollbackAfterErrorKeeps ==
    ASSUME TypeOK, ToolInv, NEW a \in Agents, RollbackAfterError(a)
    PROVE  TypeOK' /\ ToolInv'
  <1> DEFINE g == [agent[a] EXCEPT !.pc = "ended"]
  <1>1. agent[a].pc = "escaped" /\ Rollback(a) /\ UNCHANGED <<tx, caller>>
        /\ agent' = [agent EXCEPT ![a] = g]
    BY DEF RollbackAfterError, Set
  <1>2. /\ agent[a] \in Exchange /\ TalkOf(agent[a]) /\ tx[a] \in Transaction
        /\ tx[a].at = "idle" /\ tx[a].by = Before /\ tx' = [tx EXCEPT ![a] = tx[a]]
    BY <1>1, ExchangeOf
  <1>3. /\ g \in Exchange /\ g.pc = "ended" /\ g.events = agent[a].events
        /\ g.conversation = agent[a].conversation
    BY ONLY <1>2 DEF Exchange
  <1> HIDE DEF g
  <1>4. TalkOf(g)
    BY ONLY <1>2, <1>3, TalkSame
  <1>5. /\ Alone(a) /\ agent'[a] = g /\ a \in Actors
        /\ \A b \in Agents \ {a} : agent'[b] = agent[b]
    BY <1>1, <1>3, OwnRecord
  <1>6. ResultsAreCommitted'
    BY <1>1, <1>3, <1>5, NothingLands DEF Rollback
  <1> QED BY <1>1, <1>2, <1>3, <1>4, <1>5, <1>6, EndStep

LEMMA DisconnectKeeps ==
    ASSUME TypeOK, ToolInv, NEW a \in Agents, Disconnect(a)
    PROVE  TypeOK' /\ ToolInv'
  <1> DEFINE g == Ended(agent[a], "gone")
  <1>1. Rollback(a) /\ UNCHANGED caller /\ agent' = [agent EXCEPT ![a] = g]
        /\ tx' = [tx EXCEPT ![a] = Idle]
    BY DEF Disconnect, Rest, Set
  <1>2. agent[a] \in Exchange /\ TalkOf(agent[a])
    BY ExchangeOf
  <1>3. /\ g \in Exchange /\ g.pc = "ended" /\ g.events = agent[a].events
        /\ g.conversation = agent[a].conversation
    BY <1>2, Ends
  <1> HIDE DEF g
  <1>4. TalkOf(g)
    BY ONLY <1>2, <1>3, TalkSame
  <1>5. /\ Alone(a) /\ agent'[a] = g /\ a \in Actors
        /\ \A b \in Agents \ {a} : agent'[b] = agent[b]
    BY <1>1, <1>3, OwnRecord
  <1>6. ResultsAreCommitted'
    BY <1>1, <1>3, <1>5, NothingLands DEF Rollback
  <1> QED BY <1>1, <1>3, <1>4, <1>5, <1>6, IdleIsTyped, EndStep

LEMMA CallToolEndsKeeps ==
    ASSUME TypeOK, ToolInv, NEW m \in Callers, CallToolEnds(m)
    PROVE  TypeOK' /\ ToolInv'
  <1> DEFINE n == caller[m].calls
             ok == caller[m].ok \cup {n}
  <1>1. m \in Actors /\ m \notin Agents
    BY ActorsAssumption DEF Actors
  <1>2. agent' = agent /\ tx' = [tx EXCEPT ![m] = Idle]
    BY DEF CallToolEnds, Rest
  <1>3. caller \in [Callers -> Clients] /\ agent \in [Agents -> Exchange]
    BY DEF TypeOK, Clients
  <1>4. CASE tx[m].at = "returned" /\ Commit(m) /\ caller' = [caller EXCEPT ![m].ok = ok]
    <2>1. Number(m) = n /\ Number(m) > 0
      BY <1>1, <1>4 DEF Number, ToolInv, SessionInv, SessionOf
    <2>2. n \in 0..MaxCallerCalls /\ caller[m].ok \in SUBSET (1..MaxCallerCalls)
      BY <1>3 DEF Clients
    <2>3. n \in 1..MaxCallerCalls
      BY <2>1, <2>2, CapsAssumption
    <2>4. ok \in SUBSET (1..MaxCallerCalls)
      BY <2>2, <2>3
    <2>5. ok = caller[m].ok \cup {n}
      OBVIOUS
    <2> HIDE DEF ok
    <2>6. /\ caller' \in [Callers -> Clients] /\ caller'[m].ok = ok
          /\ \A b \in Callers \ {m} : caller'[b] = caller[b]
      BY ONLY <1>3, <1>4, <2>4, m \in Callers DEF Clients
    <2>7. Alone(m)
      BY <1>2, <1>3, <2>6 DEF Alone
    <2>8. landed' = landed \cup {<<m, n>>}
      BY <1>1, <1>4, <2>1, Lands
    <2>9. ResultsAreCommitted'
      <3>1. ResultsAreCommitted
        BY DEF ToolInv
      <3>2. {k \in 1..MaxCallerCalls : <<m, k>> \in landed'} = caller'[m].ok
        BY <2>3, <2>5, <2>6, <2>8, <3>1 DEF ResultsAreCommitted
      <3>3. ASSUME NEW b \in Callers \ {m}
            PROVE  {k \in 1..MaxCallerCalls : <<b, k>> \in landed'} = caller'[b].ok
        BY <2>6, <2>8, <3>1 DEF ResultsAreCommitted
      <3>4. ASSUME NEW b \in Agents
            PROVE  {k \in 1..MaxToolCalls : <<b, k>> \in landed'} = agent'[b].events
        <4>1. b # m
          BY <1>1
        <4> QED BY <1>2, <2>8, <3>1, <4>1 DEF ResultsAreCommitted
      <3> QED BY <3>2, <3>3, <3>4 DEF ResultsAreCommitted
    <2> QED BY <1>1, <1>2, <1>4, <2>7, <2>9, IdleIsTyped, EndStep
  <1>5. CASE Rollback(m) /\ UNCHANGED caller
    <2>1. Alone(m)
      BY <1>2, <1>3, <1>5 DEF Alone
    <2>2. ResultsAreCommitted'
      BY <1>2, <1>5, NothingLands DEF Rollback
    <2> QED BY <1>1, <1>2, <1>5, <2>1, <2>2, IdleIsTyped, EndStep
  <1> QED BY <1>4, <1>5 DEF CallToolEnds, At

-----------------------------------------------------------------------------
(***************************************************************************)
(* The invariant.                                                          *)
(***************************************************************************)
LEMMA InitTyped == Init => TypeOK
  <1> SUFFICES ASSUME Init PROVE TypeOK
    OBVIOUS
  <1> DEFINE by(x) == IF x \in Tombstones THEN Deleted ELSE Before
             tags == {Row(Tag(x), by(x)) : x \in OldTags}
             items == {Row(Item(c), Before) : c \in Contents}
  <1>1. db = tags \cup items
    BY DEF Init
  <1>2. IsFiniteSet(tags)
    <2> DEFINE f == [x \in OldTags |-> Row(Tag(x), by(x))]
    <2>1. tags = {f[x] : x \in OldTags} /\ DOMAIN f = OldTags /\ IsFiniteSet(OldTags)
      BY DataAssumption
    <2> HIDE DEF f, tags
    <2> QED BY ONLY <2>1, ImageFinite
  <1>3. IsFiniteSet(items)
    <2> DEFINE f == [c \in Contents |-> Row(Item(c), Before)]
    <2>1. items = {f[c] : c \in Contents} /\ DOMAIN f = Contents /\ IsFiniteSet(Contents)
      BY DataAssumption
    <2> HIDE DEF f, items
    <2> QED BY ONLY <2>1, ImageFinite
  <1>4. tags \subseteq Rows
    <2>1. \A x \in OldTags : Tag(x) \in Key
      BY KeyOf, DataAssumption
    <2> QED BY <2>1 DEF Row, Rows
  <1>5. items \subseteq Rows
    <2>1. \A c \in Contents : Item(c) \in Key
      BY KeyOf DEF Items
    <2> QED BY <2>1 DEF Row, Rows
  <1> HIDE DEF tags, items
  <1>6. db \subseteq Rows /\ IsFiniteSet(db)
    BY <1>1, <1>2, <1>3, <1>4, <1>5, FS_Union
  <1>7. /\ written \in [Actors -> SUBSET Rows] /\ \A a \in Actors : IsFiniteSet(written[a])
        /\ removed \in [Actors -> SUBSET Links]
    BY FS_EmptySet DEF Init
  <1>8. tx \in [Actors -> Transaction]
    BY IdleIsTyped DEF Init
  <1>9. agent \in [Agents -> Exchange]
    <2>1. NewExchange \in Exchange
      BY CapsAssumption DEF NewExchange, Exchange
    <2> QED BY <2>1 DEF Init
  <1>10. caller \in [Callers -> [calls : 0..MaxCallerCalls, ok : SUBSET (1..MaxCallerCalls)]]
    BY CapsAssumption DEF Init
  <1> QED BY <1>6, <1>7, <1>8, <1>9, <1>10 DEF TypeOK, Init

LEMMA InitSafe == Init => ToolInv
  <1> SUFFICES ASSUME Init PROVE ToolInv
    OBVIOUS
  <1>1. \A a \in Actors : tx[a] = Idle /\ written[a] = {} /\ removed[a] = {} /\ Held(a) = {}
    BY DEF Init, Held, Keys
  <1>2. \A a \in Agents : agent[a] = NewExchange
    BY DEF Init
  <1>3. SessionInv
    BY <1>1, <1>2, IdleIsTyped DEF SessionInv, SessionOf, NewExchange
  <1>4. CapInv
    BY <1>2, CapsAssumption DEF CapInv, CapOf, NewExchange
  <1>5. StageInv
    BY <1>1, IdleIsTyped DEF StageInv, StageOf, Working
  <1>6. \A r \in db : \/ \E x \in OldTags : r = Row(Tag(x), IF x \in Tombstones THEN Deleted ELSE Before)
                      \/ \E c \in Contents : r = Row(Item(c), Before)
    BY DEF Init
  <1>7. OneEach(db)
    <2> SUFFICES ASSUME NEW r \in db, NEW s \in db, r.key = s.key
                 PROVE  r = s
      BY DEF OneEach
    <2>1. CASE \E x \in OldTags : r = Row(Tag(x), IF x \in Tombstones THEN Deleted ELSE Before)
      <3>1. PICK x \in OldTags : r = Row(Tag(x), IF x \in Tombstones THEN Deleted ELSE Before)
        BY <2>1
      <3>2. s.key = <<"tag", x>>
        BY <3>1 DEF Row, Tag
      <3>3. PICK y \in OldTags : s = Row(Tag(y), IF y \in Tombstones THEN Deleted ELSE Before)
        BY <1>6, <3>2 DEF Row, Item
      <3>4. x = y
        BY <3>2, <3>3 DEF Row, Tag
      <3> QED BY <3>1, <3>3, <3>4
    <2>2. CASE \E c \in Contents : r = Row(Item(c), Before)
      <3>1. PICK c \in Contents : r = Row(Item(c), Before)
        BY <2>2
      <3>2. s.key = <<"item", c>>
        BY <3>1 DEF Row, Item
      <3>3. PICK d \in Contents : s = Row(Item(d), Before)
        BY <1>6, <3>2 DEF Row, Tag
      <3>4. c = d
        BY <3>2, <3>3 DEF Row, Item
      <3> QED BY <3>1, <3>3, <3>4
    <2> QED BY <1>6, <2>1, <2>2
  <1>8. KeysInv
    BY <1>1, <1>7 DEF KeysInv, OneEach
  <1>9. \A r \in db : r.key[1] # "link"
    BY <1>6 DEF Row, Tag, Item
  <1>10. LinksInv
    BY <1>1, <1>9, IdleIsTyped DEF LinksInv, LinksReachTags, LinksOfSession, Working
  <1>11. TalkInv
    <2>1. TalkOf(NewExchange)
      BY DEF TalkOf, NewExchange
    <2> QED BY <1>2, <2>1 DEF TalkInv
  <1>12. ResultsAreCommitted
    BY <1>2 DEF Init, ResultsAreCommitted, NewExchange
  <1> QED BY <1>3, <1>4, <1>5, <1>8, <1>10, <1>11, <1>12 DEF ToolInv

LEMMA NextKeeps == TypeOK /\ ToolInv /\ [Next]_vars => TypeOK' /\ ToolInv'
  <1> SUFFICES ASSUME TypeOK, ToolInv, [Next]_vars PROVE TypeOK' /\ ToolInv'
    OBVIOUS
  <1>1. CASE UNCHANGED vars
    <2>1. UNCHANGED <<db, written, removed, landed, tx, agent, caller>>
      BY <1>1 DEF vars, store
    <2>2. TypeOK'
      BY <2>1 DEF TypeOK
    <2>3. SessionInv' /\ CapInv' /\ StageInv' /\ TalkInv'
      BY <2>1 DEF ToolInv, SessionInv, SessionOf, Number, Escaped, Held, CapInv, CapOf,
                  StageInv, StageOf, TalkInv
    <2>4. KeysInv' /\ LinksReachTags'
      BY <2>1, StoreKeeps DEF ToolInv, store
    <2>5. LinksInv' /\ ResultsAreCommitted'
      BY <2>1, <2>4 DEF ToolInv, LinksInv, LinksOfSession, Working, ResultsAreCommitted
    <2> QED BY <2>2, <2>3, <2>4, <2>5 DEF ToolInv
  <1>2. ASSUME NEW a \in Agents, AgentStep(a) \/ Disconnect(a)
        PROVE  TypeOK' /\ ToolInv'
    BY <1>2, NextQueuedKeeps, AnswerCallsKeeps, AnswerTextKeeps, FinishKeeps,
       ProviderFailsKeeps, StartToolKeeps, ToolSucceedsKeeps, ToolFailsKeeps, ToolRaisesKeeps,
       RollbackAfterErrorKeeps, DisconnectKeeps DEF AgentStep
  <1>3. ASSUME NEW m \in Callers, CallTool(m) \/ CallToolEnds(m)
        PROVE  TypeOK' /\ ToolInv'
    BY <1>3, CallToolKeeps, CallToolEndsKeeps
  <1>4. ASSUME NEW a \in Actors, ToolStep(a)
        PROVE  TypeOK' /\ ToolInv'
    BY <1>4, ToolStepKeeps
  <1> QED BY <1>1, <1>2, <1>3, <1>4 DEF Next

\* Every variable of the tools and of those who call them stays in its range.
THEOREM ToolTypes == Spec => []TypeOK
  <1>1. Init => TypeOK /\ ToolInv
    BY InitTyped, InitSafe
  <1> QED BY <1>1, NextKeeps, PTL DEF Spec

\* Sessions hold rows of their current call, no two of them the same key, and
\* link to live tags only; exchanges stay within their cap.
THEOREM ToolSafety == Spec => []ToolInv
  <1>1. Init => TypeOK /\ ToolInv
    BY InitTyped, InitSafe
  <1> QED BY <1>1, NextKeeps, PTL DEF Spec

\* What a client is told about a call is what was committed, whatever sessions
\* collide, deadlock, fail or are left.
THEOREM ToldIsCommitted == Spec => []ResultsAreCommitted
  <1>1. ToolInv => ResultsAreCommitted
    BY DEF ToolInv
  <1> QED BY <1>1, ToolSafety, PTL

\* The model is never asked with a call left unanswered.
THEOREM EveryCallAnswered == Spec => []ConversationAnswered
  <1>1. TypeOK /\ ToolInv => ConversationAnswered
    <2> SUFFICES ASSUME TypeOK, ToolInv, NEW a \in Agents, agent[a].pc = "ask",
                        NEW i \in DOMAIN agent[a].conversation,
                        agent[a].conversation[i][1] = "call"
                 PROVE  /\ i < Len(agent[a].conversation)
                        /\ agent[a].conversation[i + 1] = <<"answer", agent[a].conversation[i][2]>>
      BY DEF ConversationAnswered
    <2> DEFINE talk == agent[a].conversation
    <2>1. talk \in Talk /\ TalkOf(agent[a])
      BY ExchangeOf
    <2>2. i \in 1..Len(talk) /\ Len(talk) \in Nat /\ talk # << >>
      BY <2>1 DEF Talk
    <2>3. i # Len(talk)
      BY <2>1, <2>2 DEF TalkOf
    <2>4. i < Len(talk)
      BY ONLY <2>2, <2>3
    <2> QED BY <2>1, <2>2, <2>4 DEF TalkOf
  <1> QED BY <1>1, ToolTypes, ToolSafety, PTL

\* No committed link refers to a tag that is missing or soft-deleted.
THEOREM LinkedTagsLive == Spec => []LinksReachTags
  <1>1. ToolInv => LinksReachTags
    BY DEF ToolInv, LinksInv
  <1> QED BY <1>1, ToolSafety, PTL

-----------------------------------------------------------------------------
(***************************************************************************)
(* The cap: calls is the number of attempts the conversation has.          *)
(***************************************************************************)
CallsIn(talk) == {i \in DOMAIN talk : talk[i][1] = "call"}
CountOf(g) == IsFiniteSet(CallsIn(g.conversation))
                /\ Cardinality(CallsIn(g.conversation)) = g.calls
CountInv == \A a \in Agents : CountOf(agent[a])

\* What a step adds to a conversation, and to the number of its calls.
Adds(h, g) ==
    \/ g.conversation = h.conversation /\ g.calls = h.calls
    \/ \E kind \in {"answer", "text"}, n \in Nat :
           g.conversation = Append(h.conversation, <<kind, n>>) /\ g.calls = h.calls
    \/ g.conversation = Append(h.conversation, <<"call", h.calls + 1>>) /\ g.calls = h.calls + 1

LEMMA CallsInAppended ==
    ASSUME NEW talk \in Talk, NEW kind \in {"call", "answer", "text"}, NEW n \in Nat
    PROVE  CallsIn(Append(talk, <<kind, n>>))
             = IF kind = "call" THEN CallsIn(talk) \cup {Len(talk) + 1} ELSE CallsIn(talk)
  <1> DEFINE new == Append(talk, <<kind, n>>)
  <1>1. /\ DOMAIN talk = 1..Len(talk) /\ DOMAIN new = 1..(Len(talk) + 1) /\ Len(talk) \in Nat
        /\ new[Len(talk) + 1] = <<kind, n>> /\ \A i \in 1..Len(talk) : new[i] = talk[i]
    BY DEF Talk
  <1>2. <<kind, n>>[1] = kind
    OBVIOUS
  <1> HIDE DEF new
  <1>3. \A i : i \in 1..(Len(talk) + 1) <=> i \in 1..Len(talk) \/ i = Len(talk) + 1
    BY <1>1
  <1>4. CallsIn(new) = IF kind = "call" THEN CallsIn(talk) \cup {Len(talk) + 1} ELSE CallsIn(talk)
    BY <1>1, <1>2, <1>3 DEF CallsIn
  <1> QED BY <1>4 DEF new

LEMMA CountKept ==
    ASSUME NEW h, NEW g, h.conversation \in Talk, h.calls \in Nat, CountOf(h), Adds(h, g)
    PROVE  CountOf(g)
  <1>1. CASE g.conversation = h.conversation /\ g.calls = h.calls
    BY <1>1 DEF CountOf
  <1>2. CASE \E kind \in {"answer", "text"}, n \in Nat :
                g.conversation = Append(h.conversation, <<kind, n>>) /\ g.calls = h.calls
    <2>1. PICK kind \in {"answer", "text"}, n \in Nat :
                g.conversation = Append(h.conversation, <<kind, n>>) /\ g.calls = h.calls
      BY <1>2
    <2>2. CallsIn(g.conversation) = CallsIn(h.conversation)
      BY <2>1, CallsInAppended
    <2> QED BY <2>1, <2>2 DEF CountOf
  <1>3. CASE /\ g.conversation = Append(h.conversation, <<"call", h.calls + 1>>)
             /\ g.calls = h.calls + 1
    <2>1. CallsIn(g.conversation) = CallsIn(h.conversation) \cup {Len(h.conversation) + 1}
      BY <1>3, CallsInAppended
    <2>2. Len(h.conversation) + 1 \notin CallsIn(h.conversation)
      BY DEF CallsIn, Talk
    <2> DEFINE old == CallsIn(h.conversation)
    <2>3. IsFiniteSet(old) /\ Cardinality(old) = h.calls
      BY DEF CountOf
    <2> HIDE DEF old
    <2>4. /\ IsFiniteSet(old \cup {Len(h.conversation) + 1})
          /\ Cardinality(old \cup {Len(h.conversation) + 1}) = h.calls + 1
      <3>1. Len(h.conversation) + 1 \notin old
        BY <2>2 DEF old
      <3> QED BY <2>3, <3>1, FS_AddElement
    <2> QED BY <1>3, <2>1, <2>4 DEF CountOf, old
  <1> QED BY <1>1, <1>2, <1>3 DEF Adds

LEMMA AttemptAdds ==
    ASSUME TypeOK, NEW a \in Agents, NEW h \in Exchange, h.calls = agent[a].calls,
           h.conversation = agent[a].conversation, NEW call, NEW rest, Attempt(a, h, call, rest)
    PROVE  Adds(agent[a], agent'[a])
  <1>1. agent \in [Agents -> Exchange]
    BY DEF TypeOK
  <1>2. CASE call.tool = "garbled"
    <2>1. agent'[a] = [h EXCEPT !.queue = rest, !.pc = "escaped", !.end = "error"]
      BY <1>1, <1>2 DEF Attempt, Set
    <2>2. agent'[a].conversation = h.conversation /\ agent'[a].calls = h.calls
      BY ONLY <2>1, h \in Exchange DEF Exchange
    <2> QED BY <2>2 DEF Adds
  <1>3. CASE call.tool # "garbled"
    <2>1. agent'[a] = [h EXCEPT !.queue = rest, !.pc = "announced", !.calls = h.calls + 1,
                                !.conversation = Append(h.conversation, <<"call", h.calls + 1>>)]
      BY <1>1, <1>3 DEF Attempt, Set
    <2>2. /\ agent'[a].conversation = Append(h.conversation, <<"call", h.calls + 1>>)
          /\ agent'[a].calls = h.calls + 1
      BY ONLY <2>1, h \in Exchange DEF Exchange
    <2> QED BY <2>2 DEF Adds
  <1> QED BY <1>2, <1>3

\* The end of a call leaves the conversation as it is, once it is answered.
LEMMA ProceedsAdds ==
    ASSUME NEW g \in Exchange
    PROVE  Proceed(g).conversation = g.conversation /\ Proceed(g).calls = g.calls
  BY DEF Proceed, Ended, Exchange

LEMMA AnsweredAdds ==
    ASSUME TypeOK, ToolInv, NEW a \in Agents,
           NEW g, g = [Answered(agent[a]) EXCEPT !.failures = 0,
                           !.events = agent[a].events \cup {agent[a].calls}]
                  \/ g = [Answered(agent[a]) EXCEPT !.failures = 1, !.told = FALSE]
    PROVE  Adds(agent[a], Proceed(g))
  <1> DEFINE talk == Append(agent[a].conversation, <<"answer", agent[a].calls>>)
  <1>1. agent[a] \in Exchange /\ agent[a].calls \in Nat
    BY ExchangeOf
  <1>2. Answered(agent[a]) = [agent[a] EXCEPT !.conversation = talk]
    BY DEF Answered
  <1> HIDE DEF talk
  <1>3. /\ Proceed(g) = [g EXCEPT !.pc = "ended", !.end = "done"]
           \/ Proceed(g) = [g EXCEPT !.pc = "ask"]
    BY DEF Proceed, Ended
  <1>4. g.conversation = talk /\ g.calls = agent[a].calls /\ DOMAIN g = DOMAIN agent[a]
    BY ONLY <1>1, <1>2, g = [Answered(agent[a]) EXCEPT !.failures = 0,
                                !.events = agent[a].events \cup {agent[a].calls}]
                        \/ g = [Answered(agent[a]) EXCEPT !.failures = 1, !.told = FALSE]
       DEF Exchange
  <1>5. Proceed(g).conversation = talk /\ Proceed(g).calls = agent[a].calls
    BY ONLY <1>1, <1>3, <1>4 DEF Exchange
  <1> QED BY <1>1, <1>5 DEF Adds, talk

LEMMA StepAdds ==
    ASSUME TypeOK, ToolInv, NEW a \in Agents, AgentStep(a) \/ Disconnect(a)
    PROVE  /\ Adds(agent[a], agent'[a])
           /\ \A b \in Agents \ {a} : agent'[b] = agent[b]
  <1>1. /\ agent \in [Agents -> Exchange] /\ agent[a] \in Exchange /\ agent[a].calls \in Nat
        /\ agent[a].conversation \in Talk
    BY ExchangeOf DEF TypeOK
  <1>2. CASE \E g : Set(a, g) /\ Adds(agent[a], g)
    BY <1>1, <1>2 DEF Set
  <1>3. CASE NextQueued(a) \/ AnswerCalls(a)
    <2>1. PICK h, call, rest :
              /\ h = Stepped(a) \/ h = [Stepped(a) EXCEPT !.told = TRUE]
              /\ Attempt(a, h, call, rest)
      BY <1>3 DEF NextQueued, AnswerCalls
    <2>2. h \in Exchange /\ h.calls = agent[a].calls /\ h.conversation = agent[a].conversation
      <3>1. /\ Stepped(a) \in Exchange /\ Stepped(a).conversation = agent[a].conversation
            /\ Stepped(a).calls = agent[a].calls
        BY Steps
      <3> QED BY ONLY <2>1, <3>1 DEF Exchange
    <2>3. \E g : Set(a, g)
      BY <2>1 DEF Attempt
    <2> QED BY <1>1, <2>1, <2>2, <2>3, AttemptAdds DEF Set
  <1>4. CASE Finish(a)
    <2>1. PICK how \in {"done", "limit"} : Set(a, Ended(Stepped(a), how))
      BY <1>4 DEF Finish
    <2>2. /\ Ended(Stepped(a), how).conversation = agent[a].conversation
          /\ Ended(Stepped(a), how).calls = agent[a].calls
      BY Steps, Ends
    <2> QED BY <1>2, <2>1, <2>2 DEF Adds
  <1>5. CASE AnswerText(a)
    <2> DEFINE talk == Append(agent[a].conversation, <<"text", 0>>)
               g == [Stepped(a) EXCEPT !.finished = TRUE, !.told = TRUE, !.conversation = talk]
    <2>1. /\ Stepped(a) \in Exchange /\ Stepped(a).conversation = agent[a].conversation
          /\ Stepped(a).calls = agent[a].calls
      BY Steps
    <2>2. Set(a, g)
      BY <1>5, <2>1 DEF AnswerText
    <2> HIDE DEF talk
    <2>3. g.conversation = talk /\ g.calls = agent[a].calls
      BY ONLY <2>1 DEF Exchange
    <2>4. Adds(agent[a], g)
      BY <2>3 DEF Adds, talk
    <2> QED BY <1>2, <2>2, <2>4
  <1>6. CASE ProviderFails(a)
    <2> DEFINE g == [Stepped(a) EXCEPT !.pc = "escaped", !.end = "error"]
    <2>1. /\ Stepped(a) \in Exchange /\ Stepped(a).conversation = agent[a].conversation
          /\ Stepped(a).calls = agent[a].calls
      BY Steps
    <2>2. g.conversation = agent[a].conversation /\ g.calls = agent[a].calls
      BY ONLY <2>1 DEF Exchange
    <2>3. Adds(agent[a], g) /\ Set(a, g)
      BY <1>6, <2>2 DEF ProviderFails, Adds
    <2> QED BY <1>2, <2>3
  <1>7. CASE StartTool(a) \/ ToolRaises(a) \/ RollbackAfterError(a)
    <2>1. PICK g \in {[agent[a] EXCEPT !.pc = "tool"], [agent[a] EXCEPT !.pc = "ended"],
                      [agent[a] EXCEPT !.pc = "escaped", !.end = "error"]} : Set(a, g)
      BY <1>7 DEF StartTool, ToolRaises, RollbackAfterError
    <2>2. g.conversation = agent[a].conversation /\ g.calls = agent[a].calls
      BY ONLY <1>1, <2>1 DEF Exchange
    <2> QED BY <1>2, <2>1, <2>2 DEF Adds
  <1>8. CASE ToolSucceeds(a)
    <2> DEFINE g == [Answered(agent[a]) EXCEPT !.failures = 0,
                         !.events = agent[a].events \cup {agent[a].calls}]
    <2>1. Answered(agent[a]).events = agent[a].events
      BY ONLY <1>1 DEF Answered, Exchange
    <2>2. Set(a, Proceed(g))
      BY <1>8, <2>1 DEF ToolSucceeds
    <2> QED BY <1>2, <2>2, AnsweredAdds
  <1>9. CASE ToolFails(a) \/ Disconnect(a)
    <2> DEFINE g == [Answered(agent[a]) EXCEPT !.failures = 1, !.told = FALSE]
    <2>1. \/ Set(a, Ended(agent[a], "failed")) \/ Set(a, Ended(agent[a], "gone"))
          \/ Set(a, Proceed(g))
      BY <1>9 DEF ToolFails, Disconnect
    <2>2. \A how \in {"failed", "gone"} : Adds(agent[a], Ended(agent[a], how))
      BY <1>1, Ends DEF Adds
    <2>3. Adds(agent[a], Proceed(g))
      BY AnsweredAdds
    <2> QED BY <1>2, <2>1, <2>2, <2>3
  <1> QED BY <1>3, <1>4, <1>5, <1>6, <1>7, <1>8, <1>9 DEF AgentStep

\* No exchange attempts more calls than the cap, failed attempts included and
\* however many calls one answer of the model carries.
THEOREM FailedAttemptsCount == Spec => []AttemptsCapped
  <1>1. Init => CountInv
    <2> SUFFICES ASSUME Init, NEW a \in Agents PROVE CountOf(agent[a])
      BY DEF CountInv
    <2>1. agent[a].conversation = << >> /\ agent[a].calls = 0
      BY DEF Init, NewExchange
    <2>2. CallsIn(<< >>) = {}
      BY DEF CallsIn
    <2> QED BY <2>1, <2>2, FS_EmptySet DEF CountOf
  <1>2. TypeOK /\ ToolInv /\ CountInv /\ [Next]_vars => CountInv'
    <2> SUFFICES ASSUME TypeOK, ToolInv, CountInv, [Next]_vars PROVE CountInv'
      OBVIOUS
    <2>1. CASE agent' = agent
      BY <2>1 DEF CountInv
    <2>2. ASSUME NEW a \in Agents, AgentStep(a) \/ Disconnect(a)
          PROVE  CountInv'
      <3>1. Adds(agent[a], agent'[a]) /\ \A b \in Agents \ {a} : agent'[b] = agent[b]
        BY <2>2, StepAdds
      <3>2. agent[a].conversation \in Talk /\ agent[a].calls \in Nat /\ CountOf(agent[a])
        BY ExchangeOf DEF CountInv
      <3>3. CountOf(agent'[a])
        BY <3>1, <3>2, CountKept
      <3> QED BY <3>1, <3>3 DEF CountInv
    <2>3. ASSUME NEW a \in Actors, ToolStep(a)
          PROVE  CountInv'
      <3>1. SoundStep(a)
        BY <2>3, ToolStepIsSound DEF ToolInv
      <3> QED BY <3>1, <2>1 DEF SoundStep, Moved
    <2>4. CASE UNCHANGED vars \/ \E m \in Callers : CallTool(m) \/ CallToolEnds(m)
      BY <2>1, <2>4 DEF vars, CallTool, CallToolEnds
    <2> QED BY <2>2, <2>3, <2>4 DEF Next
  <1>3. TypeOK /\ CountInv => AttemptsCapped
    <2> SUFFICES ASSUME TypeOK, CountInv, NEW a \in Agents PROVE Attempts(a) <= MaxToolCalls
      BY DEF AttemptsCapped
    <2>1. agent[a] \in Exchange
      BY DEF TypeOK
    <2>2. agent[a].calls \in 0..MaxToolCalls
      BY ONLY <2>1 DEF Exchange
    <2>3. Attempts(a) = agent[a].calls
      BY DEF CountInv, CountOf, CallsIn, Attempts
    <2> QED BY <2>2, <2>3, CapsAssumption
  <1> QED BY <1>1, <1>2, <1>3, ToolTypes, ToolSafety, PTL DEF Spec

(***************************************************************************)
(* The limit on the steps: a step that asks again has used up an attempt,  *)
(* or was the text.                                                        *)
(***************************************************************************)
SpentOf(g) ==
    /\ g.end # "limit"
    /\ g.pc = "ask" => g.calls < MaxToolCalls
    /\ g.pc \in {"ask", "announced", "tool"} => g.steps <= g.calls + (IF g.finished THEN 1 ELSE 0)
    /\ g.pc \in {"announced", "tool"} => ~g.finished
SpentInv == \A a \in Agents : SpentOf(agent[a])

LEMMA StepSpends ==
    ASSUME TypeOK, SpentInv, MaxSteps > MaxToolCalls,
           NEW a \in Agents, AgentStep(a) \/ Disconnect(a)
    PROVE  /\ SpentOf(agent'[a])
           /\ \A b \in Agents \ {a} : agent'[b] = agent[b]
  <1>1. /\ agent \in [Agents -> Exchange] /\ agent[a] \in Exchange /\ SpentOf(agent[a])
        /\ MaxToolCalls \in Nat /\ MaxSteps \in Nat
    BY CapsAssumption DEF TypeOK, SpentInv
  <1>a. /\ agent[a].calls \in 0..MaxToolCalls /\ agent[a].steps \in Nat
        /\ agent[a].finished \in BOOLEAN
    BY ONLY <1>1 DEF Exchange
  <1>b. Stepped(a) = [agent[a] EXCEPT !.steps = agent[a].steps + 1]
    BY DEF Stepped
  <1>2. CASE \E g : Set(a, g) /\ SpentOf(g)
    BY <1>1, <1>2 DEF Set
  <1>3. CASE NextQueued(a) \/ AnswerCalls(a)
    <2>1. PICK h, call, rest : /\ h \in {Stepped(a), [Stepped(a) EXCEPT !.told = TRUE]}
                                /\ Attempt(a, h, call, rest)
      BY <1>3 DEF NextQueued, AnswerCalls
    <2>2. agent[a].pc = "ask" /\ ~agent[a].finished
      BY <1>3 DEF NextQueued, AnswerCalls, Asking, Querying
    <2>3. /\ h.steps = agent[a].steps + 1 /\ h.calls = agent[a].calls
          /\ h.finished = agent[a].finished /\ h \in Exchange
      <3>1. agent[a].steps + 1 \in Nat
        BY ONLY <1>a
      <3>2. /\ Stepped(a).steps = agent[a].steps + 1 /\ Stepped(a).calls = agent[a].calls
            /\ Stepped(a).finished = agent[a].finished /\ Stepped(a) \in Exchange
        BY ONLY <1>1, <1>b, <3>1 DEF Exchange
      <3>3. CASE h = Stepped(a)
        BY ONLY <3>2, <3>3
      <3>4. CASE h = [Stepped(a) EXCEPT !.told = TRUE]
        BY ONLY <3>2, <3>4 DEF Exchange
      <3> QED BY <2>1, <3>3, <3>4
    <2> DEFINE talk == Append(h.conversation, <<"call", h.calls + 1>>)
               one == [h EXCEPT !.queue = rest, !.pc = "escaped", !.end = "error"]
               two == [h EXCEPT !.queue = rest, !.pc = "announced", !.calls = h.calls + 1,
                                !.conversation = talk]
    <2>4. Set(a, one) \/ Set(a, two)
      BY <2>1 DEF Attempt
    <2> HIDE DEF talk
    <2>5. one.pc = "escaped" /\ one.end = "error"
      BY ONLY <2>3 DEF Exchange
    <2>6. /\ two.pc = "announced" /\ two.end = agent[a].end /\ two.calls = agent[a].calls + 1
          /\ two.steps = agent[a].steps + 1 /\ two.finished = agent[a].finished
      BY ONLY <2>1, <2>3, <1>1, <1>b DEF Exchange
    <2> HIDE DEF one, two
    <2>7. SpentOf(one) /\ SpentOf(two)
      BY <1>1, <1>a, <2>2, <2>5, <2>6 DEF SpentOf
    <2> QED BY <1>2, <2>4, <2>7
  <1>4. CASE Finish(a)
    <2>1. agent[a].pc = "ask" /\ ~(agent[a].steps >= MaxSteps)
      BY <1>1, <1>a, <1>4 DEF Finish, SpentOf
    <2>2. Set(a, Ended(Stepped(a), "done"))
      BY <1>4, <2>1 DEF Finish
    <2>3. Ended(Stepped(a), "done").pc = "ended" /\ Ended(Stepped(a), "done").end = "done"
      BY ONLY <1>1, <1>a, <1>b DEF Exchange, Ended
    <2> QED BY <1>2, <2>2, <2>3 DEF SpentOf
  <1>5. CASE AnswerText(a)
    <2> DEFINE talk == Append(Stepped(a).conversation, <<"text", 0>>)
               g == [Stepped(a) EXCEPT !.finished = TRUE, !.told = TRUE, !.conversation = talk]
    <2>1. Set(a, g) /\ agent[a].pc = "ask" /\ ~agent[a].finished
      BY <1>5 DEF AnswerText, Asking, Querying
    <2> HIDE DEF talk
    <2>2. /\ g.pc = agent[a].pc /\ g.end = agent[a].end /\ g.calls = agent[a].calls
          /\ g.steps = agent[a].steps + 1 /\ g.finished = TRUE
      BY ONLY <1>1, <1>a, <1>b DEF Exchange
    <2> HIDE DEF g
    <2>3. SpentOf(g)
      BY <1>1, <1>a, <2>1, <2>2 DEF SpentOf
    <2> QED BY <1>2, <2>1, <2>3
  <1>6. CASE ProviderFails(a) \/ ToolRaises(a) \/ RollbackAfterError(a)
    <2>1. PICK g \in {[Stepped(a) EXCEPT !.pc = "escaped", !.end = "error"],
                      [agent[a] EXCEPT !.pc = "escaped", !.end = "error"],
                      [agent[a] EXCEPT !.pc = "ended"]} : Set(a, g)
      BY <1>6 DEF ProviderFails, ToolRaises, RollbackAfterError
    <2>2. g.pc \in {"escaped", "ended"} /\ g.end \in {"error", agent[a].end}
      BY ONLY <1>1, <1>a, <1>b, <2>1 DEF Exchange
    <2> QED BY <1>1, <1>2, <2>1, <2>2 DEF SpentOf
  <1>7. CASE StartTool(a)
    <2> DEFINE g == [agent[a] EXCEPT !.pc = "tool"]
    <2>1. Set(a, g) /\ agent[a].pc = "announced"
      BY <1>7 DEF StartTool
    <2>2. /\ g.pc = "tool" /\ g.end = agent[a].end /\ g.calls = agent[a].calls
          /\ g.steps = agent[a].steps /\ g.finished = agent[a].finished
      BY ONLY <1>1 DEF Exchange
    <2> HIDE DEF g
    <2>3. SpentOf(g)
      BY <1>1, <2>1, <2>2 DEF SpentOf
    <2> QED BY <1>2, <2>1, <2>3
  <1>8. CASE ToolSucceeds(a) \/ ToolFails(a)
    <2> DEFINE talk == Append(agent[a].conversation, <<"answer", agent[a].calls>>)
               told == [agent[a] EXCEPT !.conversation = talk]
               done == told.events \cup {agent[a].calls}
    <2>1. PICK g \in {[told EXCEPT !.failures = 0, !.events = done],
                      [told EXCEPT !.failures = 1, !.told = FALSE]} :
              Set(a, Ended(agent[a], "failed")) \/ Set(a, Proceed(g))
      BY <1>8 DEF ToolSucceeds, ToolFails, Answered
    <2> HIDE DEF talk, done
    <2>2. /\ g.calls = agent[a].calls /\ g.steps = agent[a].steps
          /\ g.finished = agent[a].finished /\ g.end = agent[a].end
          /\ DOMAIN g = DOMAIN agent[a]
      BY ONLY <1>1, <2>1 DEF Exchange
    <2>3. DOMAIN agent[a] = {"pc", "steps", "calls", "failures", "queue", "finished",
                             "conversation", "events", "end", "told"}
      BY ONLY <1>1 DEF Exchange
    <2>4. agent[a].pc = "tool"
      BY <1>8 DEF ToolSucceeds, ToolFails
    <2>5. SpentOf(Proceed(g))
      <3>1. CASE g.calls >= MaxToolCalls
        <4>1. Proceed(g) = [g EXCEPT !.pc = "ended", !.end = "done"]
          BY <3>1 DEF Proceed, Ended
        <4>2. Proceed(g).pc = "ended" /\ Proceed(g).end = "done"
          BY ONLY <2>2, <2>3, <4>1
        <4> QED BY <4>2 DEF SpentOf
      <3>2. CASE ~(g.calls >= MaxToolCalls)
        <4>1. Proceed(g) = [g EXCEPT !.pc = "ask"]
          BY <3>2 DEF Proceed
        <4>2. /\ Proceed(g).pc = "ask" /\ Proceed(g).end = agent[a].end
              /\ Proceed(g).calls = agent[a].calls /\ Proceed(g).steps = agent[a].steps
              /\ Proceed(g).finished = agent[a].finished
          BY ONLY <2>2, <2>3, <4>1
        <4> QED BY <1>1, <1>a, <2>2, <2>4, <3>2, <4>2 DEF SpentOf
      <3> QED BY <3>1, <3>2
    <2>6. SpentOf(Ended(agent[a], "failed"))
      BY <1>1, Ends DEF SpentOf, Ended, Exchange
    <2> QED BY <1>2, <2>1, <2>5, <2>6
  <1>9. CASE Disconnect(a)
    <2>1. Set(a, Ended(agent[a], "gone"))
      BY <1>9 DEF Disconnect
    <2>2. Ended(agent[a], "gone").pc = "ended" /\ Ended(agent[a], "gone").end = "gone"
      BY ONLY <1>1 DEF Exchange, Ended
    <2> QED BY <1>2, <2>1, <2>2 DEF SpentOf
  <1> QED BY <1>3, <1>4, <1>5, <1>6, <1>7, <1>8, <1>9 DEF AgentStep

\* With a limit above the cap no exchange comes to the limit on the steps,
\* whatever the model answers: each step uses an attempt, or is the last but one.
THEOREM LimitIsIdle == Spec => []StepLimitUnreached
  <1>1. ASSUME MaxSteps > MaxToolCalls
        PROVE  Init => SpentInv
    <2> SUFFICES ASSUME Init, NEW a \in Agents PROVE SpentOf(agent[a])
      BY DEF SpentInv
    <2>1. /\ agent[a].pc = "ask" /\ agent[a].steps = 0 /\ agent[a].calls = 0
          /\ agent[a].end = "open" /\ agent[a].finished = FALSE
      BY DEF Init, NewExchange
    <2> QED BY <2>1, CapsAssumption DEF SpentOf
  <1>2. ASSUME MaxSteps > MaxToolCalls
        PROVE  TypeOK /\ ToolInv /\ SpentInv /\ [Next]_vars => SpentInv'
    <2> SUFFICES ASSUME TypeOK, ToolInv, SpentInv, [Next]_vars PROVE SpentInv'
      OBVIOUS
    <2>1. CASE agent' = agent
      BY <2>1 DEF SpentInv
    <2>2. ASSUME NEW a \in Agents, AgentStep(a) \/ Disconnect(a)
          PROVE  SpentInv'
      <3>1. SpentOf(agent'[a]) /\ \A b \in Agents \ {a} : agent'[b] = agent[b]
        BY <1>2, <2>2, StepSpends
      <3> QED BY <3>1 DEF SpentInv
    <2>3. ASSUME NEW a \in Actors, ToolStep(a)
          PROVE  SpentInv'
      <3>1. SoundStep(a)
        BY <2>3, ToolStepIsSound DEF ToolInv
      <3> QED BY <3>1, <2>1 DEF SoundStep, Moved
    <2>4. CASE UNCHANGED vars \/ \E m \in Callers : CallTool(m) \/ CallToolEnds(m)
      BY <2>1, <2>4 DEF vars, CallTool, CallToolEnds
    <2> QED BY <2>2, <2>3, <2>4 DEF Next
  <1>3. SpentInv => StepLimitUnreached
    BY DEF SpentInv, SpentOf, StepLimitUnreached
  <1>4. CASE MaxSteps > MaxToolCalls
    <2>1. Init => SpentInv
      BY <1>1, <1>4
    <2>2. TypeOK /\ ToolInv /\ SpentInv /\ [Next]_vars => SpentInv'
      BY <1>2, <1>4
    <2> QED BY <2>1, <2>2, <1>3, ToolTypes, ToolSafety, PTL DEF Spec
  <1>5. CASE ~(MaxSteps > MaxToolCalls)
    <2>1. StepLimitUnreached
      BY <1>5 DEF StepLimitUnreached
    <2> QED BY <2>1, PTL
  <1> QED BY <1>4, <1>5
=============================================================================
