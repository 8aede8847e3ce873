--------------------------- MODULE ProposalsProofs ---------------------------
(***************************************************************************)
(* What the improvement loop guarantees for any number of proposals,       *)
(* questions, requests and runs.                                           *)
(***************************************************************************)
EXTENDS Proposals, FiniteSetTheorems, WellFoundedInduction, TLAPS

\* The stamps of an article lie in the past; a published one was published once.
ArticleInv ==
    \A a \in Articles : /\ article[a].updated_at <= clock
                        /\ article[a].status = "published" => article[a].published_at # 0

\* A run is recorded after everything its corpus holds was written.
RunsInv ==
    /\ IsFiniteSet(runs) /\ IsFiniteSet(harness.pending)
    /\ \A r \in runs \cup harness.pending : r.corpus_at < r.at /\ r.at <= clock

\* The fix of a proposal is published after the proposal is made, and nothing is
\* known of one that is not.
FixInv ==
    \A p \in ProposalIds :
        /\ proposal[p].status = "absent" =>
              proposal[p] = NoProposal /\ article[p].status = "absent"
                                       /\ article[p].published_at = 0
        /\ proposal[p].created_at <= clock
        /\ article[p].published_at # 0 => proposal[p].created_at < article[p].published_at
        /\ proposal[p].before # NoRun => proposal[p].before.at < proposal[p].created_at
        /\ proposal[p].status = "proposed" => proposal[p].after = NoRun

\* What a request t will write into its article.
WritesInv(t) ==
    /\ "updated_at" \in DOMAIN t.set => t.set["updated_at"] <= clock
    /\ "published_at" \in DOMAIN t.set =>
          /\ t.set["published_at"] # 0
          /\ t.id \in ProposalIds => proposal[t.id].created_at < t.set["published_at"]
    /\ "status" \in DOMAIN t.set /\ t.set["status"] = "published" =>
          "published_at" \in DOMAIN t.set \/ article[t.id].published_at # 0

\* What it will write into its proposal.
DecidesInv(t) ==
    /\ t.id \in ProposalIds /\ t.op # "propose" => proposal[t.id].status # "absent"
    /\ t.op \notin {"propose", "accept", "reject"} => t.decide = Nothing
    /\ t.op = "reject" => /\ t.id \in ProposalIds
                          /\ DOMAIN t.decide \subseteq {"status", "draft_status_after"}
                          /\ "status" \in DOMAIN t.decide
                          /\ t.decide["status"] = "rejected"
    /\ t.op = "accept" =>
          /\ t.set = Nothing
          /\ t.id \in ProposalIds /\ proposal[t.id].before # NoRun
          /\ DOMAIN t.decide = {"status", "after"} /\ t.decide["status"] = "accepted"
          /\ t.decide["after"] # NoRun
          /\ proposal[t.id].created_at < t.decide["after"].at

\* A new proposal and its draft, which nobody has seen.
ProposesInv(t) ==
    t.op = "propose" =>
        /\ t.id \in ProposalIds /\ proposal[t.id].status = "absent"
        /\ "status" \in DOMAIN t.set /\ t.set["status"] = "draft"
        /\ "published_at" \notin DOMAIN t.set
        /\ {"status", "created_at"} \subseteq DOMAIN t.decide
        /\ t.decide["status"] = "proposed" /\ t.decide["created_at"] <= clock
        /\ "after" \notin DOMAIN t.decide
        /\ "before" \in DOMAIN t.decide =>
              t.decide["before"] # NoRun
              /\ t.decide["before"].at < t.decide["created_at"]

RequestInv(t) == WritesInv(t) /\ DecidesInv(t) /\ ProposesInv(t)

\* A proposal is made by one request.
AloneInv ==
    \A s, u \in Sessions :
        s # u /\ Running(s) /\ txn[s].op = "propose" /\ Running(u) => txn[u].id # txn[s].id

LoopInv ==
    /\ ArticleInv
    /\ RunsInv
    /\ FixInv
    /\ EvidenceBracketsProposal
    /\ \A s \in Sessions : Running(s) => RequestInv(txn[s])
    /\ AloneInv

-----------------------------------------------------------------------------
\* A bounded set of numbers has a greatest.
LEMMA Greatest ==
    ASSUME NEW n \in Nat, NEW S \in SUBSET (0..n), S # {}
    PROVE  \E m \in S : \A k \in S : m >= k
<1> DEFINE R == OpToRel(<, Nat)
           T == {n - k : k \in S}
<1>1. IsWellFoundedOn(R, Nat)
  BY NatLessThanWellFounded
<1>2. R = {ss \in Nat \X Nat : ss[1] < ss[2]}
  BY DEF OpToRel
<1>3. \A k \in S : k \in Nat /\ n - k \in Nat
  OBVIOUS
<1>4. T \subseteq Nat /\ T # {}
  BY <1>3
<1> HIDE DEF R
<1>5. PICK x \in T : \A y \in T : <<y, x>> \notin R
  BY <1>1, <1>4, WFMin
<1>6. \A y \in T : ~(y < x)
  BY <1>2, <1>4, <1>5
<1>7. PICK m \in S : x = n - m
  BY <1>5
<1>8. ASSUME NEW k \in S PROVE m >= k
  <2>1. k \in Nat /\ m \in Nat
    BY <1>3
  <2>2. ~(n - k < n - m)
    BY <1>6, <1>7
  <2>3. QED BY <2>1, <2>2
<1>9. QED BY <1>8

\* UPDATE names the columns that changed.
LEMMA ChangedColumns ==
    ASSUME NEW old, NEW new
    PROVE  /\ \A c : c \in DOMAIN Changed(old, new) <=> c \in DOMAIN new /\ old[c] # new[c]
           /\ \A c \in DOMAIN Changed(old, new) : Changed(old, new)[c] = new[c]
BY DEF Changed, Restrict

LEMMA NothingChanged == DOMAIN Nothing = {}
BY DEF Nothing

\* A row with some of its columns written is a row.
LEMMA MergeRow ==
    ASSUME NEW row \in Row, NEW set \in Patches(Row)
    PROVE  /\ Merge(row, set) \in Row
           /\ \A c \in {"status", "is_deleted", "updated_at", "published_at"} :
                 Merge(row, set)[c] = IF c \in DOMAIN set THEN set[c] ELSE row[c]
           /\ "published_at" \in DOMAIN set => set["published_at"] \in Times
<1>1. DOMAIN row = {"status", "is_deleted", "updated_at", "published_at"}
  BY DEF Row
<1>2. Merge(row, set) = [c \in {"status", "is_deleted", "updated_at", "published_at"} |->
                            IF c \in DOMAIN set THEN set[c] ELSE row[c]]
  BY <1>1 DEF Merge
<1>3. CASE set = Nothing
  <2>1. DOMAIN set = {}
    BY <1>3, NothingChanged
  <2>2. QED BY <1>2, <2>1 DEF Row
<1>4. ASSUME NEW old \in Row, NEW new \in Row, set = Changed(old, new)
      PROVE  /\ Merge(row, set) \in Row
             /\ "published_at" \in DOMAIN set => set["published_at"] \in Times
  <2>1. \A c \in DOMAIN set : c \in DOMAIN new /\ set[c] = new[c]
    BY <1>4, ChangedColumns
  <2>2. QED BY <1>2, <2>1 DEF Row
<1>5. QED BY <1>2, <1>3, <1>4 DEF Patches

LEMMA MergeProposal ==
    ASSUME NEW row \in ProposalRow, NEW set \in Patches(ProposalRow)
    PROVE  /\ Merge(row, set) \in ProposalRow
           /\ \A c \in {"status", "created_at", "before", "after", "draft_status_after"} :
                 Merge(row, set)[c] = IF c \in DOMAIN set THEN set[c] ELSE row[c]
<1>1. DOMAIN row = {"status", "created_at", "before", "after", "draft_status_after"}
  BY DEF ProposalRow
<1>2. Merge(row, set) =
          [c \in {"status", "created_at", "before", "after", "draft_status_after"} |->
               IF c \in DOMAIN set THEN set[c] ELSE row[c]]
  BY <1>1 DEF Merge
<1>3. CASE set = Nothing
  <2>1. DOMAIN set = {}
    BY <1>3, NothingChanged
  <2>2. QED BY <1>2, <2>1 DEF ProposalRow
<1>4. ASSUME NEW old \in ProposalRow, NEW new \in ProposalRow, set = Changed(old, new)
      PROVE  Merge(row, set) \in ProposalRow
  <2>1. \A c \in DOMAIN set : c \in DOMAIN new /\ set[c] = new[c]
    BY <1>4, ChangedColumns
  <2>2. QED BY <1>2, <2>1 DEF ProposalRow
<1>5. QED BY <1>2, <1>3, <1>4 DEF Patches

LEMMA PatchTypes ==
    /\ Nothing \in Patches(Row) /\ Nothing \in Patches(ProposalRow)
    /\ \A old, new \in Row : Changed(old, new) \in Patches(Row)
    /\ \A old, new \in ProposalRow : Changed(old, new) \in Patches(ProposalRow)
BY DEF Patches

-----------------------------------------------------------------------------
\* The stamp of the corpus is the stamp of an article of it, or none.
LEMMA CorpusStampPast ==
    ASSUME TypeOK, ArticleInv
    PROVE  CorpusStamp \in Times /\ CorpusStamp <= clock
<1> DEFINE S == {article[a].updated_at : a \in {b \in Articles : Visible(b)}} \cup {0}
<1>1. S \in SUBSET (0..MaxTime) /\ S # {} /\ \A k \in S : k <= clock
  BY ProposalAssumption DEF TypeOK, Row, Times, ArticleInv
<1>2. MaxTime \in Nat
  BY ProposalAssumption
<1> HIDE DEF S
<1>3. \E m \in S : \A k \in S : m >= k
  BY <1>1, <1>2, Greatest
<1>4. Max(S) \in S
  BY <1>3 DEF Max
<1>5. CorpusStamp = Max(S)
  BY DEF CorpusStamp, S
<1>6. QED BY <1>1, <1>4, <1>5 DEF Times

\* The baseline of a proposal is a run recorded before.
LEMMA LatestIsRun ==
    ASSUME TypeOK
    PROVE  LatestAnswerRun \in runs \cup {NoRun}
<1> DEFINE A == {r \in runs : r.kind = "answer"}
           S == {r.at : r \in A}
<1>1. CASE A = {}
  BY <1>1 DEF LatestAnswerRun
<1>2. CASE A # {}
  <2>1. A \subseteq Run /\ S \in SUBSET (0..MaxTime) /\ S # {} /\ MaxTime \in Nat
    BY <1>2, ProposalAssumption DEF TypeOK, Run, Times
  <2>2. PICK m \in S : \A k \in S : m >= k
    BY <2>1, Greatest
  <2>3. PICK r \in A : r.at = m
    BY <2>2
  <2>4. \A q \in A : q.at <= r.at
    BY <2>1, <2>2, <2>3
  <2>5. (CHOOSE x \in A : \A q \in A : q.at <= x.at) \in A
    BY <2>4
  <2>6. QED BY <1>2, <2>5 DEF LatestAnswerRun
<1>3. QED BY <1>1, <1>2

-----------------------------------------------------------------------------
\* A later clock disturbs nothing that was written, ...
LEMMA LaterRows ==
    ASSUME TypeOK, LoopInv, clock' \in Times, clock <= clock', UNCHANGED <<article, proposal>>
    PROVE  ArticleInv' /\ FixInv' /\ EvidenceBracketsProposal'
<1>1. clock \in Nat /\ clock' \in Nat
  BY DEF TypeOK, Times
<1>2. ASSUME NEW a \in Articles
      PROVE  /\ article'[a].updated_at <= clock'
             /\ article'[a].status = "published" => article'[a].published_at # 0
  <2>1. article[a].updated_at \in Nat /\ article[a].updated_at <= clock
    BY DEF LoopInv, ArticleInv, TypeOK, Row, Times
  <2>2. QED BY <1>1, <2>1 DEF LoopInv, ArticleInv
<1>3. ASSUME NEW p \in ProposalIds PROVE proposal[p].created_at <= clock'
  <2>1. proposal[p].created_at \in Nat /\ proposal[p].created_at <= clock
    BY DEF LoopInv, FixInv, TypeOK, ProposalRow, Times
  <2>2. QED BY <1>1, <2>1
<1>4. QED BY <1>2, <1>3 DEF LoopInv, ArticleInv, FixInv, EvidenceBracketsProposal

\* ... recorded ...
LEMMA LaterRuns ==
    ASSUME TypeOK, LoopInv, clock' \in Times, clock <= clock'
    PROVE  \A r \in runs \cup harness.pending :
               /\ r.at \in Nat /\ r.corpus_at \in Nat
               /\ r.corpus_at < r.at /\ r.at <= clock'
<1> SUFFICES ASSUME NEW r \in runs \cup harness.pending
             PROVE  /\ r.at \in Nat /\ r.corpus_at \in Nat
                    /\ r.corpus_at < r.at /\ r.at <= clock'
  OBVIOUS
<1>1. clock \in Nat /\ clock' \in Nat
  BY DEF TypeOK, Times
<1>2. r \in Run /\ r.corpus_at < r.at /\ r.at <= clock
  BY DEF LoopInv, RunsInv, TypeOK
<1>3. r.at \in Nat /\ r.corpus_at \in Nat
  BY <1>2 DEF Run, Times
<1>4. QED BY <1>1, <1>2, <1>3

\* ... or loaded.
LEMMA LaterRequest ==
    ASSUME TypeOK, LoopInv, clock' \in Times, clock <= clock', UNCHANGED <<article, proposal>>,
           NEW s \in Sessions, Running(s), NEW t, t = txn[s]
    PROVE  RequestInv(t)'
<1>1. RequestInv(t)
  BY DEF LoopInv, RequestInv, WritesInv, DecidesInv, ProposesInv
<1>2. \A n \in Times : n <= clock => n <= clock'
  BY DEF Times, TypeOK
<1>3. "updated_at" \in DOMAIN t.set => t.set["updated_at"] \in Times
  <2>1. t.set \in Patches(Row)
    BY DEF TypeOK
  <2>2. QED BY <2>1, ChangedColumns, NothingChanged DEF Patches, Row
<1>4. "created_at" \in DOMAIN t.decide => t.decide["created_at"] \in Times
  <2>1. t.decide \in Patches(ProposalRow)
    BY DEF TypeOK
  <2>2. QED BY <2>1, ChangedColumns, NothingChanged DEF Patches, ProposalRow
<1>5. WritesInv(t)'
  BY <1>1, <1>2, <1>3 DEF RequestInv, WritesInv
<1>6. DecidesInv(t)'
  BY <1>1 DEF RequestInv, DecidesInv
<1>7. ProposesInv(t)'
  BY <1>1, <1>2, <1>4 DEF RequestInv, ProposesInv
<1>8. QED BY <1>5, <1>6, <1>7 DEF RequestInv

Ops == {"publish", "update", "archive", "delete", "propose", "accept", "reject"}

\* A request that has loaded its rows, in time clock'.
LEMMA LoadPreserves ==
    ASSUME TypeOK, LoopInv, NEW s \in Sessions, NEW op \in Ops, NEW id \in Articles,
           NEW set \in Patches(Row), NEW decide \in Patches(ProposalRow),
           Load(s, op, id, set, decide), clock' \in Times, clock <= clock',
           RequestInv([op |-> op, id |-> id, set |-> set, decide |-> decide])',
           op = "propose" => \A t \in Sessions : txn[t].id # id
    PROVE  TypeOK' /\ LoopInv'
<1> DEFINE x == [op |-> op, id |-> id, set |-> set, decide |-> decide]
<1>1. /\ txn' = [txn EXCEPT ![s] = x]
      /\ UNCHANGED <<article, proposal, runs, harness, withdrawn, overtaken>>
  BY DEF Load
<1>2. /\ txn'[s] = x
      /\ \A u \in Sessions \ {s} : txn'[u] = txn[u]
  BY <1>1 DEF TypeOK
<1>3. clock \in Nat /\ clock' \in Nat /\ MaxTime \in Nat
  BY ProposalAssumption DEF TypeOK, Times
<1>4. TypeOK'
  <2>1. txn' \in [Sessions -> [op : {"none", "publish", "update", "archive", "delete",
                                     "propose", "accept", "reject"},
                               id : Articles \cup {NoRun},
                               set : Patches(Row), decide : Patches(ProposalRow)]]
    BY <1>1 DEF TypeOK, Ops
  <2>2. \A u \in Sessions : txn'[u] # Idle => txn'[u].id \in Articles
    BY <1>2 DEF TypeOK, Running
  <2>3. QED BY <1>1, <2>1, <2>2 DEF TypeOK, Running
<1> HIDE DEF x
<1>5. ArticleInv' /\ FixInv' /\ EvidenceBracketsProposal'
  BY <1>1, LaterRows
<1>6. RunsInv'
  BY <1>1, LaterRuns DEF LoopInv, RunsInv
<1>7. ASSUME NEW u \in Sessions, txn'[u] # Idle PROVE RequestInv(txn[u])'
  <2>1. CASE u = s
    BY <2>1, <1>2 DEF x, RequestInv, WritesInv, DecidesInv, ProposesInv
  <2>2. CASE u # s
    <3>1. txn'[u] = txn[u] /\ Running(u)
      BY <2>2, <1>2, <1>7 DEF Running
    <3>2. PICK y : y = txn[u]
      OBVIOUS
    <3>3. RequestInv(y)'
      BY <3>1, <3>2, <1>1, LaterRequest
    <3>4. QED BY <3>1, <3>2, <3>3 DEF RequestInv, WritesInv, DecidesInv, ProposesInv
  <2>3. QED BY <2>1, <2>2
<1>8. ASSUME NEW v \in Sessions, NEW u \in Sessions, v # u,
              txn'[v] # Idle, txn'[v].op = "propose", txn'[u] # Idle
       PROVE  txn'[u].id # txn'[v].id
  <2>1. CASE v = s
    BY <2>1, <1>2, <1>8 DEF x
  <2>2. CASE u = s
    <3>1. txn'[v] = txn[v] /\ txn'[u].id = id /\ txn'[u].op = op
      BY <2>2, <1>2, <1>8 DEF x
    <3>2. txn[v].id \in ProposalIds /\ proposal[txn[v].id].status = "absent"
      BY <3>1, <1>8 DEF LoopInv, Running, RequestInv, ProposesInv
    <3>3. op # "propose" => (id \in ProposalIds => proposal[id].status # "absent")
      BY <1>1 DEF RequestInv, DecidesInv
    <3>4. QED BY <3>1, <3>2, <3>3
  <2>3. CASE v # s /\ u # s
    BY <2>3, <1>2, <1>8 DEF LoopInv, AloneInv, Running
  <2>4. QED BY <2>1, <2>2, <2>3
<1>9. QED BY <1>4, <1>5, <1>6, <1>7, <1>8 DEF LoopInv, AloneInv, Running

\* What a content request loads.
LEMMA ContentPreserves ==
    ASSUME TypeOK, LoopInv, NEW s \in Sessions, NEW a \in Articles, ContentRequest(s, a)
    PROVE  TypeOK' /\ LoopInv'
<1> DEFINE old == article[a]
<1>1. /\ old \in Row /\ clock \in Nat /\ MaxTime \in Nat /\ Now \in Nat /\ clock <= Now
      /\ Nothing \in Patches(ProposalRow) /\ DOMAIN Nothing = {}
      /\ DOMAIN old = {"status", "is_deleted", "updated_at", "published_at"}
  BY ProposalAssumption, PatchTypes, NothingChanged DEF TypeOK, Times, Now, Row
<1>2. a \in ProposalIds => /\ proposal[a].status = "absent" => old.status = "absent"
                           /\ proposal[a].created_at <= clock
                           /\ proposal[a].created_at \in Nat
  BY DEF LoopInv, FixInv, TypeOK, ProposalRow, Times
<1>3. ASSUME NEW new \in Row, NEW op \in {"publish", "update", "archive", "delete"},
             old.status # "absent", Tick,
             Load(s, op, a, Changed(old, new), Nothing),
             new.updated_at = Now,
             new.published_at # old.published_at => new.published_at = Now,
             new.status = "published" => new.status = old.status \/ new.published_at # 0
      PROVE  TypeOK' /\ LoopInv'
  <2>0. PICK set : set = Changed(old, new)
    OBVIOUS
  <2> DEFINE x == [op |-> op, id |-> a, set |-> set, decide |-> Nothing]
  <2>1. set \in Patches(Row) /\ op \in Ops /\ op # "propose" /\ op \notin {"accept", "reject"}
    BY <1>1, <2>0, PatchTypes DEF Ops
  <2>2. clock' = Now /\ clock' \in Times /\ UNCHANGED <<article, proposal>>
    BY <1>1, <1>3 DEF Tick, Times, Now, Load
  <2>3. \A c : c \in DOMAIN set => /\ c \in DOMAIN new /\ old[c] # new[c]
                                   /\ set[c] = new[c]
    BY <2>0, ChangedColumns
  <2>4. DOMAIN new = {"status", "is_deleted", "updated_at", "published_at"}
    BY DEF Row
  <2>5. "published_at" \notin DOMAIN set => new.published_at = old.published_at
    BY <2>0, <2>4, ChangedColumns
  <2>6. a \in ProposalIds => proposal[a].created_at < Now
    BY <1>1, <1>2 DEF Now
  <2>7. Now # 0
    BY <1>1 DEF Now
  <2>8. WritesInv(x)'
    <3>1. "updated_at" \in DOMAIN set => set["updated_at"] <= clock'
      BY <1>1, <1>3, <2>2, <2>3
    <3>2. "published_at" \in DOMAIN set => set["published_at"] = Now
      BY <1>3, <2>3
    <3>3. "status" \in DOMAIN set /\ set["status"] = "published" =>
              "published_at" \in DOMAIN set \/ old.published_at # 0
      BY <1>3, <2>3, <2>5
    <3>4. QED BY <2>2, <2>6, <2>7, <3>1, <3>2, <3>3 DEF WritesInv
  <2>9. DecidesInv(x)' /\ ProposesInv(x)'
    BY <1>2, <1>3, <2>1, <2>2 DEF DecidesInv, ProposesInv
  <2>10. RequestInv(x)'
    BY <2>8, <2>9 DEF RequestInv
  <2>11. clock <= clock'
    BY <1>1, <2>2
  <2>12. Load(s, op, a, set, Nothing)
    BY <1>3, <2>0
  <2>13. QED BY <1>1, <2>1, <2>2, <2>10, <2>11, <2>12, LoadPreserves
<1>4. ASSUME Tick PROVE Now \in Times
  BY <1>4, <1>1 DEF Tick, Times, Now
<1>5. CASE PublishContent(s, a)
  <2> DEFINE new == [old EXCEPT !.status = "published", !.updated_at = Now,
                                !.published_at = IF @ = 0 THEN Now ELSE @]
  <2>1. Tick /\ Active(a) /\ Load(s, "publish", a, Changed(old, new), Nothing)
    BY <1>5 DEF PublishContent
  <2>2. new \in Row /\ new.updated_at = Now /\ new.published_at \in {old.published_at, Now}
        /\ new.published_at # 0
    <3>1. Now \in Times /\ Now # 0
      BY <1>1, <1>4, <2>1 DEF Now
    <3>2. (IF old.published_at = 0 THEN Now ELSE old.published_at) \in Times
      BY <1>1, <3>1 DEF Row
    <3>3. new = [old EXCEPT !.status = "published", !.updated_at = Now,
                    !.published_at = IF old.published_at = 0 THEN Now ELSE old.published_at]
      BY <1>1 DEF Row
    <3> HIDE DEF new
    <3>4. QED BY <1>1, <3>1, <3>2, <3>3 DEF Row, Statuses
  <2>3. QED BY <1>3, <2>1, <2>2 DEF Active
<1>6. CASE UpdateContent(s, a)
  <2> DEFINE new == [old EXCEPT !.updated_at = Now]
  <2>1. Tick /\ Active(a) /\ Load(s, "update", a, Changed(old, new), Nothing)
    BY <1>6 DEF UpdateContent
  <2>2. new \in Row /\ new.updated_at = Now /\ new.published_at = old.published_at
        /\ new.status = old.status
    BY <1>1, <1>4, <2>1 DEF Row
  <2>3. QED BY <1>3, <2>1, <2>2 DEF Active
<1>7. CASE ArchiveContent(s, a)
  <2>1. Tick /\ Visible(a) /\ Load(s, "archive", a, Changed(old, Archived(old)), Nothing)
    BY <1>7 DEF ArchiveContent
  <2>2. /\ Archived(old) \in Row /\ Archived(old).updated_at = Now
        /\ Archived(old).published_at = old.published_at
        /\ Archived(old).status = "archived"
    BY <1>1, <1>4, <2>1 DEF Archived, Row, Statuses
  <2>3. QED BY <1>3, <2>1, <2>2 DEF Visible, Published
<1>8. CASE DeleteContent(s, a)
  <2> DEFINE new == [old EXCEPT !.is_deleted = TRUE, !.updated_at = Now]
  <2>1. Tick /\ Active(a) /\ Load(s, "delete", a, Changed(old, new), Nothing)
    BY <1>8 DEF DeleteContent
  <2>2. new \in Row /\ new.updated_at = Now /\ new.published_at = old.published_at
        /\ new.status = old.status
    BY <1>1, <1>4, <2>1 DEF Row
  <2>3. QED BY <1>3, <2>1, <2>2 DEF Active
<1>9. QED BY <1>5, <1>6, <1>7, <1>8 DEF ContentRequest

\* The gate opens for a run whose corpus was stamped after the fix was published.
LEMMA GateBrackets ==
    ASSUME TypeOK, LoopInv, NEW p \in ProposalIds, NEW after \in runs,
           BlockedBy(runs, proposal[p].before, after, article[p]) = "none"
    PROVE  /\ proposal[p].before # NoRun
           /\ proposal[p].created_at < after.at
<1> DEFINE afters == RunFamily(runs, after)
<1>1. /\ proposal[p].before # NoRun
      /\ after.kind = "answer"
      /\ Published(article[p])
      /\ ~Predates(afters, article[p])
  BY DEF BlockedBy
<1>2. after \in afters
  BY <1>1 DEF RunFamily
<1>3. /\ after.at \in Nat /\ after.corpus_at \in Nat
      /\ proposal[p].created_at \in Nat /\ article[p].published_at \in Nat
  BY ProposalAssumption DEF TypeOK, Run, ProposalRow, Row, Times, Articles
<1>4. article[p].published_at <= after.corpus_at
  BY <1>1, <1>2, <1>3 DEF Predates
<1>5. article[p].published_at # 0
  BY <1>1 DEF LoopInv, ArticleInv, Published, Articles
<1>6. proposal[p].created_at < article[p].published_at
  BY <1>5 DEF LoopInv, FixInv
<1>7. after.corpus_at < after.at
  BY DEF LoopInv, RunsInv
<1>8. QED BY <1>1, <1>3, <1>4, <1>6, <1>7

LEMMA ProposalPreserves ==
    ASSUME TypeOK, LoopInv, NEW s \in Sessions, NEW p \in ProposalIds, ProposalRequest(s, p)
    PROVE  TypeOK' /\ LoopInv'
<1> DEFINE old == article[p]
<1>1. /\ old \in Row /\ p \in Articles /\ clock \in Nat /\ MaxTime \in Nat /\ Now \in Nat
      /\ clock <= Now /\ Now # 0 /\ proposal[p] \in ProposalRow
      /\ NoProposal \in ProposalRow
  BY ProposalAssumption DEF TypeOK, Times, Now, Articles, NoProposal, ProposalRow
<1>2. ASSUME Tick PROVE Now \in Times /\ clock' = Now
  BY <1>2, <1>1 DEF Tick, Times, Now
<1>3. CASE ProposeContentFix(s, p)
  <2> DEFINE draft == [old EXCEPT !.status = "draft", !.updated_at = Now]
             made == [NoProposal EXCEPT !.status = "proposed", !.created_at = Now,
                                        !.before = LatestAnswerRun]
  <2>0. PICK set, decide : set = Changed(old, draft) /\ decide = Changed(NoProposal, made)
    OBVIOUS
  <2> DEFINE x == [op |-> "propose", id |-> p, set |-> set, decide |-> decide]
  <2>1. /\ proposal[p].status = "absent" /\ \A t \in Sessions : txn[t].id # p
        /\ Load(s, "propose", p, set, decide)
        /\ Now \in Times /\ clock' = Now
    BY <1>2, <1>3, <2>0 DEF ProposeContentFix
  <2>2. /\ draft \in Row /\ draft.status = "draft" /\ draft.updated_at = Now
        /\ draft.published_at = old.published_at
        /\ DOMAIN draft = {"status", "is_deleted", "updated_at", "published_at"}
    BY <1>1, <2>1 DEF Row, Statuses
  <2>3. LatestAnswerRun \in runs \cup {NoRun}
    BY LatestIsRun
  <2>4. /\ made \in ProposalRow /\ made.status = "proposed" /\ made.created_at = Now
        /\ made.before = LatestAnswerRun /\ made.after = NoProposal.after
        /\ DOMAIN made = {"status", "created_at", "before", "after", "draft_status_after"}
    BY <1>1, <2>1, <2>3 DEF ProposalRow, NoProposal, TypeOK
  <2>5. old.status = "absent" /\ old.published_at = 0
    BY <2>1 DEF LoopInv, FixInv
  <2>6. /\ "status" \in DOMAIN set
        /\ set["status"] = "draft"
        /\ "published_at" \notin DOMAIN set
        /\ "updated_at" \in DOMAIN set =>
              set["updated_at"] = Now
    <3> HIDE DEF draft
    <3>1. /\ \A c : c \in DOMAIN set <=> c \in DOMAIN draft /\ old[c] # draft[c]
          /\ \A c \in DOMAIN set : set[c] = draft[c]
      BY <2>0, ChangedColumns
    <3>2. QED BY <2>2, <2>5, <3>1
  <2>7. /\ {"status", "created_at"} \subseteq DOMAIN decide
        /\ decide["status"] = "proposed"
        /\ decide["created_at"] = Now
        /\ "after" \notin DOMAIN decide
        /\ "before" \in DOMAIN decide =>
              /\ decide["before"] = LatestAnswerRun
              /\ LatestAnswerRun # NoRun
    <3>1. /\ NoProposal.status = "absent" /\ NoProposal.created_at = 0
          /\ NoProposal.before = NoRun
      BY DEF NoProposal
    <3> HIDE DEF made
    <3>2. /\ \A c : c \in DOMAIN decide <=> c \in DOMAIN made /\ NoProposal[c] # made[c]
          /\ \A c \in DOMAIN decide : decide[c] = made[c]
      BY <2>0, ChangedColumns
    <3>3. QED BY <1>1, <2>4, <3>1, <3>2
  <2>8. ASSUME LatestAnswerRun # NoRun PROVE LatestAnswerRun.at < Now
    <3>1. LatestAnswerRun.at <= clock /\ LatestAnswerRun.at \in Nat
      BY <2>3, <2>8 DEF LoopInv, RunsInv, TypeOK, Run, Times
    <3>2. QED BY <3>1, <1>1 DEF Now
  <2>9. set \in Patches(Row)
        /\ decide \in Patches(ProposalRow)
    BY <1>1, <2>0, <2>2, <2>4, PatchTypes
  <2>10. UNCHANGED <<article, proposal>>
    BY <2>1 DEF Load
  <2> HIDE DEF draft, made
  <2>11. WritesInv(x)' /\ DecidesInv(x)' /\ ProposesInv(x)'
    BY <1>1, <2>1, <2>6, <2>7, <2>8, <2>10 DEF WritesInv, DecidesInv, ProposesInv
  <2>12. QED BY <1>1, <2>1, <2>9, <2>11, LoadPreserves DEF RequestInv, Ops
<1>4. ASSUME NEW after \in runs, AcceptProposal(s, p, after) PROVE TypeOK' /\ LoopInv'
  <2> DEFINE made == [proposal[p] EXCEPT !.status = "accepted", !.after = after]
  <2>0. PICK decide : decide = Changed(proposal[p], made)
    OBVIOUS
  <2> DEFINE x == [op |-> "accept", id |-> p, set |-> Nothing, decide |-> decide]
  <2>1. /\ proposal[p].status = "proposed" /\ clock' = clock
        /\ BlockedBy(runs, proposal[p].before, after, article[p]) = "none"
        /\ Load(s, "accept", p, Nothing, decide)
    BY <1>4, <2>0 DEF AcceptProposal
  <2>2. proposal[p].before # NoRun /\ proposal[p].created_at < after.at
    BY <2>1, GateBrackets
  <2>3. after \in Run /\ after # NoRun /\ proposal[p].after = NoRun
    BY <2>1, NoRunAssumption DEF TypeOK, LoopInv, FixInv
  <2>4. /\ made \in ProposalRow /\ made.status = "accepted" /\ made.after = after
        /\ made.created_at = proposal[p].created_at /\ made.before = proposal[p].before
        /\ made.draft_status_after = proposal[p].draft_status_after
        /\ DOMAIN made = {"status", "created_at", "before", "after", "draft_status_after"}
    BY <1>1, <2>3 DEF ProposalRow
  <2>5. decide \in Patches(ProposalRow) /\ Nothing \in Patches(Row)
        /\ DOMAIN Nothing = {}
    BY <1>1, <2>0, <2>4, PatchTypes, NothingChanged
  <2> HIDE DEF made
  <2>6. /\ DOMAIN decide = {"status", "after"}
        /\ decide["status"] = "accepted" /\ decide["after"] = after
    <3>1. /\ \A c : c \in DOMAIN decide <=> c \in DOMAIN made /\ proposal[p][c] # made[c]
          /\ \A c \in DOMAIN decide : decide[c] = made[c]
      BY <2>0, ChangedColumns
    <3>2. \A c : c \in DOMAIN decide <=> c \in {"status", "after"}
      BY <2>1, <2>3, <2>4, <3>1
    <3>3. DOMAIN decide = {"status", "after"}
      BY <3>2
    <3>4. QED BY <3>1, <3>3, <2>4
  <2>7. UNCHANGED <<article, proposal>>
    BY <2>1 DEF Load
  <2>8. WritesInv(x)' /\ DecidesInv(x)' /\ ProposesInv(x)'
    BY <2>1, <2>2, <2>3, <2>5, <2>6, <2>7 DEF WritesInv, DecidesInv, ProposesInv
  <2>9. clock' \in Times /\ clock <= clock'
    BY <1>1, <2>1 DEF TypeOK
  <2>10. QED BY <1>1, <2>1, <2>5, <2>8, <2>9, LoadPreserves DEF RequestInv, Ops
<1>5. CASE RejectProposal(s, p)
  <2> DEFINE draft == IF Visible(p) THEN Archived(old) ELSE old
             found == IF old.is_deleted THEN "missing" ELSE draft.status
             made == [proposal[p] EXCEPT !.status = "rejected", !.draft_status_after = found]
  <2>0. PICK set, decide : set = Changed(old, draft) /\ decide = Changed(proposal[p], made)
    OBVIOUS
  <2> DEFINE x == [op |-> "reject", id |-> p, set |-> set, decide |-> decide]
  <2>1. /\ proposal[p].status = "proposed" /\ Now \in Times /\ clock' = Now
        /\ Load(s, "reject", p, set, decide)
    BY <1>2, <1>5, <2>0 DEF RejectProposal
  <2>2. /\ Archived(old) \in Row /\ Archived(old).updated_at = Now
        /\ Archived(old).published_at = old.published_at
        /\ Archived(old).status = "archived"
    BY <1>1, <2>1 DEF Archived, Row, Statuses
  <2>3. /\ draft \in Row /\ draft.updated_at \in {old.updated_at, Now}
        /\ draft.published_at = old.published_at
        /\ draft.status \in {old.status, "archived"}
        /\ DOMAIN draft = {"status", "is_deleted", "updated_at", "published_at"}
    BY <1>1, <2>2 DEF Row
  <2>4. found \in {"missing"} \cup Statuses
    BY <2>3 DEF Row
  <2> HIDE DEF draft, found
  <2>5. /\ made \in ProposalRow /\ made.status = "rejected"
        /\ made.created_at = proposal[p].created_at /\ made.before = proposal[p].before
        /\ made.after = proposal[p].after
        /\ DOMAIN made = {"status", "created_at", "before", "after", "draft_status_after"}
    BY <1>1, <2>4 DEF ProposalRow
  <2>6. set \in Patches(Row) /\ decide \in Patches(ProposalRow)
    BY <1>1, <2>0, <2>3, <2>5, PatchTypes
  <2>7. /\ "published_at" \notin DOMAIN set
        /\ "updated_at" \in DOMAIN set => set["updated_at"] = Now
        /\ "status" \in DOMAIN set => set["status"] = "archived"
    BY <2>0, <2>3, ChangedColumns
  <2> HIDE DEF made
  <2>8. /\ DOMAIN decide \subseteq {"status", "draft_status_after"}
        /\ "status" \in DOMAIN decide /\ decide["status"] = "rejected"
    BY <2>0, <2>1, <2>5, ChangedColumns
  <2>9. UNCHANGED <<article, proposal>>
    BY <2>1 DEF Load
  <2>10. WritesInv(x)' /\ DecidesInv(x)' /\ ProposesInv(x)'
    BY <1>1, <2>1, <2>7, <2>8, <2>9 DEF WritesInv, DecidesInv, ProposesInv
  <2>11. QED BY <1>1, <2>1, <2>6, <2>10, LoadPreserves DEF RequestInv, Ops
<1>6. QED BY <1>3, <1>4, <1>5 DEF ProposalRequest

-----------------------------------------------------------------------------
\* A commit writes its columns into whatever the row has become.
LEMMA CommitPreserves ==
    ASSUME TypeOK, LoopInv, NEW s \in Sessions, Commit(s)
    PROVE  TypeOK' /\ LoopInv'
<1>0. PICK t : t = txn[s]
  OBVIOUS
<1>1. /\ t \in [op : {"none", "publish", "update", "archive", "delete",
                      "propose", "accept", "reject"},
                id : Articles \cup {NoRun},
                set : Patches(Row), decide : Patches(ProposalRow)]
      /\ t.id \in Articles /\ t # Idle
      /\ WritesInv(t) /\ DecidesInv(t) /\ ProposesInv(t)
  BY <1>0 DEF Commit, Running, TypeOK, LoopInv, RequestInv
<1>2. /\ article' = [article EXCEPT ![t.id] = Merge(article[t.id], t.set)]
      /\ proposal' = IF t.id \in ProposalIds
                     THEN [proposal EXCEPT ![t.id] = Merge(proposal[t.id], t.decide)]
                     ELSE proposal
      /\ withdrawn' \subseteq withdrawn \cup {t.id}
      /\ overtaken' = overtaken \cup Overtakes(s, article'[t.id])
      /\ txn' = [txn EXCEPT ![s] = Idle]
      /\ UNCHANGED <<clock, runs, harness>>
  BY <1>0 DEF Commit
<1>3. /\ \A a \in Articles : article'[a] = IF a = t.id THEN Merge(article[a], t.set)
                                           ELSE article[a]
      /\ \A p \in ProposalIds : proposal'[p] = IF p = t.id THEN Merge(proposal[p], t.decide)
                                               ELSE proposal[p]
      /\ txn'[s] = Idle /\ \A u \in Sessions \ {s} : txn'[u] = txn[u]
      /\ ProposalIds \subseteq Articles
  BY <1>2 DEF TypeOK, Articles
<1>4. /\ Merge(article[t.id], t.set) \in Row
      /\ \A c \in {"status", "is_deleted", "updated_at", "published_at"} :
            Merge(article[t.id], t.set)[c] =
                IF c \in DOMAIN t.set THEN t.set[c] ELSE article[t.id][c]
  <2>1. article[t.id] \in Row /\ t.set \in Patches(Row)
    BY <1>1 DEF TypeOK
  <2>2. QED BY <2>1, MergeRow
<1>5. /\ article'[t.id].status =
             IF "status" \in DOMAIN t.set THEN t.set["status"] ELSE article[t.id].status
      /\ article'[t.id].updated_at =
             IF "updated_at" \in DOMAIN t.set THEN t.set["updated_at"]
             ELSE article[t.id].updated_at
      /\ article'[t.id].published_at =
             IF "published_at" \in DOMAIN t.set THEN t.set["published_at"]
             ELSE article[t.id].published_at
  BY <1>1, <1>3, <1>4
<1>6. ASSUME t.id \in ProposalIds
      PROVE  /\ Merge(proposal[t.id], t.decide) \in ProposalRow
             /\ proposal'[t.id].status =
                    IF "status" \in DOMAIN t.decide THEN t.decide["status"]
                    ELSE proposal[t.id].status
             /\ proposal'[t.id].created_at =
                    IF "created_at" \in DOMAIN t.decide THEN t.decide["created_at"]
                    ELSE proposal[t.id].created_at
             /\ proposal'[t.id].before =
                    IF "before" \in DOMAIN t.decide THEN t.decide["before"]
                    ELSE proposal[t.id].before
             /\ proposal'[t.id].after =
                    IF "after" \in DOMAIN t.decide THEN t.decide["after"]
                    ELSE proposal[t.id].after
  <2>1. proposal[t.id] \in ProposalRow /\ t.decide \in Patches(ProposalRow)
    BY <1>1, <1>6 DEF TypeOK
  <2>2. /\ Merge(proposal[t.id], t.decide) \in ProposalRow
        /\ \A c \in {"status", "created_at", "before", "after", "draft_status_after"} :
              Merge(proposal[t.id], t.decide)[c] =
                  IF c \in DOMAIN t.decide THEN t.decide[c] ELSE proposal[t.id][c]
    BY <2>1, MergeProposal
  <2>3. proposal'[t.id] = Merge(proposal[t.id], t.decide)
    BY <1>3, <1>6
  <2>4. QED BY <2>2, <2>3
<1>7. t.id \in ProposalIds => proposal[t.id] \in ProposalRow
  BY DEF TypeOK
\* Only the request that makes a proposal writes when, and from what, it was made.
<1>8. ASSUME NEW p \in ProposalIds, ~(p = t.id /\ t.op = "propose")
      PROVE  /\ proposal'[p].created_at = proposal[p].created_at
             /\ proposal'[p].before = proposal[p].before
             /\ proposal[p].status # "absent" => proposal'[p].status # "absent"
             /\ p = t.id => proposal[p].status # "absent"
  <2>1. CASE p # t.id
    BY <2>1, <1>3
  <2>2. CASE p = t.id
    <3>1. "created_at" \notin DOMAIN t.decide /\ "before" \notin DOMAIN t.decide
          /\ ("status" \in DOMAIN t.decide => t.decide["status"] # "absent")
          /\ proposal[p].status # "absent"
      BY <2>2, <1>1, <1>8, NothingChanged DEF DecidesInv
    <3>2. QED BY <2>2, <3>1, <1>6, <1>8
  <2>3. QED BY <2>1, <2>2
<1>9. TypeOK'
  <2>1. article' \in [Articles -> Row] /\ withdrawn' \subseteq Articles
    BY <1>1, <1>2, <1>4 DEF TypeOK
  <2>2. proposal' \in [ProposalIds -> ProposalRow]
    BY <1>2, <1>6 DEF TypeOK
  <2>3. txn' \in [Sessions -> [op : {"none", "publish", "update", "archive", "delete",
                                     "propose", "accept", "reject"},
                               id : Articles \cup {NoRun},
                               set : Patches(Row), decide : Patches(ProposalRow)]]
    BY <1>2, PatchTypes DEF TypeOK, Idle
  <2>4. \A u \in Sessions : txn'[u] # Idle => txn'[u].id \in Articles
    BY <1>3 DEF TypeOK, Running
  <2>5. overtaken' \subseteq Articles
    <3>1. \A u \in Sessions : Running(u) => txn[u].id \in Articles
      BY DEF TypeOK
    <3>2. Overtakes(s, article'[t.id]) \subseteq Articles
      BY <3>1 DEF Overtakes, Stamping
    <3>3. QED BY <1>2, <3>2 DEF TypeOK
  <2>6. QED BY <1>2, <2>1, <2>2, <2>3, <2>4, <2>5 DEF TypeOK, Running
<1>10. ASSUME NEW a \in Articles
       PROVE  /\ article'[a].updated_at <= clock
              /\ article'[a].status = "published" => article'[a].published_at # 0
              /\ article[a].published_at # 0 => article'[a].published_at # 0
  <2>1. /\ article[a].updated_at <= clock
        /\ article[a].status = "published" => article[a].published_at # 0
    BY DEF LoopInv, ArticleInv
  <2>2. CASE a # t.id
    BY <2>1, <2>2, <1>3
  <2>3. CASE a = t.id
    BY <2>1, <2>3, <1>1, <1>5 DEF WritesInv
  <2>4. QED BY <2>2, <2>3
<1>11. ArticleInv' /\ RunsInv'
  BY <1>2, <1>10 DEF LoopInv, ArticleInv, RunsInv
<1>12. FixInv'
  <2> SUFFICES ASSUME NEW p \in ProposalIds
               PROVE  /\ proposal'[p].status = "absent" =>
                            proposal'[p] = NoProposal /\ article'[p].status = "absent"
                                                      /\ article'[p].published_at = 0
                      /\ proposal'[p].created_at <= clock
                      /\ article'[p].published_at # 0 =>
                            proposal'[p].created_at < article'[p].published_at
                      /\ proposal'[p].before # NoRun =>
                            proposal'[p].before.at < proposal'[p].created_at
                      /\ proposal'[p].status = "proposed" => proposal'[p].after = NoRun
    BY <1>2 DEF FixInv
  <2>1. /\ proposal[p].status = "absent" =>
              proposal[p] = NoProposal /\ article[p].status = "absent"
                                       /\ article[p].published_at = 0
        /\ proposal[p].created_at <= clock
        /\ article[p].published_at # 0 => proposal[p].created_at < article[p].published_at
        /\ proposal[p].before # NoRun => proposal[p].before.at < proposal[p].created_at
        /\ proposal[p].status = "proposed" => proposal[p].after = NoRun
    BY DEF LoopInv, FixInv
  <2>2. CASE p # t.id
    BY <2>1, <2>2, <1>3
  <2>3. CASE p = t.id /\ t.op = "propose"
    <3>1. /\ proposal[p] = NoProposal /\ article[p].published_at = 0
          /\ NoProposal.before = NoRun /\ NoProposal.after = NoRun
      BY <2>1, <2>3, <1>1 DEF ProposesInv, NoProposal
    <3>2. /\ proposal'[p].status = "proposed" /\ proposal'[p].created_at <= clock
          /\ proposal'[p].after = NoRun
          /\ proposal'[p].before # NoRun => proposal'[p].before.at < proposal'[p].created_at
      BY <2>3, <3>1, <1>1, <1>6 DEF ProposesInv
    <3>3. article'[p].published_at = 0
      BY <2>3, <3>1, <1>1, <1>5 DEF ProposesInv
    <3>4. QED BY <3>2, <3>3
  <2>4. CASE p = t.id /\ t.op # "propose"
    <3>1. /\ proposal'[p].created_at = proposal[p].created_at
          /\ proposal'[p].before = proposal[p].before
          /\ proposal'[p].status # "absent"
      BY <2>4, <1>8
    <3>2. article'[p].published_at # 0 =>
              proposal[p].created_at < article'[p].published_at
      BY <2>1, <2>4, <1>1, <1>5 DEF WritesInv
    <3>3. proposal'[p].status = "proposed" =>
              proposal[p].status = "proposed" /\ proposal'[p].after = proposal[p].after
      BY <2>4, <1>1, <1>6, NothingChanged DEF DecidesInv
    <3>4. QED BY <2>1, <3>1, <3>2, <3>3
  <2>5. QED BY <2>2, <2>3, <2>4
<1>13. EvidenceBracketsProposal'
  <2> SUFFICES ASSUME NEW p \in ProposalIds, proposal'[p].status = "accepted"
               PROVE  /\ proposal'[p].before # NoRun /\ proposal'[p].after # NoRun
                      /\ proposal'[p].before.at < proposal'[p].created_at
                      /\ proposal'[p].created_at < proposal'[p].after.at
    BY DEF EvidenceBracketsProposal
  <2>1. /\ proposal[p].before # NoRun => proposal[p].before.at < proposal[p].created_at
        /\ proposal[p].status = "accepted" =>
              /\ proposal[p].before # NoRun /\ proposal[p].after # NoRun
              /\ proposal[p].before.at < proposal[p].created_at
              /\ proposal[p].created_at < proposal[p].after.at
    BY DEF LoopInv, FixInv, EvidenceBracketsProposal
  <2>2. CASE p # t.id
    BY <2>1, <2>2, <1>3
  <2>3. CASE p = t.id /\ t.op = "propose"
    BY <2>3, <1>1, <1>6 DEF ProposesInv
  <2>4. CASE p = t.id /\ t.op = "accept"
    <3>1. /\ proposal[p].before # NoRun /\ t.decide["after"] # NoRun
          /\ proposal[p].created_at < t.decide["after"].at
          /\ "after" \in DOMAIN t.decide
      BY <2>4, <1>1 DEF DecidesInv
    <3>2. proposal'[p].after = t.decide["after"]
      BY <2>4, <3>1, <1>6
    <3>3. /\ proposal'[p].created_at = proposal[p].created_at
          /\ proposal'[p].before = proposal[p].before
      BY <2>4, <1>8
    <3>4. QED BY <2>1, <3>1, <3>2, <3>3
  <2>5. CASE p = t.id /\ t.op \notin {"propose", "accept"}
    <3>1. /\ "after" \notin DOMAIN t.decide
          /\ "status" \in DOMAIN t.decide => t.decide["status"] # "accepted"
      BY <2>5, <1>1, NothingChanged DEF DecidesInv
    <3>2. proposal[p].status = "accepted" /\ proposal'[p].after = proposal[p].after
      BY <2>5, <3>1, <1>6
    <3>3. /\ proposal'[p].created_at = proposal[p].created_at
          /\ proposal'[p].before = proposal[p].before
      BY <2>5, <1>8
    <3>4. QED BY <2>1, <3>2, <3>3
  <2>6. QED BY <2>2, <2>3, <2>4, <2>5
<1>14. ASSUME NEW u \in Sessions, txn'[u] # Idle PROVE RequestInv(txn[u])'
  <2>1. u # s /\ txn'[u] = txn[u] /\ txn[u] # Idle /\ txn[u].id \in Articles
    BY <1>3, <1>14 DEF TypeOK, Running
  <2>2. RequestInv(txn[u])
    BY <2>1 DEF LoopInv, Running
  <2>3. /\ t.op = "propose" => txn[u].id # t.id
        /\ txn[u].op = "propose" => txn[u].id # t.id
    BY <2>1, <1>0, <1>1 DEF LoopInv, AloneInv, Running
  <2>4. txn[u].id \in ProposalIds =>
            /\ proposal'[txn[u].id].created_at = proposal[txn[u].id].created_at
            /\ proposal'[txn[u].id].before = proposal[txn[u].id].before
            /\ proposal[txn[u].id].status # "absent" => proposal'[txn[u].id].status # "absent"
            /\ txn[u].op = "propose" => proposal'[txn[u].id] = proposal[txn[u].id]
    BY <2>3, <1>8, <1>3
  <2>5. WritesInv(txn[u])'
    BY <2>1, <2>2, <2>4, <1>2, <1>10 DEF RequestInv, WritesInv
  <2>6. DecidesInv(txn[u])'
    BY <2>1, <2>2, <2>4 DEF RequestInv, DecidesInv
  <2>7. ProposesInv(txn[u])'
    BY <2>1, <2>2, <2>4, <1>2 DEF RequestInv, ProposesInv
  <2>8. QED BY <2>5, <2>6, <2>7 DEF RequestInv
<1>15. AloneInv'
  BY <1>3 DEF LoopInv, AloneInv, Running
<1>16. QED BY <1>9, <1>11, <1>12, <1>13, <1>14, <1>15 DEF LoopInv, Running

\* What is lost takes nothing with it.
LEMMA RollbackPreserves ==
    ASSUME TypeOK, LoopInv,
           (\E s \in Sessions : Rollback(s)) \/ UNCHANGED vars
    PROVE  TypeOK' /\ LoopInv'
<1>1. ASSUME NEW s \in Sessions, Rollback(s) PROVE TypeOK' /\ LoopInv'
  <2>1. /\ txn' = [txn EXCEPT ![s] = Idle]
        /\ UNCHANGED <<clock, article, proposal, runs, harness, withdrawn, overtaken>>
    BY <1>1 DEF Rollback
  <2>2. txn'[s] = Idle /\ \A u \in Sessions \ {s} : txn'[u] = txn[u]
    BY <2>1 DEF TypeOK
  <2>3. txn' \in [Sessions -> [op : {"none", "publish", "update", "archive", "delete",
                                     "propose", "accept", "reject"},
                               id : Articles \cup {NoRun},
                               set : Patches(Row), decide : Patches(ProposalRow)]]
    BY <2>1, PatchTypes DEF TypeOK, Idle
  <2>4. TypeOK'
    BY <2>1, <2>2, <2>3 DEF TypeOK, Running
  <2>5. \A u \in Sessions : txn'[u] # Idle => RequestInv(txn[u])'
    <3> SUFFICES ASSUME NEW u \in Sessions, txn'[u] # Idle PROVE RequestInv(txn[u])'
      OBVIOUS
    <3>1. txn'[u] = txn[u] /\ RequestInv(txn[u])
      BY <2>2 DEF LoopInv, Running
    <3>2. QED BY <2>1, <3>1 DEF RequestInv, WritesInv, DecidesInv, ProposesInv
  <2>6. AloneInv'
    BY <2>2 DEF LoopInv, AloneInv, Running
  <2>7. ArticleInv' /\ RunsInv' /\ FixInv' /\ EvidenceBracketsProposal'
    BY <2>1 DEF LoopInv, ArticleInv, RunsInv, FixInv, EvidenceBracketsProposal
  <2>8. QED BY <2>4, <2>5, <2>6, <2>7 DEF LoopInv, Running
<1>2. ASSUME UNCHANGED vars PROVE TypeOK' /\ LoopInv'
  BY <1>2 DEF vars, TypeOK, Running, LoopInv, ArticleInv, RunsInv, FixInv,
     EvidenceBracketsProposal, RequestInv, WritesInv, DecidesInv, ProposesInv, AloneInv
<1>3. QED BY <1>1, <1>2

-----------------------------------------------------------------------------
\* The harness records runs of a corpus older than they are.
LEMMA EvaluationPreserves ==
    ASSUME TypeOK, LoopInv, Evaluation
    PROVE  TypeOK' /\ LoopInv'
<1>1. /\ harness \in [measured : SUBSET (Articles \X Times), busy : BOOLEAN,
                      pending : SUBSET Run]
      /\ Digest \subseteq Articles \X Times
      /\ clock \in Nat /\ MaxTime \in Nat /\ clock \in Times
  BY ProposalAssumption DEF TypeOK, Digest, Row, Times
<1>2. ASSUME clock' \in Times, clock <= clock',
             UNCHANGED <<article, proposal, txn, withdrawn, overtaken>>,
             runs' \subseteq Run, IsFiniteSet(runs'),
             harness' \in [measured : SUBSET (Articles \X Times), busy : BOOLEAN,
                           pending : SUBSET Run],
             IsFiniteSet(harness'.pending),
             \A r \in (runs' \cup harness'.pending) \ (runs \cup harness.pending) :
                 r.corpus_at < r.at /\ r.at <= clock'
      PROVE  TypeOK' /\ LoopInv'
  <2>1. TypeOK'
    BY <1>2 DEF TypeOK, Running
  <2>2. ArticleInv' /\ FixInv' /\ EvidenceBracketsProposal'
    BY <1>2, LaterRows
  <2>3. RunsInv'
    BY <1>2, LaterRuns DEF RunsInv
  <2>4. ASSUME NEW s \in Sessions, Running(s) PROVE RequestInv(txn[s])'
    <3>1. PICK t : t = txn[s]
      OBVIOUS
    <3>2. RequestInv(t)'
      BY <3>1, <2>4, <1>2, LaterRequest
    <3>3. QED BY <3>1, <3>2, <1>2 DEF RequestInv, WritesInv, DecidesInv, ProposesInv
  <2>5. AloneInv'
    BY <1>2 DEF LoopInv, AloneInv, Running
  <2>6. QED BY <2>1, <2>2, <2>3, <2>4, <2>5, <1>2 DEF LoopInv, Running
<1>3. IsFiniteSet(runs) /\ IsFiniteSet(harness.pending) /\ runs \subseteq Run
  BY DEF LoopInv, RunsInv, TypeOK
<1>4. CASE RunEval
  <2>1. harness' = [harness EXCEPT !.busy = TRUE, !.measured = Digest]
        /\ UNCHANGED <<clock, article, proposal, runs, txn, withdrawn, overtaken>>
    BY <1>4 DEF RunEval
  <2>2. harness' \in [measured : SUBSET (Articles \X Times), busy : BOOLEAN,
                      pending : SUBSET Run]
        /\ harness'.pending = harness.pending
    BY <2>1, <1>1
  <2>3. QED BY <2>1, <2>2, <1>1, <1>2, <1>3
<1>5. ASSUME NEW kind \in {"answer", "agent"}, NEW label \in Labels, NEW results \in Results,
             RecordRun(kind, label, results)
      PROVE  TypeOK' /\ LoopInv'
  <2> DEFINE run == [kind |-> kind, label |-> label, at |-> Now, digest |-> Digest,
                     corpus_at |-> CorpusStamp, results |-> results,
                     measured |-> harness.measured]
  <2>1. /\ harness' = [harness EXCEPT !.busy = FALSE, !.measured = {},
                                      !.pending = @ \cup {run}]
        /\ clock' = Now /\ clock < MaxTime
        /\ UNCHANGED <<article, proposal, runs, txn, withdrawn, overtaken>>
    BY <1>5 DEF RecordRun, Tick
  <2>2. Now \in Times /\ Now = clock + 1
    BY <2>1, <1>1 DEF Now, Times
  <2>3. CorpusStamp \in Times /\ CorpusStamp <= clock
    BY CorpusStampPast DEF LoopInv
  <2>4. run \in Run
    BY <1>1, <2>2, <2>3 DEF Run
  <2>5. run.corpus_at < run.at /\ run.at <= clock'
    <3>1. CorpusStamp \in Nat
      BY <2>3 DEF Times
    <3>2. QED BY <1>1, <2>1, <2>2, <2>3, <3>1
  <2> HIDE DEF run
  <2>6. harness' \in [measured : SUBSET (Articles \X Times), busy : BOOLEAN,
                      pending : SUBSET Run]
        /\ harness'.pending = harness.pending \cup {run}
    BY <2>1, <2>4, <1>1
  <2>7. IsFiniteSet(harness'.pending)
    BY <2>6, <1>3, FS_AddElement
  <2>8. clock' \in Times /\ clock <= clock'
    BY <1>1, <2>1, <2>2
  <2>9. QED BY <2>1, <2>5, <2>6, <2>7, <2>8, <1>2, <1>3
<1>6. CASE CommitRuns
  <2>1. /\ runs' = runs \cup harness.pending
        /\ harness' = [harness EXCEPT !.pending = {}]
        /\ UNCHANGED <<clock, article, proposal, txn, withdrawn, overtaken>>
    BY <1>6 DEF CommitRuns
  <2>2. harness' \in [measured : SUBSET (Articles \X Times), busy : BOOLEAN,
                      pending : SUBSET Run]
        /\ harness'.pending = {} /\ harness.pending \subseteq Run
    BY <2>1, <1>1
  <2>3. IsFiniteSet(runs') /\ IsFiniteSet({})
    BY <2>1, <1>3, FS_Union, FS_EmptySet
  <2>4. QED BY <2>1, <2>2, <2>3, <1>1, <1>2, <1>3
<1>7. CASE LoseRuns
  <2>1. /\ harness' = [measured |-> {}, busy |-> FALSE, pending |-> {}]
        /\ UNCHANGED <<clock, article, proposal, runs, txn, withdrawn, overtaken>>
    BY <1>7 DEF LoseRuns
  <2>2. harness' \in [measured : SUBSET (Articles \X Times), busy : BOOLEAN,
                      pending : SUBSET Run]
        /\ harness'.pending = {} /\ IsFiniteSet({})
    BY <2>1, FS_EmptySet
  <2>3. QED BY <2>1, <2>2, <1>1, <1>2, <1>3
<1>8. QED BY <1>4, <1>5, <1>6, <1>7 DEF Evaluation

LEMMA LoopSteps ==
    TypeOK /\ LoopInv /\ [Next]_vars => TypeOK' /\ LoopInv'
<1> SUFFICES ASSUME TypeOK, LoopInv, [Next]_vars PROVE TypeOK' /\ LoopInv'
  OBVIOUS
<1>1. ASSUME NEW s \in Sessions, NEW a \in Articles, ContentRequest(s, a)
      PROVE  TypeOK' /\ LoopInv'
  BY <1>1, ContentPreserves
<1>2. ASSUME NEW s \in Sessions, NEW p \in ProposalIds, ProposalRequest(s, p)
      PROVE  TypeOK' /\ LoopInv'
  BY <1>2, ProposalPreserves
<1>3. ASSUME NEW s \in Sessions, Commit(s) PROVE TypeOK' /\ LoopInv'
  BY <1>3, CommitPreserves
<1>4. CASE (\E s \in Sessions : Rollback(s)) \/ UNCHANGED vars
  BY <1>4, RollbackPreserves
<1>5. CASE Evaluation
  BY <1>5, EvaluationPreserves
<1>6. QED BY <1>1, <1>2, <1>3, <1>4, <1>5 DEF Next

\* The base of the loop: nothing proposed, nothing measured.
LEMMA LoopInit == Init => TypeOK /\ LoopInv
<1> SUFFICES ASSUME Init PROVE TypeOK /\ LoopInv
  OBVIOUS
<1>1. clock = 1 /\ clock \in Times
  BY ProposalAssumption DEF Init, Times
<1>2. article \in [Articles -> Row]
  BY ProposalAssumption DEF Init, Row, Times, Statuses
<1>3. NoProposal \in ProposalRow /\ NoProposal.status = "absent"
      /\ NoProposal.created_at = 0 /\ NoProposal.before = NoRun
  BY ProposalAssumption DEF NoProposal, ProposalRow, Times
<1>4. TypeOK
  BY <1>1, <1>2, <1>3, PatchTypes DEF Init, TypeOK, Idle, Running
<1>5. \A p \in ProposalIds : p \in Articles /\ p \notin Existing
  BY ProposalAssumption DEF Articles
<1>6. ArticleInv
  BY <1>1 DEF Init, ArticleInv
<1>7. FixInv
  BY <1>1, <1>3, <1>5 DEF Init, FixInv
<1>8. RunsInv
  BY FS_EmptySet DEF Init, RunsInv
<1>9. EvidenceBracketsProposal
  BY <1>3 DEF Init, EvidenceBracketsProposal
<1>10. QED BY <1>4, <1>6, <1>7, <1>8, <1>9 DEF Init, LoopInv, Running, AloneInv

-----------------------------------------------------------------------------
\* Every variable of the improvement loop stays in its range: whatever requests
\* write column by column, the rows stay rows.
THEOREM LoopTypes == Spec => []TypeOK
<1>1. TypeOK /\ LoopInv => TypeOK
  OBVIOUS
<1>2. QED BY LoopInit, LoopSteps, <1>1, PTL DEF Spec

\* The stamps of articles, runs, proposals and of what requests will write are
\* in order.
THEOREM LoopSafety == Spec => []LoopInv
<1>1. TypeOK /\ LoopInv => LoopInv
  OBVIOUS
<1>2. QED BY LoopInit, LoopSteps, <1>1, PTL DEF Spec

\* Whatever requests overlap, an accepted proposal was made after its baseline
\* was recorded and before the run that accepted it.
THEOREM EvidenceBrackets == Spec => []EvidenceBracketsProposal
<1>1. TypeOK /\ LoopInv => EvidenceBracketsProposal
  BY DEF LoopInv
<1>2. QED BY LoopInit, LoopSteps, <1>1, PTL DEF Spec

\* Where every member of a family was asked a question, a majority of its votes
\* is a majority of the family.
LEMMA MajorityOfFamily ==
    ASSUME NEW family, IsFiniteSet(family), NEW q, \A m \in family : q \in Asked(m),
           MajorityVerdict(family, q) = "PASS"
    PROVE  2 * Cardinality({m \in family : q \in Asked(m) /\ Passes(m, q)})
               > Cardinality(family)
<1> DEFINE P == {m \in Votes(family, q) : Passes(m, q)}
           F == {m \in Votes(family, q) : ~Passes(m, q)}
<1>1. P \cup F = family /\ P \cap F = {}
  BY DEF Votes
<1>2. {m \in family : q \in Asked(m) /\ Passes(m, q)} = P
  BY DEF Votes
<1>3. IsFiniteSet(P) /\ IsFiniteSet(F)
  BY <1>1, FS_Subset
<1>4. Cardinality(P) \in Nat /\ Cardinality(F) \in Nat
  BY <1>3, FS_CardinalityType
<1>5. Cardinality(P) > Cardinality(F)
  BY DEF MajorityVerdict
<1> HIDE DEF P, F
<1>6. Cardinality(family) = Cardinality(P) + Cardinality(F)
  <2>1. Cardinality(P \cup F) =
            Cardinality(P) + Cardinality(F) - Cardinality(P \cap F)
    BY <1>3, FS_Union
  <2>2. Cardinality(P \cap F) = 0
    BY <1>1, FS_EmptySet
  <2>3. Cardinality(P \cup F) = Cardinality(family)
    BY <1>1
  <2>4. QED BY <2>1, <2>2, <2>3, <1>4
<1>7. 2 * Cardinality(P) > Cardinality(family)
  BY <1>4, <1>5, <1>6
<1>8. QED BY <1>2, <1>7

\* The gate has no vacuous pass, however many runs were recorded under whatever
\* labels and questions: see NoQuestionLost.
THEOREM GateLosesNoQuestion == Spec => []NoQuestionLost
<1>1. TypeOK /\ LoopInv => NoQuestionLost
  <2> SUFFICES ASSUME TypeOK, LoopInv, NEW p \in ProposalIds, NEW after \in runs,
                      BlockedBy(runs, proposal[p].before, after, article[p]) = "none",
                      NEW q \in Asked(proposal[p].before),
                      MajorityVerdict(RunFamily(runs, proposal[p].before), q) = "PASS"
               PROVE  2 * Cardinality({m \in RunFamily(runs, after) :
                                          q \in Asked(m) /\ Passes(m, q)})
                          > Cardinality(RunFamily(runs, after))
    BY DEF NoQuestionLost
  <2> DEFINE before  == proposal[p].before
             befores == RunFamily(runs, before)
             afters  == RunFamily(runs, after)
  <2>1. /\ before \in runs /\ before.kind = "answer" /\ after.kind = "answer"
        /\ ~Partial(afters, before)
        /\ Regressions(befores, afters) = {}
    BY DEF BlockedBy
  <2>2. before \in befores /\ after \in afters
    BY <2>1 DEF RunFamily
  <2>3. \A m \in afters : q \in Asked(m)
    BY <2>1 DEF Partial
  <2>4. q \in Covered(befores) \cap Covered(afters)
    BY <2>2, <2>3 DEF Covered
  <2>5. MajorityVerdict(afters, q) = "PASS"
    BY <2>1, <2>4 DEF Regressions
  <2>6. IsFiniteSet(afters)
    BY FS_Subset DEF LoopInv, RunsInv, RunFamily
  <2>7. QED BY <2>3, <2>5, <2>6, MajorityOfFamily
<1>2. QED BY LoopInit, LoopSteps, <1>1, PTL DEF Spec

-----------------------------------------------------------------------------
\* What the gates know of a fix.  One that was published, before any request with a
\* later stamp committed, and never withdrawn nor deleted is visible, and in the
\* corpus of every run whose corpus is not older.
FixMeasuredInv ==
    \A a \in Articles :
        article[a].published_at # 0 /\ ~article[a].is_deleted /\ a \notin withdrawn \cup overtaken =>
            /\ Visible(a)
            /\ \A r \in runs \cup harness.pending :
                  article[a].published_at <= r.corpus_at => Contains(r.digest, a)

\* A first publication under way, unless overtaken, is later than every visible row
\* and every run's corpus.
FirstPublicationInv(t) ==
    "published_at" \in DOMAIN t.set =>
        /\ "is_deleted" \notin DOMAIN t.set
        /\ "status" \in DOMAIN t.set /\ t.set["status"] = "published"
        /\ t.id \notin overtaken =>
              /\ \A a \in Articles :
                    Visible(a) => article[a].updated_at < t.set["published_at"]
              /\ \A r \in runs \cup harness.pending : r.corpus_at < t.set["published_at"]

\* The run an acceptance under way relies on contains the fix.
AcceptanceInv(t) ==
    t.op = "accept" /\ t.id \notin withdrawn \cup overtaken =>
        Contains(t.decide["after"].digest, t.id)

\* No request brings a deleted article back.
DeletionInv(t) == "is_deleted" \in DOMAIN t.set => t.set["is_deleted"]

LastingRequest(t) == FirstPublicationInv(t) /\ AcceptanceInv(t) /\ DeletionInv(t)

LastingInv ==
    /\ FixMeasuredInv
    /\ \A s \in Sessions : Running(s) => LastingRequest(txn[s])

\* What is loaded.
LEMMA LoadLasts ==
    ASSUME TypeOK, LoopInv, LastingInv,
           NEW s \in Sessions, NEW op, NEW id, NEW set, NEW decide,
           Load(s, op, id, set, decide),
           NEW x, x = [op |-> op, id |-> id, set |-> set, decide |-> decide],
           LastingRequest(x)
    PROVE  LastingInv'
<1>1. /\ txn' = [txn EXCEPT ![s] = x]
      /\ UNCHANGED article /\ UNCHANGED runs /\ UNCHANGED harness /\ UNCHANGED withdrawn
      /\ UNCHANGED overtaken
  BY DEF Load
<1>2. \A u \in Sessions : txn'[u] = IF u = s THEN x ELSE txn[u]
  BY <1>1 DEF TypeOK
<1>3. FixMeasuredInv'
  BY <1>1 DEF LastingInv, FixMeasuredInv, Visible, Contains
<1>4. LastingRequest(x)'
  BY <1>1 DEF LastingRequest, FirstPublicationInv, AcceptanceInv, DeletionInv, Contains, Visible
<1>5. ASSUME NEW u \in Sessions, txn'[u] # Idle PROVE LastingRequest(txn[u])'
  <2>1. CASE u = s
    BY <1>2, <1>4, <2>1
       DEF LastingRequest, FirstPublicationInv, AcceptanceInv, DeletionInv
  <2>2. CASE u # s
    <3>1. PICK y : y = txn[u]
      OBVIOUS
    <3>2. LastingRequest(y) /\ txn'[u] = y
      BY <1>2, <1>5, <2>2, <3>1 DEF LastingInv, Running
    <3>3. LastingRequest(y)'
      BY <1>1, <3>2
         DEF LastingRequest, FirstPublicationInv, AcceptanceInv, DeletionInv, Contains, Visible
    <3>4. QED BY <3>2, <3>3
          DEF LastingRequest, FirstPublicationInv, AcceptanceInv, DeletionInv
  <2>3. QED BY <2>1, <2>2
<1>6. QED BY <1>3, <1>5 DEF LastingInv, Running

\* A request that does not publish for the first time, nor accepts.
LEMMA OtherLoadLasts ==
    ASSUME TypeOK, LoopInv, LastingInv,
           NEW s \in Sessions, NEW op, op # "accept", NEW id, NEW old, NEW new, NEW decide,
           new.published_at = old.published_at, new.is_deleted \in {old.is_deleted, TRUE},
           Load(s, op, id, Changed(old, new), decide)
    PROVE  LastingInv'
<1>1. PICK set : set = Changed(old, new)
  OBVIOUS
<1>2. "published_at" \notin DOMAIN set
  BY <1>1, ChangedColumns
<1>3. "is_deleted" \in DOMAIN set => old["is_deleted"] # new["is_deleted"]
                                     /\ set["is_deleted"] = new["is_deleted"]
  BY <1>1, ChangedColumns
<1>4. "is_deleted" \in DOMAIN set => set["is_deleted"] = TRUE
  BY <1>3, Zenon
<1>5. Load(s, op, id, set, decide)
  BY <1>1
<1>6. PICK x : x = [op |-> op, id |-> id, set |-> set, decide |-> decide]
  OBVIOUS
<1>7. LastingRequest(x)
  BY <1>2, <1>4, <1>6 DEF LastingRequest, FirstPublicationInv, AcceptanceInv, DeletionInv
<1>8. QED BY <1>5, <1>6, <1>7, LoadLasts

\* Nothing is as late as the clock's next tick.
LEMMA NowIsNext ==
    ASSUME TypeOK, LoopInv
    PROVE  /\ Now \in Nat /\ Now # 0
           /\ \A a \in Articles : /\ article[a].updated_at \in Nat
                                  /\ article[a].updated_at < Now
                                  /\ article[a].published_at \in Nat
                                  /\ DOMAIN article[a] = {"status", "is_deleted", "updated_at",
                                                          "published_at"}
           /\ \A r \in runs \cup harness.pending : r.corpus_at \in Nat /\ r.corpus_at < Now
<1>1. clock \in Nat /\ Now = clock + 1
  BY DEF TypeOK, Times, Now
<1>2. ASSUME NEW a \in Articles
      PROVE  /\ article[a].updated_at \in Nat /\ article[a].updated_at <= clock
             /\ article[a].published_at \in Nat
             /\ DOMAIN article[a] = {"status", "is_deleted", "updated_at", "published_at"}
  BY DEF TypeOK, Row, Times, LoopInv, ArticleInv
<1>3. ASSUME NEW r \in runs \cup harness.pending
      PROVE  r.corpus_at \in Nat /\ r.at \in Nat /\ r.corpus_at < r.at /\ r.at <= clock
  BY DEF TypeOK, Run, Times, LoopInv, RunsInv
<1>4. ASSUME NEW a \in Articles PROVE article[a].updated_at < Now
  BY <1>1, <1>2
<1>5. ASSUME NEW r \in runs \cup harness.pending PROVE r.corpus_at < Now
  BY <1>1, <1>3
<1>6. QED BY <1>1, <1>2, <1>3, <1>4, <1>5

\* A corpus is as new as the newest row in it.
LEMMA CorpusStampBelow ==
    ASSUME TypeOK, NEW n \in Nat, n # 0,
           \A a \in Articles : Visible(a) => article[a].updated_at < n
    PROVE  CorpusStamp < n
<1> DEFINE S == {article[a].updated_at : a \in {b \in Articles : Visible(b)}} \cup {0}
<1>1. S \in SUBSET (0..MaxTime) /\ S # {} /\ \A k \in S : k < n
  BY ProposalAssumption DEF TypeOK, Row, Times
<1>2. MaxTime \in Nat
  BY ProposalAssumption
<1> HIDE DEF S
<1>3. \E m \in S : \A k \in S : m >= k
  BY <1>1, <1>2, Greatest
<1>4. Max(S) \in S
  BY <1>3 DEF Max
<1>5. CorpusStamp = Max(S)
  BY DEF CorpusStamp, S
<1>6. QED BY <1>1, <1>4, <1>5

\* A content request.
LEMMA ContentLasts ==
    ASSUME TypeOK, LoopInv, LastingInv,
           NEW s \in Sessions, NEW a \in Articles, ContentRequest(s, a)
    PROVE  LastingInv'
<1> DEFINE old == article[a]
<1>1. DOMAIN old = {"status", "is_deleted", "updated_at", "published_at"}
      /\ old.published_at \in Nat /\ Now # 0 /\ old \in Row
  BY NowIsNext DEF TypeOK
<1>2. CASE PublishContent(s, a)
  <2> DEFINE new == [old EXCEPT !.status = "published", !.updated_at = Now,
                                !.published_at = IF @ = 0 THEN Now ELSE @]
  <2>1. Load(s, "publish", a, Changed(old, new), Nothing) /\ ~old.is_deleted
    BY <1>2 DEF PublishContent, Active
  <2>2. /\ new.published_at = IF old.published_at = 0 THEN Now ELSE old.published_at
        /\ new.status = "published" /\ new.is_deleted = old.is_deleted
        /\ DOMAIN new = DOMAIN old
    BY <1>1
  <2> HIDE DEF new
  <2>3. CASE old.published_at # 0
    BY <2>1, <2>2, <2>3, OtherLoadLasts
  <2>4. CASE old.published_at = 0
    <3>1. PICK set : set = Changed(old, new)
      OBVIOUS
    <3>2. old.status # "published"
      BY <2>4 DEF LoopInv, ArticleInv
    <3>3. /\ "status" \in DOMAIN set /\ set["status"] = "published"
          /\ "is_deleted" \notin DOMAIN set
          /\ "published_at" \in DOMAIN set /\ set["published_at"] = Now
      BY <1>1, <2>2, <2>4, <3>1, <3>2, ChangedColumns
    <3>4. PICK x : x = [op |-> "publish", id |-> a, set |-> set, decide |-> Nothing]
      OBVIOUS
    <3>5. LastingRequest(x)
      BY <3>3, <3>4, NowIsNext
         DEF LastingRequest, FirstPublicationInv, AcceptanceInv, DeletionInv
    <3>6. Load(s, "publish", a, set, Nothing)
      BY <2>1, <3>1
    <3>7. QED BY <3>4, <3>5, <3>6, LoadLasts
  <2>5. QED BY <2>3, <2>4
<1>3. CASE UpdateContent(s, a)
  <2> DEFINE new == [old EXCEPT !.updated_at = Now]
  <2>1. new.published_at = old.published_at /\ new.is_deleted \in {old.is_deleted, TRUE}
    BY <1>1
  <2>2. Load(s, "update", a, Changed(old, new), Nothing)
    BY <1>3 DEF UpdateContent
  <2> HIDE DEF new
  <2>3. QED BY <2>1, <2>2, OtherLoadLasts
<1>4. CASE ArchiveContent(s, a)
  <2>1. /\ Archived(old).published_at = old.published_at
        /\ Archived(old).is_deleted = old.is_deleted
    BY <1>1 DEF Archived
  <2>2. Load(s, "archive", a, Changed(old, Archived(old)), Nothing)
    BY <1>4 DEF ArchiveContent
  <2>3. QED BY <2>1, <2>2, OtherLoadLasts
<1>5. CASE DeleteContent(s, a)
  <2> DEFINE new == [old EXCEPT !.is_deleted = TRUE, !.updated_at = Now]
  <2>1. new.published_at = old.published_at /\ new.is_deleted \in {old.is_deleted, TRUE}
    BY <1>1
  <2>2. Load(s, "delete", a, Changed(old, new), Nothing)
    BY <1>5 DEF DeleteContent
  <2> HIDE DEF new
  <2>3. QED BY <2>1, <2>2, OtherLoadLasts
<1>6. QED BY <1>2, <1>3, <1>4, <1>5 DEF ContentRequest

\* The gate asks for a corpus no older than the publication of the fix.
LEMMA GateMeasuresFix ==
    ASSUME TypeOK, LoopInv, LastingInv, NEW p \in ProposalIds, NEW after \in runs,
           BlockedBy(runs, proposal[p].before, after, article[p]) = "none",
           p \notin withdrawn \cup overtaken
    PROVE  Contains(after.digest, p)
<1> DEFINE afters == RunFamily(runs, after)
<1>1. /\ after.kind = "answer" /\ Published(article[p]) /\ ~Predates(afters, article[p])
  BY DEF BlockedBy
<1>2. after \in afters
  BY <1>1 DEF RunFamily
<1>3. after.corpus_at \in Nat /\ article[p].published_at \in Nat /\ p \in Articles
  BY NowIsNext DEF Articles
<1>4. article[p].published_at <= after.corpus_at
  BY <1>1, <1>2, <1>3 DEF Predates
<1>5. article[p].published_at # 0
  BY <1>1, <1>3 DEF LoopInv, ArticleInv, Published
<1>6. QED BY <1>1, <1>3, <1>4, <1>5 DEF LastingInv, FixMeasuredInv, Published

\* A proposal request.
LEMMA ProposalLasts ==
    ASSUME TypeOK, LoopInv, LastingInv,
           NEW s \in Sessions, NEW p \in ProposalIds, ProposalRequest(s, p)
    PROVE  LastingInv'
<1> DEFINE old == article[p]
<1>1. DOMAIN old = {"status", "is_deleted", "updated_at", "published_at"} /\ old \in Row
  BY NowIsNext DEF TypeOK, Articles
<1>2. CASE ProposeContentFix(s, p)
  <2> DEFINE new == [old EXCEPT !.status = "draft", !.updated_at = Now]
  <2>1. new.published_at = old.published_at /\ new.is_deleted \in {old.is_deleted, TRUE}
    BY <1>1
  <2>2. PICK decide : Load(s, "propose", p, Changed(old, new), decide)
    BY <1>2 DEF ProposeContentFix
  <2> HIDE DEF new
  <2>3. QED BY <2>1, <2>2, OtherLoadLasts
<1>3. ASSUME NEW after \in runs, AcceptProposal(s, p, after) PROVE LastingInv'
  <2> DEFINE row == [proposal[p] EXCEPT !.status = "accepted", !.after = after]
  <2>1. /\ proposal[p].status = "proposed"
        /\ BlockedBy(runs, proposal[p].before, after, article[p]) = "none"
        /\ Load(s, "accept", p, Nothing, Changed(proposal[p], row))
    BY <1>3 DEF AcceptProposal
  <2>2. row.after = after /\ "after" \in DOMAIN row
    BY DEF TypeOK, ProposalRow
  <2>3. proposal[p].after # after
    <3>1. proposal[p].after = NoRun
      BY <2>1 DEF LoopInv, FixInv
    <3>2. after \in Run
      BY DEF TypeOK
    <3>3. QED BY <3>1, <3>2, NoRunAssumption
  <2> HIDE DEF row
  <2>4. PICK decide : decide = Changed(proposal[p], row)
    OBVIOUS
  <2>5. decide["after"] = after
    BY <2>2, <2>3, <2>4, ChangedColumns
  <2>6. PICK x : x = [op |-> "accept", id |-> p, set |-> Nothing, decide |-> decide]
    OBVIOUS
  <2>7. p \notin withdrawn \cup overtaken => Contains(after.digest, p)
    BY <2>1, GateMeasuresFix
  <2>8. AcceptanceInv(x)
    BY <2>5, <2>6, <2>7 DEF AcceptanceInv
  <2>9. LastingRequest(x)
    BY <2>6, <2>8, NothingChanged DEF LastingRequest, FirstPublicationInv, DeletionInv
  <2>10. Load(s, "accept", p, Nothing, decide)
    BY <2>1, <2>4
  <2>11. QED BY <2>6, <2>9, <2>10, LoadLasts
<1>4. CASE RejectProposal(s, p)
  <2> DEFINE draft == IF Visible(p) THEN Archived(old) ELSE old
  <2>1. draft.published_at = old.published_at /\ draft.is_deleted = old.is_deleted
    BY <1>1 DEF Archived
  <2>2. PICK decide : Load(s, "reject", p, Changed(old, draft), decide)
    BY <1>4 DEF RejectProposal
  <2> HIDE DEF draft
  <2>3. QED BY <2>1, <2>2, OtherLoadLasts
<1>5. QED BY <1>2, <1>3, <1>4 DEF ProposalRequest

\* A commit overtakes the first publications that its row is not older than.
LEMMA CommitLasts ==
    ASSUME TypeOK, LoopInv, LastingInv, NEW s \in Sessions, Commit(s)
    PROVE  LastingInv'
<1>1. PICK t : t = txn[s]
  OBVIOUS
<1>2. /\ Running(s) /\ t.id \in Articles /\ t.set \in Patches(Row)
      /\ FirstPublicationInv(t) /\ DeletionInv(t)
      /\ article \in [Articles -> Row]
  BY <1>1 DEF Commit, TypeOK, LastingInv, LastingRequest
<1>3. /\ article' = [article EXCEPT ![t.id] = Merge(article[t.id], t.set)]
      /\ withdrawn' = IF Visible(t.id) /\ ~Published(article'[t.id])
                      THEN withdrawn \cup {t.id} ELSE withdrawn
      /\ overtaken' = overtaken \cup Overtakes(s, article'[t.id])
      /\ txn' = [txn EXCEPT ![s] = Idle]
      /\ UNCHANGED runs /\ UNCHANGED harness
  BY <1>1 DEF Commit
<1>4. PICK row \in Row, new \in Row :
          /\ row = article[t.id] /\ new = article'[t.id] /\ new = Merge(row, t.set)
          /\ \A c \in {"status", "is_deleted", "updated_at", "published_at"} :
                new[c] = IF c \in DOMAIN t.set THEN t.set[c] ELSE row[c]
          /\ \A a \in Articles \ {t.id} : article'[a] = article[a]
  <2>1. article[t.id] \in Row /\ article'[t.id] = Merge(article[t.id], t.set)
    BY <1>2, <1>3
  <2>2. \A a \in Articles \ {t.id} : article'[a] = article[a]
    BY <1>2, <1>3
  <2>3. QED BY <1>2, <2>1, <2>2, MergeRow
<1>5. ASSUME NEW u \in Sessions, txn'[u] # Idle PROVE LastingRequest(txn[u])'
  <2>1. u # s /\ txn'[u] = txn[u] /\ Running(u)
    BY <1>3, <1>5 DEF TypeOK, Running
  <2>2. PICK x : x = txn[u] /\ LastingRequest(x)
    BY <2>1 DEF LastingInv
  <2>3. withdrawn \subseteq withdrawn' /\ overtaken \subseteq overtaken'
    BY <1>3
  <2>4. ASSUME "published_at" \in DOMAIN x.set, x.id \notin overtaken',
               NEW a \in Articles, Published(article'[a])
        PROVE  article'[a].updated_at < x.set["published_at"]
    <3>1. CASE a # t.id
      <4>1. article'[a] = article[a] /\ x.id \notin overtaken
        BY <1>4, <2>3, <2>4, <3>1
      <4>2. QED BY <2>2, <2>4, <4>1 DEF LastingRequest, FirstPublicationInv, Visible
    <3>2. CASE a = t.id
      <4>1. ~(x.set["published_at"] <= new.updated_at)
        <5>1. txn[u].id \notin Overtakes(s, new)
          BY <1>3, <1>4, <2>2, <2>4
        <5>2. QED BY <1>4, <2>1, <2>2, <2>4, <3>2, <5>1 DEF Overtakes, Stamping
      <4>2. x.set["published_at"] \in Nat
        <5>1. x.set \in Patches(Row)
          BY <2>2 DEF TypeOK
        <5>2. QED BY <1>4, <2>4, <5>1, MergeRow DEF Times
      <4>3. new.updated_at \in Nat
        BY <1>4 DEF Row, Times
      <4>4. new.updated_at < x.set["published_at"]
        <5>1. \A m, n \in Nat : ~(m <= n) => n < m
          OBVIOUS
        <5>2. QED BY <4>1, <4>2, <4>3, <5>1
      <4>5. QED BY <1>4, <3>2, <4>4
    <3>3. QED BY <3>1, <3>2
  <2>5. FirstPublicationInv(x)'
    BY <1>3, <2>2, <2>3, <2>4 DEF LastingRequest, FirstPublicationInv, Visible
  <2>6. AcceptanceInv(x)' /\ DeletionInv(x)'
    BY <2>2, <2>3 DEF LastingRequest, AcceptanceInv, DeletionInv, Contains
  <2>7. QED BY <2>1, <2>2, <2>5, <2>6
        DEF LastingRequest, FirstPublicationInv, AcceptanceInv, DeletionInv
<1>6. ASSUME NEW a \in Articles, article'[a].published_at # 0, ~article'[a].is_deleted,
             a \notin withdrawn' \cup overtaken'
      PROVE  /\ Published(article'[a])
             /\ \A r \in runs \cup harness.pending :
                   article'[a].published_at <= r.corpus_at => Contains(r.digest, a)
  <2>1. a \notin withdrawn \cup overtaken
    BY <1>3, <1>6
  <2>2. CASE a # t.id
    BY <1>4, <1>6, <2>1, <2>2 DEF LastingInv, FixMeasuredInv, Visible
  <2>3. CASE a = t.id
    <3>1. CASE row.published_at # 0 /\ "published_at" \notin DOMAIN t.set
      <4>0. ~row.is_deleted
        BY <1>2, <1>4, <1>6, <2>3 DEF DeletionInv
      <4>1. /\ Published(row)
            /\ \A r \in runs \cup harness.pending :
                  row.published_at <= r.corpus_at => Contains(r.digest, a)
        BY <1>2, <1>4, <2>1, <2>3, <3>1, <4>0 DEF LastingInv, FixMeasuredInv, Visible
      <4>2. Published(new)
        BY <1>3, <1>4, <1>6, <2>3, <4>1 DEF Visible
      <4>3. new.published_at = row.published_at
        BY <1>4, <3>1
      <4>4. QED BY <1>4, <2>3, <4>1, <4>2, <4>3
    <3>2. CASE "published_at" \in DOMAIN t.set
      <4>1. new.status = "published" /\ new.published_at = t.set["published_at"]
        BY <1>2, <1>4, <3>2 DEF FirstPublicationInv
      <4>2. t.set["published_at"] \in Nat
        BY <1>2, <1>4, <3>2, MergeRow DEF Times
      <4>3. ASSUME NEW r \in runs \cup harness.pending
            PROVE  ~(new.published_at <= r.corpus_at)
        <5>1. r.corpus_at \in Nat /\ r.corpus_at < t.set["published_at"]
          BY <1>2, <2>1, <2>3, <3>2, NowIsNext DEF FirstPublicationInv
        <5>2. QED BY <4>1, <4>2, <5>1
      <4>4. QED BY <1>4, <1>6, <2>3, <4>1, <4>3 DEF Published
    <3>3. CASE row.published_at = 0 /\ "published_at" \notin DOMAIN t.set
      BY <1>4, <1>6, <2>3, <3>3
    <3>4. QED BY <3>1, <3>2, <3>3
  <2>4. QED BY <2>2, <2>3
<1>7. FixMeasuredInv'
  BY <1>3, <1>6 DEF FixMeasuredInv, Visible, Contains
<1>8. QED BY <1>5, <1>7 DEF LastingInv, Running

\* The harness: a run's corpus holds what is visible when it is recorded.
LEMMA EvaluationLasts ==
    ASSUME TypeOK, LoopInv, LastingInv, Evaluation
    PROVE  LastingInv'
<1>1. ASSUME UNCHANGED article, UNCHANGED txn, UNCHANGED withdrawn, UNCHANGED overtaken,
             \A r \in (runs' \cup harness'.pending) \ (runs \cup harness.pending) :
                 /\ r.digest = Digest
                 /\ \A s \in Sessions :
                        Stamping(s) /\ txn[s].id \notin overtaken =>
                            r.corpus_at < txn[s].set["published_at"]
      PROVE  LastingInv'
  <2>1. ASSUME NEW a \in Articles, article[a].published_at # 0, ~article[a].is_deleted,
               a \notin withdrawn \cup overtaken,
               NEW r \in runs' \cup harness'.pending,
               article[a].published_at <= r.corpus_at
        PROVE  Contains(r.digest, a)
    <3>1. CASE r \in runs \cup harness.pending
      BY <2>1, <3>1 DEF LastingInv, FixMeasuredInv
    <3>2. CASE r \notin runs \cup harness.pending
      <4>1. r.digest = Digest /\ Visible(a) /\ article[a].updated_at \in Times
        BY <1>1, <2>1, <3>2 DEF LastingInv, FixMeasuredInv, TypeOK, Row
      <4>2. QED BY <4>1 DEF Contains, Digest
    <3>3. QED BY <3>1, <3>2
  <2>2. FixMeasuredInv'
    BY <1>1, <2>1 DEF LastingInv, FixMeasuredInv, Visible, Contains
  <2>3. ASSUME NEW s \in Sessions, Running(s) PROVE LastingRequest(txn[s])'
    <3>1. PICK t : t = txn[s]
      OBVIOUS
    <3>2. LastingRequest(t)
      BY <2>3, <3>1 DEF LastingInv
    <3>3. \A r \in runs' \cup harness'.pending :
              "published_at" \in DOMAIN t.set /\ t.id \notin overtaken =>
                  r.corpus_at < t.set["published_at"]
      BY <1>1, <2>3, <3>1, <3>2 DEF LastingRequest, FirstPublicationInv, Stamping
    <3>4. LastingRequest(t)'
      BY <1>1, <3>2, <3>3
         DEF LastingRequest, FirstPublicationInv, AcceptanceInv, DeletionInv, Contains, Visible
    <3>5. QED BY <1>1, <3>1, <3>4
          DEF LastingRequest, FirstPublicationInv, AcceptanceInv, DeletionInv
  <2>4. QED BY <1>1, <2>2, <2>3 DEF LastingInv, Running
<1>2. harness \in [measured : SUBSET (Articles \X Times), busy : BOOLEAN, pending : SUBSET Run]
  BY DEF TypeOK
<1>3. CASE RunEval
  <2>1. runs' = runs /\ harness'.pending = harness.pending
        /\ UNCHANGED article /\ UNCHANGED txn /\ UNCHANGED withdrawn /\ UNCHANGED overtaken
    BY <1>2, <1>3 DEF RunEval
  <2>2. QED BY <1>1, <2>1
<1>4. ASSUME NEW kind \in {"answer", "agent"}, NEW label \in Labels, NEW results \in Results,
             RecordRun(kind, label, results)
      PROVE  LastingInv'
  <2> DEFINE run == [kind |-> kind, label |-> label, at |-> Now, digest |-> Digest,
                     corpus_at |-> CorpusStamp, results |-> results,
                     measured |-> harness.measured]
  <2>1. runs' = runs /\ harness'.pending = harness.pending \cup {run}
        /\ UNCHANGED article /\ UNCHANGED txn /\ UNCHANGED withdrawn /\ UNCHANGED overtaken
    BY <1>2, <1>4 DEF RecordRun
  <2>2. run.digest = Digest /\ run.corpus_at = CorpusStamp
    OBVIOUS
  <2> HIDE DEF run
  <2>3. ASSUME NEW s \in Sessions, Stamping(s), txn[s].id \notin overtaken
        PROVE  run.corpus_at < txn[s].set["published_at"]
    <3>1. PICK t : t = txn[s] /\ t.set \in Patches(Row) /\ WritesInv(t) /\ FirstPublicationInv(t)
                   /\ t.id \in Articles
      BY <2>3 DEF TypeOK, Stamping, LoopInv, RequestInv, LastingInv, LastingRequest
    <3>2. PICK n : /\ n = t.set["published_at"] /\ n # 0
                   /\ \A a \in Articles : Visible(a) => article[a].updated_at < n
      BY <2>3, <3>1 DEF WritesInv, FirstPublicationInv, Stamping
    <3>3. n \in Nat
      <4>1. article[t.id] \in Row
        BY <3>1 DEF TypeOK
      <4>2. n \in Times
        BY <2>3, <3>1, <3>2, <4>1, MergeRow DEF Stamping
      <4>3. QED BY <4>2 DEF Times
    <3>4. QED BY <2>2, <3>1, <3>2, <3>3, CorpusStampBelow
  <2>4. QED BY <1>1, <2>1, <2>2, <2>3
<1>5. CASE CommitRuns
  <2>1. runs' = runs \cup harness.pending /\ harness'.pending = {}
        /\ UNCHANGED article /\ UNCHANGED txn /\ UNCHANGED withdrawn /\ UNCHANGED overtaken
    BY <1>2, <1>5 DEF CommitRuns
  <2>2. QED BY <1>1, <2>1
<1>6. CASE LoseRuns
  <2>1. runs' = runs /\ harness'.pending = {}
        /\ UNCHANGED article /\ UNCHANGED txn /\ UNCHANGED withdrawn /\ UNCHANGED overtaken
    BY <1>6 DEF LoseRuns
  <2>2. QED BY <1>1, <2>1
<1>7. QED BY <1>3, <1>4, <1>5, <1>6 DEF Evaluation

\* The property's invariant is kept by every step.
LEMMA LastingSteps == TypeOK /\ LoopInv /\ LastingInv /\ [Next]_vars => LastingInv'
<1> SUFFICES ASSUME TypeOK, LoopInv, LastingInv, [Next]_vars
             PROVE  LastingInv'
  OBVIOUS
<1>1. CASE (\E s \in Sessions : Rollback(s)) \/ UNCHANGED vars
  <2>1. /\ UNCHANGED article /\ UNCHANGED runs /\ UNCHANGED harness /\ UNCHANGED withdrawn
        /\ UNCHANGED overtaken
        /\ \A s \in Sessions : txn'[s] = Idle \/ txn'[s] = txn[s]
    BY <1>1 DEF Rollback, vars, TypeOK
  <2>2. FixMeasuredInv'
    BY <2>1 DEF LastingInv, FixMeasuredInv, Visible, Contains
  <2>3. ASSUME NEW s \in Sessions, txn'[s] # Idle PROVE LastingRequest(txn[s])'
    <3>1. Running(s) /\ txn'[s] = txn[s]
      BY <2>1, <2>3 DEF Running
    <3>2. LastingRequest(txn[s])
      BY <3>1 DEF LastingInv
    <3>3. QED BY <2>1, <3>1, <3>2
          DEF LastingRequest, FirstPublicationInv, AcceptanceInv, DeletionInv, Contains, Visible
  <2>4. QED BY <2>2, <2>3 DEF LastingInv, Running
<1>2. QED BY <1>1, ContentLasts, ProposalLasts, CommitLasts, EvaluationLasts DEF Next

\* Whatever requests overlap, the corpus fingerprinted with the run that let a fix be
\* accepted held the fix, unless the fix was withdrawn once or a request with a
\* later stamp committed before its first publication.
THEOREM AcceptedFixIsInCorpus == Spec => AcceptedHasLastingFix
<1>1. Init => LastingInv
  BY DEF Init, LastingInv, FixMeasuredInv, Visible, Published, Running
<1>2. TypeOK /\ LoopInv /\ LastingInv /\ [Next]_vars =>
          [\A p \in ProposalIds :
              Accepts(p) /\ p \notin withdrawn \cup overtaken =>
                  Contains(proposal'[p].after.digest, p)]_proposal
  <2> SUFFICES ASSUME TypeOK, LoopInv, LastingInv, [Next]_vars, NEW p \in ProposalIds,
                      proposal[p].status = "proposed", proposal'[p].status = "accepted",
                      p \notin withdrawn \cup overtaken
               PROVE  Contains(proposal'[p].after.digest, p)
    BY DEF Accepts
  <2>1. ASSUME NEW s \in Sessions, Commit(s) PROVE Contains(proposal'[p].after.digest, p)
    <3>1. PICK t : t = txn[s]
      OBVIOUS
    <3>2. /\ AcceptanceInv(t) /\ DecidesInv(t) /\ ProposesInv(t)
          /\ t.decide \in Patches(ProposalRow)
          /\ proposal' = IF t.id \in ProposalIds
                         THEN [proposal EXCEPT ![t.id] = Merge(@, t.decide)] ELSE proposal
      BY <2>1, <3>1 DEF Commit, LoopInv, RequestInv, LastingInv, LastingRequest, TypeOK
    <3>3. t.id = p /\ proposal'[p] = Merge(proposal[p], t.decide)
      BY <3>2 DEF TypeOK
    <3>4. \A c \in DOMAIN proposal[p] :
              proposal'[p][c] = IF c \in DOMAIN t.decide THEN t.decide[c] ELSE proposal[p][c]
      BY <3>3 DEF Merge
    <3>5. {"status", "after"} \subseteq DOMAIN proposal[p]
      BY DEF TypeOK, ProposalRow
    <3>6. t.op = "accept"
      <4>1. "status" \in DOMAIN t.decide /\ t.decide["status"] = "accepted"
        BY <3>4, <3>5
      <4>2. QED BY <3>2, <3>3, <4>1, NothingChanged DEF DecidesInv, ProposesInv
    <3>7. proposal'[p].after = t.decide["after"]
      BY <3>2, <3>4, <3>5, <3>6 DEF DecidesInv
    <3>8. QED BY <3>2, <3>3, <3>6, <3>7 DEF AcceptanceInv
  <2>2. CASE UNCHANGED proposal
    BY <2>2
  <2>3. QED BY <2>1, <2>2 DEF Next, ContentRequest, PublishContent, UpdateContent,
        ArchiveContent, DeleteContent, ProposalRequest, ProposeContentFix, AcceptProposal,
        RejectProposal, Load, Rollback, Evaluation, RunEval, RecordRun, CommitRuns, LoseRuns,
        vars
<1>3. QED BY LoopInit, LoopSteps, LastingSteps, <1>1, <1>2, PTL
          DEF Spec, AcceptedHasLastingFix
=============================================================================
