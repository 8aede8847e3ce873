-------------------------- MODULE PublicChatProofs ---------------------------
(***************************************************************************)
(* What PublicChat guarantees for any number of exchanges and tokens.      *)
(***************************************************************************)
EXTENDS PublicChat, TLAPS

\* The session an exchange writes to, once its request came in.
Target(e) == IF asked[e] \in Exchanges THEN asked[e] ELSE e

Started(e) == stage[e] \notin {"idle", "refused"}
AllRows == messages \cup {m \in Rows : \E e \in Exchanges : m \in pending[e]}

\* The session of an exchange that stored its question is committed and told.
ToldOf(e) ==
    stage[e] \notin {"idle", "refused", "admitted", "failed", "gone"} =>
        session[e] = Target(e) /\ Target(e) \in sessions

\* A client can only name a session that was committed before it was told; the
\* exchange that minted it is done.
AskedIsStored ==
    \A e \in Exchanges :
        /\ ~Started(e) => asked[e] = Absent
        /\ asked[e] \in Exchanges => asked[e] \in sessions /\ stage[asked[e]] = "done"
        /\ Started(e) /\ asked[e] \notin Exchanges => e \in reserved
        /\ ToldOf(e)

\* A transaction is open only where one may be, and rows wait in it only between
\* the flush of the reply and its commit.
TxnOf(e) ==
    /\ stage[e] \notin {"admitted", "recorded"} => txn[e] = 0
    /\ stage[e] # "recorded" => pending[e] = {}
TxnInv == \A e \in Exchanges : TxnOf(e)

\* The rows of an exchange: at most a question and a reply, in its session, the
\* reply later than the question.
RowsInv ==
    /\ \A m \in AllRows : m.session = Target(m.by) /\ m.at <= now
    /\ \A e \in Exchanges : \A m \in pending[e] : m.by = e /\ m.role = "assistant"
    /\ \A m, n \in AllRows : m.by = n.by /\ m.role = n.role => m = n
    /\ \A q, r \in AllRows :
          q.by = r.by /\ q.role = "user" /\ r.role = "assistant" => q.at < r.at

\* How far an exchange has come in storing them.
StoredOf(e) ==
    /\ stage[e] \in {"idle", "refused", "admitted"} => \A m \in messages : m.by # e
    /\ stage[e] \in {"asked", "streaming", "recorded"} =>
           \A m \in messages : m.by = e => m.role = "user"
    /\ stage[e] \in {"asked", "streaming", "recorded", "answered", "cited", "done"} =>
           \E q \in messages : q.by = e /\ q.role = "user"
    /\ stage[e] = "recorded" => pending[e] # {}
    /\ stage[e] \in {"answered", "cited", "done"} =>
           \E r \in messages : r.by = e /\ r.role = "assistant"
StageInv == \A e \in Exchanges : StoredOf(e)

\* e was over before f took its first stamp.
Precedes(e, f) ==
    /\ stage[e] \in Ended
    /\ \A m \in messages : m.by = e =>
          /\ txn[f] # 0 => m.at < txn[f]
          /\ \A n \in AllRows : n.by = f => m.at < n.at

\* Two exchanges of one session follow one another, or both are noted.
SeparateInv ==
    \A e, f \in Exchanges :
        e # f /\ Started(e) /\ Started(f) /\ Target(e) = Target(f) /\ e \notin overlapped =>
            Precedes(e, f) \/ Precedes(f, e)

ChatInv == AskedIsStored /\ TxnInv /\ RowsInv /\ StageInv /\ SeparateInv

-----------------------------------------------------------------------------
\* A row of an exchange is a row.
LEMMA RowType ==
    ASSUME NEW e \in Exchanges, NEW role \in {"user", "assistant"}, NEW at \in Nat, TypeOK
    PROVE  SessionOf(e) \in Exchanges /\ Row(e, role, at) \in Rows
BY DEF SessionOf, Row, Rows, TypeOK

\* The stamp a statement of e gets, and what it does to the clock.
LEMMA StampType ==
    ASSUME NEW e \in Exchanges, TypeOK
    PROVE  /\ Stamp(e) \in Nat
           /\ (IF txn[e] = 0 THEN now + 1 ELSE now) \in Nat
           /\ Stamp(e) \in 0..(IF txn[e] = 0 THEN now + 1 ELSE now)
           /\ now <= (IF txn[e] = 0 THEN now + 1 ELSE now)
BY DEF Stamp, TypeOK

\* A commit keeps every variable in its range.
LEMMA CommitType ==
    ASSUME TypeOK, NEW e \in Exchanges, NEW rows \in SUBSET Rows,
           NEW minted \in SUBSET Exchanges, CommitRows(e, rows, minted)
    PROVE  /\ now' \in Nat /\ now <= now'
           /\ txn' \in [Exchanges -> 0..now']
           /\ pending' \in [Exchanges -> SUBSET Rows]
           /\ messages' \subseteq Rows /\ sessions' \subseteq Exchanges
<1>1. now' \in Nat /\ now <= now'
  BY StampType DEF CommitRows
<1>2. 0..now \subseteq 0..now'
  BY <1>1 DEF TypeOK
<1>3. QED BY <1>1, <1>2 DEF CommitRows, TypeOK

\* So does the start of a transaction.
LEMMA BeginType ==
    ASSUME TypeOK, NEW e \in Exchanges, Begin(e)
    PROVE  now' \in Nat /\ now <= now' /\ txn' \in [Exchanges -> 0..now']
<1>1. now' \in Nat /\ now <= now' /\ Stamp(e) \in 0..now'
  BY StampType DEF Begin
<1>2. 0..now \subseteq 0..now'
  BY <1>1 DEF TypeOK
<1>3. QED BY <1>1, <1>2 DEF Begin, TypeOK

\* Every variable of the chat stays in its range.
THEOREM ChatTypes == Spec => []TypeOK
<1>1. Init => TypeOK
  BY DEF Init, TypeOK, Stages
<1>2. TypeOK /\ [Next]_vars => TypeOK'
  <2> SUFFICES ASSUME TypeOK, [Next]_vars PROVE TypeOK'
    OBVIOUS
  <2> USE DEF GoTo, Send, Stages, Ended
  <2>1. ASSUME NEW e \in Exchanges, NEW s \in Exchanges \cup {Absent, Unknown}, Request(e, s)
        PROVE  TypeOK'
    <3>1. now' \in Nat /\ txn' \in [Exchanges -> 0..now']
      BY <2>1, BeginType DEF Request, TypeOK
    <3>2. QED BY <2>1, <3>1 DEF Request, TypeOK
  <2>2. ASSUME NEW e \in Exchanges, NEW s \in Exchanges \cup {Absent, Unknown}, Refuse(e, s)
        PROVE  TypeOK'
    BY <2>2 DEF Refuse, TypeOK
  <2>3. ASSUME NEW e \in Exchanges, Ask(e) PROVE TypeOK'
    <3>1. SessionOf(e) \in Exchanges /\ Row(e, "user", Stamp(e)) \in Rows
      BY RowType, StampType
    <3>2. CommitRows(e, {Row(e, "user", Stamp(e))}, {SessionOf(e)})
      BY <2>3 DEF Ask
    <3>3. /\ now' \in Nat /\ txn' \in [Exchanges -> 0..now']
          /\ pending' \in [Exchanges -> SUBSET Rows]
          /\ messages' \subseteq Rows /\ sessions' \subseteq Exchanges
      BY <3>1, <3>2, CommitType
    <3>4. QED BY <2>3, <3>1, <3>3 DEF Ask, TypeOK
  <2>4. ASSUME NEW e \in Exchanges, Retrieve(e) PROVE TypeOK'
    BY <2>4, CommitType DEF Retrieve, TypeOK
  <2>5. ASSUME NEW e \in Exchanges, Token(e) PROVE TypeOK'
    BY <2>5 DEF Token, TypeOK
  <2>6. ASSUME NEW e \in Exchanges, RecordAnswer(e) PROVE TypeOK'
    <3>1. Row(e, "assistant", Stamp(e)) \in Rows
      BY RowType, StampType
    <3>2. QED BY <2>6, <3>1, BeginType DEF RecordAnswer, TypeOK
  <2>7. ASSUME NEW e \in Exchanges, CommitAnswer(e) PROVE TypeOK'
    BY <2>7, CommitType DEF CommitAnswer, TypeOK
  <2>8. ASSUME NEW e \in Exchanges, Cite(e) PROVE TypeOK'
    BY <2>8 DEF Cite, TypeOK
  <2>9. ASSUME NEW e \in Exchanges, Done(e) PROVE TypeOK'
    BY <2>9 DEF Done, TypeOK
  <2>10. ASSUME NEW e \in Exchanges, Fail(e) PROVE TypeOK'
    BY <2>10 DEF Fail, TypeOK
  <2>11. ASSUME NEW e \in Exchanges, FailAfterCommit(e) PROVE TypeOK'
    <3>1. SessionOf(e) \in Exchanges /\ Row(e, "user", Stamp(e)) \in Rows
      BY RowType, StampType
    <3>2. \/ CommitRows(e, {Row(e, "user", Stamp(e))}, {SessionOf(e)})
          \/ CommitRows(e, {}, {})
      BY <2>11 DEF FailAfterCommit
    <3>3. /\ now' \in Nat /\ txn' \in [Exchanges -> 0..now']
          /\ pending' \in [Exchanges -> SUBSET Rows]
          /\ messages' \subseteq Rows /\ sessions' \subseteq Exchanges
      BY <3>1, <3>2, CommitType
    <3>4. /\ session' \in [Exchanges -> Exchanges \cup {Absent}]
          /\ stage' \in [Exchanges -> Stages]
          /\ UNCHANGED <<asked, reserved, overlapped>>
      BY <2>11, <3>1 DEF FailAfterCommit, TypeOK
    <3>5. QED BY <3>3, <3>4 DEF TypeOK
  <2>12. ASSUME NEW e \in Exchanges, Disconnect(e) PROVE TypeOK'
    BY <2>12 DEF Disconnect, TypeOK
  <2>13. CASE UNCHANGED vars
    BY <2>13 DEF vars, TypeOK
  <2>14. QED BY <2>1, <2>2, <2>3, <2>4, <2>5, <2>6, <2>7, <2>8, <2>9, <2>10, <2>11, <2>12,
               <2>13 DEF Next
<1>3. QED BY <1>1, <1>2, PTL DEF Spec

-----------------------------------------------------------------------------
\* The lookup of the generator finds what the request named.
LEMMA SessionIsTarget ==
    ASSUME TypeOK, AskedIsStored, NEW e \in Exchanges
    PROVE  SessionOf(e) = Target(e) /\ Target(e) \in Exchanges
BY ChatAssumption DEF SessionOf, Target, AskedIsStored, TypeOK

\* What a commit of e leaves alone, and the rows it leaves.
LEMMA CommitEffect ==
    ASSUME TypeOK, NEW e \in Exchanges, NEW rows \in SUBSET Rows,
           NEW minted \in SUBSET Exchanges, CommitRows(e, rows, minted)
    PROVE  /\ \A f \in Exchanges \ {e} : txn'[f] = txn[f] /\ pending'[f] = pending[f]
           /\ txn'[e] = 0 /\ pending'[e] = {}
           /\ messages' = messages \cup pending[e] \cup rows
           /\ AllRows' = AllRows \cup rows
           /\ sessions' = sessions \cup minted
           /\ now' \in Nat /\ now <= now' /\ Stamp(e) \in Nat /\ Stamp(e) <= now'
           /\ txn[e] = 0 => Stamp(e) = now + 1
           /\ txn[e] # 0 => Stamp(e) = txn[e]
<1>1. /\ \A f \in Exchanges \ {e} : txn'[f] = txn[f] /\ pending'[f] = pending[f]
      /\ txn'[e] = 0 /\ pending'[e] = {}
      /\ messages' = messages \cup pending[e] \cup rows
      /\ sessions' = sessions \cup minted
  BY DEF CommitRows, TypeOK
<1>2. ASSUME NEW m PROVE m \in AllRows' <=> m \in AllRows \cup rows
  BY <1>1 DEF AllRows, TypeOK
<1>3. AllRows' = AllRows \cup rows
  BY <1>2
<1>4. /\ now' \in Nat /\ now <= now' /\ Stamp(e) \in Nat /\ Stamp(e) <= now'
      /\ txn[e] = 0 => Stamp(e) = now + 1
      /\ txn[e] # 0 => Stamp(e) = txn[e]
  BY DEF CommitRows, Stamp, TypeOK
<1>5. QED BY <1>1, <1>3, <1>4

-----------------------------------------------------------------------------
\* A step of an exchange after its request: it may write a row, stamped as its
\* transaction is.
Step(e, new) ==
    /\ stage[e] \notin Ended
    /\ UNCHANGED <<asked, reserved, overlapped>>
    /\ \A f \in Exchanges \ {e} :
          /\ stage'[f] = stage[f] /\ session'[f] = session[f]
          /\ txn'[f] = txn[f] /\ pending'[f] = pending[f]
    /\ Started(e)' = Started(e)
    /\ sessions \subseteq sessions'
    /\ messages \subseteq messages'
    /\ messages' \subseteq messages \cup pending[e] \cup new
    /\ AllRows' \subseteq AllRows \cup new
    /\ now' \in Nat /\ now <= now'
    /\ txn'[e] \in {0, txn[e], now + 1}
    /\ new \subseteq Rows
    /\ \A m, n \in new : m = n
    /\ \A n \in new :
          /\ n.by = e /\ n.session = Target(e) /\ n.at <= now'
          /\ n.at = now + 1 \/ (txn[e] # 0 /\ n.at = txn[e])

\* The row is the first of its kind: a question comes before everything else of
\* its exchange, a reply takes a new stamp.
FirstOfItsKind(e, new) ==
    \A n \in new :
        \/ /\ n.role = "user"
           /\ \A m \in AllRows : m.by # e
        \/ /\ n.role = "assistant" /\ txn[e] = 0
           /\ \A m \in AllRows : m.by = e => m.role = "user"

\* New rows of an exchange that stored none of their kind keep RowsInv.
LEMMA RowsStep ==
    ASSUME TypeOK, RowsInv, NEW e \in Exchanges, NEW new,
           Step(e, new), FirstOfItsKind(e, new),
           \A m \in pending'[e] : m \in pending[e] \/ (m \in new /\ m.role = "assistant")
    PROVE  RowsInv'
<1>0. /\ \A m \in AllRows : m \in Rows
      /\ \A m \in AllRows' : m \in AllRows \/ m \in new
      /\ \A x : Target(x)' = Target(x)
  BY DEF AllRows, TypeOK, Step, Target
<1>01. /\ \A n \in new :
             /\ n \in Rows /\ n.by = e /\ n.session = Target(e) /\ n.at <= now'
             /\ n.at = now + 1 \/ (txn[e] # 0 /\ n.at = txn[e])
       /\ \A m, n \in new : m = n
       /\ now \in Nat /\ now' \in Nat /\ now <= now'
       /\ \A f \in Exchanges \ {e} : pending'[f] = pending[f]
  BY DEF Step, TypeOK
<1>1. \A m \in AllRows' : m.session = Target(m.by)' /\ m.at <= now'
  <2>1. \A m \in AllRows : m.session = Target(m.by) /\ m.at <= now /\ m.at \in Nat
    BY <1>0 DEF RowsInv, Rows
  <2>2. QED BY <1>0, <1>01, <2>1
<1>2. \A f \in Exchanges : \A m \in pending'[f] : m.by = f /\ m.role = "assistant"
  BY <1>01 DEF RowsInv
<1>3. \A m, n \in AllRows' : m.by = n.by /\ m.role = n.role => m = n
  <2>1. ASSUME NEW m \in AllRows, NEW n \in new, m.by = n.by PROVE m.role # n.role
    BY <2>1, <1>01 DEF FirstOfItsKind
  <2>2. QED BY <1>0, <1>01, <2>1 DEF RowsInv
<1>4. \A q, r \in AllRows' :
          q.by = r.by /\ q.role = "user" /\ r.role = "assistant" => q.at < r.at
  <2> SUFFICES ASSUME NEW q \in AllRows', NEW r \in AllRows',
                      q.by = r.by, q.role = "user", r.role = "assistant"
               PROVE  q.at < r.at
    OBVIOUS
  <2>1. CASE r \in new
    <3>1. q \in AllRows /\ r.at = now + 1
      BY <2>1, <1>0, <1>01 DEF FirstOfItsKind
    <3>2. QED BY <3>1, <1>0, <1>01 DEF RowsInv, Rows
  <2>2. CASE r \notin new
    <3>1. r \in AllRows /\ q \in AllRows
      BY <2>2, <1>0, <1>01 DEF FirstOfItsKind
    <3>2. QED BY <3>1 DEF RowsInv
  <2>3. QED BY <2>1, <2>2
<1>5. QED BY <1>1, <1>2, <1>3, <1>4 DEF RowsInv

\* Whoever came first stays first.
LEMMA SeparateStep ==
    ASSUME TypeOK, RowsInv, SeparateInv, NEW e \in Exchanges, NEW new, Step(e, new)
    PROVE  SeparateInv'
<1>0. /\ \A m \in AllRows : m \in Rows /\ m.at <= now
      /\ messages \subseteq AllRows
      /\ \A m \in AllRows' : m \in AllRows \/ m \in new
      /\ \A m \in messages' : m.by # e => m \in messages
      /\ \A x : Target(x)' = Target(x)
  <2>1. \A m \in AllRows : m \in Rows /\ m.at <= now
    BY DEF AllRows, RowsInv, TypeOK
  <2>2. \A m \in messages' : m.by # e => m \in messages
    BY DEF RowsInv, Step
  <2>3. QED BY <2>1, <2>2 DEF AllRows, Step, Target
<1>01. \A f \in Exchanges : Started(f)' = Started(f)
  BY DEF Step, Started
<1>1. ASSUME NEW a \in Exchanges, NEW b \in Exchanges, a # b, Precedes(a, b)
      PROVE  Precedes(a, b)'
  <2>1. a # e /\ stage'[a] \in Ended
    BY <1>1 DEF Precedes, Step
  <2>2. ASSUME NEW m \in messages', m.by = a
        PROVE  /\ txn'[b] # 0 => m.at < txn'[b]
               /\ \A n \in AllRows' : n.by = b => m.at < n.at
    <3>1. m \in messages /\ m \in Rows /\ m.at <= now
      BY <2>1, <2>2, <1>0
    <3>2. /\ txn[b] # 0 => m.at < txn[b]
          /\ \A n \in AllRows : n.by = b => m.at < n.at
      BY <1>1, <2>2, <3>1 DEF Precedes
    <3>3. m.at < now + 1
      BY <3>1 DEF Rows, TypeOK
    <3>4. txn'[b] # 0 => m.at < txn'[b]
      BY <3>2, <3>3 DEF Step
    <3>5. ASSUME NEW n \in new, n.by = b PROVE m.at < n.at
      <4>1. n.by = e /\ (n.at = now + 1 \/ (txn[e] # 0 /\ n.at = txn[e]))
        BY DEF Step
      <4>2. QED BY <3>2, <3>3, <3>5, <4>1
    <3>6. QED BY <1>0, <3>2, <3>4, <3>5
  <2>3. QED BY <2>1, <2>2 DEF Precedes
<1>2. QED BY <1>0, <1>01, <1>1 DEF SeparateInv, Step

\* What was stored before stays, and a session told stays told.
LEMMA AskedStep ==
    ASSUME TypeOK, AskedIsStored, NEW e \in Exchanges, NEW new, Step(e, new),
           ToldOf(e)'
    PROVE  AskedIsStored'
<1>1. /\ \A f \in Exchanges : Started(f)' = Started(f)
      /\ \A x : Target(x)' = Target(x)
  BY DEF Step, Started, Target
<1>2. \A f \in Exchanges : stage[f] = "done" => stage'[f] = "done"
  BY DEF Step, Ended
<1>3. QED BY <1>1, <1>2 DEF AskedIsStored, ToldOf, Step, TypeOK

\* What a step of one exchange must establish of that exchange alone.
LEMMA StepPreserves ==
    ASSUME TypeOK, ChatInv, NEW e \in Exchanges, NEW new,
           Step(e, new), FirstOfItsKind(e, new),
           \A m \in pending'[e] : m \in pending[e] \/ (m \in new /\ m.role = "assistant"),
           TxnOf(e)', StoredOf(e)', ToldOf(e)'
    PROVE  ChatInv'
<1>1. AskedIsStored' /\ RowsInv' /\ SeparateInv'
  BY AskedStep, RowsStep, SeparateStep DEF ChatInv
<1>2. TxnInv'
  BY DEF ChatInv, TxnInv, TxnOf, Step
<1>3. ASSUME NEW f \in Exchanges \ {e} PROVE StoredOf(f)'
  <2>1. \A m : m.by = f => (m \in messages' <=> m \in messages)
    BY DEF Step, ChatInv, RowsInv
  <2>2. StoredOf(f)
    BY DEF ChatInv, StageInv
  <2>3. QED BY <2>1, <2>2 DEF StoredOf, Step
<1>4. QED BY <1>1, <1>2, <1>3 DEF ChatInv, StageInv

-----------------------------------------------------------------------------
(* One lemma per kind of step: a request, a commit, a reply flushed, the     *)
(* rest.                                                                     *)

\* A request that comes in.
LEMMA RequestPreserves ==
    ASSUME TypeOK, ChatInv, NEW e \in Exchanges,
           NEW s \in Exchanges \cup {Absent, Unknown}, Request(e, s)
    PROVE  ChatInv'
<1> USE ChatAssumption
<1>1. /\ stage[e] = "idle" /\ s \in Offered
      /\ stage' = [stage EXCEPT ![e] = "admitted"]
      /\ asked' = [asked EXCEPT ![e] = s]
      /\ UNCHANGED <<session, pending, sessions, messages>>
      /\ reserved \subseteq reserved' /\ overlapped \subseteq overlapped'
      /\ s \notin sessions => e \in reserved'
  BY DEF Request, GoTo, WillMint
<1>2. /\ now' \in Nat /\ now <= now'
      /\ \A f \in Exchanges \ {e} : txn'[f] = txn[f]
      /\ txn'[e] \in {0, now + 1}
  BY <1>1 DEF Request, Begin, Stamp, TypeOK, ChatInv, TxnInv, TxnOf
<1>3. /\ asked[e] = Absent /\ Target(e) = e
      /\ \A f \in Exchanges \ {e} : /\ Target(f)' = Target(f) /\ stage'[f] = stage[f]
                                    /\ asked'[f] = asked[f]
                                    /\ Started(f)' = Started(f)
      /\ AllRows' = AllRows
      /\ \A m \in AllRows : m \in Rows /\ m.by # e
  <2>1. \A m \in messages : m.by # e
    BY <1>1 DEF ChatInv, StageInv, StoredOf
  <2>2. \A f \in Exchanges : \A m \in pending[f] : m.by = f
    BY DEF ChatInv, RowsInv
  <2>3. pending[e] = {}
    BY <1>1 DEF ChatInv, TxnInv, TxnOf
  <2>4. \A m \in AllRows : m \in Rows /\ m.by # e
    BY <2>1, <2>2, <2>3 DEF AllRows, TypeOK
  <2>5. QED BY <1>1, <2>4 DEF Target, Started, AllRows, ChatInv, AskedIsStored, TypeOK
<1>4. s \in Exchanges => s \in sessions /\ stage[s] = "done" /\ s # e
  <2>1. SUFFICES ASSUME s \in Exchanges PROVE s \in sessions /\ stage[s] = "done"
    BY <1>1
  <2>2. PICK g \in Exchanges : stage[g] = "done" /\ s = session[g]
    BY <1>1, <2>1 DEF Offered
  <2>3. ToldOf(g)
    BY DEF ChatInv, AskedIsStored
  <2>4. s = Target(g) /\ s \in sessions
    BY <2>2, <2>3 DEF ToldOf
  <2>5. QED BY <2>2, <2>4 DEF Target, ChatInv, AskedIsStored
<1>5. AskedIsStored'
  <2>1. ASSUME NEW f \in Exchanges \ {e}
        PROVE  /\ ~Started(f)' => asked'[f] = Absent
               /\ asked'[f] \in Exchanges => asked'[f] \in sessions' /\ stage'[asked'[f]] = "done"
               /\ Started(f)' /\ asked'[f] \notin Exchanges => f \in reserved'
               /\ ToldOf(f)'
    BY <1>1, <1>3 DEF ChatInv, AskedIsStored, ToldOf, TypeOK
  <2>2. /\ Started(e)' /\ asked'[e] = s /\ ToldOf(e)'
        /\ s \in Exchanges => stage'[s] = "done"
        /\ s \notin Exchanges => e \in reserved'
    BY <1>1, <1>4 DEF Started, ToldOf, TypeOK
  <2>3. QED BY <1>1, <1>4, <2>1, <2>2 DEF AskedIsStored
<1>6. TxnInv'
  BY <1>1, <1>2 DEF ChatInv, TxnInv, TxnOf, TypeOK
<1>7. RowsInv'
  <2>1. \A m \in AllRows : Target(m.by)' = Target(m.by) /\ m.at <= now'
    BY <1>2, <1>3 DEF Rows, TypeOK, ChatInv, RowsInv
  <2>2. QED BY <1>1, <1>3, <2>1 DEF ChatInv, RowsInv
<1>8. StageInv'
  BY <1>1, <1>3 DEF ChatInv, StageInv, StoredOf, TypeOK, AllRows
<1>9. SeparateInv'
  <2>1. ASSUME NEW a \in Exchanges, NEW b \in Exchanges, a # b, a # e, Precedes(a, b), b # e
        PROVE  Precedes(a, b)'
    BY <2>1, <1>1, <1>2, <1>3 DEF Precedes
  <2>2. ASSUME NEW a \in Exchanges, a # e, stage[a] \in Ended
        PROVE  Precedes(a, e)'
    <3>1. \A m \in messages : m \in Rows /\ m.at <= now
      BY DEF ChatInv, RowsInv, AllRows, TypeOK
    <3>2. \A m \in messages : txn'[e] # 0 => m.at < txn'[e]
      BY <1>2, <3>1 DEF Rows, TypeOK
    <3>3. QED BY <2>2, <1>1, <1>3, <3>2 DEF Precedes
  <2>3. ASSUME NEW a \in Exchanges, a # e, Started(a), (Target(a) = Target(e))',
               a \notin overlapped' \/ e \notin overlapped'
        PROVE  stage[a] \in Ended
    <3>1. CASE s \in Exchanges
      <4>1. Target(a) = s
        BY <2>3, <3>1, <1>1, <1>3 DEF Target, TypeOK
      <4>2. CASE asked[a] \in Exchanges
        <5>1. asked[a] = s
          BY <4>1, <4>2 DEF Target
        <5>2. ~UnderWay(a)
          BY <2>3, <3>1, <5>1 DEF Request
        <5>3. QED BY <5>2, <2>3 DEF UnderWay, Started, Ended
      <4>3. CASE asked[a] \notin Exchanges
        BY <4>1, <4>3, <1>4, <3>1 DEF Target, Ended
      <4>4. QED BY <4>2, <4>3
    <3>2. CASE s \notin Exchanges
      <4>1. Target(a) = e
        BY <2>3, <3>2, <1>1, <1>3 DEF Target, TypeOK
      <4>2. asked[a] = e
        BY <2>3, <4>1 DEF Target
      <4>3. QED BY <4>2, <1>1 DEF ChatInv, AskedIsStored
    <3>3. QED BY <3>1, <3>2
  <2>4. ASSUME NEW a \in Exchanges, NEW b \in Exchanges, a # b, a # e, b # e,
               Started(a)', Started(b)', (Target(a) = Target(b))', a \notin overlapped'
        PROVE  Precedes(a, b)' \/ Precedes(b, a)'
    <3>1. Precedes(a, b) \/ Precedes(b, a)
      BY <2>4, <1>1, <1>3 DEF ChatInv, SeparateInv
    <3>2. QED BY <2>1, <2>4, <3>1
  <2>5. \A a \in Exchanges \ {e} :
            /\ Started(a)'
            /\ (Target(a) = Target(e))' \/ (Target(e) = Target(a))'
            /\ a \notin overlapped' \/ e \notin overlapped'
            => Precedes(a, e)'
    BY <2>2, <2>3, <1>3
  <2>6. QED BY <2>4, <2>5 DEF SeparateInv
<1>10. QED BY <1>5, <1>6, <1>7, <1>8, <1>9 DEF ChatInv

\* A commit of rows already flushed, and of a question if e has none.
LEMMA CommitPreserves ==
    ASSUME TypeOK, ChatInv, NEW e \in Exchanges, stage[e] \in {"admitted", "asked", "recorded"},
           NEW rows, rows = (IF stage[e] = "admitted" THEN {Row(e, "user", Stamp(e))} ELSE {}),
           NEW minted, minted = (IF stage[e] = "admitted" THEN {SessionOf(e)} ELSE {}),
           CommitRows(e, rows, minted),
           session' = (IF stage[e] = "admitted" THEN [session EXCEPT ![e] = SessionOf(e)]
                       ELSE session),
           NEW to, to = (IF stage[e] = "admitted" THEN "asked"
                         ELSE IF stage[e] = "asked" THEN "streaming" ELSE "answered"),
           stage' = [stage EXCEPT ![e] = to] \/ stage' = [stage EXCEPT ![e] = "failed"],
           UNCHANGED <<asked, reserved, overlapped>>
    PROVE  ChatInv'
<1> DEFINE q == Row(e, "user", Stamp(e))
<1>0. SessionOf(e) = Target(e) /\ Target(e) \in Exchanges
  BY SessionIsTarget DEF ChatInv
<1>1. q \in Rows /\ q.by = e /\ q.role = "user" /\ q.session = Target(e) /\ q.at = Stamp(e)
  BY <1>0, RowType, StampType DEF Row
<1>2. rows \in SUBSET Rows /\ minted \in SUBSET Exchanges
  BY <1>0, <1>1
<1>3. /\ \A f \in Exchanges \ {e} : txn'[f] = txn[f] /\ pending'[f] = pending[f]
      /\ txn'[e] = 0 /\ pending'[e] = {}
      /\ messages' = messages \cup pending[e] \cup rows
      /\ AllRows' = AllRows \cup rows
      /\ sessions' = sessions \cup minted
      /\ now' \in Nat /\ now <= now' /\ Stamp(e) \in Nat /\ Stamp(e) <= now'
      /\ txn[e] = 0 => Stamp(e) = now + 1
      /\ txn[e] # 0 => Stamp(e) = txn[e]
  BY ONLY TypeOK, e \in Exchanges, <1>2, CommitRows(e, rows, minted), CommitEffect
<1>4. stage'[e] \in {to, "failed"} /\ \A f \in Exchanges \ {e} : stage'[f] = stage[f]
  BY DEF TypeOK
<1>5. Started(e)' = Started(e)
  BY <1>4 DEF Started
<1>6. \A f \in Exchanges \ {e} : session'[f] = session[f]
  BY DEF TypeOK
<1>7. Step(e, rows)
  BY <1>1, <1>2, <1>3, <1>4, <1>5, <1>6 DEF Step, Ended
<1>8. FirstOfItsKind(e, rows)
  <2>1. stage[e] = "admitted" => \A m \in AllRows : m.by # e
    BY DEF ChatInv, StageInv, StoredOf, TxnInv, TxnOf, RowsInv, AllRows
  <2>2. QED BY <1>1, <2>1 DEF FirstOfItsKind
<1>9. TxnOf(e)'
  BY <1>3 DEF TxnOf
<1>10. StoredOf(e)'
  <2>1. StoredOf(e) /\ TxnOf(e)
    BY DEF ChatInv, StageInv, TxnInv
  <2>2. \A m \in pending[e] : m.by = e /\ m.role = "assistant"
    BY DEF ChatInv, RowsInv
  <2>3. CASE stage[e] = "admitted"
    BY <2>1, <2>2, <2>3, <1>1, <1>3, <1>4 DEF StoredOf, TxnOf
  <2>4. CASE stage[e] = "asked"
    BY <2>1, <2>2, <2>4, <1>3, <1>4 DEF StoredOf, TxnOf
  <2>5. CASE stage[e] = "recorded"
    BY <2>1, <2>2, <2>5, <1>3, <1>4 DEF StoredOf, TxnOf
  <2>6. QED BY <2>3, <2>4, <2>5
<1>11. ToldOf(e)'
  <2>1. ToldOf(e) /\ Target(e)' = Target(e)
    BY DEF ChatInv, AskedIsStored, Target
  <2>2. CASE stage[e] = "admitted"
    BY <2>1, <2>2, <1>0, <1>3 DEF ToldOf, TypeOK
  <2>3. CASE stage[e] # "admitted"
    BY <2>1, <2>3, <1>3 DEF ToldOf
  <2>4. QED BY <2>2, <2>3
<1>12. QED BY <1>3, <1>7, <1>8, <1>9, <1>10, <1>11, StepPreserves

\* The reply is flushed: its transaction begins here.
LEMMA RecordPreserves ==
    ASSUME TypeOK, ChatInv, NEW e \in Exchanges, RecordAnswer(e)
    PROVE  /\ ChatInv'
           /\ pending'[e] \subseteq {Row(e, "assistant", now + 1)}
           /\ \A f \in Exchanges \ {e} : pending'[f] = pending[f]
<1> DEFINE r == Row(e, "assistant", now + 1)
<1>0. SessionOf(e) = Target(e) /\ Target(e) \in Exchanges
  BY SessionIsTarget DEF ChatInv
<1>1. /\ stage[e] = "streaming" /\ txn[e] = 0 /\ pending[e] = {}
      /\ Stamp(e) = now + 1 /\ StoredOf(e) /\ ToldOf(e)
  BY DEF RecordAnswer, ChatInv, TxnInv, TxnOf, StageInv, AskedIsStored, Stamp
<1>2. r \in Rows /\ r.by = e /\ r.role = "assistant" /\ r.session = Target(e) /\ r.at = now + 1
  BY <1>0, RowType DEF Row, TypeOK
<1>3. /\ stage' = [stage EXCEPT ![e] = "recorded"]
      /\ txn' = [txn EXCEPT ![e] = now + 1] /\ now' = now + 1
      /\ pending' = [pending EXCEPT ![e] = {r}]
      /\ UNCHANGED <<asked, session, sessions, messages, reserved, overlapped>>
  BY <1>1 DEF RecordAnswer, Begin, GoTo, TypeOK
<1>4. /\ stage'[e] = "recorded" /\ txn'[e] = now + 1 /\ pending'[e] = {r}
      /\ \A f \in Exchanges \ {e} : /\ stage'[f] = stage[f] /\ txn'[f] = txn[f]
                                    /\ pending'[f] = pending[f]
  BY <1>3 DEF TypeOK
<1>5. \A m \in AllRows' : m \in AllRows \/ m = r
  BY <1>3, <1>4 DEF AllRows
<1>6. \A m \in AllRows : m.by = e => m.role = "user"
  BY <1>1 DEF AllRows, StoredOf, ChatInv, RowsInv
<1>7. Started(e)' = Started(e)
  BY <1>1, <1>4 DEF Started
<1>8. Step(e, {r})
  BY <1>1, <1>2, <1>3, <1>4, <1>5, <1>7 DEF Step, Ended, TypeOK
<1>9. FirstOfItsKind(e, {r})
  BY <1>1, <1>2, <1>6 DEF FirstOfItsKind
<1>10. TxnOf(e)' /\ StoredOf(e)' /\ ToldOf(e)'
  BY <1>1, <1>3, <1>4 DEF TxnOf, StoredOf, ToldOf, Target
<1>11. QED BY <1>2, <1>4, <1>8, <1>9, <1>10, StepPreserves

\* Everything else writes no row; it may drop those that wait.
LEMMA OtherPreserves ==
    ASSUME TypeOK, ChatInv, NEW e \in Exchanges, NEW to,
           stage' = [stage EXCEPT ![e] = to],
           \/ stage[e] = "idle" /\ to = "refused"
           \/ stage[e] = "streaming" /\ to = "streaming"
           \/ stage[e] = "answered" /\ to = "cited"
           \/ stage[e] = "cited" /\ to = "done"
           \/ UnderWay(e) /\ to \in {"failed", "gone"} /\ txn'[e] = 0 /\ pending'[e] = {},
           \/ UNCHANGED <<txn, pending>>
           \/ pending' = [pending EXCEPT ![e] = {}] /\ txn' = [txn EXCEPT ![e] = 0],
           UNCHANGED <<now, asked, session, sessions, messages, reserved, overlapped>>
    PROVE  ChatInv'
<1>1. /\ stage'[e] = to /\ stage[e] \notin Ended
      /\ \A f \in Exchanges \ {e} : /\ stage'[f] = stage[f] /\ txn'[f] = txn[f]
                                    /\ pending'[f] = pending[f]
      /\ pending'[e] \in {pending[e], {}} /\ txn'[e] \in {txn[e], 0}
  BY DEF TypeOK, Ended, UnderWay
<1>2. Started(e)' = Started(e)
  BY <1>1 DEF Started, UnderWay, Ended
<1>3. \A m \in AllRows' : m \in AllRows
  BY <1>1 DEF AllRows
<1>4. Step(e, {})
  BY <1>1, <1>2, <1>3 DEF Step, TypeOK
<1>5. TxnOf(e) /\ StoredOf(e) /\ ToldOf(e)
  BY DEF ChatInv, TxnInv, StageInv, AskedIsStored
<1>6. TxnOf(e)'
  BY <1>1, <1>5 DEF TxnOf
<1>7. StoredOf(e)'
  BY <1>1, <1>5 DEF StoredOf
<1>8. ToldOf(e)'
  BY <1>1, <1>5 DEF ToldOf, Target
<1>9. QED BY <1>1, <1>4, <1>6, <1>7, <1>8, StepPreserves DEF FirstOfItsKind

\* Every step preserves the invariant.
LEMMA ChatSteps == TypeOK /\ ChatInv /\ [Next]_vars => ChatInv'
<1> SUFFICES ASSUME TypeOK, ChatInv, [Next]_vars PROVE ChatInv'
  OBVIOUS
<1>1. ASSUME NEW e \in Exchanges, NEW s \in Exchanges \cup {Absent, Unknown}, Request(e, s)
      PROVE  ChatInv'
  BY <1>1, RequestPreserves
<1>2. ASSUME NEW e \in Exchanges, NEW s \in Exchanges \cup {Absent, Unknown}, Refuse(e, s)
      PROVE  ChatInv'
  BY <1>2, OtherPreserves DEF Refuse, GoTo
<1>3. ASSUME NEW e \in Exchanges, Ask(e) PROVE ChatInv'
  <2>1. /\ stage[e] = "admitted" /\ session' = [session EXCEPT ![e] = SessionOf(e)]
        /\ CommitRows(e, {Row(e, "user", Stamp(e))}, {SessionOf(e)})
        /\ stage' = [stage EXCEPT ![e] = "asked"]
        /\ UNCHANGED <<asked, reserved, overlapped>>
    BY <1>3 DEF Ask, GoTo
  <2>2. QED BY <2>1, CommitPreserves
<1>4. ASSUME NEW e \in Exchanges, Retrieve(e) PROVE ChatInv'
  <2>1. /\ stage[e] = "asked" /\ session' = session
        /\ CommitRows(e, {}, {})
        /\ stage' = [stage EXCEPT ![e] = "streaming"]
        /\ UNCHANGED <<asked, reserved, overlapped>>
    BY <1>4 DEF Retrieve, GoTo
  <2>2. QED BY <2>1, CommitPreserves
<1>5. ASSUME NEW e \in Exchanges, Token(e) PROVE ChatInv'
  <2>1. stage' = [stage EXCEPT ![e] = "streaming"] /\ stage[e] = "streaming"
    BY <1>5 DEF Token, TypeOK
  <2>2. QED BY <1>5, <2>1, OtherPreserves DEF Token
<1>6. ASSUME NEW e \in Exchanges, RecordAnswer(e) PROVE ChatInv'
  BY <1>6, RecordPreserves
<1>7. ASSUME NEW e \in Exchanges, CommitAnswer(e) PROVE ChatInv'
  <2>1. /\ stage[e] = "recorded" /\ session' = session
        /\ CommitRows(e, {}, {})
        /\ stage' = [stage EXCEPT ![e] = "answered"]
        /\ UNCHANGED <<asked, reserved, overlapped>>
    BY <1>7 DEF CommitAnswer, GoTo
  <2>2. QED BY <2>1, CommitPreserves
<1>8. ASSUME NEW e \in Exchanges, Cite(e) PROVE ChatInv'
  BY <1>8, OtherPreserves DEF Cite, GoTo
<1>9. ASSUME NEW e \in Exchanges, Done(e) PROVE ChatInv'
  BY <1>9, OtherPreserves DEF Done, GoTo
<1>10. ASSUME NEW e \in Exchanges, Fail(e) PROVE ChatInv'
  <2>1. UnderWay(e) /\ txn'[e] = 0 /\ pending'[e] = {}
    BY <1>10 DEF Fail, UnderWay, Ended, TypeOK
  <2>2. QED BY <1>10, <2>1, OtherPreserves DEF Fail, GoTo
<1>11. ASSUME NEW e \in Exchanges, FailAfterCommit(e) PROVE ChatInv'
  <2>1. stage' = [stage EXCEPT ![e] = "failed"] /\ UNCHANGED <<asked, reserved, overlapped>>
    BY <1>11 DEF FailAfterCommit, GoTo
  <2>2. CASE /\ stage[e] = "admitted" /\ session' = [session EXCEPT ![e] = SessionOf(e)]
             /\ CommitRows(e, {Row(e, "user", Stamp(e))}, {SessionOf(e)})
    BY <2>1, <2>2, CommitPreserves
  <2>3. CASE stage[e] = "recorded" /\ session' = session /\ CommitRows(e, {}, {})
    BY <2>1, <2>3, CommitPreserves
  <2>4. QED BY <1>11, <2>2, <2>3 DEF FailAfterCommit
<1>12. ASSUME NEW e \in Exchanges, Disconnect(e) PROVE ChatInv'
  <2>1. UnderWay(e) /\ txn'[e] = 0 /\ pending'[e] = {}
    BY <1>12 DEF Disconnect, UnderWay, Ended, TypeOK
  <2>2. QED BY <1>12, <2>1, OtherPreserves DEF Disconnect, GoTo
<1>13. CASE UNCHANGED vars
  BY <1>13 DEF vars, ChatInv, AskedIsStored, ToldOf, TxnInv, TxnOf, RowsInv, StageInv, StoredOf,
           SeparateInv, Precedes, Started, Target, AllRows
<1>14. QED BY <1>1, <1>2, <1>3, <1>4, <1>5, <1>6, <1>7, <1>8, <1>9, <1>10, <1>11, <1>12, <1>13
           DEF Next

\* The invariant under the promises of the chat holds in every behaviour.
THEOREM ChatSafety == Spec => []ChatInv
<1>1. Init => ChatInv
  BY ChatAssumption
     DEF Init, ChatInv, AskedIsStored, ToldOf, TxnInv, TxnOf, RowsInv, StageInv, StoredOf,
         SeparateInv, Started, AllRows
<1>2. QED BY <1>1, ChatSteps, ChatTypes, PTL DEF Spec

\* A client told "done" has its question and its reply stored, whatever other
\* exchanges, failures and disconnects came between.
THEOREM DoneMeansStored == Spec => []DoneIsStored
<1>1. TypeOK /\ ChatInv => DoneIsStored
  <2> SUFFICES ASSUME TypeOK, ChatInv, NEW e \in Exchanges, stage[e] = "done"
               PROVE  LET mine == {m \in messages : m.by = e} IN
                      /\ session[e] \in sessions
                      /\ \E q, r \in mine : /\ mine = {q, r}
                                            /\ q.role = "user" /\ r.role = "assistant"
                                            /\ q.at < r.at
                                            /\ q.session = session[e] /\ r.session = session[e]
    BY DEF DoneIsStored
  <2> DEFINE mine == {m \in messages : m.by = e}
  <2>1. StoredOf(e) /\ ToldOf(e)
    BY DEF ChatInv, StageInv, AskedIsStored
  <2>2. PICK q \in messages : q.by = e /\ q.role = "user"
    BY <2>1 DEF StoredOf
  <2>3. PICK r \in messages : r.by = e /\ r.role = "assistant"
    BY <2>1 DEF StoredOf
  <2>4. session[e] = Target(e) /\ session[e] \in sessions
    BY <2>1 DEF ToldOf
  <2>5. /\ q.at < r.at /\ q.session = session[e] /\ r.session = session[e]
    BY <2>2, <2>3, <2>4 DEF ChatInv, RowsInv, AllRows
  <2>6. ASSUME NEW m \in mine PROVE m \in {q, r}
    <3>1. m.role \in {"user", "assistant"}
      BY DEF TypeOK, Rows
    <3>2. QED BY <2>2, <2>3, <3>1 DEF ChatInv, RowsInv, AllRows
  <2>7. mine = {q, r}
    BY <2>2, <2>3, <2>6
  <2>8. QED BY <2>2, <2>3, <2>4, <2>5, <2>7
<1>2. QED BY <1>1, ChatTypes, ChatSafety, PTL

\* The gap reports join a question with its own reply, unless its exchange
\* shared the session with another while under way.
THEOREM RepliesArePaired == Spec => []OwnReplyPaired
<1>1. TypeOK /\ ChatInv => OwnReplyPaired
  <2> SUFFICES ASSUME TypeOK, ChatInv, NEW q \in messages, NEW r \in messages,
                      q.role = "user", r.role = "assistant", q.by = r.by,
                      q.by \notin overlapped
               PROVE  Paired(q) = {r}
    BY DEF OwnReplyPaired
  <2>1. /\ \A m \in messages : m \in AllRows /\ m \in Rows
        /\ \A m \in messages : Started(m.by) /\ m.session = Target(m.by)
    BY DEF AllRows, TypeOK, ChatInv, RowsInv, StageInv, StoredOf, Started, Rows
  <2>2. q.at < r.at /\ q.session = r.session
    BY <2>1 DEF ChatInv, RowsInv
  <2>3. r \in RepliesAfter(q)
    BY <2>2 DEF RepliesAfter
  <2>4. ASSUME NEW o \in RepliesAfter(q), o # r PROVE r.at < o.at
    <3>1. o \in messages /\ o.session = q.session /\ o.role = "assistant" /\ q.at < o.at
      BY <2>1 DEF RepliesAfter, Rows
    <3>2. o.by # q.by
      BY <2>1, <2>4, <3>1 DEF ChatInv, RowsInv
    <3>3. Precedes(q.by, o.by) \/ Precedes(o.by, q.by)
      BY <2>1, <3>1, <3>2 DEF ChatInv, SeparateInv, Rows
    <3>4. CASE Precedes(q.by, o.by)
      BY <2>1, <3>1, <3>4 DEF Precedes
    <3>5. CASE Precedes(o.by, q.by)
      <4>1. o.at < q.at
        BY <2>1, <3>1, <3>5 DEF Precedes
      <4>2. QED BY <2>1, <3>1, <4>1 DEF Rows
    <3>6. QED BY <3>3, <3>4, <3>5
  <2>5. \A o \in RepliesAfter(q) : o.at \in Nat /\ r.at \in Nat
    BY <2>1 DEF RepliesAfter, Rows
  <2>6. QED BY <2>3, <2>4, <2>5 DEF Paired
<1>2. QED BY <1>1, ChatTypes, ChatSafety, PTL

\* A reply is stamped later than everything committed before it.
THEOREM RepliesFollow == Spec => RepliesStampedLast
<1>1. TypeOK /\ ChatInv /\ [Next]_vars =>
          [\A e \in Exchanges : \A r \in pending'[e] \ pending[e] :
              r.role = "assistant" => \A m \in messages : m.at < r.at]_vars
  <2> SUFFICES ASSUME TypeOK, ChatInv, Next, NEW e \in Exchanges,
                      NEW r \in pending'[e], r \notin pending[e], NEW m \in messages
               PROVE  m.at < r.at
    OBVIOUS
  <2>1. m.at \in Nat /\ m.at <= now /\ now \in Nat
    BY DEF TypeOK, Rows, ChatInv, RowsInv, AllRows
  <2>2. \A f \in Exchanges : RecordAnswer(f) => r.at = now + 1
    BY RecordPreserves DEF Row
  <2>3. \A f \in Exchanges : pending' = [pending EXCEPT ![f] = {}] => FALSE
    BY DEF TypeOK
  <2>4. pending' # pending
    OBVIOUS
  <2>5. \E f \in Exchanges : RecordAnswer(f)
    BY <2>3, <2>4 DEF Next, Request, Refuse, Ask, Retrieve, Token, CommitAnswer, Cite, Done, Fail,
                      FailAfterCommit, Disconnect, CommitRows
  <2>6. QED BY <2>1, <2>2, <2>5
<1>2. QED BY <1>1, ChatTypes, ChatSafety, PTL DEF Spec, RepliesStampedLast

-----------------------------------------------------------------------------
\* The letters of an exchange.
Mine(e) == {m \in messages : m.by = e}
Heard == [e \in Exchanges |-> Told(e)]

\* Only the exchange that steps hears something.
LEMMA HeardStep ==
    ASSUME TypeOK, NEW e \in Exchanges, NEW s \in Stages, stage' = [stage EXCEPT ![e] = s]
    PROVE  /\ stage[e] \notin {"done", "failed"} => Heard[e] = "nothing"
           /\ stage[e] \notin {"done", "failed"} /\ s \notin {"done", "failed"} => Heard' = Heard
           /\ s = "done" => Heard' = [Heard EXCEPT ![e] = "done"]
           /\ s = "failed" => Heard' = [Heard EXCEPT ![e] = "error"]
<1>1. /\ \A f \in Exchanges \ {e} : stage'[f] = stage[f]
      /\ stage'[e] = s
  BY DEF TypeOK
<1>2. \A f \in Exchanges \ {e} : Told(f)' = Told(f)
  BY <1>1 DEF Told
<1>3. /\ stage[e] \notin {"done", "failed"} => Told(e) = "nothing"
      /\ s = "done" => Told(e)' = "done"
      /\ s = "failed" => Told(e)' = "error"
      /\ s \notin {"done", "failed"} => Told(e)' = "nothing"
  BY <1>1 DEF Told
<1>4. QED BY <1>2, <1>3 DEF Heard

\* The question of an exchange is the letter it may put first.
LEMMA QuestionRefines ==
    ASSUME TypeOK, ChatInv, NEW e \in Exchanges, NEW s \in {"asked", "failed"},
           stage[e] = "admitted", stage' = [stage EXCEPT ![e] = s],
           CommitRows(e, {Row(e, "user", Stamp(e))}, {SessionOf(e)}), UNCHANGED reserved
    PROVE  Chat!Ask(e)
<1> DEFINE q == Row(e, "user", Stamp(e))
<1>1. Mine(e) = {}
  BY DEF ChatInv, StageInv, StoredOf, Mine
<1>2. pending[e] = {}
  BY DEF ChatInv, TxnInv, TxnOf
<1>3. /\ messages' = messages \cup {q} /\ sessions' = sessions \cup {q.session}
      /\ q.by = e /\ q.role = "user" /\ q.session = SessionOf(e)
  BY <1>2 DEF CommitRows, Row
<1>4. q \in messages' \ messages
  BY <1>1, <1>3 DEF Mine
<1>5. \/ q.session = e /\ e \in reserved
      \/ q.session \in sessions /\ Heard[q.session] = "done"
  <2>1. CASE asked[e] \in sessions
    <3>1. asked[e] \in Exchanges
      BY <2>1 DEF TypeOK
    <3>2. stage[asked[e]] = "done"
      BY <3>1 DEF ChatInv, AskedIsStored
    <3>3. QED BY <1>3, <2>1, <3>1, <3>2 DEF SessionOf, Heard, Told
  <2>2. CASE asked[e] \notin sessions
    BY <1>3, <2>2 DEF SessionOf, ChatInv, AskedIsStored, Started
  <2>3. QED BY <2>1, <2>2
<1>6. Heard[e] = "nothing" /\ Heard' \in {Heard, [Heard EXCEPT ![e] = "error"]}
  BY HeardStep DEF Stages, Ended
<1>7. QED BY <1>1, <1>3, <1>4, <1>5, <1>6 DEF Chat!Ask, Chat!Put, Chat!Of, Mine, Heard

\* The reply of an exchange joins its question.
LEMMA ReplyRefines ==
    ASSUME TypeOK, ChatInv, NEW e \in Exchanges, NEW s \in {"answered", "failed"},
           stage[e] = "recorded", stage' = [stage EXCEPT ![e] = s],
           CommitRows(e, {}, {}), UNCHANGED reserved
    PROVE  Chat!Reply(e)
<1>1. PICK r \in pending[e] : TRUE
  BY DEF ChatInv, StageInv, StoredOf
<1>2. PICK q \in messages : q.by = e /\ q.role = "user"
  BY DEF ChatInv, StageInv, StoredOf
<1>3. /\ pending[e] \subseteq Rows
      /\ \A m \in messages : m \in AllRows
      /\ \A m \in pending[e] : m \in AllRows /\ m.by = e /\ m.role = "assistant"
  BY DEF TypeOK, AllRows, ChatInv, RowsInv
<1>4. pending[e] = {r}
  <2>1. \A m \in pending[e] : m = r
    BY <1>1, <1>3 DEF ChatInv, RowsInv
  <2>2. QED BY <1>1, <2>1
<1>5. Mine(e) = {q}
  <2>1. \A m \in messages : m.by = e => m.role = "user"
    BY DEF ChatInv, StageInv, StoredOf
  <2>2. \A m \in messages : m.by = e => m = q
    BY <1>2, <1>3, <2>1 DEF ChatInv, RowsInv
  <2>3. QED BY <1>2, <2>2 DEF Mine
<1>6. r.by = e /\ r.role = "assistant" /\ r.session = q.session /\ q.at < r.at
  BY <1>1, <1>2, <1>3 DEF ChatInv, RowsInv
<1>7. /\ messages' = messages \cup {r} /\ sessions' = sessions
  BY <1>4 DEF CommitRows
<1>8. r \in messages' \ messages
  BY <1>2, <1>5, <1>6, <1>7 DEF Mine
<1>9. Heard[e] = "nothing" /\ Heard' \in {Heard, [Heard EXCEPT ![e] = "error"]}
  BY HeardStep DEF Stages, Ended
<1>10. QED BY <1>2, <1>5, <1>6, <1>7, <1>8, <1>9 DEF Chat!Reply, Chat!Put, Chat!Of, Mine, Heard

\* A request takes a slot before it has a letter, or changes nothing.
LEMMA RequestRefines ==
    ASSUME TypeOK, ChatInv, NEW e \in Exchanges, NEW s \in {"admitted", "refused"},
           stage[e] = "idle", stage' = [stage EXCEPT ![e] = s],
           UNCHANGED <<sessions, messages>>, reserved' \in {reserved, reserved \cup {e}}
    PROVE  Chat!Grant(e) \/ UNCHANGED Chat!vars
<1>1. Mine(e) = {}
  BY DEF ChatInv, StageInv, StoredOf, Mine
<1>2. Heard[e] = "nothing" /\ Heard' = Heard
  BY HeardStep DEF Stages, Ended
<1>3. QED BY <1>1, <1>2 DEF Chat!Grant, Chat!Of, Chat!vars, Mine, Heard

\* The last word of an exchange, of a reply if it is "done".
LEMMA WordRefines ==
    ASSUME TypeOK, ChatInv, NEW e \in Exchanges, NEW s \in {"done", "failed"},
           stage[e] \notin Ended, stage' = [stage EXCEPT ![e] = s], s = "done" => stage[e] = "cited",
           UNCHANGED <<sessions, messages, reserved>>
    PROVE  Chat!Tell(e)
<1>1. /\ Heard[e] = "nothing"
      /\ s = "done" => Heard' = [Heard EXCEPT ![e] = "done"]
      /\ s = "failed" => Heard' = [Heard EXCEPT ![e] = "error"]
  BY HeardStep DEF Stages, Ended
<1>2. s = "done" => \E r \in Mine(e) : r.role = "assistant"
  BY DEF ChatInv, StageInv, StoredOf, Mine
<1>3. QED BY <1>1, <1>2 DEF Chat!Tell, Chat!Of, Mine, Heard

\* The steps nobody hears of and that commit nothing.
LEMMA SilentRefines ==
    ASSUME TypeOK, NEW e \in Exchanges, NEW s \in Stages \ {"done", "failed"},
           stage[e] \notin {"done", "failed"}, stage' = [stage EXCEPT ![e] = s],
           UNCHANGED <<sessions, messages, reserved>>
    PROVE  UNCHANGED Chat!vars
<1>1. Heard' = Heard
  BY HeardStep
<1>2. QED BY <1>1 DEF Chat!vars, Heard

\* Every exchange keeps what the mailbox owes, for any number of exchanges.
THEOREM ChatImplementsMailbox == Spec => ImplementsMailbox
<1>1. Init => Chat!Init
  BY DEF Init, Chat!Init, Told
<1>2. TypeOK /\ ChatInv /\ [Next]_vars => [Chat!Next]_(Chat!vars)
  <2> SUFFICES ASSUME TypeOK, ChatInv, [Next]_vars
               PROVE  Chat!Next \/ UNCHANGED Chat!vars
    OBVIOUS
  <2>1. ASSUME NEW e \in Exchanges, NEW s \in Exchanges \cup {Absent, Unknown},
               Request(e, s) \/ Refuse(e, s)
        PROVE  Chat!Grant(e) \/ UNCHANGED Chat!vars
    BY <2>1, RequestRefines DEF Request, Refuse, GoTo
  <2>2. ASSUME NEW e \in Exchanges, Ask(e) PROVE Chat!Ask(e)
    BY <2>2, QuestionRefines DEF Ask, GoTo
  <2>3. ASSUME NEW e \in Exchanges, Retrieve(e) PROVE UNCHANGED Chat!vars
    <3>1. pending[e] = {}
      BY <2>3 DEF Retrieve, ChatInv, TxnInv, TxnOf
    <3>2. UNCHANGED <<sessions, messages, reserved>>
      BY <2>3, <3>1 DEF Retrieve, CommitRows
    <3>3. QED BY <2>3, <3>2, SilentRefines DEF Retrieve, GoTo, Stages, Ended
  <2>4. ASSUME NEW e \in Exchanges, Token(e) PROVE UNCHANGED Chat!vars
    BY <2>4 DEF Token, Chat!vars, Told
  <2>5. ASSUME NEW e \in Exchanges, CommitAnswer(e) PROVE Chat!Reply(e)
    BY <2>5, ReplyRefines DEF CommitAnswer, GoTo
  <2>6. ASSUME NEW e \in Exchanges, RecordAnswer(e) \/ Cite(e) PROVE UNCHANGED Chat!vars
    BY <2>6, SilentRefines DEF RecordAnswer, Cite, GoTo, Stages, Ended
  <2>7. ASSUME NEW e \in Exchanges, Disconnect(e) PROVE UNCHANGED Chat!vars
    BY <2>7, SilentRefines DEF Disconnect, GoTo, Stages, Ended
  <2>8. ASSUME NEW e \in Exchanges, Done(e) \/ Fail(e) PROVE Chat!Tell(e)
    BY <2>8, WordRefines DEF Done, Fail, GoTo, Ended
  <2>9. ASSUME NEW e \in Exchanges, FailAfterCommit(e) PROVE Chat!Ask(e) \/ Chat!Reply(e)
    BY <2>9, QuestionRefines, ReplyRefines DEF FailAfterCommit, GoTo
  <2>10. CASE UNCHANGED vars
    BY <2>10 DEF vars, Chat!vars, Told
  <2>11. QED BY <2>1, <2>2, <2>3, <2>4, <2>5, <2>6, <2>7, <2>8, <2>9, <2>10 DEF Next, Chat!Next
<1>3. QED BY <1>1, <1>2, ChatTypes, ChatSafety, PTL DEF Spec, ImplementsMailbox, Chat!Spec

\* No session is minted without a slot taken for it: the generator's lookup agrees
\* with the route's.  It follows from what the mailbox owes alone.
THEOREM SlotsCoverMints == Spec => [](sessions \subseteq reserved)
<1> DEFINE Minted == sessions \subseteq reserved
<1>1. Chat!Init => Minted
  BY DEF Chat!Init
<1>2. Minted /\ [Chat!Next]_(Chat!vars) => Minted'
  BY DEF Chat!Next, Chat!Grant, Chat!Ask, Chat!Reply, Chat!Tell, Chat!vars
<1>3. QED BY <1>1, <1>2, ChatImplementsMailbox, PTL DEF ImplementsMailbox, Chat!Spec
=============================================================================
