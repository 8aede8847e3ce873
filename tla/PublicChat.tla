----------------------------- MODULE PublicChat ------------------------------
(***************************************************************************)
(* POST /public/chat: the route, the stream it returns, the rows it        *)
(* commits on the way (app/routes/public_routes.py, app/services/chat.py)  *)
(* and the pairing of questions with replies that the gap reports read.    *)
(*                                                                         *)
(* A chat session is named by the exchange that minted it.  A row carries  *)
(* the timestamp of the transaction that wrote it, so a transaction takes  *)
(* its stamp when it begins and its rows are seen when it commits.         *)
(***************************************************************************)
EXTENDS Naturals, Sequences, FiniteSets

CONSTANTS
    Exchanges,
    MaxTokens,      \* bound on the tokens of one answer
    MaxUnderWay,    \* bound on the exchanges under way at once
    Absent,         \* body.session_id is None
    Unknown         \* body.session_id names no row

ASSUME ChatAssumption ==
    /\ MaxTokens \in Nat /\ MaxUnderWay \in Nat
    /\ Absent # Unknown /\ {Absent, Unknown} \cap Exchanges = {}

VARIABLES
    now,            \* the database's transaction clock
    stage,          \* of each exchange
    asked,          \* the session_id each request came with
    session,        \* the session each exchange writes to
    txn,            \* the stamp of each open transaction, 0 when none is
    pending,        \* rows flushed and not committed
    sessions, messages,     \* committed rows
    wire,           \* the events each client was sent
    reserved,       \* exchanges that took a session-create slot
    overlapped      \* history: exchanges that shared their session while under way

vars == <<now, stage, asked, session, txn, pending, sessions, messages, wire,
          reserved, overlapped>>

Ended  == {"refused", "done", "failed", "gone"}
Stages == {"idle", "admitted", "asked", "streaming", "recorded",
           "answered", "cited"} \cup Ended

\* get_or_create_session
SessionOf(e) == IF asked[e] \in sessions THEN asked[e] ELSE e

Row(e, role, at) == [session |-> SessionOf(e), role |-> role, at |-> at, by |-> e]
Rows == [session : Exchanges, role : {"user", "assistant"}, at : Nat, by : Exchanges]

UnderWay(e) == stage[e] \notin Ended \cup {"idle"}

-----------------------------------------------------------------------------
(***************************************************************************)
(* _paired_turns                                                           *)
(***************************************************************************)
RepliesAfter(q) == {r \in messages : /\ r.session = q.session
                                     /\ r.role = "assistant"
                                     /\ r.at > q.at}

\* Mutant: the reply's session is not compared.
PairedInAnySession(q) ==
    LET replies == {r \in messages : r.role = "assistant" /\ r.at > q.at} IN
    {r \in replies : \A o \in replies : r.at <= o.at}

Paired(q) == {r \in RepliesAfter(q) : \A o \in RepliesAfter(q) : r.at <= o.at}

-----------------------------------------------------------------------------
Init ==
    /\ now = 0
    /\ stage = [e \in Exchanges |-> "idle"]
    /\ asked = [e \in Exchanges |-> Absent]
    /\ session = [e \in Exchanges |-> Absent]
    /\ txn = [e \in Exchanges |-> 0]
    /\ pending = [e \in Exchanges |-> {}]
    /\ sessions = {} /\ messages = {} /\ reserved = {} /\ overlapped = {}
    /\ wire = [e \in Exchanges |-> <<>>]

GoTo(e, s) == stage' = [stage EXCEPT ![e] = s]
Send(e, event) == wire' = [wire EXCEPT ![e] = Append(@, event)]

\* A statement opens a transaction unless one is open.
Stamp(e) == IF txn[e] = 0 THEN now + 1 ELSE txn[e]
Begin(e) == /\ txn' = [txn EXCEPT ![e] = Stamp(e)]
            /\ now' = IF txn[e] = 0 THEN now + 1 ELSE now

\* Commit what e has flushed and what it flushes now.
CommitRows(e, rows, minted) ==
    /\ messages' = messages \cup pending[e] \cup rows
    /\ sessions' = sessions \cup minted
    /\ pending' = [pending EXCEPT ![e] = {}]
    /\ txn' = [txn EXCEPT ![e] = 0]
    /\ now' = IF txn[e] = 0 THEN now + 1 ELSE now

\* Mutant: only an absent id mints.
WillMintIfAbsent(s) == s = Absent

WillMint(s) == s \notin sessions

\* A client names a session its "done" event told it, or none, or a made up one.
Offered == {Absent, Unknown} \cup {session[f] : f \in {g \in Exchanges : stage[g] = "done"}}

\* The route looks the session up and asks check_message and, when it is about
\* to mint, reserve_session_create.
Request(e, s) ==
    /\ stage[e] = "idle" /\ s \in Offered
    /\ Cardinality({f \in Exchanges : UnderWay(f)}) < MaxUnderWay
    /\ asked' = [asked EXCEPT ![e] = s]
    /\ IF s = Absent THEN UNCHANGED <<txn, now>> ELSE Begin(e)
    /\ reserved' = IF WillMint(s) THEN reserved \cup {e} ELSE reserved
    /\ LET others == {f \in Exchanges : UnderWay(f) /\ asked[f] = s /\ s \in Exchanges} IN
       overlapped' = overlapped \cup others \cup (IF others = {} THEN {} ELSE {e})
    /\ GoTo(e, "admitted")
    /\ UNCHANGED <<session, pending, sessions, messages, wire>>

\* A limit is reached: a 429 and no stream.
Refuse(e, s) ==
    /\ stage[e] = "idle" /\ s \in Offered
    /\ GoTo(e, "refused")
    /\ UNCHANGED <<now, asked, session, txn, pending, sessions, messages, wire, reserved, overlapped>>

\* get_or_create_session, record_user_message, commit.
Ask(e) ==
    /\ stage[e] = "admitted"
    /\ session' = [session EXCEPT ![e] = SessionOf(e)]
    /\ CommitRows(e, {Row(e, "user", Stamp(e))}, {SessionOf(e)})
    /\ GoTo(e, "asked")
    /\ UNCHANGED <<asked, wire, reserved, overlapped>>

\* Mutant: the transaction of the search stays open while the answer streams.
RetrieveKeepsTxn(e) ==
    /\ stage[e] = "asked"
    /\ Begin(e)
    /\ GoTo(e, "streaming")
    /\ UNCHANGED <<asked, session, pending, sessions, messages, wire, reserved, overlapped>>

\* retrieve, commit.
Retrieve(e) ==
    /\ stage[e] = "asked"
    /\ CommitRows(e, {}, {})
    /\ GoTo(e, "streaming")
    /\ UNCHANGED <<asked, session, wire, reserved, overlapped>>

Token(e) ==
    /\ stage[e] = "streaming"
    /\ Len(wire[e]) < MaxTokens
    /\ Send(e, "token")
    /\ UNCHANGED <<now, stage, asked, session, txn, pending, sessions, messages, reserved, overlapped>>

\* record_assistant_message
RecordAnswer(e) ==
    /\ stage[e] = "streaming"
    /\ Begin(e)
    /\ pending' = [pending EXCEPT ![e] = @ \cup {Row(e, "assistant", Stamp(e))}]
    /\ GoTo(e, "recorded")
    /\ UNCHANGED <<asked, session, sessions, messages, wire, reserved, overlapped>>

\* Mutant: the row is left to the end of the request.
AnswerUncommitted(e) ==
    /\ stage[e] = "recorded"
    /\ GoTo(e, "answered")
    /\ UNCHANGED <<now, asked, session, txn, pending, sessions, messages, wire, reserved, overlapped>>

CommitAnswer(e) ==
    /\ stage[e] = "recorded"
    /\ CommitRows(e, {}, {})
    /\ GoTo(e, "answered")
    /\ UNCHANGED <<asked, session, wire, reserved, overlapped>>

Cite(e) ==
    /\ stage[e] = "answered"
    /\ Send(e, "citations")
    /\ GoTo(e, "cited")
    /\ UNCHANGED <<now, asked, session, txn, pending, sessions, messages, reserved, overlapped>>

Done(e) ==
    /\ stage[e] = "cited"
    /\ Send(e, "done")
    /\ GoTo(e, "done")
    /\ UNCHANGED <<now, asked, session, txn, pending, sessions, messages, reserved, overlapped>>

\* Any exception: the error event, then a rollback.
Fail(e) ==
    /\ stage[e] \in {"admitted", "asked", "streaming", "recorded"}
    /\ Send(e, "error")
    /\ pending' = [pending EXCEPT ![e] = {}]
    /\ txn' = [txn EXCEPT ![e] = 0]
    /\ GoTo(e, "failed")
    /\ UNCHANGED <<now, asked, session, sessions, messages, reserved, overlapped>>

\* A commit raises although the database made it durable.
FailAfterCommit(e) ==
    /\ \/ /\ stage[e] = "admitted"
          /\ session' = [session EXCEPT ![e] = SessionOf(e)]
          /\ CommitRows(e, {Row(e, "user", Stamp(e))}, {SessionOf(e)})
       \/ /\ stage[e] = "recorded"
          /\ session' = session
          /\ CommitRows(e, {}, {})
    /\ Send(e, "error")
    /\ GoTo(e, "failed")
    /\ UNCHANGED <<asked, reserved, overlapped>>

\* The client goes away: before the stream starts or at one of its events.
Disconnect(e) ==
    /\ \/ stage[e] \in {"admitted", "cited"}
       \/ stage[e] = "streaming" /\ wire[e] # <<>>
    /\ pending' = [pending EXCEPT ![e] = {}]
    /\ txn' = [txn EXCEPT ![e] = 0]
    /\ GoTo(e, "gone")
    /\ UNCHANGED <<now, asked, session, sessions, messages, wire, reserved, overlapped>>

Next == \E e \in Exchanges :
    \/ \E s \in Exchanges \cup {Absent, Unknown} : Request(e, s) \/ Refuse(e, s)
    \/ Ask(e) \/ Retrieve(e) \/ Token(e) \/ RecordAnswer(e) \/ CommitAnswer(e)
    \/ Cite(e) \/ Done(e)
    \/ Fail(e) \/ FailAfterCommit(e) \/ Disconnect(e)

Spec == Init /\ [][Next]_vars

-----------------------------------------------------------------------------
\* Every variable stays in its range.
TypeOK ==
    /\ now \in Nat
    /\ stage \in [Exchanges -> Stages]
    /\ asked \in [Exchanges -> Exchanges \cup {Absent, Unknown}]
    /\ session \in [Exchanges -> Exchanges \cup {Absent}]
    /\ txn \in [Exchanges -> 0..now]
    /\ pending \in [Exchanges -> SUBSET Rows]
    /\ messages \subseteq Rows
    /\ sessions \cup reserved \cup overlapped \subseteq Exchanges

\* A client told "done" has its question and, later than it, the reply stored,
\* once each and in the session it was told.
DoneIsStored ==
    \A e \in Exchanges : stage[e] = "done" =>
        LET mine == {m \in messages : m.by = e} IN
        /\ session[e] \in sessions
        /\ \E q, r \in mine : /\ mine = {q, r}
                              /\ q.role = "user" /\ r.role = "assistant"
                              /\ q.at < r.at
                              /\ q.session = session[e] /\ r.session = session[e]

\* The report pairs an answered question with its own reply, unless exchanges of
\* one session overlapped.
OwnReplyPaired ==
    \A q, r \in messages :
        q.role = "user" /\ r.role = "assistant" /\ q.by = r.by /\ q.by \notin overlapped
        => Paired(q) = {r}

\* A reply is stamped after all that was committed before it was written, so it
\* follows every question its client could have asked first.
RepliesStampedLast ==
    [][\A e \in Exchanges : \A r \in pending'[e] \ pending[e] :
          r.role = "assistant" => \A m \in messages : m.at < r.at]_vars

\* What a client heard: the generator's last word, if it had one.
Told(e) == CASE stage[e] = "done" -> "done"
             [] stage[e] = "failed" -> "error"
             [] OTHER -> "nothing"

Chat == INSTANCE Mailbox WITH
            People <- Exchanges, granted <- reserved, boxes <- sessions,
            letters <- messages, told <- [e \in Exchanges |-> Told(e)]

\* Whatever fails between its commits, an exchange keeps what the mailbox owes: it
\* stores its question before its reply and both in one session, nothing after
\* its last word; it mints a session only with a slot taken for it, whatever id
\* it came with, and writes to another's only once that one was told of it.
ImplementsMailbox == Chat!Spec
==============================================================================
