--------------------------- MODULE AnswerFeedback ---------------------------
(***************************************************************************)
(* What becomes of an answer after it was given: the client rates it (the  *)
(* hook useMessageFeedback, POST /public/chat/{id}/feedback,               *)
(* set_message_feedback) and the reports read it (content_gaps and         *)
(* weak_queries of services/chat.py).                                      *)
(*                                                                         *)
(* turns[t] is a question with the reply _paired_turns joins to it, oldest *)
(* first; PublicChat has the pairing.  found is the column retrieval_found *)
(* and sim top_similarity, in whole steps, NoValue standing for NULL.  A   *)
(* rating is a request with a transaction of its own.  Its 204 may reach   *)
(* the client before or after its commit: the session is closed by the     *)
(* exit code of a dependency, whose place is the framework's.              *)
(***************************************************************************)
EXTENDS Integers, Sequences, FiniteSets

CONSTANTS
    Questions,      \* texts as they were asked
    Normalized,     \* Questions -> texts after _normalize_question
    Outcomes,       \* what a reply may be: found, sim, declines
    Threshold,      \* Settings.similarity_threshold when a report is made,
                    \* which need not be the one an answer was served under
    NearMissBand, LowConfidenceBand,
    ScanLimit,      \* _WEAK_QUERY_SCAN_LIMIT
    NoValue,
    MaxTurns, MaxRatings, MaxAged       \* bounds of the model

ASSUME MaxTurnsAssumption == MaxTurns \in Nat

VARIABLES
    turns,
    since,          \* the oldest turn in the window of the reports
    feedback,       \* the committed column, of each turn
    page,           \* what the chat page holds of each turn
    ratings         \* the requests sent, in order

report == <<turns, since>>
feedbackVars == <<turns, since, feedback, page, ratings>>

Values == {1, -1}
UnderWay(i) == ratings[i].at \in {"sent", "read", "flushed"}
Of(t) == {i \in DOMAIN ratings : ratings[i].turn = t}
Writes(i) == ratings[i].value # ratings[i].seen

FeedbackInit ==
    /\ turns = <<>> /\ feedback = <<>> /\ page = <<>> /\ ratings = <<>>
    /\ since = 1
-----------------------------------------------------------------------------
(* A question is answered and its reply recorded.                          *)
Answer(q, o) ==
    /\ Len(turns) < MaxTurns
    /\ turns' = Append(turns, [question |-> q, found |-> o.found, sim |-> o.sim,
                               declines |-> o.declines])
    /\ feedback' = Append(feedback, NoValue)
    /\ page' = Append(page, [shown |-> NoValue, previous |-> NoValue, pending |-> FALSE])
    /\ UNCHANGED <<since, ratings>>

(* Days pass.                                                              *)
LeaveWindow ==
    /\ since <= Len(turns) /\ since <= MaxAged
    /\ since' = since + 1
    /\ UNCHANGED <<turns, feedback, page, ratings>>
-----------------------------------------------------------------------------
(* The hook.                                                               *)

(* select: optimistic, and nothing while the message's request is pending. *)
Select(t, v) ==
    /\ Len(ratings) < MaxRatings
    /\ ~page[t].pending
    /\ page' = [page EXCEPT ![t] = [shown |-> v, previous |-> @.shown, pending |-> TRUE]]
    /\ LET others == {i \in Of(t) : UnderWay(i)}
           sent == [turn |-> t, value |-> v, seen |-> NoValue, at |-> "sent",
                    heard |-> "waiting", alone |-> others = {}]
       IN  ratings' = Append([i \in DOMAIN ratings |->
                                 IF i \in others THEN [ratings[i] EXCEPT !.alone = FALSE]
                                 ELSE ratings[i]], sent)
    /\ UNCHANGED <<report, feedback>>

Heard(i, what) == ratings' = [ratings EXCEPT ![i].heard = what]

(* The 204.                                                                *)
Confirm(i) ==
    /\ ratings[i].heard = "waiting" /\ ratings[i].at \in {"flushed", "committed"}
    /\ Heard(i, "ok")
    /\ page' = [page EXCEPT ![ratings[i].turn].pending = FALSE]
    /\ UNCHANGED <<report, feedback>>

\* Mutant: the value of before is not put back.
KeepShown(t) == page' = [page EXCEPT ![t].pending = FALSE]

\* Mutant: the buttons stay disabled.
KeepPending(t) == page' = [page EXCEPT ![t].shown = page[t].previous]

(* The catch of select: the value of before is shown again.                *)
Revert(t) ==
    page' = [page EXCEPT ![t].shown = page[t].previous, ![t].pending = FALSE]

(* An error response.                                                      *)
Refuse(i) ==
    /\ ratings[i].heard = "waiting" /\ ratings[i].at = "failed"
    /\ Heard(i, "error")
    /\ Revert(ratings[i].turn)
    /\ UNCHANGED <<report, feedback>>

(* The connection breaks; the server may go on with the request.           *)
LoseReply(i) ==
    /\ ratings[i].heard = "waiting"
    /\ Heard(i, "lost")
    /\ Revert(ratings[i].turn)
    /\ UNCHANGED <<report, feedback>>
-----------------------------------------------------------------------------
(* The request.                                                            *)

GoTo(i, where) == ratings' = [ratings EXCEPT ![i].at = where]

(* session.get: the row as it is committed.                                *)
Read(i) ==
    /\ ratings[i].at = "sent"
    /\ ratings' = [ratings EXCEPT ![i].at = "read", ![i].seen = feedback[ratings[i].turn]]
    /\ UNCHANGED <<report, feedback, page>>

(* The flush: no UPDATE for a value that is already there; an UPDATE waits *)
(* for the row.                                                            *)
Flush(i) ==
    /\ ratings[i].at = "read"
    /\ Writes(i) => \A j \in Of(ratings[i].turn) : ~(ratings[j].at = "flushed" /\ Writes(j))
    /\ GoTo(i, "flushed")
    /\ UNCHANGED <<report, feedback, page>>

Commit(i) ==
    /\ ratings[i].at = "flushed"
    /\ feedback' = IF Writes(i) THEN [feedback EXCEPT ![ratings[i].turn] = ratings[i].value]
                   ELSE feedback
    /\ GoTo(i, "committed")
    /\ UNCHANGED <<report, page>>

(* An exception or a dying process: a rollback.                            *)
Fail(i) ==
    /\ UnderWay(i)
    /\ GoTo(i, "failed")
    /\ UNCHANGED <<report, feedback, page>>

Rate(i) ==
    \/ Read(i) \/ Flush(i) \/ Commit(i) \/ Fail(i)
    \/ Confirm(i) \/ Refuse(i) \/ LoseReply(i)

FeedbackNext ==
    \/ \E q \in Questions, o \in Outcomes : Answer(q, o)
    \/ LeaveWindow
    \/ \E t \in DOMAIN page, v \in Values : Select(t, v)
    \/ \E i \in DOMAIN ratings : Rate(i)

(* Every request gets on, at the server and on its way back.               *)
FeedbackSpec ==
    /\ FeedbackInit /\ [][FeedbackNext]_feedbackVars
    /\ \A i \in 1 .. MaxRatings : WF_feedbackVars(i \in DOMAIN ratings /\ Rate(i))
-----------------------------------------------------------------------------
(* The reports, functions of the committed rows.                           *)

Window == since .. Len(turns)
Newest(n, S) == {t \in S : Cardinality({r \in S : r > t}) < n}

ContentGaps(limit) == Newest(limit, {t \in Window : turns[t].found = FALSE})

\* Mutant: row 4 with an upper bound, the threshold.
KindWithinBands(t) ==
    LET turn == turns[t]
        found == turn.found = TRUE
        uncovered == turn.found = FALSE
        below(n) == turn.sim # NoValue /\ turn.sim < n
    IN  IF feedback[t] = -1 THEN "negative_feedback"
        ELSE IF found /\ turn.declines THEN "near_miss"
        ELSE IF uncovered /\ (turn.sim = NoValue \/ below(Threshold - NearMissBand))
             THEN "refused"
        ELSE IF uncovered /\ below(Threshold) THEN "near_miss"
        ELSE IF found /\ below(Threshold + LowConfidenceBand) THEN "low_confidence"
        ELSE "none"

\* Mutant: what was inferred outranks what a human said.
KindInferredFirst(t) ==
    LET turn == turns[t]
        found == turn.found = TRUE
        uncovered == turn.found = FALSE
        below(n) == turn.sim # NoValue /\ turn.sim < n
    IN  IF found /\ turn.declines THEN "near_miss"
        ELSE IF uncovered /\ (turn.sim = NoValue \/ below(Threshold - NearMissBand))
             THEN "refused"
        ELSE IF uncovered THEN "near_miss"
        ELSE IF feedback[t] = -1 THEN "negative_feedback"
        ELSE IF found /\ below(Threshold + LowConfidenceBand) THEN "low_confidence"
        ELSE "none"

(* _classify_turn: the first rung that matches.                            *)
Kind(t) ==
    LET turn == turns[t]
        found == turn.found = TRUE
        uncovered == turn.found = FALSE
        below(n) == turn.sim # NoValue /\ turn.sim < n
    IN  IF feedback[t] = -1 THEN "negative_feedback"
        ELSE IF found /\ turn.declines THEN "near_miss"
        ELSE IF uncovered /\ (turn.sim = NoValue \/ below(Threshold - NearMissBand))
             THEN "refused"
        ELSE IF uncovered THEN "near_miss"
        ELSE IF found /\ below(Threshold + LowConfidenceBand) THEN "low_confidence"
        ELSE "none"

WeakTurns == {t \in Newest(ScanLimit, Window) : Kind(t) # "none"}

(* _build_group.                                                           *)
Least(S) == CHOOSE n \in S : \A m \in S : n <= m
Group(text) ==
    LET entries == {t \in WeakTurns : Normalized[turns[t].question] = text}
        sims == {turns[t].sim : t \in entries} \ {NoValue}
    IN  [text |-> text, count |-> Cardinality(entries),
         kinds |-> {Kind(t) : t \in entries},
         worst |-> IF sims = {} THEN -1 ELSE Least(sims),
         examples |-> Newest(3, entries)]

Groups == {Group(Normalized[turns[t].question]) : t \in WeakTurns}

(* More turns first, then the lower similarity, none at all being lowest;  *)
(* the rest of the order is by the text.                                   *)
Ahead(g, h) == g.count > h.count \/ (g.count = h.count /\ g.worst < h.worst)
WeakQueries(limit) ==
    {S \in SUBSET Groups :
        /\ Cardinality(S) = Least({limit, Cardinality(Groups)})
        /\ \A g \in Groups \ S, h \in S : ~Ahead(g, h)}
-----------------------------------------------------------------------------
(* Nothing about t is pending, on the page or at the server.               *)
Settled(t) == ~page[t].pending /\ \A i \in Of(t) : ~UnderWay(i)

(* A request that ran alone and whose outcome the page was told.           *)
Clean(i) ==
    /\ ratings[i].alone /\ ratings[i].heard # "lost"
    /\ ratings[i].heard = "ok" => ratings[i].at = "committed"
Confirmed(i) == Clean(i) /\ ratings[i].heard = "ok" /\ \A j \in Of(ratings[i].turn) : j <= i

(* All requests were clean, or the last one was and it was confirmed: what *)
(* went wrong before is repaired by rating again.                          *)
Trusted(t) == (\A i \in Of(t) : Clean(i)) \/ \E i \in Of(t) : Confirmed(i)

(* What the page shows of a settled answer is what is stored, through      *)
(* refusals, reverts to the value of before and skipped UPDATEs.  A rating *)
(* sent while an earlier one of the same answer was still at the server is *)
(* not promised to win: it may have found its own value and written none.  *)
SettledRatingStored ==
    \A t \in DOMAIN page : Settled(t) /\ Trusted(t) => feedback[t] = page[t].shown

(* A client who pressed thumbs-down, and whose page still shows it, is in  *)
(* the report as such, as long as the turn is scanned, whatever the reply  *)
(* itself would have been classified as.                                   *)
RatedDownIsReported ==
    \A t \in Newest(ScanLimit, Window) :
        Settled(t) /\ Trusted(t) /\ page[t].shown = -1 =>
            \A S \in WeakQueries(MaxTurns) : \E g \in S :
                /\ g.text = Normalized[turns[t].question]
                /\ "negative_feedback" \in g.kinds

(* The two reports agree: a question in content_gaps that weak_queries     *)
(* scans is one of its groups, also where the threshold has moved under    *)
(* the stored similarities; and a limit drops it only for one asked badly  *)
(* at least as often.                                                      *)
GapsAreWeak ==
    \A t \in ContentGaps(MaxTurns) \cap Newest(ScanLimit, Window) :
        LET text == Normalized[turns[t].question]
        IN  /\ \E g \in Groups : g.text = text
            /\ \A S \in WeakQueries(1) : \E g \in S : g.count >= Group(text).count

(* The buttons of an answer come back, whatever becomes of the request.    *)
RatingsSettle ==
    \A t \in 1 .. MaxTurns :
        (t \in DOMAIN page /\ page[t].pending) ~> (t \in DOMAIN page /\ ~page[t].pending)
=============================================================================
