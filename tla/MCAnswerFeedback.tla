-------------------------- MODULE MCAnswerFeedback ---------------------------
(***************************************************************************)
(* Values of AnswerFeedback for the model checker: two spellings of one    *)
(* question and another one; replies on either side of every bound.        *)
(***************************************************************************)
EXTENDS AnswerFeedback

MCNormalized == [q \in Questions |-> IF q = "Q?" THEN "q" ELSE q]

Reply(found, sim, declines) == [found |-> found, sim |-> sim, declines |-> declines]

MCOutcomes ==
    {Reply(FALSE, NoValue, TRUE),       \* nothing retrieved
     Reply(FALSE, 1, TRUE),             \* something retrieved, nothing near
     Reply(FALSE, 4, FALSE),            \* served under a higher threshold
     Reply(TRUE, 4, TRUE),              \* retrieved, and declined all the same
     Reply(TRUE, 4, FALSE),             \* answered, just over the threshold
     Reply(TRUE, 9, FALSE)}             \* answered well
==============================================================================
