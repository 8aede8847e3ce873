---------------------------- MODULE MCEvalHarness ----------------------------
(***************************************************************************)
(* Values of EvalHarness for the model checker: two articles, one with a   *)
(* section of two chunks that is gone once it is republished, and one with *)
(* a heading that comes twice; a question the corpus must not answer, one  *)
(* that refers to the long section and one that expects both articles and  *)
(* refers to a heading of each.                                            *)
(***************************************************************************)
EXTENDS EvalHarness

MCOutline ==
    [a \in Articles |-> [g \in Generations |->
        IF a = "hsa" THEN <<"rules", "rules">>
        ELSE IF g = 1 THEN <<"rules", NA, "limits">> ELSE <<NA, "limits">>]]

Asked(class, answerable, slugs, refs, reference) ==
    [class |-> class, answerable |-> answerable, slugs |-> slugs, refs |-> refs,
     reference |-> reference]

MCQuestionFile ==
    <<Asked("near_miss", FALSE, {}, {}, FALSE),
      Asked("answerable", TRUE, {"ira"}, {<<"ira", "rules">>}, FALSE),
      Asked("multi_source", TRUE, {"ira", "hsa"}, {<<"ira", "limits">>, <<"hsa", "rules">>}, TRUE)>>

MCForeignRuns ==
    {[kind |-> "answer", label |-> "mine"], [kind |-> "answer", label |-> "other"],
     [kind |-> "agent", label |-> "mine"]}

CommandLine(runs, persist, compare) ==
    [runs |-> runs, persist |-> persist, compare |-> compare]

MCArguments ==
    {CommandLine(1, TRUE, FALSE), CommandLine(2, TRUE, TRUE), CommandLine(1, FALSE, TRUE)}

\* What is asked of one run needs nobody else's; where the runs of several
\* processes are what matters, nothing is retrieved for any question and one
\* edit is enough.
Focus ==
    IF args.compare
    THEN row.got = {} /\ row.top # "near" /\ row.supported # TRUE /\ edits <= 2
    ELSE stored \subseteq Own
==============================================================================
