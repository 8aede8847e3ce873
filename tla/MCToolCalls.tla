---------------------------- MODULE MCToolCalls ----------------------------
\* Model-checking instance of ToolCalls: drafts of one title, tags in opposite
\* orders, edits of a published item.
EXTENDS ToolCalls, TLC

Old == CHOOSE c \in Contents : TRUE
Draft(tags) == [tool |-> "draft", title |-> "t", tags |-> tags]
Edit(add) == [tool |-> "edit", content |-> Old, add |-> add]
Retag(add, remove) == [tool |-> "tag", content |-> Old, add |-> add, remove |-> remove]

Bad == [tool |-> "bad"]

MCCalls == {Draft(<<"x", "y">>), Edit(<<"y", "x">>), Retag(<<"y">>, {"x"}), Bad}

\* Single calls, unreadable ones, and calls that follow a failed one or an edit.
MCBatches ==
    {<<c>> : c \in MCCalls} \cup {<<Bad, c>> : c \in {Bad, Edit(<<"y", "x">>)}}
      \cup {<<Edit(<<"y", "x">>), [tool |-> "garbled"]>>, <<[tool |-> "garbled"]>>}
=============================================================================
