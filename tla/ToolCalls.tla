----------------------------- MODULE ToolCalls ------------------------------
(***************************************************************************)
(* The admin agent (agent/loop.py, agent/llm.py, routes/agent_routes.py)   *)
(* and MCP callers (mcp/server.py) running the same tools on one database. *)
(*                                                                         *)
(* A tool is a transaction of several statements on unique names: slugs    *)
(* (services/content.py), tags (services/tags.py) and the tags of an item. *)
(* Postgres makes an insert or update wait for another transaction that    *)
(* wrote the same key, refuses an insert of a committed key, and aborts    *)
(* one of two transactions that wait for each other.                       *)
(***************************************************************************)
EXTENDS Naturals, Sequences, FiniteSets, SequencesExt

CONSTANTS
    Agents,          \* exchanges of POST /agent/chat
    Callers,         \* MCP sessions
    Contents,        \* items that exist from the start
    Published,       \* those of them whose edits rebuild chunks
    OldTags,         \* rows of tags from the start: live and soft-deleted ones
    Tombstones,
    Titles,          \* titles of drafts
    TagNames,        \* what tags may be called
    Calls,           \* tool calls with their arguments
    Batches,         \* calls one answer of the model may carry
    MaxToolCalls,    \* _MAX_TOOL_CALLS
    MaxSteps,        \* _MAX_STEPS
    MaxCallerCalls   \* bound of the model

Actors == Agents \cup Callers

\* The arguments of the tools, names of tags in the order given; a call that
\* fails before any write is bad, one whose arguments are no JSON garbled.
Call == [tool : {"draft"}, title : Titles, tags : Seq(TagNames)]
        \cup [tool : {"edit"}, content : Contents, add : Seq(TagNames)]
        \cup [tool : {"tag"}, content : Contents, add : Seq(TagNames),
              remove : SUBSET TagNames]
        \cup [tool : {"bad", "garbled"}]

ASSUME ActorsAssumption == Agents \cap Callers = {}
ASSUME DataAssumption ==
    /\ Published \subseteq Contents /\ IsFiniteSet(Contents)
    /\ Tombstones \subseteq OldTags /\ OldTags \subseteq TagNames /\ IsFiniteSet(OldTags)
ASSUME CallsAssumption == Calls \subseteq Call /\ Batches \subseteq Seq(Call) \ {<< >>}
ASSUME CapsAssumption ==
    MaxToolCalls \in Nat \ {0} /\ MaxSteps \in Nat /\ MaxCallerCalls \in Nat

VARIABLES
    db,         \* committed rows
    written,    \* rows each session has written and not committed
    removed,    \* keys each session has deleted and not committed
    tx,         \* the tool call each session is running
    agent,      \* the generator of each exchange
    caller,     \* each MCP session: its calls so far and their answers
    landed      \* history: the calls whose writes were committed

store == <<db, written, removed, landed>>
vars == <<store, tx, agent, caller>>

-----------------------------------------------------------------------------
(* Rows.  by is the call that wrote the row.                               *)
Before == <<"before", 0>>
Deleted == <<"deleted", 0>>

Slug(title, n) == <<"slug", title, n>>
Tag(name) == <<"tag", name>>
Link(content, name) == <<"link", content, name>>
Item(content) == <<"item", content>>

Row(key, by) == [key |-> key, by |-> by]
Keys(rows) == {r.key : r \in rows}
Has(key) == key \in Keys(db)

\* What a SELECT of session a returns: committed rows, and its own.
Visible(a) ==
    {r \in db : r.key \notin removed[a] \cup Keys(written[a])} \cup written[a]

Held(a) == Keys(written[a]) \cup removed[a]

-----------------------------------------------------------------------------
(* One tool call as a transaction.                                         *)
NoCall == [tool |-> "none"]
Names(call) == IF call.tool = "draft" THEN call.tags ELSE call.add

Idle == [at |-> "idle", call |-> NoCall, by |-> Before, item |-> Before,
         todo |-> << >>, snapshot |-> {}, linked |-> {}]

\* call_tool: an unknown tool or invalid arguments fail before any write, and
\* so does an item get_content does not find.
Start(a, call, n) ==
    LET at == CASE call.tool = "draft" -> "slug"
                [] call.tool = "edit" -> "row"
                [] call.tool = "tag" -> "remove"
                [] OTHER -> "failed"
    IN  tx' = [tx EXCEPT ![a] = [Idle EXCEPT
                 !.at = at, !.call = call, !.by = <<a, n>>,
                 !.item = IF at \in {"row", "remove"} THEN call.content ELSE Before,
                 !.todo = IF at = "failed" THEN << >> ELSE Names(call)]]

At(a, stage) == tx[a].at = stage
Goto(a, stage) == tx' = [tx EXCEPT ![a].at = stage]
LinksOf(a) == {k \in Keys(Visible(a)) : k[1] = "link" /\ k[2] = tx[a].item}

\* What the DELETE of _replace_tags finds (every tag of the item) and that of
\* update_content_tags (the named ones).  It waits for rows of its snapshot, and
\* takes those that are still there: a row another transaction puts in their
\* place stays.
Doomed(a) == {r \in Visible(a) : /\ r.key \in LinksOf(a)
                                 /\ tx[a].call.tool = "edit" \/ r.key[3] \in tx[a].call.remove}
Gone(a) == Keys(tx[a].snapshot \cap Doomed(a))

\* The keys the session's next statement writes.
Touches(a) ==
    CASE At(a, "insert") -> {Slug(tx[a].item[1], tx[a].item[2])}
      [] tx[a].at \in {"new_tag", "old_tag"} -> {Tag(Head(tx[a].todo))}
      [] At(a, "row") -> {Item(tx[a].item)}
      [] At(a, "delete") -> Gone(a)
      [] At(a, "links") ->
            {Link(tx[a].item, x) : x \in ToSet(Names(tx[a].call)) \ tx[a].linked}
              \cup (IF tx[a].call.tool = "draft" THEN {} ELSE {Item(tx[a].item)})
      [] OTHER -> {}

WaitsFor(a, b) == Touches(a) \cap Held(b) # {}
Blocked(a) == \E b \in Actors \ {a} : WaitsFor(a, b)

\* An insert of a key that a committed row has.
Collision(a) ==
    /\ tx[a].at \in {"insert", "new_tag", "links"}
    /\ \E k \in Touches(a) : k[1] # "item" /\ Has(k) /\ k \notin removed[a]

Write(a) ==
    written' = [written EXCEPT ![a] =
        {r \in @ : r.key \notin Touches(a)} \cup {Row(k, tx[a].by) : k \in Touches(a)}]

\* generate_slug: the first free one of title, title-2, title-3, ...
TakenSuffixes(title, a) ==
    {k[3] : k \in {s \in Keys(Visible(a)) : s[1] = "slug" /\ s[2] = title}}
FreeSuffix(title, a) ==
    CHOOSE n \in 1..(Cardinality(TakenSuffixes(title, a)) + 1) :
        n \notin TakenSuffixes(title, a) /\ 1..(n - 1) \subseteq TakenSuffixes(title, a)

GenerateSlug(a) ==
    LET title == tx[a].call.title IN
    /\ At(a, "slug")
    /\ tx' = [tx EXCEPT ![a].at = "insert", ![a].item = <<title, FreeSuffix(title, a)>>]
    /\ UNCHANGED <<store, agent, caller>>

\* create_draft's row.
InsertDraft(a) ==
    /\ At(a, "insert") /\ ~Blocked(a) /\ ~Collision(a)
    /\ Write(a) /\ Goto(a, "names")
    /\ UNCHANGED <<db, removed, landed, agent, caller>>

\* update_content's new text.
UpdateItem(a) ==
    /\ At(a, "row") /\ ~Blocked(a)
    /\ Write(a) /\ Goto(a, "remove")
    /\ UNCHANGED <<db, removed, landed, agent, caller>>

FindLinks(a) ==
    /\ At(a, "remove")
    /\ tx' = [tx EXCEPT ![a].at = "delete", ![a].snapshot = Doomed(a)]
    /\ UNCHANGED <<store, agent, caller>>

\* update_content_tags then reads which tags the item has; _replace_tags does not.
RemoveLinks(a) ==
    LET left == IF tx[a].call.tool = "edit" THEN {} ELSE LinksOf(a) \ Gone(a) IN
    /\ At(a, "delete") /\ ~Blocked(a)
    /\ removed' = [removed EXCEPT ![a] = @ \cup Gone(a)]
    /\ tx' = [tx EXCEPT ![a].at = "names", ![a].snapshot = {},
                        ![a].linked = {k[3] : k \in left}]
    /\ UNCHANGED <<db, written, landed, agent, caller>>

\* Mutant: a soft-deleted tag is used as it is.
LookUpAnyTag(a) ==
    LET found == \E r \in Visible(a) : r.key = Tag(Head(tx[a].todo)) IN
    /\ At(a, "names") /\ tx[a].todo # << >>
    /\ tx' = [tx EXCEPT ![a].at = IF found THEN "names" ELSE "new_tag",
                        ![a].todo = IF found THEN Tail(@) ELSE @]
    /\ UNCHANGED <<store, agent, caller>>

\* get_or_create_tags, one name of the list.  What it adds or takes back is
\* flushed by the next statement.
LookUpTag(a) ==
    LET found == {r \in Visible(a) : r.key = Tag(Head(tx[a].todo))}
        next == IF found = {} THEN "new_tag"
                ELSE IF \E r \in found : r.by = Deleted THEN "old_tag" ELSE "names" IN
    /\ At(a, "names") /\ tx[a].todo # << >>
    /\ tx' = [tx EXCEPT ![a].at = next, ![a].todo = IF next = "names" THEN Tail(@) ELSE @]
    /\ UNCHANGED <<store, agent, caller>>

FlushTag(a) ==
    /\ tx[a].at \in {"new_tag", "old_tag"} /\ ~Blocked(a) /\ ~Collision(a)
    /\ Write(a)
    /\ tx' = [tx EXCEPT ![a].at = "names", ![a].todo = Tail(@)]
    /\ UNCHANGED <<db, removed, landed, agent, caller>>

\* The last flush: the item's row and its tags.
InsertLinks(a) ==
    /\ At(a, "links") /\ ~Blocked(a) /\ ~Collision(a)
    /\ Write(a)
    /\ Goto(a, IF tx[a].call.tool = "edit" /\ tx[a].item \in Published
               THEN "embed" ELSE "returned")
    /\ UNCHANGED <<db, removed, landed, agent, caller>>

NamesDone(a) ==
    /\ At(a, "names") /\ tx[a].todo = << >>
    /\ Goto(a, "links")
    /\ UNCHANGED <<store, agent, caller>>

\* update_content of a published item: EmbeddingFailedError is an AppError.
RebuildChunks(a) ==
    /\ At(a, "embed")
    /\ \E outcome \in {"returned", "failed"} : Goto(a, outcome)
    /\ UNCHANGED <<store, agent, caller>>

\* IntegrityError, and the abort of one of two transactions that wait for each
\* other: neither is an AppError.
DatabaseError(a) ==
    /\ \/ Collision(a) /\ ~Blocked(a)
       \/ \E b \in Actors \ {a} : WaitsFor(a, b) /\ WaitsFor(b, a)
    /\ Goto(a, "raised")
    /\ UNCHANGED <<store, agent, caller>>

ToolStep(a) ==
    \/ GenerateSlug(a) \/ InsertDraft(a) \/ UpdateItem(a) \/ FindLinks(a) \/ RemoveLinks(a)
    \/ LookUpTag(a) \/ FlushTag(a) \/ NamesDone(a) \/ InsertLinks(a)
    \/ RebuildChunks(a) \/ DatabaseError(a)

-----------------------------------------------------------------------------
(* The ends of a transaction.                                              *)
Commit(a) ==
    /\ db' = {r \in db : r.key \notin Held(a)} \cup written[a]
    /\ landed' = landed \cup {r.by : r \in written[a]}
    /\ written' = [written EXCEPT ![a] = {}]
    /\ removed' = [removed EXCEPT ![a] = {}]

Rollback(a) ==
    /\ written' = [written EXCEPT ![a] = {}]
    /\ removed' = [removed EXCEPT ![a] = {}]
    /\ UNCHANGED <<db, landed>>

Rest(a) == tx' = [tx EXCEPT ![a] = Idle]

-----------------------------------------------------------------------------
(* One exchange: run_agent drives the adapter of the model.                *)
(* queue and finished are the adapter's; conversation is what the model is *)
(* sent; events is what the stream has told the client about calls.        *)
NewExchange == [pc |-> "ask", steps |-> 0, calls |-> 0, failures |-> 0,
                queue |-> << >>, finished |-> FALSE, conversation |-> << >>,
                events |-> {}, end |-> "open", told |-> TRUE]

Set(a, new) == agent' = [agent EXCEPT ![a] = new]
Stepped(a) == [agent[a] EXCEPT !.steps = @ + 1]
Asking(a) == agent[a].pc = "ask" /\ agent[a].steps < MaxSteps
Querying(a) == Asking(a) /\ ~agent[a].finished /\ agent[a].queue = << >>
Ended(g, how) == [g EXCEPT !.pc = "ended", !.end = how]

\* The attempt is recorded and told before the tool runs.  Arguments that are
\* no JSON raise AgentLLMFailedError out of the loop instead.
Attempt(a, g, call, rest) ==
    IF call.tool = "garbled"
    THEN Set(a, [g EXCEPT !.queue = rest, !.pc = "escaped", !.end = "error"])
    ELSE Set(a, [g EXCEPT !.queue = rest, !.pc = "announced", !.calls = @ + 1,
                          !.conversation = Append(@, <<"call", g.calls + 1>>)])

\* next_step serves the calls of one answer one by one, without a query.
NextQueued(a) ==
    /\ Asking(a) /\ ~agent[a].finished /\ agent[a].queue # << >>
    /\ tx' = [tx EXCEPT ![a].call = Head(agent[a].queue)]
    /\ Attempt(a, Stepped(a), Head(agent[a].queue), Tail(agent[a].queue))
    /\ UNCHANGED <<store, caller>>

AnswerCalls(a) ==
    /\ Querying(a)
    /\ \E batch \in Batches :
         /\ tx' = [tx EXCEPT ![a].call = batch[1]]
         /\ Attempt(a, [Stepped(a) EXCEPT !.told = TRUE], batch[1], Tail(batch))
    /\ UNCHANGED <<store, caller>>

\* Mutant: the adapter forgets that it has given the text, and asks for it again.
AnswerTextAgain(a) ==
    /\ Querying(a)
    /\ Set(a, [Stepped(a) EXCEPT !.told = TRUE, !.conversation = Append(@, <<"text", 0>>)])
    /\ UNCHANGED <<store, tx, caller>>

AnswerText(a) ==
    /\ Querying(a)
    /\ Set(a, [Stepped(a) EXCEPT !.finished = TRUE, !.told = TRUE,
                                 !.conversation = Append(@, <<"text", 0>>)])
    /\ UNCHANGED <<store, tx, caller>>

\* LlmDone after the text, or after an answer with neither text nor calls; and
\* before that, whatever the adapter holds, the limit on the steps.
Finished(a) ==
    \/ agent[a].steps >= MaxSteps
    \/ agent[a].finished \/ agent[a].queue = << >>

Finish(a) ==
    /\ agent[a].pc = "ask" /\ Finished(a)
    /\ Set(a, Ended(Stepped(a), IF agent[a].steps >= MaxSteps THEN "limit" ELSE "done"))
    /\ UNCHANGED <<store, tx, caller>>

ProviderFails(a) ==
    /\ Querying(a)
    /\ Set(a, [Stepped(a) EXCEPT !.pc = "escaped", !.end = "error"])
    /\ UNCHANGED <<store, tx, caller>>

StartTool(a) ==
    /\ agent[a].pc = "announced"
    /\ Start(a, tx[a].call, agent[a].calls)
    /\ Set(a, [agent[a] EXCEPT !.pc = "tool"])
    /\ UNCHANGED <<store, caller>>

\* The end of a call that was not the last straw: at the cap the loop reports
\* what was completed and ends, whatever the calls came to.
Proceed(g) == IF g.calls >= MaxToolCalls THEN Ended(g, "done") ELSE [g EXCEPT !.pc = "ask"]
Answered(g) == [g EXCEPT !.conversation = Append(@, <<"answer", g.calls>>)]

ToolSucceeds(a) ==
    /\ agent[a].pc = "tool" /\ At(a, "returned")
    /\ Commit(a) /\ Rest(a)
    /\ Set(a, Proceed([Answered(agent[a]) EXCEPT !.failures = 0,
                                                 !.events = @ \cup {agent[a].calls}]))
    /\ UNCHANGED caller

\* Mutants: what the failed call wrote stays in the session; the model is not
\* told.
FailsWithoutRollback(a) ==
    /\ agent[a].pc = "tool" /\ At(a, "failed")
    /\ Rest(a)
    /\ Set(a, IF agent[a].failures > 0 THEN Ended(agent[a], "failed")
              ELSE Proceed([Answered(agent[a]) EXCEPT !.failures = 1, !.told = FALSE]))
    /\ UNCHANGED <<store, caller>>

FailsSilently(a) ==
    /\ agent[a].pc = "tool" /\ At(a, "failed")
    /\ Rollback(a) /\ Rest(a)
    /\ Set(a, IF agent[a].failures > 0 THEN Ended(agent[a], "failed")
              ELSE Proceed([agent[a] EXCEPT !.failures = 1, !.told = FALSE]))
    /\ UNCHANGED caller

\* Mutant: a call that failed does not count towards the cap.
FailsUncounted(a) ==
    LET answered == Answered(agent[a]) IN
    /\ agent[a].pc = "tool" /\ At(a, "failed")
    /\ Rollback(a) /\ Rest(a)
    /\ Set(a, IF agent[a].failures > 0 THEN Ended(agent[a], "failed")
              ELSE Proceed([answered EXCEPT !.failures = 1, !.told = FALSE, !.calls = @ - 1]))
    /\ UNCHANGED caller

\* The first failure is told to the model, the second in a row ends the exchange.
ToolFails(a) ==
    /\ agent[a].pc = "tool" /\ At(a, "failed")
    /\ Rollback(a) /\ Rest(a)
    /\ Set(a, IF agent[a].failures > 0 THEN Ended(agent[a], "failed")
              ELSE Proceed([Answered(agent[a]) EXCEPT !.failures = 1, !.told = FALSE]))
    /\ UNCHANGED caller

\* Anything else escapes run_agent; the route yields its error event first.
ToolRaises(a) ==
    /\ agent[a].pc = "tool" /\ At(a, "raised")
    /\ Set(a, [agent[a] EXCEPT !.pc = "escaped", !.end = "error"])
    /\ Rest(a)
    /\ UNCHANGED <<store, caller>>

\* Mutant: the session is left as it is.
LeaveAfterError(a) ==
    /\ agent[a].pc = "escaped"
    /\ Set(a, [agent[a] EXCEPT !.pc = "ended"])
    /\ UNCHANGED <<store, tx, caller>>

RollbackAfterError(a) ==
    /\ agent[a].pc = "escaped"
    /\ Rollback(a)
    /\ Set(a, [agent[a] EXCEPT !.pc = "ended"])
    /\ UNCHANGED <<tx, caller>>

\* The client leaves: the generator is closed where it has yielded, and
\* get_session rolls back.
Disconnect(a) ==
    /\ agent[a].pc \in {"ask", "announced"}
    /\ Rollback(a) /\ Rest(a)
    /\ Set(a, Ended(agent[a], "gone"))
    /\ UNCHANGED caller

-----------------------------------------------------------------------------
(* _execute_tool_call: one call, one session.                              *)
CallTool(m) ==
    /\ At(m, "idle") /\ caller[m].calls < MaxCallerCalls
    /\ \E call \in Calls : Start(m, call, caller[m].calls + 1)
    /\ caller' = [caller EXCEPT ![m].calls = @ + 1]
    /\ UNCHANGED <<store, agent>>

CallToolEnds(m) ==
    /\ \/ /\ At(m, "returned") /\ Commit(m)
          /\ caller' = [caller EXCEPT ![m].ok = @ \cup {caller[m].calls}]
       \/ /\ tx[m].at \in {"failed", "raised"} /\ Rollback(m)
          /\ UNCHANGED caller
    /\ Rest(m)
    /\ UNCHANGED agent

-----------------------------------------------------------------------------
Init ==
    /\ db = {Row(Tag(x), IF x \in Tombstones THEN Deleted ELSE Before) : x \in OldTags}
              \cup {Row(Item(c), Before) : c \in Contents}
    /\ written = [a \in Actors |-> {}] /\ removed = [a \in Actors |-> {}]
    /\ tx = [a \in Actors |-> Idle]
    /\ agent = [a \in Agents |-> NewExchange]
    /\ caller = [m \in Callers |-> [calls |-> 0, ok |-> {}]]
    /\ landed = {}

AgentStep(a) ==
    \/ NextQueued(a) \/ AnswerCalls(a) \/ AnswerText(a)
    \/ Finish(a) \/ ProviderFails(a) \/ StartTool(a)
    \/ ToolSucceeds(a) \/ ToolFails(a) \/ ToolRaises(a) \/ RollbackAfterError(a)

Next ==
    \/ \E a \in Agents : AgentStep(a) \/ Disconnect(a)
    \/ \E m \in Callers : CallTool(m) \/ CallToolEnds(m)
    \/ \E a \in Actors : ToolStep(a)

\* A request that has begun runs on; clients may leave and callers stay away.
Spec ==
    /\ Init /\ [][Next]_vars
    /\ \A a \in Agents : WF_vars(AgentStep(a))
    /\ \A m \in Callers : WF_vars(CallToolEnds(m))
    /\ \A a \in Actors : WF_vars(ToolStep(a))

-----------------------------------------------------------------------------
(* Properties                                                              *)
Items == Contents \cup (Titles \X Nat)
Links == {"link"} \X Items \X TagNames
Key   == ({"slug"} \X Titles \X Nat) \cup ({"tag"} \X TagNames) \cup Links \cup ({"item"} \X Items)
Rows  == [key : Key, by : {Before, Deleted} \cup (Actors \X (Nat \ {0}))]

Stages == {"idle", "slug", "insert", "row", "remove", "delete", "names", "new_tag",
           "old_tag", "links", "embed", "returned", "failed", "raised"}
Transaction ==
    [at : Stages, call : Call \cup {NoCall}, by : {Before} \cup (Actors \X (Nat \ {0})),
     item : {Before} \cup Items, todo : Seq(TagNames), snapshot : SUBSET Rows,
     linked : SUBSET TagNames]

Exchange ==
    [pc : {"ask", "announced", "tool", "escaped", "ended"}, steps : Nat,
     calls : 0..MaxToolCalls, failures : 0..1, queue : Seq(Call), finished : BOOLEAN,
     conversation : Seq({"call", "answer", "text"} \X Nat), events : SUBSET (1..MaxToolCalls),
     end : {"open", "done", "failed", "error", "gone", "limit"}, told : BOOLEAN]

\* Every variable stays in its range.
TypeOK ==
    /\ db \subseteq Rows /\ IsFiniteSet(db)
    /\ written \in [Actors -> SUBSET Rows] /\ \A a \in Actors : IsFiniteSet(written[a])
    /\ removed \in [Actors -> SUBSET Links]
    /\ tx \in [Actors -> Transaction]
    /\ agent \in [Agents -> Exchange]
    /\ caller \in [Callers -> [calls : 0..MaxCallerCalls, ok : SUBSET (1..MaxCallerCalls)]]
    /\ landed \subseteq Actors \X (Nat \ {0})

\* Whatever a client is told about a call is what happened to it: a tool_result
\* or an in-band success stands for committed writes, however the exchange goes
\* on, and the writes of a call that failed, raised or collided are never
\* committed, with a later call of the same session either.
ResultsAreCommitted ==
    /\ \A a \in Agents : {n \in 1..MaxToolCalls : <<a, n>> \in landed} = agent[a].events
    /\ \A m \in Callers : {n \in 1..MaxCallerCalls : <<m, n>> \in landed} = caller[m].ok

\* When the model is asked, every call in the conversation has its answer right
\* after it, as the provider demands, those of one batch and failed ones too.
ConversationAnswered ==
    \A a \in Agents : agent[a].pc = "ask" =>
        \A i \in DOMAIN agent[a].conversation : agent[a].conversation[i][1] = "call" =>
            /\ i < Len(agent[a].conversation)
            /\ agent[a].conversation[i + 1] = <<"answer", agent[a].conversation[i][2]>>

\* The cap of an exchange is on attempts: calls that fail count, and a batch that
\* passes the cap is cut off in the middle.
Attempts(a) ==
    Cardinality({i \in DOMAIN agent[a].conversation : agent[a].conversation[i][1] = "call"})
AttemptsCapped == \A a \in Agents : Attempts(a) <= MaxToolCalls

\* loop.py, _MAX_STEPS: "no genuine conversation can ever reach it": the adapter
\* serves what it holds without asking twice, so an exchange uses up its attempts
\* or comes to its text before the limit on the steps, whatever is answered.
StepLimitUnreached ==
    MaxSteps > MaxToolCalls => \A a \in Agents : agent[a].end # "limit"

\* No link of an item refers to a tag that is missing or soft-deleted.
LinksReachTags ==
    \A r \in db : r.key[1] = "link" =>
        \E t \in db : t.key = Tag(r.key[3]) /\ t.by # Deleted

\* A call waiting for rows of others is answered in the end: every exchange
\* and every transaction ends and gives back what it holds.
CallsEnd ==
    /\ \A a \in Agents : <>(agent[a].pc = "ended" /\ Held(a) = {})
    /\ \A m \in Callers : []<>(At(m, "idle") /\ Held(m) = {})

\* loop.py: "On a tool error, surface the error to the model once for
\* self-correction, then fail gracefully": the model was asked again before an
\* exchange ends over a second failure.
ErrorSurfacedFirst ==
    \A a \in Agents : agent[a].end = "failed" => agent[a].told

\* loop.py, run_agent: the loop goes on until "the §6 cap of 8 successful tool calls
\* is reached": the cap ends no exchange in which a call has failed.
CapCountsSuccesses ==
    \A a \in Agents : agent[a].end = "done" /\ agent[a].calls = MaxToolCalls =>
        agent[a].events = 1..MaxToolCalls
=============================================================================
