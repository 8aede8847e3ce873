# AdvisorDesk: TLA+ models, checks and proofs

AdvisorDesk is a knowledge base with a public chat and an evaluation loop: a FastAPI
service over PostgreSQL (`apps/api`), an admin and a client front end (`apps/admin`,
`apps/client`), and command-line scripts. This directory holds TLA+ models of the parts
of the service that are concurrent or stateful, the TLC configurations that check them, and
TLAPS proofs about all of them. Paths below are relative to
`apps/api/app` unless they start with `scripts/` or `apps/`.

Run `tlc -config <run>.cfg MC<Module>` for a run (section 3) and `tlapm <Module>Proofs.tla` for the proofs
about a module (section 5). `PROJECT.json` maps every definition to the source
lines it stands for, and every property to the hazards it is aimed at.

## 1. Inventory

| Component | State it keeps | Operations |
|---|---|---|
| Content lifecycle: `services/content.py`, `rag/pipeline.py`, `routes/deps.py` | `content` rows, `content_chunks` rows | create, update, retag, publish, archive, delete; list, page, retrieve |
| Re-embedding: `scripts/reembed.py` | none of its own; rewrites all chunk rows | one run over every published item, one commit |
| Improvement loop: `services/proposals.py` | `content_proposals` rows | propose, accept (thirteen gates), reject |
| Evaluation: `services/eval_runs.py`, `eval/groundedness.py`, `eval/taxonomy.py` | `eval_runs`, `eval_results` rows | measure, score, blame, fingerprint, record, compare families |
| Public chat: `routes/public_routes.py`, `services/chat.py` | chat sessions and messages | one streamed exchange, feedback, the two gap reports |
| Rate limiter: `routes/ratelimit.py` | three in-memory stores behind a lock | check message, check OAuth request, reserve a session |
| Admin agent: `agent/loop.py`, `routes/agent_routes.py` | a conversation, one transaction per tool call | step, call tool, correct itself, stop at a cap |
| OAuth server: `services/oauth_*.py`, `routes/oauth_routes.py` | clients, codes, tokens, consents | register, authorize, exchange, rotate, revoke, prune |
| Sign-in: `routes/auth_routes.py`, `services/users.py` | users, session epoch | sign in, log out |
| Tags: `services/tags.py`, slugs in `services/content.py` | `tags`, `content.slug`, both unique | get or create, reactivate, generate a slug |
| MCP tools: `mcp/*` | none | one service call per transaction |
| Chunking, retrieval, providers: `rag/*`, `agent/llm.py` | none | cut, embed, search, complete |
| Latency metrics: `routes/metrics.py` | bounded rings of samples | observe, percentiles |
| Front ends: `apps/admin/src`, `apps/client/src` | React state over the API | streams, editors, lists |

**How they interact.** Every REST route and every MCP or agent tool call is one database
transaction at READ COMMITTED around calls of services that flush and never commit
(`get_session` commits on return and rolls back on any exception). The public chat commits
several times during one stream, the agent after every tool call, the scripts at the end of
their run. Content requests, the agent, the scripts and the proposals all move the same
`content` rows; the chunk rows follow them through the chunk pipeline; retrieval, the page
feed and the corpus fingerprint read them. The evaluation harness is a process of its own. The
limiter is shared by the threads of one process and touches no database.

**What is hard.**

* No service takes `SELECT ... FOR UPDATE` on content or proposals: a request decides on the
  copy it read at its start and writes, at its flush, the columns that changed in that copy.
  What two overlapping requests leave behind depends on which column, which row lock and
  which DELETE snapshot.
* Chunk rows have no unique key. Their DELETE sees the rows of its snapshot only.
* Embeddings and completions are network calls in the middle of a transaction.
* The evaluation measures the corpus minutes before it fingerprints it, and the gates of a
  proposal reason from fingerprints, stamps and labels.
* `created_at` is the time a transaction began, not the time its row became visible.
* The limiter reads the clock before it takes its lock.
* Slugs, tag names and the tags of an item are unique in the database; two transactions that write the
  same key wait for each other, collide or deadlock, in the middle of a tool call.
* An OAuth request that answers with an error may have to commit (a revocation) or must not (anything else);
  pruning decides on a snapshot and deletes after a wait.
* A rating is shown before it is stored, and its reply may come before or after its commit.
* Tokens and characters cut the same bytes differently, and joining two texts may add tokens.

**What makes each component correct.** Content: what the page shows chat can find, what is
hidden chat does not answer from, an edit never undoes another request's archive or deletion,
nothing deleted comes back. Re-embedding: all or nothing, and it repairs what overlaps left.
Proposals: one final decision, resting on evidence that was recorded after the proposal, on a
corpus with the fix in it, that lost no question (section 4 says how far the code keeps this). Chat: a question is never lost, `done` is
never sent for an answer that is not stored, the reports pair a question with its own answer.
Limiter: no cap is exceeded, by whatever thread order, and bounded memory does not hand out
fresh allowances. Agent and MCP: what a client is told about a call is what was committed, and the model gets
an answer to every call it made. OAuth: a code or refresh token is good once, a revoked family stays
revoked, signing out ends every token. Feedback: what a settled page shows is what is stored and reported.
Chunking: no text is lost or packed twice, no chunk outgrows its ceiling, the loops end. Evaluation: a failure
is blamed on the right part, an invocation is stored whole and never compared with itself.

The hazards, each at its line and with the properties aimed at it, are listed in
`PROJECT.json`, with a note where the properties do not cover all of it.

## 2. Modules

| Module | What it models | Extends |
|---|---|---|
| `ContentLifecycle` | requests on content as transactions: read, flush, delete, embed, commit or roll back | |
| `Corpus` | abstract: page and index change together, deletion is final | |
| `ContentReembed` | `scripts/reembed.py` beside those requests | `ContentLifecycle` |
| `Acceptance` | pure: run families, majority verdicts, comparison, the ladder of gates | |
| `Proposals` | proposals, the articles behind them, the evaluation process | `Acceptance` |
| `EvalHarness` | one invocation of the groundedness command beside a corpus that changes | |
| `RateLimiter` | the limiter under threads, minutes and midnights | |
| `PublicChat` | chat exchanges: commits between the steps of a stream, failures, disconnects, pairing | |
| `Mailbox` | abstract: what the chat owes who writes to it, a question and at most one reply, kept | |
| `AnswerFeedback` | ratings from the button to the row, and the two reports that read them | |
| `ToolCalls` | the admin agent and MCP callers running tools on unique slugs, tags and links | |
| `OAuthGrants` | clients, consents, codes, token pairs, sign-in and sign-out | |
| `Grant` | abstract: what an approval is worth, one chain of tokens that ends once | |
| `Chunking` | a body cut into sections, units, lines, windows and packed into chunks | |
| `MC*` | model values, inputs and symmetry | the module named |
| `*Proofs` | theorems, the invariants they need, lemmas; those of `ContentReembed` are in `ContentLifecycleProofs`, those of `Chunking` and `AnswerFeedback` in `ChunkingAndFeedbackProofs` | the module named, `TLAPS` |

Definitions commented "Mutant" are not part of any behaviour: each is a plausible bug in the
definition that follows it, and each property is known to fail when one of them takes its place.
`TypeOK` gives the range of the variables where a module has it, and is proved there. (`report` of `EvalHarness` is whatever
`BuildReport` makes of the rows, and has no range of its own.)

### ContentLifecycle

`content` is the committed table without titles, slugs, tags, authors and `updated_at`, none of
which steers the life cycle; `published_at` is a small stamp, 0 for NULL. `chunks[i]` is the set
of batches stored for item `i`: a batch is the body it was cut from and the transaction that
wrote it, so two batches are the observable fault of a double rebuild. `txn[s]` is the request a
session runs: its ORM copy (`mem`), the columns its UPDATE will name (`dirty`), what the pipeline
is to do, and the chunk rows it deletes and inserts. A request goes through *loaded* (the copy
is read, decided on and changed), *flushed* (the UPDATE has the row lock), *deleting* (the DELETE
has its snapshot), *deleted*, *ready*, and the commit; `Rollback` may end it anywhere, for a failed
embedding, an exception or a dying process. What is PostgreSQL's or SQLAlchemy's doing is in
operators marked external in the map: `ChangedColumns` (the UPDATE names changed columns),
`Written`, `Release`. `updated_at` is set by every operation, so every operation flushes an UPDATE
and takes the row lock. `MaxStamp` bounds the first-publish stamps. `Corpus` is what the two
readers, the page and retrieval, are promised; `ImplementsCorpus` is the refinement.

### ContentReembed

One run lists the published rows once, then for each item, newest first, takes the DELETE's
snapshot, waits for whoever is deleting the same chunk rows, and inserts chunks of the body it
listed. It takes no lock on a content row. The whole run is one commit or none. `overlapped` is a
history of the runs under way that some request or other run overlapped, `seen` one of the chunk
rows a run found. A batch is named by its body and its writer, and a request may write the same one
twice, so a commit takes the rows it deleted out of every run's snapshot (`Forget`): a DELETE names
row ids, and those never come back.

### Acceptance and Proposals

`BlockedBy` is `check_acceptance`, gate by gate in the order of the code. A question's outcome is
*pass*, *fail* or *astray* (fully supported but not by the expected article, so the verdict is FAIL
while the percentage counts it). `Proposals` keeps articles with their stamps, proposals,
committed runs and the harness: `RunEval` remembers what the corpus was when it was measured
(`measured`, a history), `RecordRun` fingerprints it later, `CommitRuns` commits every run of one
invocation together, `LoseRuns` is a crash. A run's digest is the set of slug and stamp pairs that
the code hashes. Two more histories are kept by `Commit`: `withdrawn`, the articles that were archived or deleted once, and
`overtaken`, those whose first publication was under way, its stamp already taken, when another request committed
a visible row with a stamp that is not older. `MaxTime` and `MaxRuns` bound the stamps and the runs of a behaviour.

### RateLimiter

Each call is two steps: `ReadClock`, then what the method does under the lock. `windows` is the
`OrderedDict`, oldest touched first; `DayBucket` is the floor of the clock. `admitted` (when each key was admitted), `created`
and `since` (the keys touched after a key last was) are histories the code does not keep, from which the properties are stated. `Minute` and
`Day` are the lengths of the two periods in ticks, `MaxClock` bounds time.
A key the store has not seen is asked for room only, so a daily cap of 0 admits one session. The two-step
`check_session_create` and `note_session_created`, which no route calls, are not modelled.

### PublicChat

`Request` is the route (look the session up, ask the limiter, perhaps reserve a slot), the actions
after it are the statements of the generator between two commits or yields. Transactions take
their stamp when they begin and rows appear when they commit. `Fail` is any exception, `FailAfterCommit`
a commit that raises though it was durable, `Disconnect` a client that leaves before the stream
starts or between two events. The limiter's answer is left open: `Refuse` is always possible.
A session is named by the exchange that minted it, and a client can name only a session that a
`done` event told it, or an id that names none. `MaxTokens` and `MaxUnderWay` are bounds.
`Mailbox` is what a client may rely on: a session is a box, a committed row a letter, the slot the grant of
a box, and `Told` the last word of the stream; `ImplementsMailbox` is the refinement. It has no commits that fail, only
letters that are put although their writer hears of an error.

### AnswerFeedback

`turns` are the pairs `PublicChat` forms, oldest first, with the columns a report reads; `feedback` is the
committed column. `page` is the state of the hook `useMessageFeedback`: the value shown, the one before, and
whether a request is pending. A rating is a request: `Read` (session.get), `Flush` (no UPDATE when the value is
the one it read; an UPDATE waits for the row), `Commit` or `Fail`; `Confirm`, `Refuse` and `LoseReply` are what
the page hears. The session is closed by the exit code of a dependency, so the 204 may be heard before the commit or
after it: both happen in the model. `Kind` is `_classify_turn`, `Groups` and `WeakQueries` are `weak_queries`,
`ContentGaps` is `content_gaps`. Similarities are whole steps; `Threshold` is today's, while a reply was served under
that of its day. `alone` of a rating is a history. `MaxTurns`, `MaxRatings`, `MaxAged` are bounds.

### ToolCalls

`db` is the set of committed rows, a key each: slugs, tags, links of items, items. `written` and `removed` are what
each session has not committed. A statement whose keys another session holds waits (`Blocked`), one that inserts a
key a committed row has raises (`Collision`), and PostgreSQL aborts one of two transactions that wait for each other
(`DatabaseError`). A tool is the list of statements of the service it calls: `GenerateSlug`, `InsertDraft`,
`UpdateItem`, `RemoveLinks`, `LookUpTag`, `FlushTag`, `InsertLinks`, `RebuildChunks`. What another transaction commits is
visible to the next statement (READ COMMITTED). The DELETE of links (`tag_content`) is two steps, because it may wait: `FindLinks`
takes its snapshot, `RemoveLinks` deletes what of the snapshot is still there, and a link committed in between stays. `_replace_tags` reads the links it
removes first and needs no such step. `agent` is the generator of `run_agent` with the adapter's queue of
calls: a batch the model sends in one answer is served call by call. `ToolFails` is an `AppError` (roll back, tell the
model once, end on a second failure in a row), `ToolRaises` anything else, which escapes to the route; the route sends its
error event and then rolls back. `caller` is an MCP session, one transaction per call with an in-band error. `landed` and
`told` are histories. `Finish` is every regular end: the adapter has nothing more to say, or the limit on the steps, which the loop checks before it asks. A commit whose answer is lost (`agent/loop.py:433`, `mcp/server.py:210`) is not modelled. `MaxToolCalls` and `MaxSteps` are the code's constants, `MaxCallerCalls` is a bound; the model
replies with any of `Batches`, among them calls with unknown names and arguments that are no JSON.

### OAuthGrants

`codes` and `pairs` keep every row ever committed in the order of their commits: a pair is a refresh token with its
access token, `family` the code it was minted from and `from` the pair it replaces. `req` is what each worker is in the middle of:
*issuing* and *revoking* hold the code or refresh token they locked with `SELECT ... FOR UPDATE` until they commit,
*pruning* has chosen its victims on a snapshot, *registering* has deleted them and counted, *leaving* has read the session
epoch. `CommitIssue` and `CommitRevocation` are the token route's session, which commits on `OAuthError`; `Rollback` is any
other exception. `Cascade` is ON DELETE CASCADE. A DELETE of a client locks its row before its cascade reaches codes and
tokens, so whoever would redeem, rotate or revoke for a client being deleted waits (`ClientDeleting`). The browser is `AuthCallback`, `OauthAuthorize`,
`OauthAuthorizeContinue`, `Approve`, `Deny` and the cookies that may come back. What a request refuses without writing is
no step. `ended` and `raced` are histories: families revoked while nothing else worked on them, and a sign-out
that wrote a number computed from an epoch that was no longer current. `Grant` is what the admin may rely on when they approve: a code is an
approval, its family the tokens issued on it; `ImplementsGrant` is the refinement. `MaxCodes`, `MaxPairs`, `MaxEpoch`, `MaxNow` are bounds.

### Chunking

A document comes as sections of units of lines, blank ones gone, each with the tokens it encodes to; a line is given by the
bytes at which its tokens end and those that continue a character. `KeepSection`, `SplitSection`, `KeepUnit`, ... are the branches of
the splitting functions, `CutWindow` is one turn of `_token_windows` (with its move to the next character), `PackAtom`,
`DropSeed`, `EmitChunk`, `EmitLastChunk` are those of the packing loop. Re-encoding a joined text costs any member of
`JoinCosts`; a seed may lose `Strips` tokens when it is moved to a character. Nothing bounds the loops: their end is a property.

### EvalHarness

One command line as a process: `Start` resolves `--compare-to latest`; per question `Retrieve`, `Judge`, `ResolveRef` for
each reference and `Score`; `BuildReport`, `RecordRun` per run, one `Commit`, then `Compare` and `ReadAfterFamily`, the two queries of
`compare_runs`. `gen` numbers the rebuilds of an article's chunks, so a chunk that was replaced is another id. `Outline` gives
each chunk of an article what it starts with: a heading, or none for a preamble and for the later chunks of a section that
is too long for one. All of them can be retrieved; `Denotes` is what a reference resolves to, the first chunk of its article that starts with
its heading. Model and judge reply arbitrarily. `Publish`, `Withdraw` and
`Foreign` are the other processes, at any step until the invocation has ended. `moved` is a history: an expected article was rebuilt between the
answer and the lookup of its headings. Whether an answerable question was declined is only noted by the code and left out. `MaxEdits` and
`MaxForeign` are bounds.

## 3. Runs

A cfg gives one instance. Where one module has two questions to answer that need different sizes, the constraint `Focus` of its MC module
cuts what neither asks for; states it cuts are still checked for invariants. Deadlock is checked in `EvalHarness_invocation`. In the others it is not: a system without requests stops, and so does one
that has used up its bounded stamps, runs or time. Symmetry is declared only in runs without liveness, over sets
whose members no definition tells apart.

| Run | Instance | What it shows |
|---|---|---|
| `ContentLifecycle_concurrent` | 1 item, 3 requests at once, 2 bodies, 2 stamps | the guarantees of the row lock alone: one set of chunks, drafts not indexed, what is shown is retrievable, columns change only by their owners, deletion is final |
| `ContentLifecycle_apart` | 2 items, 2 requests at once but on different items (`ApartSpec`), 3 bodies of which one empty | the refinement of `Corpus` |
| `ContentReembed_beside` | 1 item, 1 request, 2 runs of the script | no vector a run found stored outlives its commit, a run that nothing overlaps leaves exactly one set of current chunks even where earlier overlaps had left two, and nobody waits for ever |
| `Proposals_families` | 1 draft, 1 other article, any 2 requests at once; either families of up to 3 runs over 2 questions in 6 instants, or 2 runs over 1 question in 8 instants with edits of the other article | the gates never open on a lost, narrowed, tied or stale family; evidence brackets the proposal; an accepted fix was in the corpus that was fingerprinted, but for the exceptions of section 4 |
| `EvalHarness_invocation` | 2 articles, one with a section of 2 chunks and one with a heading that comes twice, 3 questions; either 1 run and 2 edits with everything retrieved and replied, or `--compare-to latest` with 1 or 2 runs, 1 edit, 2 foreign runs and nothing retrieved | causes, figures, one commit, and what a run is compared with |
| `RateLimiter_threads` | 2 addresses, 2 threads, 2 messages a minute, every other cap 1, stores of 2 windows and 1 day key, minutes of one tick, days of two, 3 instants | the caps and the eviction under any lock order |
| `PublicChat_streams` | 3 exchanges, 2 at once | storage and pairing through failures, the refinement of `Mailbox` |
| `AnswerFeedback_reports` | 2 turns of 2 questions, 2 ratings, 6 kinds of reply | what page, row and reports come to |
| `ToolCalls_agent` | 1 exchange of up to 3 attempts and 4 steps, 1 MCP caller with 2 calls, 1 published item, 2 tags of which one deleted | what is told is what is committed; conversations are whole; links reach live tags; failed attempts count; the limit on the steps stays idle; everything ends |
| `OAuthGrants_tokens` | 2 workers, 3 clients with a cap of 1, 2 codes, 3 pairs, 2 epochs | single use, chains, revocation, sign-out, the refinement of `Grant` |
| `Chunking_bodies` | every line of up to 5 bytes under every cut into tokens and characters, alone and in company, 4 budgets | no byte lost or twice, the ceiling, the end |
| `OAuthGrants_ConsentedNotPruned` | as above | the disagreement of section 4 |

**Why these bounds.** The content races are between the copy of one request and the
commits of others on the same item; three requests let a stale one meet two commits, two stamps let
a first publish be overwritten, and a second item matters only to the refinement. Two bodies tell old from new.
The re-embedding run has one item: what two runs do to each other over several, which they may take in different orders, is not exercised. A proposal interacts with
the rest only through the corpus digest and the run table; a tie needs two runs after the proposal, hence three runs over two questions, of
which one counts for the percentage and one does not; a publication that is withdrawn and repeated around two runs, with an edit of another article in
between, needs eight instants.
In the limiter a window of two messages can hold an expired stamp behind a younger one, because a thread may get the lock after another that
read the clock later; every day count is at its cap with the first session, an eviction takes a third of the four
window keys, and the clock runs through one expiry and one midnight with either thread holding an old
reading. Two overlapping exchanges and a third before or after them are all a pairing can confuse. Two ratings of one turn overlap or
follow each other; the replies have a similarity on either side of both bounds of the ladder. Two sessions adding two tags in
opposite orders, with a draft of one title, wait for each other, collide and deadlock on each of the three unique keys; longer cycles of waits need more
sessions than the run has. Four steps against a cap of three attempts let an exchange go on if an attempt were not counted, and are above the cap as the code's 64 are above its 8. A family of three pairs has a first,
a rotated and a live one; two clients suffice for a code shown to the wrong one, the third is what a registration adds.
Bytes of up to two characters and a cut on every side of each of them are in lines of five bytes.

The constraint of `MCOAuthGrants` keeps apart what does not meet (a clock that moves and a sign-out, two families and expiry), as
its comment lists. That of `MCProposals` follows only what can still end in an acceptance. That of `MCEvalHarness` leaves out the
runs of others where causes are asked about, and the replies where families are.

**Fairness.** `ContentReembed_beside`, `AnswerFeedback_reports`, `ToolCalls_agent` and `Chunking_bodies` check liveness. They assume that
a request, run, exchange or loop under way takes its next step (a thread keeps running; a call to a provider returns or
raises; a browser hears a reply or an error), and `ContentReembed` strong fairness of the two steps that wait, because
PostgreSQL queues the waiters of a lock and wakes them when the holder's transaction ends. No new request, rating or
call is ever assumed to arrive, no client to stay, and no rollback to happen unless an exception escaped.

## 4. Where code and docs disagree

**`OAuthGrants_ConsentedNotPruned`** has a run of its own. `prune_stale_clients` deletes in one statement, which "can never
race a concurrent request that inserts a dependent row between the check and the delete". Its NOT EXISTS are evaluated on the
statement's snapshot. A consent committed after it locks the client row only against a key change; the DELETE waits for
that lock, finds the client row itself unchanged, does not ask again, and the new consent and its code go by ON DELETE CASCADE.
The admin sees a client they have just approved disappear.

The others are stated as definitions beside the properties they weaken. Each is reproduced by putting it, in the cfg named, in the place of
a property of its kind; TLC then shows the behaviour.

| Definition | Put in | What the code does | What is written |
|---|---|---|---|
| `ChunksReflectBody` (invariant) | `ContentLifecycle_concurrent` | edit and publish overlap, the publish rebuilds from the body it read: shown with the new body, found by the old | `services/content.py:512`: chunks "always already reflect its current" body |
| `OneChunkSet` (invariant) | `ContentReembed_beside` | the script's DELETE waits for nobody when a first publish is inserting, and both sets stay | `scripts/reembed.py:53`: "never both halves of the corpus in an inconsistent in-between state" |
| `FirstStampLasts` | `ContentLifecycle_concurrent` | two publishes both find `published_at` NULL, and the second commit overwrites the first stamp | `services/content.py:500`: "never overwritten afterwards" |
| `DecisionIsFinal` | `Proposals_families` | accept and reject both find the proposal open and the second commit rewrites the first decision | `services/proposals.py:739`: only a "'proposed' proposal can be accepted" |
| `AcceptedFingerprintHasFix` | `Proposals_families` | a fix is published, archived, a run recorded without it after another article was edited, and the fix published again: `published_at` is the first one and every gate opens | `services/proposals.py:815`: every "run in the after-run family must measure a corpus containing this fix" |
| `AcceptedMeasuredFix` | `Proposals_families` | a fix is published after the questions were answered and before the corpus is fingerprinted; nothing is withdrawn, and it is accepted on that run | the same |
| `CapCountsSuccesses` (invariant) | `ToolCalls_agent` | a call fails and two succeed: three attempts end the exchange | `agent/loop.py:276`: "the §6 cap of 8 successful tool calls" |
| `ErrorSurfacedFirst` (invariant) | `ToolCalls_agent` | two calls of one batch fail: the exchange ends before the model was asked again | `agent/loop.py:398`: "surface the error to the model once for self-correction" |
| `RetrievalMissedTheExpected` (invariant) | `EvalHarness_invocation` | the second chunk of the section a question refers to was retrieved; no reference resolves to it, and retrieval is blamed | `eval/taxonomy.py:103`: "retrieval returned chunks, but not the expected ones" |

`AcceptedHasLastingFix`, which the run checks, is what the gates do guarantee, whatever overlaps: the corpus fingerprinted with the run a fix was
accepted on contained the fix, unless the fix was withdrawn once or its first publication was overtaken. Overtaken, because the stamp of a first
publication is taken before the request embeds and commits, and an edit of another article committed meanwhile makes the corpus of a run that
does not hold the fix look newer than it. It is about the fingerprint: that the questions were answered from that corpus
is what `AcceptedMeasuredFix` refutes. Smaller ones: `chunk_markdown` states its ceiling
without the up to three tokens by which a window may finish a character when the overlap is shorter than one (`Slack`; every
caller passes an overlap of 50); the feedback service says "last-write-wins" of ratings, but a rating that finds its own value
writes nothing, so the last of two overlapping ones need not win.

Other limits that the models show: an edit that read *published* inserts
chunks for an item archived meanwhile (retrieval filters them out); a draft published while it is rejected stays
published; a clock read before midnight and used after another thread
has pruned the day admits one session too many, which `OverAdmissionBounded` bounds; a chat question whose exchange failed, or
overlapped another in its session, is paired with somebody else's reply, hence the condition of `OwnReplyPaired`; the epoch of
a sign-out is computed from the one it read, so of two that overlap one may be lost, hence `raced` in
`SignOutEndsTokens`; a revocation that overlaps a rotation may miss the new pair, hence `clean`; `--runs N` prints the id of each run
before the single commit, so after a failure in a later run those ids name nothing (`agent_suite` commits first); references are
looked up after the question was answered, so a failure may be blamed on retrieval only because an expected article was rebuilt meanwhile, which is the
exception `moved` of `BlameIsJust` (the other causes need none); a run recorded by another with the label and corpus of the baseline joins its family; and one
committed between the two queries of `compare_runs` is in the second family only, even where both are families of one label and corpus (`BaselineIsForeign` allows
just that).

## 5. Proofs

TLC checks small instances. The theorems below hold for every value of the constants that meets the named assumptions of the
modules: any number of items, requests, threads, exchanges, proposals, questions and runs, and any bound. Each safety theorem
comes from an inductive invariant `Inv` of its own, proved as `Init => Inv`, `Inv /\ [Next]_vars => Inv'`, one lemma per
action or kind of action, and `Inv => property`. TLC was asked about each invariant before it was proved.

| Module | Theorem | States |
|---|---|---|
| `ContentLifecycleProofs` | `TypeCorrect`, `Safety` | `Spec => []TypeOK`, `[]SafetyInv` |
| | `ChunksComeFromOneCommit` | `Spec => []OneChunkSet` |
| | `DraftsAreNotIndexed` | `Spec => []DraftHasNoChunks` |
| | `ShownItemsAreRetrievable` | `Spec => []VisibleIsRetrievable` |
| | `NoForeignColumnWrites` | `Spec => ColumnsHaveOwners` |
| | `DeletionIsFinal` | `Spec => DeletedStaysHidden` |
| | `ChunksFollowBody` | `ApartSpec => []ChunksReflectBody` |
| | `OneAtATimeImplementsCorpus` | `ApartSpec => ImplementsCorpus` |
| `ContentLifecycleProofs`, of `ContentReembed` | `ReembedTypes`, `ReembedSafety` | `ReembedSpec => []TypeOK`, `[]ReembedInv` |
| | `ReembedKeepsDraftsOut` | `ReembedSpec => []DraftHasNoChunks` |
| | `OldVectorsDie` | `ReembedSpec => OldVectorsGone` |
| | `QuietRunsRepair` | `ReembedSpec => QuietRunRepairs` |
| `ProposalsProofs` | `LoopTypes`, `LoopSafety` | `Spec => []TypeOK`, `[]LoopInv` |
| | `EvidenceBrackets` | `Spec => []EvidenceBracketsProposal` |
| | `GateLosesNoQuestion` | `Spec => []NoQuestionLost` |
| | `AcceptedFixIsInCorpus` | `Spec => AcceptedHasLastingFix` |
| `EvalHarnessProofs` | `HarnessTypes`, `HarnessSafety` | `Spec => []TypeOK`, `[]HarnessInv` |
| | `BlameIsRight`, `FamilyIsWhole`, `BaselineIsOthers` | `Spec => []BlameIsJust`, `[]FamilyStoredWhole`, `[]BaselineIsForeign` |
| | `ReportsAddUp` | `Spec => []ReportAddsUp` |
| `RateLimiterProofs` | `LimitTypes`, `LimitSafety` | `Spec => []TypeOK`, `[]LimitInv` |
| | `MinuteCap`, `OverAdmission` | `Spec => []MinuteCapHolds`, `[]OverAdmissionBounded` |
| | `EvictionTakesFlood` | `Spec => EvictionNeedsFlood` |
| `PublicChatProofs` | `ChatTypes`, `ChatSafety` | `Spec => []TypeOK`, `[]ChatInv` |
| | `DoneMeansStored`, `RepliesArePaired` | `Spec => []DoneIsStored`, `[]OwnReplyPaired` |
| | `RepliesFollow` | `Spec => RepliesStampedLast` |
| | `ChatImplementsMailbox` | `Spec => ImplementsMailbox` |
| | `SlotsCoverMints` | `Spec => [](sessions \subseteq reserved)` |
| `ChunkingAndFeedbackProofs` | `FeedbackSafety` | `FeedbackSpec => []FeedbackInv` |
| | `ShownRatingIsStored`, `ThumbsDownIsReported`, `GapsAreReported` | `FeedbackSpec => []SettledRatingStored`, `[]RatedDownIsReported`, `[]GapsAreWeak` |
| `ToolCallsProofs` | `ToolTypes`, `ToolSafety` | `Spec => []TypeOK`, `[]ToolInv` |
| | `ToldIsCommitted`, `EveryCallAnswered`, `LinkedTagsLive` | `Spec => []ResultsAreCommitted`, `[]ConversationAnswered`, `[]LinksReachTags` |
| | `FailedAttemptsCount`, `LimitIsIdle` | `Spec => []AttemptsCapped`, `[]StepLimitUnreached` |
| `OAuthGrantsProofs` | `GrantTypes`, `GrantSafety` | `Spec => []TypeOK`, `[]GrantInv` |
| | `OneChain`, `AccessEndsWithRefresh`, `RevokedForGood` | `Spec => []GrantIsChain`, `[]AccessFollowsRefresh`, `[]RevocationLasts` |
| | `SignOutIsTotal` | `Spec => SignOutEndsTokens` |
| | `OAuthImplementsGrant` | `Spec => ImplementsGrant` |
| `ChunkingAndFeedbackProofs` | `ChunkCeiling`, `EveryByteIsKept` | `Spec => []ChunksBounded`, `[]EveryByteOnce` |
| | `ReturnsWholeBody` | `Spec => [](pc = "done" => Texts(chunks) = Sections(Len(doc)))` |

Two hold only if certain requests do not overlap: `ApartSpec` of `ContentLifecycle` has no two requests on one item at once; how many run
besides is left open. Without it TLC finds both violated (section 4).

**Content.** `OneChunkSet` is not inductive: a commit adds a batch and removes the batches its DELETE saw, so one
must know that what it saw is what is stored. `LockInv` says so: past its flush a request holds
the row lock of its item, two requests cannot both, and therefore nobody else has changed the item's
chunks since its snapshot. `CopyInv` says what a copy read long ago may still write: only columns its
operation owns, chunks only into a row that was published once or that it publishes itself, and
never a *published* status without chunks. With `PublishedHasStamp` these make `SafetyInv`, which every
action preserves; the two action properties follow from it and from what `Commit` writes. Assumed: `ActorAssumption`,
`DataAssumption`, nothing about the finiteness of any set.

The refinement needs more than safety. With nobody else on the item the copy is the row as it still is (`FreshCopy`), and
`ReadersInv` ties what retrieval finds to the current body. Each commit is then a stutter or one step of `Corpus`,
by what the pipeline is to do: nothing, a rebuild (`Show`), a removal (`Hide` or `Remove`); every other step is a stutter.

**Re-embedding.** The script takes no row lock, so `LockInv` is false beside it: a request and a run may delete and insert chunks of one item at
the same time. `ReembedInv` keeps what remains. `PhaseInv` has what a request's stage says about its item. `WritersInv`: a batch carries
its writer, and a run has none stored before its commit. `RunsInv`: what a run has seen or deleted is still stored or was
taken out of its books (`Forget`), everything it saw is deleted once it has reached the item, and the items it has handled were
published once. `QuietInv`: a run that nothing overlaps has current rows in hand and works alone. `OldVectorsGone` and `QuietRunRepairs` are then what
`CommitRun` does. That a run which has not handled an item still has a turn to take it (`TurnIsLeft`) uses that the
newest of a set of rows exists, from the well-foundedness of the numbers.

**Improvement loop.** `LoopInv`: stamps lie in the past (`ArticleInv`), a run is recorded after everything in its corpus (`RunsInv`), a fix
is published after its proposal was made (`FixInv`), and a request under way will write only what keeps this so
(`WritesInv`, `DecidesInv`, `ProposesInv`), for a proposal nobody else has before it is committed (`AloneInv`).
`EvidenceBracketsProposal` is one of its parts and not inductive without the requests, which decided on rows that may have changed since.
`NoQuestionLost` is about the gates themselves: `MajorityOfFamily` turns a verdict over votes into a majority of runs, which holds as no
run of the family lacks the question. For the last theorem `LastingInv` says that a fix published and neither withdrawn nor overtaken is visible and in
every run whose corpus is not older (`FixMeasuredInv`), and what each request under way has loaded (`LastingRequest`); the hard case is a first
publication under way, whose stamp is later than all rows and all runs' corpora until it commits, unless somebody overtakes it. Assumed: `ProposalAssumption`,
`QuestionAssumption`, `NoRunAssumption`.

**Evaluation.** `HarnessInv`: the row being worked on is what its question, the generations seen and the judges make of it
(`RowInv`, with `UnderWay` and `UpToDate`); nobody sees the invocation's runs before its commit, and stamps increase
(`FamilyInv`); the baseline was stored by another and is older than every run pending, and what the first query of the comparison returned is still stored at
the second (`BaselineInv`). What a row has resolved is, unless the row has `moved`, all that its references denote, for any `Outline`: nothing is assumed of how many
chunks a heading has. A report is right because its rows are:
`ReportInv` has one fitting row (`RowFits`) for each question when it is built. That the classes, and the causes, add up is
`KeysAddUp`: what has a key is counted once if it is counted key by key. `SumFunction` adds in an order its CHOOSE picks, so the lemma says what its
recursion is on every subset of the keys, and that no other function fits the recursion (`SameSums`, by `Inductive` on cardinalities).
Assumed: `QuestionsAssumption`, `OutlineAssumption`, `ArgumentsAssumption`, `NAAssumption`.

**Rate limiter.** The cap is stated over histories the code does not keep, so the proof must say that the stores answer for them.
`WindowsInv`: keys are distinct, no window is over its rate, the order of the windows follows `since`, and there is an injection from the live admissions
of a key into the entries of its window (`Covers`): threads come with readings of the clock in any order, so entries are not sorted and pruning from the
left may keep an expired one, never the reverse. `StoresInv` bounds the stores. `DaysInv`: a counter is what was created until the day is over and
pruned, after which only calls that already wait with that day's reading may add (`WaitingOn`): hence the bound of one per
thread. Assumed: `LimitAssumption`.

**Public chat.** `ChatInv`: a client names only sessions committed before it was told them (`AskedIsStored`), a transaction is open
only where the generator has one (`TxnInv`), an exchange has at most a question and a later reply, in its session (`RowsInv`), each stage says what is
stored (`StageInv`), and of two exchanges in one session that are not noted as overlapping one was over before the other took its first stamp
(`SeparateInv`), which is what pairing needs and the only part that relates two exchanges. The same invariant shows that `Ask` is the mailbox's
`Ask` and `CommitAnswer` its `Reply`, the two cases of `FailAfterCommit` the same with an error told at once, and the other steps a `Grant`, a `Tell` or a
stutter; that a session was paid for (`SlotsCoverMints`) is then an invariant of `Mailbox` alone. Assumed: `ChatAssumption`.

**Ratings.** `SettledRatingStored` speaks of the end of a conversation between page and server and says nothing about its middle.
`FeedbackInv` does: `HeardInv` (the newest rating is the only one the page may wait for), `AloneInv` (a rating that ran alone came after the
earlier ones had ended and ended before the later ones started), `LastInv` (what the last rating leaves, stored and shown) and `BeforeInv` (while nothing
has gone wrong, the value shown before the last rating is the one stored until it commits, which is what a revert puts back). The reports
follow by counting: a limit of at least the number of groups keeps them all, for there are no more groups than answers (`GroupsFinite`). Assumed:
`MaxTurnsAssumption`. The module shares its file of proofs with `Chunking` and nothing else with it; its specification is
`FeedbackSpec`, so that both can be extended there.

**Tools.** `ToolInv`: a session holds rows of its current call only, and none between calls unless an exception is on its way to the route
(`SessionInv`); an exchange stays within its cap (`CapInv`); how far a call has come says which tool it is and whether it has written (`StageInv`);
a key has one committed row, one uncommitted row and one writer (`KeysInv`); a link written is to a live tag, committed or the session's own, and so is every name a
call is done with (`LinksInv`); every call of a conversation but the one under way is followed by its answer (`TalkInv`). `ResultsAreCommitted` is the last
part and not inductive alone: that a client is told of a call what was committed for it needs to know that nothing the session holds is of an
earlier call. For the cap `CountInv` says that `calls` is the number of attempts in the conversation, of which `TypeOK` bounds the first; for the
limit `SpentInv` says that an exchange that asks again has taken no more steps than attempts, plus one if it has its text.
Assumed: `ActorsAssumption`, `DataAssumption`, `CallsAssumption`, `CapsAssumption`.

**OAuth.** `GrantInv`: a code or token is at work on in one transaction at a time (`LocksInv`); a pair comes from a consumed code and from a pair that
is no longer live, no two from the same and no two of a family live (`LinksInv`); an access token goes with its refresh token (`AccessFollowsRefresh`); what is being issued is for a code neither spent nor deleted or
a token still live, a revocation finds pairs of its family only, and one that was alone has found all that lives (`RequestInv`); two transactions at work on a family know of each other
(`CleanInv`); a family revoked alone has nothing left and nothing on its way (`EndedInv`); no token is of a later epoch than the current one, unless
sign-outs raced (`EpochInv`). The chain is not inductive without the work in progress: two rotations of one token would both
be allowed, but for the lock. The deletion of a client breaks `RequestInv` unless it waits for those who hold its rows, and they for it.
The refinement goes code by code: `CommitIssue` is `Redeem`, `Rotate`, or `End` when the owner is no longer allowed; `CommitRevocation`
is `End` if the live token is among those it found, and a stutter if a rotation has replaced it; a deletion is `End` of every grant of its
clients at once; revoking an access token is `Curb`; everything else is a stutter. The abstract grant remembers the
tokens issued, so that no step can bring one back. Assumed: `OAuthAssumption`.

**Chunking.** `ChunkCeiling` holds for every document whose lines are well formed, every pair of
budgets and every cost of a joint. That emitted chunks are bounded
follows only if the chunk being packed is (`OpenBounded`), which needs every atom within the target or a few tokens over it
(`AtomsBounded`), which needs to know where a window starts: `WindowStart` says that it starts at or after the cut before
it, so it holds at most the tokens of its stride and those that finish a character. `BoundaryNear` bounds the latter: a character has
at most four bytes, each at most one token. The packing loop then either keeps the joined count within the budget or
starts from a seed no longer than the overlap. A slice of a line is taken to have the tokens it touches, where the code encodes the slice again; for an
overlap shorter than a character the two may differ by a few. The lemmas `AppendEnd`, `LineEnds`, `EndsGrow`, `WindowTokens` say what slices
of a line are; `SplitInv` and `PackInv` preserve the invariant action by action.

`EveryByteIsKept` needs `ByteInv` beside it: the loops stop where their lists end, and a window starts where the one before it was cut
(`WindowsMeet`), never after the next boundary: a boundary is the first byte at or after its cut that no character continues. Each step then moves a text
from what is left to the atoms, from the atoms to the open chunk or from there to the chunks, and the two sides of the equation grow by
the same text. Both sides are written with `FlattenSeq`, a recursive function: `FlattenAppend` and `FlattenFirst` say what it does with one more
element at either end. Assumed: `DocumentsAssumption` (sections, units and lines come in lists), `BudgetsAssumption`, `CostsAssumption`.

**Induction.** The library's induction theorems take an operator, which the provers cannot instantiate. Where a sum or a flattening has to be known for every
length, `Inductive` takes a *set* of numbers instead: one that has 0 and each successor of its members has them all, by the least
counterexample (`WFMin`).

**Model-checked only.** Liveness, which needs fairness and ENABLED: `EverythingEnds`, `RatingsSettle`, `CallsEnd`, `Returns`.
What section 4 lists is refuted, not proved.

**Proved only.** `GrantIsChain` follows from what the run of `ImplementsGrant` checks and `DraftHasNoChunks` beside the script from
`ReembedSafety`; no run repeats them. `SlotsCoverMints` follows from the refinement of `Mailbox`.

## 6. Not modelled

* Validation, formatting, the text of messages and prompts, paging and search of lists, similarity and ranking; what a heading or
  a fence is to the chunker.
* Provider adapters: their failures are the failure actions of what calls them.
* The judges of the evaluation are an outcome per question; `eval/agent_suite.py`, `eval/replay.py` and
  `eval/judge_scorecard.py` measure without changing shared state (an agent run may be among the runs of `Proposals`, with
  `AgentRuns`).
* The exchange with the identity provider, the state cookie of the sign-in, the matching of redirect URIs, PKCE: refusals leave no trace.
* The MCP transport and its schema validation.
* `check_session_create` and `note_session_created` of the limiter, which no route calls.
* One-shot scripts other than re-embedding and token minting, configuration and wiring, latency metrics, and the front ends but for
  the rating hook.

## 7. Plan

Every component of the service that keeps state under concurrency has a module, and every safety property the passing runs check
has a theorem. What is left, in this order:

1. `PublicChat` composed with `RateLimiter`: the slot an exchange reserves is the one the limiter counted.
2. The client's stream parser and the hooks that keep state across requests (`useChatStream`, `useAgentStream`, `useContentEditor`).
