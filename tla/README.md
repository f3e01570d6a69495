# A verification of ed-tech-system-mcp

The repository is an MCP server, written in Python on one asyncio event loop, that authors
lessons, tutors learners and reviews projects with language models. It keeps little state of
its own: a lock map and a Redis cache, the timestamps of its rate limits, a registry of models,
the queue of a running graph. Nearly everything that matters it writes to a backend it calls
over HTTP, without transactions, from tasks that interleave at every `await` and may be
cancelled at any of them. That is what the modules here are about: what holds of those few
shared objects and of those sequences of remote writes, whatever the interleaving, the
failures and the delays.

Paths below are relative to `src/src/mcp_server/` unless they start with `src/`.

- [1. The system](#1-the-system)
- [2. The modules and the code](#2-the-modules-and-the-code)
- [3. The runs](#3-the-runs)
- [4. Fairness](#4-fairness)
- [5. The theorems](#5-the-theorems)
- [6. Where the code and its documents disagree](#6-where-the-code-and-its-documents-disagree)
- [7. What is not modelled, and why](#7-what-is-not-modelled-and-why)
- [8. The plan](#8-the-plan)

To run everything: `tlc -workers 2 -config X.cfg M` for each run of `PROJECT.json` (its module
and its configuration), and `tlapm M.tla` for each of the eight `*Proofs` modules.

## 1. The system

| Component | State it keeps | Operations | Calls and is called by | What is hard | What makes it correct |
| --- | --- | --- | --- | --- | --- |
| Cache-aside coordinator (`infrastructure/cache_aside.py`) | an ordered map from keys to asyncio locks | `run_cache_aside`, `singleflight`, `_evict_idle` | the store; wrapped around tools, LLM answers and searches | waiters of a lock that has been popped; a waiter cancelled after it was woken; a full map | one holder per lock, no lost wake-up, one load of a key whose loads are stored, every request ends |
| Redis store (`infrastructure/redis_cache_store.py`) | a client, a flag that says whether Redis answered the first ping | `get`, `set`, `ping`, `close` | the coordinator | concurrent first pings; a flag that never goes back up | a miss is the worst a failing store can cause |
| Lesson save (`application/authoring_service.py`, `infrastructure/authoring_backend_client.py`) | none; the rows of a lesson in the backend | `save_lesson_bundle`: up to six RPCs | the author pipeline and the tool `save_to_backend` | an RPC in the middle fails, times out, arrives late; two saves of one lesson; rows that an earlier save left | what is published has every part of the bundle its document came with |
| Author pipeline and job progress (`application/author_lesson_pipeline.py`, `application/author_job_progress.py`, `infrastructure/ai_generation_job_progress.py`) | the job's row in the backend | read the row, report phases with three attempts each, generate, save, report the outcome | content generation, lesson save | a job delivered twice; a lost or late update; cancellation | a row that says succeeded names a saved lesson; the row of a finished job tells its outcome |
| Tool cache and `save_to_backend` (`infrastructure/mcp_tool_cache.py`, `interface/custom_tools_authoring.py`) | cached answers by key | every cached tool | the coordinator around a tool's body | the key leaves the bundle out | a save is written |
| LLM router (`application/llm_router.py`) | the last used model, in one field | `agenerate`, `astream` | the limiter, the gate, the registry, the provider; called by every node of every graph | fallbacks, streams that break, the shared field | a model that asked for rest is left alone; nobody is turned away while a model is active; every call ends |
| Model registry (`infrastructure/groq_model_registry.py`) | records with deactivation times; the cached list and its time | `get_active_model_ids_for_complexity`, `deactivate_until`, `refresh_active_models` | the router and its error reporter | a refresh that forgets a deactivation | as above |
| Outbound limiter and debounce gate (`infrastructure/external_rate_limiter.py`, `infrastructure/llm_debounce.py`) | a deque of timestamps; per tier a lock and the time of the last call | `acquire` | the router and the search clients | the edge of the window; cancellation in the line | at most a limit of admissions in any window; calls of a tier an interval apart |
| Workflow stream (`application/workflow_trace.py`) | a queue, a deadline, a producer task | `stream_graph_with_trace`, `_stream_with_timeout` | every streamed graph and its caller | a caller that leaves; a deadline that counts the caller's own time | the caller always gets an answer or an exception, and no graph stays at work for one that was told so |
| Content generation graph (`application/agents/content_generation/`) | the artifacts, a retry counter per artifact | generate and validate a lesson, a quiz, a project; merge | the workflow stream, the router | two layers of retries | bounded calls; an artifact is given up only after its retries; the answer is what the graph made |
| Socratic tutor graph and session draft (`application/agents/socratic/`, `application/tutor_session_draft.py`) | the draft of a session in the backend; per try, the length and the time of the last flush | ground, generate while patching the draft, validate | the router, the backend; called by the tool `socratic_tutor` | tries that follow each other on one draft; a throttle; patches that are lost or late; drafts shown before they are validated | the draft belongs to one try, only grows, keeps up, and is what the turn is answered with |
| Project review graph and repository (`application/agents/project_review/`, `infrastructure/project_review_repository.py`, `interface/custom_tools_project_review.py`) | grades and the job's row in the backend; an entry of the tool cache | read the deliveries, grade, validate, post the grade, report | the router, the backend, the tool cache | a post whose answer is lost and that the node does not repeat; a delivery that comes in while another is graded; updates that arrive late | one grade a call, of no delivery superseded before it began; whoever is told of a grade finds it stored |
| Course scaffold graph and runner (`application/agents/course_scaffold/`, `application/course_scaffold_runner.py`, `domain/course_scaffold.py`) | the job's row; completions by prompt | replay, generate, validate, ask again with the errors, report | the cached model, the backend | a cached bad reply that is replayed; a row this server never sets to succeeded | an answer is a course tree; a failure used its retries; no row is left running by a call that ended |
| Research and search graphs (`application/agents/research_article/`, `tavily_search/`, `youtube_search/`, the search clients) | two caches; one HTTP connection shared by threads | plan, search in parallel, merge, write; `search_web`, `search_youtube` | the router, the search clients, the tool cache | threads that outlive their call; one of two sources fails, hangs or reports twice | results are of the own query, or of one that was on the connection beside it; an article has waited for both sources and says which failed |
| Cached LLM and search adapters (`infrastructure/cached_llm.py`, `infrastructure/cached_adapters.py`) | none of their own | `run_cache_aside` with a key | the coordinator, the router, the clients | a key that leaves the model out | that of the coordinator |
| Tool gate (`interface/inbound_tool_rate_limit.py`, `infrastructure/inbound_rate_limiter.py`, `interface/privileged_tool_auth.py`) | timestamps per caller | count the call, verify the JWT, check the membership | in front of every tool and its cache | the edge of the window; a membership that ends between the check and the answer; an answer another call's tool made | the quota is exact; an answer was made for the same question by a call that was accepted |
| Content rules (`domain/content_blocks.py`, `domain/content_validators.py`, the mappers of `application/authoring_service.py`, `application/mock_test_authoring.py`) | none: functions of a bundle | repair, validate, map to RPC bodies | lesson save, the validate tools | validators, repair and mappers that must agree on one bundle, written one by one | what is accepted is written as it was accepted; what is repaired is valid |
| Token counting, settings and wiring, fixtures, scripts | none after start-up | pure functions, construction | everywhere | none of ordering or failure | see section 7 |

How a request travels: a tool call passes the limiter and the gate, then the tool cache (the coordinator over
the Redis store), and runs its body. The body of an authoring tool streams a graph through the
workflow stream; each of the graph's nodes calls the router, which passes the limiter and the gate
and asks the registry for candidates; on the way the pipeline reports to the job's row; at the
end it saves the lesson by RPC. All of these run as tasks of one event loop, so a step of a model
is what a task does between two awaits, and every await is a place where others run, where the
task may be cancelled and where a remote call may fail, be lost, or be executed after its caller
stopped waiting.

The hazards of the code, each at its line and with the properties that would notice it going
wrong, are listed under "hazards" in `PROJECT.json`.

## 2. The modules and the code

`PROJECT.json` maps every definition to its lines. Definitions whose comment begins with "Mutant"
are not part of any specification: each is a plausible bug of the definition that follows it, and
shows that a property notices it.

### The cache

**CacheAside** (`infrastructure/cache_aside.py`, and asyncio's `Lock` as the coordinator uses it).
A lock is named by the request that created it, a cached value by the request that loaded it.
`pc[r]` is the await request `r` is at: the first read (`read`), the coordinator (`missed`,
`waiting`), the second read under the lock (`reread`), the load, the write. `map` and `older` are
the ordered map of the coordinator, `locked`, `waiters`, `woken` and `cancelled` the state of each
asyncio lock: its flag, its deque of futures, and which futures have a result or a cancellation
that their task has not seen yet. The wake-up is a step of its own because it is one in asyncio: a
released lock is free, with a woken waiter that has not run. `Leave` is the whole `finally` of
`singleflight`, the release and the pop of the key included. `Abort` is an exception or a
cancellation at an await while holding the lock; `CancelWaiter` and `LeaveQueue` are the two halves
of a cancellation in the queue, with the wake-up that must be passed on. `Expire` is Redis dropping
an entry. Keys in `Steady` are those whose GETs, SETs and loads do not fail, whose requests are not
cancelled and whose entries stay: the precondition under which "at most once" is claimed at all.

**SingleFlight** is what a caller of `run_cache_aside` may rely on, with no lock and no map: a
request gets its own load or a value some request of its key has stored, and a steady key is loaded
once. CacheAside implements it with `status` read off `pc` and `value` being the store.

**SaveTool** composes CacheAside with LessonSave: a call of `save_to_backend` behind the tool
cache, with the key the tool really computes (module, slug, publish; not the bundle).

### Authoring

**LessonSave** (`authoring_service.py: save_lesson_bundle`, `authoring_backend_client.py`). A save
is the sequence of RPCs `lesson`, `document`, `quiz`, `project`, `runtime`, `publish`, those the
bundle calls for, with the two validations that happen between writes. A part of a lesson is named
by the run that wrote it. `Broken` has the three ways an RPC ends without an answer: it did nothing,
it was executed, or it is still on its way (`late`), to arrive at any later time (`Arrives`). The
backend itself is external: an RPC writes its part, as `upsert_*` is used by the code, and
`upsert_lesson` always asks for `p_status` "draft".

**AuthorPipeline** (`author_lesson_pipeline.py`, `author_job_progress.py`,
`ai_generation_job_progress.py`) EXTENDS LessonSave. `pc[r]` is the await of a run: `claim` (the
first report), `resolve`, `generate`, `phase` (a report from inside the generation), `presave`,
`saving`, and the last reports `invalid`, `fail`, `succeed`. A report has `Attempts` attempts
(`tries`), each of which may be delivered, refused, executed without an answer, or late
(`lateRow`); when the last has failed the pipeline goes on (`GivesUp`). `Write` is the partial
update of the row: only "succeeded" names the lesson. `Cancel` is a CancelledError at any await,
which passes every `except Exception` and reports nothing. The generation is one step that
succeeds, fails validation or raises: ContentGeneration has its inside. Two constants say which
lessons are calm, and each is a precondition of the properties that are false without it: the runs
that save a lesson in `Serial` follow each other, and the calls for a lesson in `Reliable` are not
late, do not fail for good and are not cancelled.

**AuthorOnce** is the promise: a caller is told only of a lesson that was saved for its job, and an
orderly job (Serial and Reliable) is saved once.

### Generation

**WorkflowStream** (`workflow_trace.py`: `stream_graph_with_trace` over `_stream_with_timeout`). The
producer task drives a graph and puts what it yields into an unbounded queue; the caller takes
events out under one deadline. Four details of the code are kept because properties depend on them:
the deadline is looked at before the queue, and its clock goes on while the caller handles an item
outside the generator (`Handled`); a caller that times out or is cancelled inside the generator
cancels the producer and awaits it (`Drained`) before the exception goes on; a cancellation that
meets the caller during that await is swallowed by the `suppress(CancelledError)` around it; and a
caller cancelled while it handles an item drops the generator, which the event loop's hook for
asynchronous generators closes some time later (`Finalized`). A completion remembers whether it was
put before the deadline, for ReportsAreAdvisory only.

**ContentGeneration** (`agents/content_generation/graph.py`, `nodes.py`) EXTENDS it. `node` and `of`
say which node the graph is at and of which artifact; `asking` that its model has been called and
not answered; `attempts` the attempts LangGraph's RetryPolicy has used for this execution of the
node; `retries` the validation retries counted in the state. `NodeRaises` allows both a retry and
the end of the graph while attempts are left, because LangGraph's default `retry_on` retries some
exceptions and not others, and ends the graph when they are used up. `Route` is the conditional
edge, with its comparison `<=` of a counter the validation node has already advanced.

**GenerationPromise** is what `invoke_content_generation` owes its caller, without queue, deadline
or retries: artifacts are made in order, each from the one before; an answer is what was made once
the graph had finished; and after an answer or an exception no graph is left at work. Only a caller
that was cancelled may leave one behind, until it is stopped.

### The router

**LlmRouting** has what the others share: the tiers and the clock. **OutboundGate** is the limiter
(`Admit`, `Refuse`) and the debounce gate (`Straight`, `Queue`, `TurnComes`, `LeaveLine`): the lock
of a tier is a line whose head sleeps. **ModelRegistry** has the records, the
pool of a tier with its fallback to MEDIUM, deactivation, and the refresh from a list that is
fetched again once it is older than `Ttl`. A pool is a set of models, and the order of a call's
candidates is that of the records, after the preferred model (`Before`, `Current`). **LlmRouter** EXTENDS both: `agenerate`, `astream` and a search, from the limiter
(`Refused`, `Search`, `Begin`) through the gate (`Wait`, `Proceed`) and the candidates (`Route`,
`Answer`, `Chunk`, `StreamEnds`, `StreamBreaks`, `ProviderFails`, `NextModel`) to the trace
(`Trace`), with cancellation anywhere. `NextModel` goes to the fallback model at once, past the
limiter and the gate, as the code does. `releasedAt` and `admittedAt` are the history the
properties speak of, and the limiter's timestamps are read off it.

### The tutor

**TutorTurn** (`agents/socratic/graph.py`, `nodes.py`, `tutor_session_draft.py` in both layers, and
`socratic_tutor` for what a turn is answered with). `pc[t]` is the await of a turn with a session:
the first patch, which clears the draft (`clearing`), the next chunk (`streaming`), a throttled patch
(`patching`), the forced one (`flushing`), and `validate`. A text is named by its turn, the try of
`generate_reply` that streamed it and its length; `written` is `accumulated`, `flushed` the
throttle's `_last_len`. `should_flush` also says yes after 0.1 seconds, so `Chunk` may always patch
and must only when `Due`: nothing was flushed yet (the throttle's clock starts at 0), or the text
has grown by `EveryN`. `PatchEnds` is the whole of a patch with its `mark_flushed`, which follows
whether it was executed or not (`Patched`); a timeout or a cancellation may meet a patch under way
(`Abandoned`) and leave it executed, lost or late (`PatchArrives`). `Validate` is `validate_reply`,
its edge and `result_from_state`: the edge's `Again` is never true, and a rejected reply is the
answer. `TimesOut` allows a further attempt of the node or the end, as for ContentGeneration. A
session in `Serial` has its turns one after the other, one in `Reliable` has its patches executed
when they are sent; `Orderly` is both. A deployment without a draft port sends no patch and shows
nothing.

**DraftPromise** is what a learner who watches the draft of an orderly session may rely on: one try
of one turn at a time, emptied and then growing, not taken from a turn that is still unanswered,
and standing there in full when it is the answer. The answer differs from it in `strip` only, and a
rejected one in the cut to 2000 characters.

### The review

**ProjectReview** is the tool `project_review`, its graph and the repository under it. A delivery is
its number in the order of submission, and a grade is named by the call that made it. A call with a
job reports to its row (`starting`, `succeeding`, `failing`), one without goes through the tool
cache, whose `entry` knows no delivery. `Collect` reads the deliveries as they are (`seen`), `Grade`
gets a reply that parses, or none; `Post` is the request that stores the grade and has the four
outcomes of a request without an idempotency key: stored and answered, stored and the answer lost,
not stored, still on its way (`late`, `GradeArrives`). A report is the same (`Reported`,
`RowArrives`). `TimesOut` strikes at awaits, so not inside `persist_grade`, which blocks the loop.

**ReviewPromise** is what the callers and the learner may rely on, with no graph, no retries, no
cache and no lost answers; `ImplementsReviewPromise` maps the state variables by name. A cached
answer is excused from naming a delivery its own call might have graded: see section 6.

### Content

**ContentBlocks** is the loop of `validate_content_blocks`, a line at a time, and the property states
its result by quantifying over the document. **ContentRules** EXTENDS it with the way of a bundle
through `save_lesson_bundle`: `Repair` of the test file, `ReadReadme` and `Judge` the lesson, then the
quiz and the project with the two rules that are applied between the RPCs. What trimming and lower
case make of an id are constants (`Strip`, `Lower`), which the run gives for a few ids that differ in
case and blanks; an expectation is absent, falsy or truthy, which is what the code's `or` sees.
**MockTest** is the loop of `validate_mock_test_bundle` beside the builder it must agree with.

### The scaffold

**ScaffoldRules** is `validate_scaffold_proposal`: which edges the loop accepts, and what it finds
against the others; the depth-first walk, turn by turn (`Visit`); and, apart from it, what a course
tree is. The loop over the edges is written as what it decides for each edge (`Accepted`: it is
sound, and the first to its child), so that it can be reasoned about. **CourseScaffold** is a call around it: the replay of a stored
proposal (`Replay`), the reports, the graph with its two layers of retries (`NodeRaises`, `Again`),
and the cached completions, whose key is the prompt with the errors shown (`Key`). `Stores` is the
backend, which stores the proposal it was answered and alone says that a job succeeded.

### Research

**Research** has an article's nodes and the two search tools over the same clients. A result is
named by the query it answers. Video searches run in threads over one connection: `ThreadReturns`
may hand a thread a response to a search that was on the wire beside it, and the history variable
`mixed` says which queries were there at once. A node that times out orphans its thread and is tried again, so
one call may have two on the wire. **ResearchPromise** says what an answer is made from.

### The gate

**RedisStore** is the store as tasks share it: the flag, the one client, and which await of the store
each task is in. **ToolGate** EXTENDS it and follows a call from the limiter (`Arrive`) through the
JWT (`Verified`) and the membership (`Member`) to the tool behind the cache (`Read`, `Returns`,
`Written`). The RPCs of a tool in `Judged` run under `manager_jwt`, and the backend refuses them to
who is not in `Managers` (`Accepted`); `save_to_backend` is one, and the only one behind the cache.
`seen[c]` is history: the memberships there were at some moment of the call, the least
that a check by a remote call can promise. The lock that serialises loads of a key is left out; it
only takes behaviours away, and CacheAside has it.

## 3. The runs

A run checks the properties its configuration names; every property of a passing run has a mutant
in `PROJECT.json` that breaks it, so none holds by the shape of the model.

| Run | Configuration | Shows |
| --- | --- | --- |
| `cacheaside` | `CacheAside.cfg` | LockMutex, MappedLockIsHeld, SteadyOnce, EveryRequestEnds, ImplementsSingleFlight (182,656 states) |
| `author_orderly` | `AuthorOrderly.cfg` | RowTellsOutcome, PublishedIsWhole, SuccessIsFinal, ImplementsAuthorOnce (114,129 states) |
| `author_wild` | `AuthorWild.cfg` | SucceededIsSaved, EveryRunEnds under overlap, loss, delay and cancellation (163,193 states) |
| `save_tool` | `SaveTool.cfg` | violates SaveIsWritten |
| `llm_router` | `LlmRouter.cfg` | QuotaHeld, Spaced, RestingModelsRest, TurnedAwayForGood, EveryCallEnds (about 670,000 states) |
| `content_generation` | `ContentGeneration.cfg` | CallsBounded, GivenUpAfterRetries, ImplementsPromise, GenerationEnds (297,282 states) |
| `tutor_turn` | `TutorTurn.cfg` | DraftKeepsUp, ImplementsDraftPromise, TurnEnds (7,363 states) |
| `project_review` | `ProjectReview.cfg` | ImplementsReviewPromise, EveryReviewEnds (57,777 states) |
| `content_rules` | `ContentRules.cfg` | BlocksAreJudged, AnswersSurvive, RepairedTestsAreValid, NoHalfSave, ValidIsBuilt (468,113 states) |
| `course_scaffold` | `CourseScaffold.cfg` | AnswersAreTrees, CallsBounded, RowIsNotLeftRunning, EveryCallEnds (149,926 states) |
| `research` | `Research.cfg` | ResultsAreOwn, ImplementsResearchPromise, EveryResearchEnds (228,114 states) |
| `tool_gate` | `ToolGate.cfg` | AnswersFit, QuotaIsExact, EveryCallEnds (709,516 states) |

The modules of components have a type invariant `TypeOK` (`ResearchTypeOK`). They are theorems
(section 5), and so is LinesAreTheWaiting of LlmRouter; no run spends time on them.

`AuthorOverlap.cfg` is a configuration of MCAuthorPipeline that is not among the runs: it shows the
violation of SucceededJobIsSkipped, finding 3 of section 6.

### The bounds and why they are enough

- **cacheaside.** Three requests share the flaky key: one that holds the lock, one that waits and
  is woken or cancelled, and one that comes after the pop and creates the key's next lock. That is
  the least at which two locks of a key live at once, a wake-up is passed on, and a woken waiter
  finds the lock of another. Two requests on the steady key are the least at which "once" says
  something. `MaxLocks = 1` makes `_evict_idle` run on every new key. The two keys meet in nothing
  but the map.
- **author_orderly.** Two runs of one job (the repeated delivery) and one of another, all on one
  lesson, so that rows written by an earlier, broken save are there when a later run publishes.
  `Attempts = 3` is the code's number. Bundles: none, a quiz, quiz and project, and a project whose
  stack is refused after it was written. What is not here (overlap, lateness) is a precondition of
  RowTellsOutcome, SuccessIsFinal and PublishedIsWhole, which are false without it: the finding
  of `AuthorOverlap.cfg` is the counterexample for the second. PublishedIsWhole is about the bundle
  the document came with. It does not say that nothing else is published: a save writes what its
  bundle carries and removes nothing, so the quiz of a save that broke off stays beside the document
  of a later bundle without one. NothingLeftOver, in place of the properties, is violated.
- **author_wild.** Two overlapping runs with lost and late RPCs and updates and cancellation at each
  await; `Attempts = 2` has an attempt that is not the last and one that is, and a report's third
  attempt differs from its second in nothing.
- **save_tool**, and `AuthorOverlap.cfg`. The smallest instances with the violation, and
  `Attempts = 1` in the second to keep the trace short.
- **llm_router.** Three completions of one tier and a search under `Limit = 2`: a full window, a
  refusal, and a line of two in the gate. `Window = 2`, `Interval = 1`, `Rest = 2`, `Ttl = 1`: a
  stamp is young, at the edge and outdated; a model is deactivated, resting and back; the cached
  list is fresh and stale. Two models, one of which the backend drops and relists, and
  `MaxFallbacks = 1`: a fallback succeeds, fails, and is not there. `MaxTime` bounds the clock,
  which goes on past it only while somebody sleeps in the gate, so that no call is held by the
  bound itself.
- **content_generation.** One generation: generations share nothing but the router. `NodeRetries =
  1` and `ValidationRetries = 1` are the committed values of the configuration; the theorems are for
  all of them.
- **tutor_turn.** Two turns of an orderly session, the least at which a draft passes from one turn
  to the next, or one of a session whose patches are lost and late. Sessions share no state, so
  MCTutorTurn starts with the turns of one of them and the others already done. `EveryN = 2`,
  chunks of 1 and 2 characters and texts of up to 4: the first flush, a chunk that is held back,
  one that reaches the threshold and one that passes it, and a tail for the forced flush.
  `NodeRetries = 1` is the committed value; `MaxLate = 1` a patch that arrives after later ones.

- **project_review.** Two calls through the cache share an entry and the deliveries; two of one job,
  one of which does not persist, share the row; one call starts before there is a delivery. Calls
  with a job and calls without meet only in the deliveries, so MCProjectReview starts with one kind.
  `MaxDeliveries = 2`: the delivery that is graded and the one that supersedes it. `MaxLate = 1`: a
  grade or an update that arrives after its caller gave up, or after the call ended.
- **content_rules.** Bundles that differ from a plain one in one part, since the rules of different
  parts share nothing but the order they are applied in: READMEs of up to four lines of all eleven
  kinds of line (a block with a body between two others is three), quizzes whose ids differ in case
  and blanks, up to two test cases with every file, everything that is validated late; and mock
  tests of up to three sections, the number there must be, with each slug, position and type.
- **course_scaffold.** Over a hundred proposals of up to three nodes and three edges: each of the
  defects the rules name, alone and with others, in several orders. A node is seen twice, an edge
  leads nowhere, a cycle hangs off the root or apart from it: three nodes are enough for each. For
  the row and the cache two replies suffice, a tree and none. `Retries = 1`, `NodeRetries = 1` are
  the committed values.
- **research.** Two calls at a time: two articles that follow each other, or an article or a search
  beside a search for the same or another query. With the retry of a node, that is up to three
  threads on the wire, of which two are enough for a mix-up, and a third for one that is passed
  on. `NodeRetries = 1` is the committed value, and the search nodes' second attempt is in the code.
- **tool_gate.** Two calls of two users of one tenant, a request of each kind (own, another's
  delivery, a save by a manager, by a user who is none, with another's `manager_jwt` and with none,
  without JWT, not cached). `Limit = 1`, `Window = 2` and `MaxTime = 2`:
  a stamp is young, one tick short of old, and exactly a window old.

No run uses symmetry: the properties are temporal, or the requests are told apart by key, job
or kind. Deadlock is checked where a specification has a step that says everybody has ended
(`AllEnded`, `Rest`): any other standstill is an error there. ProjectReview, ContentRules,
CourseScaffold, Research and ToolGate have none: when all calls of the instance have ended and the
world has nothing left to do, they stop, and their configurations say `CHECK_DEADLOCK FALSE`. That
no call of theirs is stuck before is what the liveness properties say; ContentRules has none, as
its only steps are those of a function.

In some instances only the calls in `focus` are made. The variable belongs to the instance: calls
that share nothing are not interleaved, and the rest of the specification is as it is.

## 4. Fairness

- *CacheAside*: weak fairness of what the event loop runs of each request. A ready task is resumed
  in turn, and an await on Redis or a loader ends: a command is answered or its connection breaks
  (the Redis client is built without a timeout of its own), and the loaders have timeouts. Nothing is
  assumed of cancellation, failure or expiry. Passing a wake-up on is a step of the cancelled
  waiter's own task, so EveryRequestEnds fails when the code does not take it.
- *AuthorPipeline*: the same for each run (its HTTP clients time out after 10 and 60 seconds), and
  strong fairness of the generation's end, since a generation alternates with the reports of its
  phases and may do so for long. That it ends at all is not taken from the air: it is
  ContentGeneration's GenerationEnds.
- *ContentGeneration*: weak fairness of the stream's own steps: time passes, a report gives up, a
  cancelled producer stops, the hook for dropped generators runs. Nothing is assumed of the graph:
  a model may never answer.
- *TutorTurn*: weak fairness of what does not depend on the model: a patch is answered or times out
  (10 seconds), a reply is validated, and the node's timeout strikes a try that goes on. The model
  may stream for ever or say nothing.
- *ProjectReview*: every await of a call that began ends: requests to the backend have timeouts, and
  the model's node has one. Nothing is assumed of the calls that are to come, of deliveries or of
  what is on its way.
- *CourseScaffold*: reports give up and deadlines strike. Nothing is assumed of the model, nor of the
  steps between: a call ends because a deadline covers the whole graph.
- *Research*: the deadline of an article strikes; a search tool, which has no deadline, ends because
  the clients of the providers have timeouts. Nothing is assumed of models and of orphaned threads.
- *ToolGate*: every await of a call ends, as in CacheAside; Supabase's client and the tools have
  timeouts. Nothing is assumed of memberships, expiry and the clock.
- *LlmRouter*: timers fire and providers answer, fail or time out; a stream has finitely many chunks
  (weak fairness of the ends of a stream, none of its chunks). Cancellation and the backend's list
  are free.

## 5. The theorems

Each holds for all values of the constants that meet the named assumptions of the modules
(`KeyAssumption`, `LessonAssumption`, `JobAssumption`, `RetriesAssumption` and the others: a key
for each request, a lesson for each run, positive numbers of attempts). TLC evaluates those assumptions in the runs.

| Theorem | Module | Says |
| --- | --- | --- |
| CoordinatorSafe | CacheAsideProofs | `Spec => [](TypeOK /\ LockMutex /\ NoLostWakeup /\ MappedLockIsHeld)` |
| SteadyKeysLoadOnce | CacheAsideProofs | `Spec => []SteadyOnce` |
| OnlyHeldLocksAreMapped | CacheAsideProofs | `Spec => []MappedLockIsHeld` |
| CacheAsideIsSingleFlight | CacheAsideProofs | CacheAside implements SingleFlight |
| SuccessMeansSaved | AuthorPipelineProofs | `Spec => [](TypeOK /\ SucceededIsSaved)` |
| OrderlyRowTellsOutcome | AuthorPipelineProofs | `Spec => []RowTellsOutcome` |
| OrderlySuccessIsFinal | AuthorPipelineProofs | `Spec => SuccessIsFinal` |
| PublishedBundleIsWhole | AuthorPipelineProofs | `Spec => []PublishedIsWhole` |
| PipelineAuthorsOnce | AuthorPipelineProofs | AuthorPipeline implements AuthorOnce |
| LimiterHolds | OutboundProofs | `Spec => []QuotaHeld` |
| GateSpaces | OutboundProofs | `Spec => []Spaced` |
| GateLinesHold | OutboundProofs | `Spec => []LinesAreTheWaiting` |
| RouterTyped | OutboundProofs | `Spec => [](TypeOK /\ CallsHaveModels)`: whoever calls a model has one in hand |
| ModelsRest | OutboundProofs | `Spec => RestingModelsRest` |
| NoneTurnedAwayEarly | OutboundProofs | `Spec => TurnedAwayForGood` |
| ResearchTypes | OutboundProofs | `ResearchSpec => []ResearchTypeOK` |
| ToldResultsAreOwn | OutboundProofs | `ResearchSpec => []ResultsAreOwn` |
| ResearchKeepsPromise | OutboundProofs | Research implements ResearchPromise |
| GenerationTyped | ContentGenerationProofs | `Spec => []TypeOK` |
| GenerationCallsBounded | ContentGenerationProofs | `Spec => []CallsBounded` |
| GenerationGivesUpLast | ContentGenerationProofs | `Spec => []GivenUpAfterRetries` |
| GenerationKeepsPromise | ContentGenerationProofs | ContentGeneration implements GenerationPromise |
| TutorTyped | TutorTurnProofs | `Spec => []TypeOK` |
| DraftsKeepUp | TutorTurnProofs | `Spec => []DraftKeepsUp` |
| TutorKeepsDraftPromise | TutorTurnProofs | TutorTurn implements DraftPromise |
| ReviewTypeCorrect | ProjectReviewProofs | `Spec => []TypeOK` |
| ReviewKeepsPromise | ProjectReviewProofs | ProjectReview implements ReviewPromise |
| EveryBlockIsJudged | AuthoringProofs | `BlocksSpec => []BlocksAreJudged`, for documents of any length |
| QuizAnswersSurvive | AuthoringProofs | `BundleSpec => []AnswersSurvive`, for any quizzes, `Strip` and `Lower` |
| RepairsAreValid | AuthoringProofs | `BundleSpec => []RepairedTestsAreValid`, for any lists of test cases |
| NothingIsHalfSaved | AuthoringProofs | `BundleSpec => []NoHalfSave` |
| MockTestsAreBuilt | AuthoringProofs | `MockSpec => []ValidIsBuilt`, for any number of sections |
| ScaffoldTypesHold | AuthoringProofs | `Spec => []TypeOK` of CourseScaffold |
| ScaffoldCallsBounded | AuthoringProofs | `Spec => []CallsBounded` |
| ScaffoldRowNotLeft | AuthoringProofs | `Spec => []RowIsNotLeftRunning` |
| ScaffoldAnswersAreTrees | AuthoringProofs | `Spec => []AnswersAreTrees`, for proposals of any size |
| ScaffoldAnswersValidated | AuthoringProofs | `Spec => []AnswersAreValidated`: the rules find nothing in what a call is told |
| GateTypeCorrect | ToolGateProofs | `Spec => []TypeOK` |
| StoreIsCoherent | ToolGateProofs | a store that is down keeps no client, one that is up has one |
| QuotaExact | ToolGateProofs | `Spec => QuotaIsExact` |
| EveryAnswerFits | ToolGateProofs | `Spec => []AnswersFit` |

The inductive invariants, and why the properties need them:

- **CoordInv** (CacheAside). LockMutex alone is not inductive: `Resume` takes the lock without
  looking at its flag. It is safe because only the first waiter of a free lock is ever woken
  (`Wakeups`), a request in a queue is there once (`Queues`), whoever holds a lock has it locked
  (`HoldersLock`), and a lock named by a request that has not created one is untouched
  (`FreshLocks`). `LocksOfKeys` ties a lock to one key, so that popping a key never unmaps another's
  lock. **SteadyInv** adds that until a steady key is cached all its requests share the map's lock.
- **AuthorInv** (AuthorPipeline). `Placed` ties a run's place to the state of its save, and
  `LateUpdates` says that an update still on its way was sent by a run that had reached it: a late
  "succeeded" belongs to a saved lesson. **OrderlyInv** adds, for orderly jobs, that nothing is late
  (`Patient`), one run is at work (`OneAtATime`), one saved (`SavedOnce`) and a failure was told
  (`FailureTold`). **PublishInv** follows a save's RPCs and says which parts are already the run's
  own, so that at `publish` all of them are; a publisher whose save is over touches no part again,
  and another run makes a draft of the lesson before it writes one.
- **PacedInv** and **QuotaInv** (LlmRouter): no release is later than its tier's last call; every
  admission inside the window is still in the deque. The properties quantify over all past times,
  so the step that matters is `Admit`: a window that ends now holds only stamps in the pruned deque.
- **LinesInv** (LlmRouter): a tier's line is its waiting calls, each once. Each of these alone is
  not kept: a line with a call in it twice still has it after it left, and `Append` keeps a line
  injective only because nobody in it comes to it again. `RemoveIs` is the lemma about the call
  that leaves from the middle.
- **TypedInv** (LlmRouter). The list of a call that calls a model is not empty, so its current
  model is one. That takes an order of the candidates with a first in every set of models
  (`FirstOne`, from the positions of the records), and a list that is cut after `MaxFallbacks`
  keeps that first one.
- **RegistryInv** (LlmRouter). A model the backend keeps listing is listed, recorded with its tiers,
  and its record knows until when it rests (`KeptInv`): neither property holds after a refresh that
  forgets one of these. That a pool is never wrongly empty, and the candidates are among the pool,
  then is a matter of each step (`Moves`).
- **ResearchIInv** and **OwnInv** (Research). A call has one thread at most, is told once, and a
  thread that works for a call is one it waits for (`Waits`): so a late thread cannot report to a call
  that has gone on. What a thread may read was on the wire beside its own search (`BesideMixed`), and
  what was found, kept, answered and told is for its own query or one so mixed; ResultsAreOwn is the
  last of these. `mixed` only grows, so what may pass for a result still does later (`StaysTrue`).
- **ScaffoldIInv** (CourseScaffold). `Budget` bounds, at each place of a call, what it asked by the
  rounds that are over (`Rounds`) and the attempts of the one in hand; the bound is a product, and
  each step adds to one factor only. `Attended` names, for a row that says "running", the call that
  answers for it, which is what the order of `Claim`, `Settle` and `Fails` keeps true.
  AnswersAreTrees needs more, that the rules find nothing exactly in course trees (`FoundNothing`).
  That is proved by an invariant of the walk's turns: every closed set with the root has what was
  seen (`Walked`), each turn but the last sees a new node, so that the walk ends within as many
  turns as there are nodes; in a tree, nothing that waits on the stack was seen (`WalkedTree`).
  The number of edges is a matter of counting: an injection of the nodes but the root into the
  edges, or of the edges into the nodes (`EnoughEdges`, `NoMoreEdges`).
- **BundleInv** (ContentRules) is short, the save has five steps; the work is in the lemmas about
  what the rules make of a quiz (`QuestionSurvives`) and of a list of test cases (`DictsAre`,
  `DumpIs`). **MockIInv** (MockTest): without an error so far, the sections are each in order, no two
  share a slug or a position, and `typed` is theirs; that three of these are the builder's is a
  matter of counting (`OntoThree`). `LeastOne`, that a set of numbers has a least member, is
  where both use induction: by a counterexample that is least.
- **IInv** (ContentGeneration) is GenInv and CallsInv. GenInv says that what lies in the queue, or
  in the caller's hand, is what the finished graph made, and that a caller that raised left a
  stopped producer. CallsInv counts: the calls for an artifact are at most the failures counted
  times the attempts of a try, plus those of the try in hand. **AskedInv** counts the other way:
  each failure was asked for, and a graph that comes to its end without an artifact has used its
  retries.
- **IInv** (TutorTurn). DraftKeepsUp needs to know, at each await of a turn, whose text stands in
  the draft and of what length: `DraftInv` says it in one predicate, `Knows`, of the turn's own
  variables and its draft. That another turn does not disturb it needs `Followed` (one turn of a
  serial session at a time) and `LateInv` (no patch on its way for a reliable session); that a turn
  may clear what it finds needs `OwnerInv` (the draft's owner runs or was answered). Every action is
  shown to be a `StepOf` its turn, which keeps all of these but the turn's own `Knows`, and then to
  keep that one too.
- **IInv** (ProjectReview). `Knows` says, at each await of a call, what it has stored and what it has
  seen; `LateInv` that a grade on its way is the only one of its call, which is what a second POST
  would break; `EntryInv` and `RowInv` that what the cache would answer, and what an update on its
  way says, was made. Grades and deliveries only grow, so a step of one call or of the world keeps
  what the others know.
- **BlocksIInv** (ContentBlocks). The open block's body is the document since its fence (`OpenInv`), every
  other opening fence has a fence after it (`OverInv`) and was judged (`FoundInv`). The property is
  about the end of the loop and quantifies over the document, so the step that matters is that one
  more line changes no block that is over.
- **WindowInv** (ToolGate) says that a caller's deque has every admission inside the window, and
  nothing of another's. **SeenInv** and **EntitledInv** follow the checks of a call: once past the
  membership, it was a member at some moment. **KeptInv** says that what Redis has for a key was
  made by a call with that key, past its own checks and accepted by the backend (`Made`, which no
  later step undoes), **AnswerInv** carries that to the answer, and **WorkInv** says that a call
  keeps its own work and looks for another's only if its tool is cached. **Coherent** is the
  store's flag and client.

Each proof has one lemma or step per action of Next. The refinements are proved as initial states
plus step simulation from the same invariants; AuthorOnce, SingleFlight, GenerationPromise,
DraftPromise, ReviewPromise and ResearchPromise are safety specifications.

Components that share a proof module do so because they are used together: AuthoringProofs has the
rules of content and the scaffold, OutboundProofs what leaves the server. What a definition computes
is proved where it is stated without RECURSIVE operators: the k-th of a set of positions (`Nth`,
`Kth`, `TypedNth`) stands for a filtered list or a sorted one, the pools of the router are sets with
an order, and the one loop that is a recursive function, `Walk`, is unfolded by hand (`WalkIs`).

Only model-checked: everything under fairness (EveryRequestEnds, EveryRunEnds, EveryCallEnds,
EveryResearchEnds, GenerationEnds, TurnEnds, EveryReviewEnds), which the prover does not reach.
Every other property of a passing run is a theorem.

## 6. Where the code and its documents disagree

`PROJECT.json` quotes the lines. A violation is shown in one of three ways: by the run `save_tool`;
by a configuration whose properties are replaced by the one named below, which TLC then finds
violated; or, where one definition of a model shows it, by that definition. In short:

1. *"concurrent requests for the same key invoke the inner port at most once"*
   (`infrastructure/cache_aside.py:4`). A waiter of a popped lock and a request with the key's next
   lock load together when the first load was not stored (OneLoaderPerKey, under `CacheAside.cfg`). What does hold is
   SteadyOnce.
2. *"When the in-process lock map exceeds max_locks ... it is cleared"* (`cache_aside.py:5`). Every
   lock in the map is locked (MappedLockIsHeld), so eviction never removes one. The map is bounded
   by the requests in flight instead.
3. *"skip generate/save when the author job already succeeded"*
   (`src/tests/test_author_lesson_pipeline_idempotent.py:1`). An overlapping run writes "running"
   over "succeeded" and a later one saves again (SucceededJobIsSkipped, `AuthorOverlap.cfg`).
4. *"Persist lesson bundle via public RPCs"*, for *"Manual save after edits"*. A second save of an
   edited bundle is answered from the cache and writes nothing (`save_tool`).
5. *"The model name reflects the actual provider model"* (`src/OBSERVABILITY.md:46`). The field is
   shared by all completions (TracedModelAnswered, under `LlmRouter.cfg`).
6. The gate *"spaces outbound LLM provider calls"* and the limiter *"caps outbound calls"*. Both are
   passed once per completion; fallback calls pass neither: `NextModel`
   leaves the variables of the gate alone. QuotaHeld and Spaced are therefore about completions.
7. *"progress writes are advisory; never fail the pipeline for telemetry"*
   (`application/author_job_progress.py:54`). Slow reports use up the deadline of the stream, and a
   result that was ready in time is dropped (ReportsAreAdvisory, under
   `ContentGeneration.cfg`).
8. *"Enforce tutor policies: no grading, short turns, questions-first bias"*
   (`domain/socratic.py:117`). A reply that breaks them is the turn's answer all the same: the state
   has no `result`, and `result_from_state` takes the reply (PoliciesEnforced, under
   `TutorTurn.cfg`).
9. *"at most one retry"* (`src/tests/test_prompt_injection_corpus.py:267`). There is never one:
   `validate_reply` has advanced the counter before `_route_after_validate` compares it with 1. The proofs of
   TutorTurn use it (`Again` is never true).
10. The review's edge back to `grade_delivery` (`agents/project_review/graph.py:46`) is the same, and
   besides `validate_grade` repeats rules the parser has applied (`Again(c, 1)` of ProjectReview).
11. *"A cached "OK" for changed content is a silent correctness hole"*
   (`application/mcp_tool_cache_runtime.py:25`) is the reason validate tools are not cached. A review
   is, under a key without the delivery: a new delivery is answered with the grade of the one before.
   ReviewPromise has to excuse cached answers for it.
12. A test case with an expected exit code of 0 or an empty stdout counts as scored when it is
   validated, and is written as not scored (ScoredCasesStayScored, under `ContentRules.cfg`).
13. *"validate_* then save_to_backend"* (`src/docs/MCP_TOOL_CATALOG.md:63`). No validate tool looks at
   the stack of `meta`, and a save breaks off halfway for it; the exception in NoHalfSave.
14. The runner reports why a scaffold failed, and the tool overwrites it with *"Course scaffold
   generation failed"* (`Failing` of CourseScaffold is taken twice).
15. *"Read-only external port nodes fail fast — no automatic retries"* (`application/agent.py:64`).
   The search nodes of the research graph have a policy with two attempts (`NodeRaises` of Research).
16. *"one provider failing must not kill sibling results"*
   (`application/agents/research_article/nodes.py:81`). One whose credentials are rejected, or that
   hangs, ends the article, with what the other has found (`NodeRaises`, which ends in `Fail`).
17. *"be a manager+ user access token"* (`src/docs/MCP_TOOL_CATALOG.md:21`) of the argument
   `manager_jwt`. The backend's RPCs judge that, and the key of `save_to_backend` has no caller: who
   repeats a manager's save within the entry's time to live is answered without an RPC, manager or
   not (SaverIsManager, under `ToolGate.cfg`). AnswersFit therefore speaks of the call that made an
   answer, not of its caller, where it speaks of the backend.

## 7. What is not modelled, and why

- **Text**: prompts, parsing, schemas, trace contents, error messages, the wording of findings. An
  answer of a model is valid or not, except where rules about it are modelled (ContentRules,
  ScaffoldRules). Token counting is a function of a text, by a library.
- **Synchronous twins** (`generate`, `acquire_sync`), the cached model's synchronous path and stream:
  no production path takes them through the cache.
- **The key functions** of the cache except where a property is about them (`CallKey` of SaveTool,
  `CacheKey` of ToolGate, `Key` of CourseScaffold, the entries of ProjectReview and Research).
- **Envelopes and counters of the cache**: an entry is a value; counting hits decides nothing.
- **Reads without consequences**: the graph search, the catalogues, the grounding of a turn, the
  drawing of graphs for the UI, and the two one-node search graphs of the UI.
- **Turns without a session**: they stream nothing and pass the tool cache like any other tool.
- **invoke_graph_with_trace**: a graph under one `asyncio.wait_for`, as CourseScaffold's and
  Research's `TimesOut` have it.
- **The static bearer token** of the HTTP server (FastMCP checks it), the hashing of tokens and the
  flags that turn the middlewares off.
- **The backend, Redis, the providers**: external. They appear as what their clients can observe:
  done, refused, done without an answer, done later, or never.
- **Start-up and transport** (settings, wiring, FastMCP): objects are built once before a call is
  served.
- **Crash of the server process**: for the pipeline it looks like a cancellation of every run at
  once, after which the job is delivered again; AuthorPipeline has both. The in-process state
  (locks, timestamps, registry) starts afresh, which is Init.
- **Scripts, status page, fixtures, migration**: no part of the running server.

## 8. The plan

What exists, in the order it was written, and what each line still wants.

| Module | Composes | Abstract specification | Next |
| --- | --- | --- | --- |
| CacheAside | | SingleFlight | |
| LessonSave, AuthorPipeline | the first in the second | AuthorOnce | the module and lesson lookups before a save |
| SaveTool | CacheAside, LessonSave | | |
| OutboundGate, ModelRegistry, LlmRouter | the first two in the third | | |
| WorkflowStream, ContentGeneration | the first in the second | GenerationPromise | |
| TutorTurn | | DraftPromise | |
| ProjectReview | | ReviewPromise | |
| ContentBlocks, ContentRules, MockTest | the first in the second | | |
| ScaffoldRules, CourseScaffold | the first in the second | | |
| Research | | ResearchPromise | |
| RedisStore, ToolGate | the first in the second | | |
