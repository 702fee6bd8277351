# TLA+ verification of the TeGy chatbot backend

The backend answers chat messages over HTTP. It is a FastAPI application
(`src/app`) with several worker processes, PostgreSQL for sessions and messages,
Redis for locks, recent history, idempotency results and counters, an ARQ worker for
summaries, and three LLM providers behind a fallback chain. Everything difficult in
it is concurrency and failure: a request hands its lock to a background task after its
response has left, writes go to two stores one after the other, keys expire, providers
hang, libraries raise between two halves of an update.

This directory models the parts where that matters, checks them on small instances with
TLC, and proves the main safety properties for all instances with TLAPS.

| module | models | lines |
|---|---|---|
| `ChatPipeline` | one chat request from the route to the end of its background task | the core |
| `ConversationLog` | abstract specification: what the pipeline promises of a conversation | implemented by `ChatPipeline` |
| `SessionMemory` | one session in PostgreSQL and Redis: row, messages, cached context and history, deletion | refines what `load`, `persist` and `memory` mean in the pipeline |
| `Providers` | ranking, circuit breakers, retries and fallback of the LLM providers | the pipeline's `generate` step |
| `SemanticCache` | the in-process answer cache with its locks, list and FAISS index | called inside `generate` |
| `IntentRouting` | intent detection, routing, fast path, and which tools an intent requires and offers: functions of a message | used by `Orchestrator` |
| `Orchestrator` | one message in the chat domain: detection, planner, tools, firewall, templates, renderer | the pipeline's `generate` step, from the other side than `Providers` |
| `Summarization` | turn counter, buckets, ARQ jobs and the summaries they write | fed by the pipeline's `memory` step |
| `MC*` | the symmetry sets of the TLC instances | |
| `*Proofs` | theorems and their proofs | |

`PROJECT.json` maps every definition to the lines it models, and lists the runs, the
mutants that show each property can fail, the hazards, the findings and the theorems.

## 1. Inventory

### Components, their state and their operations

1. **Chat pipeline** (`services/chat_application_service.py`). State in Redis: `lock:session:{key}:processing` (a token, 75 s TTL)
   and `idem:{key}`; in PostgreSQL: rows of `sessions` and `messages`. Operation:
   `execute`, which acquires the lock, looks up the idempotency key, takes the fast path
   or resolves the session, loads the memory, generates, answers, and schedules
   `_normal_path_background_finalize` or `_fast_path_background_finalize`. Hard: the
   lock changes hands after the response; every step may raise; the TTL is never renewed.
   Correct when one request at a time works under a key, no path leaks the key, turns
   are committed in the order they were answered, and an answered turn is not lost.
2. **Idempotency** (`services/idempotency_service.py`). `get`, `save`; `check` is called nowhere.
   Correct when a retried request is not executed again.
3. **Sessions** (`services/session_service.py`, repositories). The session row and its
   owner; `get_or_create_session`, `create_session`, `delete_user_session`,
   `finalize_session`. Hard: look-up and insertion race; row and cached context are two
   copies of the owner; deletion takes no lock.
4. **Conversation memory** (`services/chat_memory_service.py`, `ai/memory_manager.py`). The Redis
   history of a session with a fall-back to the messages table, the context blob and the
   message counter. Hard: read-modify-write, a warming write nobody awaits, expiry, and
   two key families (`chat:session:{id}:*` and `v1:session:{id}:*`) for the same session.
   Correct when the model is shown committed turns of this session, in order, all of them
   or the last ones.
5. **Provider chain** (`ai/providers/*`). Per provider a circuit breaker and metrics, per call the
   ranking computed at its start. Hard: concurrent calls update them after awaiting;
   the request timeout cancels calls at any await. Correct when a provider that is up is
   used whatever the others do.
6. **Semantic cache** (`services/semantic_cache_service.py`, used by `services/chat_service.py`). A list of
   entries, a FAISS index that must stay in step with it, a bounded cache of encodings, three locks,
   several threads. Correct when a question is answered with an answer to it, and never with
   another session's.
7. **Summarization** (`workers/*`, `ai/summarizer.py`, the second half of `persist_interaction`). A turn
   counter, a key per bucket of 10 turns, ARQ jobs, a Redis lock, versioned rows of `conv_summaries`, key points in
   `session_memory`, `sessions.current_summary`, and the summary in the cached context. Operations: count a turn and
   enqueue a job, run a job. Hard: six writes to two stores one after the other, under retries, timeouts and
   crashes; request and job read and write back the same context. Correct when a bucket's key points are stored
   once, nothing refers to a summary that is not stored, and every job ends.
8. **User profile** (`services/user_profile_service.py`). A throttle key and an upsert.
9. **Orchestrator and tools** (`services/chat_service.py`, `services/ai_orchestrator.py`, `ai/tool_registry.py`,
   `ai/tools/*`, `ai/safety.py`, `ai/template_engine.py`). Per request: the plan, the attempts made, the results.
   Operations: ask the planner, and again when it does not call the tool its intent requires, run the calls, sanitise, fill a template or
   ask the renderer. Hard: the model may answer anything and tools may raise or return anything.
   Correct when required tools run, each call has its result, the renderer cannot plan, and nothing suspicious reaches it.
10. **Intent detection and fast path** (`ai/intent_*`, `ai/fast_path_router.py`).
    Functions of one message: keyword sets, confidences, thresholds, tables.
11. **Request-level circuit** (`infrastructure/adapters/redis_resilience_adapter.py`). Read by `execute`, written by nobody.
12. **Cache management, token counting, HTTP shell, database shell.** Operations and
    glue; stateless or I/O.

### How they interact

`execute` (1) calls 2 and 11 before and 3, 4 and the domain service inside the lock; the
domain service calls 10, which may ask 5 for a label, then 6, then 9, which calls 5 up to four times (three planner calls and the renderer). The background task writes
through the repositories of 3 (a fresh database session), then 4, then 2, then releases
the lock. 4 enqueues jobs of 7, which write the summary rows, the session row and the context
of 4 without the session lock. `DELETE /sessions/{id}` (3) runs beside all of it without the lock.
6 and 5 are shared by all requests of one process, everything in Redis and
PostgreSQL by all processes.

## 2. The modules and the code

### ChatPipeline

A request is a process `r`; `pc[r]` is its next step and each step is the code between two
awaits that touch shared state. `lock`, `idem`, `rows` and `turns` are the stores. The
state of the coroutine is `pc`, `sid` (the session id it works with), `result` (what
`execute` returns) and `answered` (the response has left: what is still running is the
background task).

| `pc` | code | actions |
|---|---|---|
| `start` | circuit check, lock acquisition (`execute`, 105-118) | `RefuseCircuitOpen`, `RefuseBusy`, `AcquireLock`, `AcquireFails` |
| `idempotency` | `IdempotencyService.get`, then the fast path test (122-133) | `IdempotencyHit`, `FastPath`, `NormalPath` |
| `save_first` | fast path: save the result before answering, release by hand when that raises (155-177) | `SaveFirst`, `SaveFirstFails` |
| `resolve`, `create` | `get_or_create_session`, on either path | `ResolveExisting`, `ResolveNew`, `CreateSession`, `ContextFails` |
| `load`, `generate` | memory and `asyncio.wait_for(generate_response, 45)` | `LoadMemory`, `GenerateSucceeds`, `GenerateFails` |
| `fallback` | `_persist` of the fallback text | `PersistFallback`, `PersistFails` |
| `persist`, `memory`, `save_last` | the background task | `Persist`, `PersistFails`, `PersistInteraction`, `SaveLast` |
| `release`, `unlock` | the Lua release; without EVAL a GET and a DEL | `Release`, `ReleaseByGet`, `Unlock`, `ReleaseFails` |

`ExpireLock` is Redis expiring a key and `Crash` a dying worker. What is abstracted: the
content of messages, token counts, traces; `greeting` says whether `FastPathRouter` will
answer. A message and its reply are one turn: they are committed in one transaction.
`ResponseEncodes` is a constant because the answer decides the behaviour of two branches:
as shipped `json.dumps` rejects the `uuid.UUID` in every response (finding 1), so the runs
that check what the code would do otherwise set it to TRUE and say so.

### ConversationLog

The abstract specification: one request at a time is admitted to a conversation, only it
writes there, it writes once, it leaves in the end. `ChatPipeline` implements it with
`holder[s] <- lock[s]`.

### SessionMemory

One session, its turns one after the other (`ChatPipeline` proves that they exclude one
another under the conditions named there), and beside them deletions, expiring keys and
warming writes. `row` and `log` are PostgreSQL; `context` is the owner in `v1:session:{id}:context`; `cached` the
list in `chat:session:{id}:history`; `warming` the `set_state` calls that
`fire_and_forget` started. The `pc` of the turn goes `context` - `lookup` - `sync` or
`create` - `save_context` - `history` - `read_log` - `generate` - `persist` -
`remember` - `write_back`, each an await of the code. `seen` is what the model is shown;
`committed`, `deleted` and `late` are history variables for the properties. A turn is numbered and
stands for its two messages, so `Window` counts pairs (CHAT_MAX_HISTORY / 2).

### Providers

A call of `FallbackProvider.generate` is a process; between two awaits the event loop runs one
call alone, so ranking and recording are atomic. `Quality` computes the health score as the
code does, in thousandths and with its rounding, from the measured latencies of the calls that were won (`latency`
is their sum; `Latencies` are the values a win may take, in half seconds), so that one slow answer can take a
provider below the floor. Time is counted against the budget of `AI_REQUEST_TIMEOUT`. `up` and `hangs` fix which providers always answer
and which may never answer. Cancellation (`CutOff`) records nothing, as `CancelledError` is no `Exception`.

### SemanticCache

A call is a thread that runs `search`, generation and `add`. The two assignments of
`_initialize_if_needed` are two steps, because the check before them takes no lock. The body
of a `with` block is one step where nothing in it is visible outside, and several where
a library call may raise in the middle (`Add`, `AddFails`, `Undo`, `Trim`, `TrimFails`). Creating the index may raise as well
(`CreateIndexFails`): the model stays set, so nobody creates an index again, every search finds nothing and every `add` leaves
an entry behind. `raced` says that the initialisation was raced or broken off in this way. A query
stands for its meaning; scope, intent and age filter as in `search`.

### IntentRouting and Orchestrator

A message is the set of keyword sets and patterns it hits, so `RuleBasedDetect`, `NeedsModel`, `Normalise`,
`Route` and the tables are the code's own. `Orchestrator` runs one request: requests share nothing here but the
registry, which does not change after start-up. `stage` is the next await; the model and the
tools are nondeterministic choices over what the code distinguishes.

| `stage` | code | actions |
|---|---|---|
| `idle` | `detect_complex`, `route` | `DetectByRule`, `DetectByModel` |
| `lookup`, `store` | the semantic cache around the static intents | `CacheHit`, `CacheMiss`, `Store` |
| `dispatch` | `generate_complex` | `Dispatch` |
| `plan` | `_plan_step`, its two retries and the apology | `PlanTools`, `PlanText`, `PlanRejected` |
| `execute` | `handle_tool_calls`, then `_sanitize_tool_results` | `CallTool`, `CallUnknown`, `Sanitize` |
| `results` | `TemplateEngine.match` | `MatchTemplate` |
| `render` | the blind renderer and `sanitize_booking_response` | `Render` |

`Deliver` is what becomes of a text the planner or the renderer wrote. The safety net of booking answers is meant to replace
foreign links; where it finds them without a link to an event (`FakeBooking`), its log line raises (`safety.py:86`) and the
request fails, so the model has no replaced answer. `Interrupt` is an exception or the timeout anywhere. `offered` is what `_attach_tools` attached to the last call of the
model, `links` what the answer links to. `ExtraTools` are tools the tables and templates of the code name and
nothing registers; the run registers two of them so that those branches are taken, and the theorems hold for every choice.

### Summarization

The summaries of one session. `chat` is the turn that is being persisted (the session lock admits one), with its
stale copies of `current_summary` (`old`) and of the context (`seen`). `job[b]` is the job of bucket `b`, whose `step` goes
through `Steps`, one per await in `run_summarization_job`; the read and the write of the context in `save_summary` are two of them,
as a turn may come between. `Verdict` is what `summarize_session_job` and arq
make of an outcome. `lock` is `lock:summary:{id}`; `Take` assumes arq's in-progress key, which keeps two runs of one
job apart for as long as its timeout. `versions` numbers a summary by its bucket, as the code does.
`TurnFails`, `JobRaises`, `JobTimesOut`, `SaveSummaryFails`, `ReleaseFails`, `TurnDies`, `WorkerDies`, `LockExpires` and `Expire`
are the environment; `MaxFault`, `MaxCrash` and `MaxLapse` bound each kind and `MaxTrouble` all together. `Defects` names four faults that keep the code as it stands from writing any summary (see "Seen while
modelling"); with `{}` they are repaired and the rest of the code is as it stands. The theorems hold for every value of it.

## 3. Runs

All runs use the specification the theorems are about; no definition is replaced.
Deadlock is checked for the semantic cache only: the other systems are given a finite
number of requests, calls or turns and do stop.

| run | instance | what it shows |
|---|---|---|
| `pipeline_named` | 3 requests, 2 users, 1 session, 1 key, 1 failing call, 1 crash; clients name their session, responses encodable | `HolderOwnsLock`, `MutualExclusion`, `SingleExecution`, `TurnsBelongToOwner`, `StrictMessageOrder`, `FollowUpSeesHistory`, `UnansweredLeavesNoTurn`, `AnsweredTurnPersisted`, and the refinement `ImplementsConversationLog` |
| `pipeline_locks` | 2 requests, new chats, 1 expired lock, 1 failing call, 1 crash, responses as shipped, fairness | `TypeOK`, `NoLockLeak`, that a release never deletes another's lock (`ReleaseFreesOnlyOwnLock`), `EveryRequestAnswered`, `EveryLockReleased` |
| `pipeline_retry` (violation) | 2 requests with one key, nothing fails | finding 1, `SingleExecution` |
| `pipeline_new_chat` (violation) | 2 requests, the second a follow-up of a new chat | finding 2, `StrictMessageOrder` |
| `providers` | 3 calls, 3 providers, threshold 2, 1 retry without delay, wins of 0 and 7 s | `TypeOK`, `OpenAfterThreshold`, `ServedWhileOneIsUp`, `NoProviderTwice` |
| `providers_hang` (violation) | 3 calls, 2 providers, 2 retries as shipped | finding 3, `HangingProviderOpensCircuit` |
| `semantic_cache` | 2 calls, 2 sessions, 2 queries, capacity 2, 1 failing library call | `TypeOK`, `AlignedUnlessRaced`, `Isolated`, `Bounded`, `EncodingsBounded`, no deadlock |
| `semantic_cache_race` (violation) | the same, nothing fails | finding 4, `AnswersTheQuestion` |
| `session_memory` | 4 turns, 2 users, window 2, 1 deletion, 1 failing call | `TypeOK`, `HistoryInOrder`, `NoPhantomTurns`, `NothingForgotten`, `OwnerNeverRefused`, `TurnsOfOwner` |
| `session_deletion` (violation) | 2 turns, 1 deletion, nothing fails | finding 5, `DeletedSessionIsForgotten` |
| `orchestrator` | 1 message with up to 2 keyword sets, plans of up to 2 calls, 2 extra tools, fairness | `TypeOK`, `OneResultPerCall`, `RendererIsBlind`, `RequiredToolRan`, `NothingSuspiciousRendered`, `NoFakeBookingAnswer`, `EveryRequestEnds` |
| `summarization` | 4 turns in buckets of 2, 2 tries, 1 key point, 2 failing calls, 1 crash, 1 expired key and no more than 3 of these together, fairness | `TypeOK`, `KeyPointsStoredOnce`, `SummaryIsStored`, `EveryJobEnds` |

### Bounds, and why they are enough

- *Requests.* Three requests give a holder, a waiter that is refused or comes next, and a
  follow-up that has seen an answer: the longest chain the order properties speak of. The
  properties relate two requests at a time. Mutual exclusion is proved for any number.
- *Users and sessions.* Two users, an owner and an intruder. One session in `pipeline_named`, where clients name theirs: a request
  reaches no lock, row or turn but those of the session it names. The idempotency store is shared by all sessions: that a key used in
  two of them disturbs neither is covered by the theorems, which hold for any number, and the runs with new chats
  have the sessions those create.
- *`MaxFault`, `MaxCrash`, `MaxSlow`* are how often the environment may interfere. One
  interference at every possible point, together with all interleavings, reaches every error path; properties
  that speak of failure-free executions say so in their premise (`faults = 0`).
- *Providers.* Threshold 2 and one retry keep the run small and make a circuit open, cool down,
  half open, close and open again; three calls are what it takes for one to find the circuit open
  while another still waits, and with three providers a call falls back twice. A win of 7 s is over the 5 s at which the
  latency factor is used up, so one of 7 s and one of 0 average below it and one loss more decides. The timing constants of `providers_hang` are those shipped.
- *Semantic cache.* Capacity 2 with eviction of 1 is the smallest for which eviction keeps
  something; `MaxOrphans` caps what a raced initialisation may leave in the list.
- *Session memory.* Four turns exceed the window of two, so that truncation happens on both ways
  the history is read, before and after a deletion.
- *Orchestrator.* Two keyword sets let the order of the rules decide; plans of two calls hold a required call and another, a
  failing or unknown one beside one that works, and the same tool twice. `MaxHints` and `MaxCalls` are bounds of the model only.
- *Summarization.* Four turns in buckets of two make two buckets, so that a job may meet the other's
  lock and version; two tries is the smallest number with a retry; one key point is enough for storing it twice.
  Two failing calls, a crash and an expired key are checked in every combination of three (`MaxTrouble`); the theorems know no such bound.
  Every, MaxTry and MaxPoints stand for 10, ARQ_MAX_RETRIES and what a summary has.
- *Symmetry* permutes requests, users, sessions, calls or queries, which are only compared for
  equality; no run with a liveness property uses it.

### Fairness

`FairSpec` assumes weak fairness of `Step(r)` (the steps the code itself takes) for every
request, and of `ExpireLock(k)`. The first is the event loop: a coroutine whose await
has returned is resumed, and every await of `execute` returns or raises: generation
because of its `wait_for`; a call to Redis or PostgreSQL because the server answers or its
connection breaks. The latter is an assumption about the environment, for the code
sets no deadline of its own: REDIS_OPERATION_TIMEOUT and DB_OPERATION_TIMEOUT (`core/config.py:90-91`)
are used nowhere. The second is the TTL Redis itself enforces. Clients, failing calls and crashes are not fair.
`EveryRequestAnswered` needs the first only; `EveryLockReleased` needs both, the second after a crash or a failing release.
`EveryRequestAnswered` is stated as `<>[]`: from some moment on every request that was sent has its answer, or its worker has died. As there are finitely
many requests and an answer is never taken back (`AnswerStandsAlways`), this says of each of them that it is answered.
`EveryJobEnds` has the same form.

`Orchestrator!FairSpec` assumes weak fairness of `Step`: a call of the model, a tool or the cache returns or raises.
The timeout that would cancel it (`Interrupt`) is not fair. `Summarization!FairSpec` assumes it of every job, which is arq taking
what is queued and the awaits returning, of `LockExpires`, and of `JobRaises` where the code can only
raise (`Broken`). Turns, failures, crashes and the expiry of the other keys are not fair.

The refinement `ImplementsConversationLog` is one of safety: `ConversationLog` assumes no fairness.

### Findings

Each is a violation run, with the sentence of the source it contradicts in `PROJECT.json`.

1. *Idempotency results are never stored* (`idempotency_service.py`): the response holds a
   `uuid.UUID`, which `json.dumps` rejects. On the fast path the same exception becomes a 500.
2. *A new chat's follow-up can overtake it* (`chat_application_service.py:113`): the new chat locks its user
   id, the follow-up its session id.
3. *A provider that hangs never opens its circuit* (`groq_provider.py:59`, `chat_application_service.py:215`): its retries
   last longer than the request timeout, which cancels them before anything is recorded.
4. *A raced initialisation misaligns the semantic cache* (`semantic_cache_service.py:62`): from then on a
   question can be answered with the answer to another.
5. *A deleted conversation survives in Redis* (`session_service.py:226`): the deletion clears another key
   prefix than the history is stored under.

Seen while modelling. The runs of kind "violation" are kept for the five above, which take several actors or several
requests to reproduce; what follows is one line of code each, is in the model as it stands where the model has that line, and
is shown by reading it:
- the fall-back of the history reads the **oldest** CHAT_MAX_HISTORY messages
  (`message_repo.py:23`), so after a day of silence a long session continues from its beginning;
- `_persist` passes `"metadata"` where the model attribute is `metadata_`, so the metadata
  of a message is not stored;
- both messages of a turn get the same `sending_time` (one transaction), so their order in the
  history is that of two random uuids;
- without EVAL, `release` is a GET and a DEL and may delete a successor's lock (`Unlock` in the model);
- the profile upsert is committed only when the same request creates its session, while
  the throttle key says for 300 s that it was synchronised (`user_profile_service.py:60`);
- a turn answered with the fallback text is in the messages table and not in the Redis history, so the
  model sees it or not depending on which store it comes from (`NothingForgotten` asks for
  answered turns only);
- when creating the FAISS index raises, the semantic cache has a model and no index for good: it answers nothing and its
  list grows with every `add`, over any bound (`CreateIndexFails`; `AlignedUnlessRaced` and `Bounded` exclude it with `raced`).

On providers:
- the circuit of a provider whose record keeps it below the floor of 0.2 is never closed again: when its cooldown is over, `is_available`
  lets it through, but half its score is what `fallback_provider.py:69` compares with the floor, and only a call could improve the
  record. `resilience.py:23` and Documentation.md:376 have a half open circuit closed by its first success. The same floor drops a provider whose circuit is
  closed, after one slow answer and enough losses. `Usable` is the model's form of it; `ServedWhileOneIsUp` holds beside it because a
  provider that has lost nothing keeps 0.6.

On summaries:
- as shipped **no summary is ever written**, although Documentation.md:590 has a job run at every multiple of 10. The API enqueues on
  arq's default queue (`main.py:79`) and the worker polls ARQ_QUEUE_NAME (`arq_jobs.py:74`); were it to take a job,
  `_build_session_service(chatbot_db, redis_client)` lacks an argument (`summarization_worker.py:59`); `logger` is not defined there
  (lines 38, 45, 53, 71, 89); and `summarizer.py:105` treats an `LLMResponse` as a string, so every summary is the fallback
  without key points. These are the four `Defects`;
- repaired, the n-th summary still takes 10*n further turns: `DECRBY` takes the counter back below buckets whose keys
  last a week;
- a job that finds the lock taken gives its bucket up for good, and so does a turn whose enqueueing fails (a comment accepts
  the latter, `chat_memory_service.py:127-129`);
- the counter can become negative when the messages of two overlapping buckets are taken off;
- a failure after the version's row loses the remaining key points, `current_summary` and the decrement: the retry finds the version and
  stops. That is what keeps the key points single (`KeyPointsStoredOnce`);
- `_persist` writes back the `current_summary` it read before generation, and so may undo a newer one;
- `finalize_session` run by a job sets the session's intent to "unknown".

On the orchestrator:
- `sanitize_booking_response` says that it "replaces any fake/hallucinated URLs" (`safety.py:80-82`). It never does: the logger of
  `safety.py:9` is one of the standard library, which takes no `content_preview`, so line 86 raises a `TypeError` before the
  replacement, nothing on the way catches it, and `execute` answers with its fallback. Where an event is linked as well, foreign links are left
  alone. `NoFakeBookingAnswer` states what holds: no such answer leaves, because the request is lost;
- five of the patterns in `INJECTION_PATTERNS` never match: the text is lowercased before, and `[SYSTEM`, `[ADMIN`, `[INSTRUCTION` and the `U` of
  `Union[...]` are not (`safety.py:14,22,25-27`);
- the firewall drops forbidden keys and redacts role prefixes at the top level of an output only, and the text of an exception is not sanitised at all.
  `NothingSuspiciousRendered` speaks of those, and of patterns that can match: nested keys and the five patterns are outside it, and so it says
  less than the sentence on tool outputs in Documentation.md:785;
- no template fires as shipped, because none of their tools is registered, and five tools the tables name are not either;
- a registered tool runs when the model calls it, whether it was offered, or is enabled, or not;
- the id of the first event found is used for the link, whichever event the answer is about;
- the pattern for "identity" of the fast path is not anchored and matches inside longer messages;
- a request cancelled after `create_ticket` has run is answered with the fallback, and its retry runs the tool again (a mock today).

## 4. Proofs

TLAPS checks every proof with Z3, Zenon and LS4. All theorems hold for every value of the
constants that satisfies `ConstantsAssumption` and `NullAssumption` of their module, which TLC
evaluates in the runs. The argument is the usual one: an inductive invariant, one
step per action, and PTL for the temporal conclusion.

| module | theorem | inductive invariant |
|---|---|---|
| `ChatPipelineProofs` | `TypeCorrect` | `TypeOK` and every request that was sent carries a message |
| | `HolderOwnsLockAlways`, `MutualExclusionAlways`, `NoLockLeakAlways` | `LockInv`: a lock names a request with that key (`LockNamesItsKey`), the holder finds its token, a lock without a holder has a cause. The first part is what makes the release of one key leave every other alone; mutual exclusion follows because a key names one request |
| | `ReleaseFreesOnlyOwnLockAlways` | an action property, from `TypeOK` alone |
| | `NeverBackAlways` | an action property: `Rank` numbers the steps of `execute` and its background task, and every action of a request lowers it, error paths and crashes included. It bounds a request to fifteen steps |
| | `AnswerStandsAlways` | `AnsweredInv`: whose response has left is in the background task, on the fast path's way to its commit, or over; no step from there assigns a result |
| | `NothingStoredAsShipped` (`ResponseEncodes = FALSE`, as shipped) | `NothingStored` itself: `SaveFirst` and `SaveLast` can only fail, so a greeting with a key never gets past the save |
| `ConversationProofs` | `TurnsBelongToOwnerAlways`, `UnansweredLeavesNoTurnAlways` | `ConvInv`: a request writes once, only past admission (`WritesOnce`), to a session whose row names its user (`WritesToOwn`), and its result says whether it has written (`Outcome`) |
| | `NamedOrderAlways`, `NamedHistoryAlways` | `OrderInv`, for new chats too: a request that names a session writes to that one (`SessionsKept`), a new chat's session was known to nobody before (`NewChatsAreNew`), while an answered request that named its session still holds the lock nobody sent after its answer has written (`FollowersWait`), and so its turn comes first (`NamedOrder`). The only disorder left is that of the first message of a new chat, which is finding 2 |
| | `StrictMessageOrderAlways`, `FollowUpSeesHistoryAlways` (if clients name their sessions) | the same, where every request is named |
| | `NormalTurnPersistedAlways` | part of `PersistInv`: what is generated is answered before the commit, and only a failing call keeps the task from it. It needs neither named sessions nor a lock |
| | `AnsweredTurnPersistedAlways` (if clients name their sessions) | `PersistInv`: under the lock nobody else creates the row, and past the commit the turn is there or the session is another's |
| | `RetriesAlways` | without assumption on the responses, as shipped too: `OneAfterAnother`, by which a retry that names its session executes only after every request whose turn comes before its own has ended, never beside one (`LockInv`, `ConvInv`, `OrderInv`). And where responses can be encoded, `SingleExecution`, from `OnceInv`: who has written and is past the save has saved, and while somebody executes a key nobody has written under it |
| | `ImplementsConversationLogAlways` (if clients name their sessions and no lock expires under its holder) | every step is a step of `ConversationLog` or leaves its variables alone, from `LockInv`, `ConvInv` and `OrderInv` |
| `ProvidersProofs` | `TypeCorrect` | the type invariant alone; a count of calls below one is taken as one, as in the code, so no score divides by zero |
| | `ServedWhileOneIsUpAlways` | `ServeInv`: a provider that is up has lost nothing (`CleanRecord`), so its score is at least 0.6 for any number of wins and whatever they took; a call that still waits has it ahead or is at it (`NotPassedOver`) |
| | `OpenAfterThresholdAlways` | the breaker's state and its count agree, whatever interleaves |
| | `NoProviderTwiceAlways` | `InTurn`: a call is at the provider it has reached in the ranking of its own beginning, after at most `MaxRetries` retries; the action property is that the pair of place and attempt only grows, whatever other calls do to scores and circuits |
| `SemanticCacheProofs` | `TypeCorrect` | needs `BehindInv` (the index is never ahead of the list) for the entry `search` returns |
| | `AlignedUnlessRacedAlways` | locks are held by whoever is inside (`LockInv`), the index exists past the check (`ReadyInv`), list and index are in step but for the entry `add` may still take back (`AlignInv`) |
| | `BoundedAlways` | `SizeInv`: one more entry per failure, and one more while `trim` is due |
| | `EncodingsBoundedAlways` | part of the same invariant: no step but the insertion adds an encoding, and it drops some first when the list is over its limit |
| | `IsolatedAlways` | the filter on the list alone, so it holds when the index is wrong |
| | `AnswersUnlessRacedAlways` | `AnswersInv`, on top of `AlignInv`: the vector found belongs to the entry at the same place, and stays there while the lock is held |
| | `NeverEmptiedAlways` | an action property from the whole invariant: the index is created once and before any insertion, undoing an insertion shortens the list and not the index, and eviction keeps `MaxSize - EvictionCount` |
| `SessionMemoryProofs` | `TypeCorrect` | and no copy of the history on its way to Redis is longer than the window |
| | `NoPhantomTurnsAlways` | `PhantomInv`: every copy of the history, `warming` included, holds committed turns, and a turn that is about to be remembered is one |
| | `HistoryInOrderAlways` | `OrderInv`: every copy is ordered and holds numbers below the turn under way only. It is why a warming write that lands late may lose turns but not disorder them: what is appended afterwards has a higher number than anything that may land |
| | `OwnerNeverRefusedAlways`, `TurnsOfOwnerAlways` | `OwnerInv`: a turn writes a context only after it found no context and its own row, and is admitted only to its own row or none |
| | `NothingForgottenAlways` | `KeepInv`: while nothing fails, is deleted or lands late and the log fits the window, the cached list, the draft that will replace it and any warming write under way hold every answered turn |
| | `TableReadsForgetAlways` | `ForgetInv`: what is deleted has a lower number than the turn under way (`NumberedInTurn`) and is not in the table (`TableForgets`). With `DeletedSessionIsForgotten` violated by `session_deletion` it says where the leak is: in the history key alone |
| `OrchestratorProofs` | `TypeCorrect`, `ResultsMatchPlan`, `BlindRenderer`, `AnswersAreGrounded`, `FirewallHolds`, `FakeBookingFails` | one invariant `Inv`: the results are those of the first calls of the plan, already without injection patterns, and without the rest from `results` on; a plan that is executed holds the required tool; the planner was offered the tools of the intent; a booking answer went through `Deliver`, which gives none with foreign links only |
| | `StepsRunOutAlways` | an action property: `Measure` is a natural number, at most `MaxCalls + 11`, and every step lowers it, interrupts included |
| `SummarizationProofs` | `TypeCorrect`, `KeyPointsStoredOnceAlways`, `SummaryIsStoredAlways` | `IInv`: a job past the row has its version (`After`), and what it has still to store fits in what is left (`JobOK`); a turn's stale copies are of stored versions (`TurnOK`), so writing them back loses a summary but never invents one |
| | `OneJobAtATimeAlways`, `VersionsInOrderAlways` | `Serial`: who is between lock and release holds the lock, and what it read of the versions, two model calls earlier, still holds. This rests on the summary lock outliving the longest run of a job, which is how the model lets it expire; the check for an existing version then needs no transaction |
| | `NothingSummarisedAsShipped` (with the defect "queue" or "builder", as shipped) | `Stuck`: with "queue" no job leaves the queue, with "builder" none gets past building its services (`Reached`), so no version is stored, and sessions, contexts and buckets stay as they were |

The lemmas about sequences (`OldestOf`, `NewestOf`, `BeforeAppend` ...) say what a stretch
of a history preserves and are cited by name. Counts, such as the turns that fit a window or 2 ^ n for the backoff,
are argued with the cardinality theorems of the library, as induction over data is not available.

The properties that only a theorem states (`NeverBack`, `AnswerStands`, `NothingStored`, `NamedOrder`, `NamedHistory`,
`NormalTurnPersisted`, `OneJobAtATime`, `NewestOnly`, `NothingSummarised`, `StepsRunOut`, `OneAfterAnother`, `NeverEmptied`,
`TableReadsForget`) are defined next to it in the proof modules.

### Model-checked only

- `EveryRequestAnswered`, `EveryLockReleased`, `EveryRequestEnds` and `EveryJobEnds`: liveness under fairness and ENABLED are beyond
  the prover. Their safety half is proved for two of them: `NeverBackAlways` and `StepsRunOutAlways` say that a request has finitely many
  steps to take, `AnswerStandsAlways` that an answer is not lost again. That some step is enabled until then is left to TLC.
- That what the runs of kind "violation" refute is false: TLC shows the behaviour.

Every other property of a passing run is a theorem, `SingleExecution` where responses can be encoded.

What the hypotheses exclude is real: the run `pipeline_new_chat` violates the order without `NewChats = FALSE` (and `NamedOrderAlways`
says how far the order goes without it), `pipeline_retry` the single execution without `ResponseEncodes = TRUE`
(and `RetriesAlways` says what a retry is still promised as shipped: to come after the first request, not to be spared), `semantic_cache_race` the
answer to the question once the initialisation was raced or broken off. With `MaxSlow > 0` a lock may expire under its holder and admit a second
request, and the refinement promises nothing. The two theorems "as shipped" assume what the code does today, and say what follows from
it for every instance: no retry is answered from a stored result, no session is summarised.

## 5. What is not modelled, and why

- The user profile: a throttle key and an upsert, whose only difficulty is who commits (above).
- Cache management: deletions by hand and warm-up, no state of its own.
- Authentication, wiring, schemas, tokens, health routes: stateless or I/O.
- The queries behind the tools, which only read; the wording of prompts and answers; tokenising and the regular expressions.
- Similarity as a number: a query stands for its meaning. The limit of 20 neighbours of the FAISS
  search is listed as a hazard without a property.
- Of summaries: a missing arq pool, the deletion of a session while its job runs, the intents kept in the context, and arq's own
  limit of runs per job (5), which is above ARQ_MAX_RETRIES.

## 6. Plan

1. *Done*: all modules above, the theorems for every safety property of the runs, the refinement, the order of new chats, the
   termination measures, and what follows from the defects as shipped.
2. `Profile`: throttle key against the commit of the upsert, with the session row it depends on.
3. A composition of `SessionMemory` with the turns of `ChatPipeline`, to replace the assumption
   that turns of a session exclude one another by the lock; and of `Summarization` with the deletion of a session.
