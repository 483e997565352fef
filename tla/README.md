# matrix-project in TLA+

Models, model-checking runs and proofs for matrix-project, a coordinator that
puts one prompt to a swarm of local language-model agents. The models follow
the C++ backend under `src/cpp_core/src` (paths below are relative to it,
documents are under `src/docs`, tests under `src/tests`).

Contents: [inventory](#inventory) · [modules](#modules) · [runs](#runs-and-bounds) ·
[fairness](#fairness) · [proofs](#proofs) · [disagreements](#where-code-and-documents-disagree) ·
[not modelled](#what-is-not-modelled) · [plan](#plan)

## Inventory

A **proxy** (port 3002) deploys: it writes the active configuration, starts the
inference servers and one **coordinator**. The coordinator answers the web
interface, one thread per HTTP request. A dispatch (`POST /api/architect`)
reads the active mode and its agents, drops the agents whose circuit breaker is
open, and runs the **mode**, which calls agents, several at once, each on a
thread of its own (`std::async`). Every agent call passes the **port gate** of
its inference server and reports to the **breaker**. Requests share, in one
process, a **response cache**, a **dispatch context** with the routing
decisions, a **token ledger** and the histories of **MLX sessions**; four
routes (two that answer at once, two that stream) use them. An embed build can run MLX
models in the coordinator's own Python interpreter instead (**model
registry**). Edits of the configuration go to memory and to two files (**config
store**).

| component | state | operations | what is hard | what makes it correct |
|---|---|---|---|---|
| port gate: `agent_client_pool.cpp`, `agent_client.cpp`, `agent_client_http.cpp` | per port: `count`, `waiting`, `tokens_in_flight`, one mutex, one condition variable | acquire/release of a slot; acquire/release of tokens; retries, fallback to another backend, streams | two kinds of waiters on one condition variable with `notify_one` for one and `notify_all` for the other; a slot is held while waiting for tokens; every error path has its own release | counts are right, no lost wake-up, every call ends, a counting semaphore is implemented |
| circuit breaker: `agent_health.cpp`, `modes/router_endpoint.cpp` | per agent: failure times, `tripped`, cooldown; per port: a remembered readiness answer | `record`, `is_open`, `snapshot`; probe, remember, report | outcomes of calls admitted before a trip come later, from several dispatches; pruning on reads; one probe's answer is reported as a failure by every dispatch that finds it | trips exactly on the outcomes the window defines; a server that is back is in service again within a bound |
| config store: `swarm_config_store_write.h`, `swarm_config_roster_io.h`, `coordinator_context.cpp`, `proxy_configure_*.cpp` | modes, presets and agents in memory; active and source file | PUT of modes, presets, prompts, tokens; load at start; redeploy | files truncated in place, writers under different locks or none, another process; crash between two writes | an edit answered as persisted is not lost; one file can always be loaded |
| dispatch modes: `modes/*.cpp` | per dispatch: the calls, their texts, the stream | flat, cascade, pipeline, router | failing and throwing calls, launch from a stream callback, rosters that name absent agents | each agent asked once, reducers read what they should, the final text is the right one, there is an answer |
| dispatch handler: `coordinator_routes_dispatch.cpp`, `coordinator_routes_filters.cpp` | a copy of the configuration, then the roster | snapshot, filter, exclude, run | two reads under two locks | the roster is followed, the handler always answers |
| model registry: `model_registry*.cpp` | loaded models, entries with their last use, session prompt caches, a count for reports | generate, stream, idle eviction | eviction decided under one mutex and done under another; failures halfway through a setup; caches reused for other prompts | no model vanishes under a run, none is forgotten in memory, a run reads its prompt |
| response cache: `response_cache.cpp`, `response_cache_evict.h` | LRU list and map, TTL, limit, switch | lookup, store, clear, switch, resize | calls in flight that store after a clear; an eviction driven by the map that takes victims from the list | list and map agree, never too long, an answer is an answer to what was asked |
| MLX sessions: `mlx_session_store.cpp`, `coordinator_routes_mlx.cpp`, `agent_stream_llama.h` | message histories with their last use | append, read, clear, idle eviction | two requests in one session; a session erased under a request | a history that replaces a prompt contains it, an answer follows its question |
| state shared by dispatches: `backend_router.cpp`, `token_ledger.cpp`, `session_context.h`, `context_gate.h` | one dispatch context and its decisions, a ledger per session, a thread-local session | set, use, clear; budget, add, reset | one context for concurrent dispatches; server threads that are reused; several routes with exits of their own | a context ends with its dispatch, no session pays for another, a lone request is served by its own mode |

The stream route's control is part of the last three rows. The remaining
components (config service, session and history files, KV-cache operations,
prompt budgets, proxy, RAG, trajectories, Python lifecycle and modes, web
interface, scripts, vendored libraries) are listed with their reasons under
"components" in `PROJECT.json`.

Interactions: handler → modes → (port gate → server) and → breaker; handler →
breaker (exclusion); PUT handlers → config store → handler (the two reads of
`Dispatch`); handler and routes → response cache, dispatch context, ledger,
MLX sessions (`Requests`); MLX routes → model registry. The models are composed where one
component's steps change what another one sees (the handler with its modes;
both gates of a port; the breaker with the readiness cache; the routes with
everything they share in the process). The breaker and the gate meet only through the outcome
of a call, which is a free choice in both, so they are separate.

## Modules

| module | role |
|---|---|
| `PortGate` | one port: both gates and the callers |
| `SlotSemaphore` | what the request gate promises: a counting semaphore |
| `PortGateProofs` | theorems about `PortGate` |
| `Breaker` | one agent's breaker, the readiness of its port, and the runs that use both |
| `BreakerProofs` | theorems about `Breaker` |
| `ConfigStore` | memory, active file, source file; requests, proxy, crashes |
| `ConfigStoreProofs` | theorems about `ConfigStore` |
| `ModeCalls` | what the modes share: context, calls, reduction |
| `Broadcast`, `Pipeline`, `Router` | flat and cascade; pipeline; router |
| `Dispatch` | the handler around the modes |
| `SwarmRun` | what a dispatch promises in any mode |
| `ModeCallsProofs` | lemmas about the lists of agents that modes are made of |
| `DispatchProofs` | theorems about `Dispatch` in every mode |
| `ModelRegistry` | in-process models and prompt caches |
| `ModelRegistryProofs` | theorems about `ModelRegistry` |
| `RequestBase` | the names of threads, sessions, agents, routes and modes |
| `ResponseCache` | the response cache with its list and map |
| `BoundedCache` | what the cache promises: a map of bounded size |
| `ResponseCacheProofs` | lemmas about every operation of `ResponseCache` |
| `DispatchState` | dispatch context, decisions, token ledger, thread-local session |
| `MlxSessions` | the histories |
| `Requests` | the four routes and the administration over these three |
| `RequestsProofs` | theorems about `Requests` |
| `MC…` | values for TLC |

Definitions marked *Mutant* in a comment are variants of the definition that
follows: plausible bugs that a property must catch. No specification uses them.

**PortGate.** `count`, `waiting`, `tokens_in_flight` are the fields of
`PortSemaphore`; `cv` is the set of threads asleep on its condition variable.
One action is one critical section. `TakeSlot`, `SleepForSlot`, `WakeTakeSlot`,
`WakeSlotTaken` are the four ways through `acquire`'s wait loop;
`TakeTokens` and `SleepForTokens` those of `acquire_tokens`; `Answered`,
`Refused` and `BodyThrows` the exits of one attempt (`call_agent_once`), each
with the tokens it gives back (`leaked` and `overpaid` are history: by how much
that missed what was taken); `Retry` the loop of `call_agent_impl` with the
attempt on the other backend inside it. `notify_one` picks any sleeper, a wait
may return unnotified. `limit` and `token_budget` come from the roster as
`init_port_concurrency` installs them: the first agent of a port that asks for
either gate decides. Ports do not share state, so one is modelled. A call
answered from the response cache never reaches the gate.

**Breaker.** The fields of `Entry`, a coarse clock, and `log`, a history
variable. `Admit` is the handler's `is_open`; `CallEnds` is `record` at the end
of `call_agent_impl`; `Unreachable` the failure that the router's reachability
filter records; `Snapshot` the report that prunes. Before it calls anybody the
router asks `endpoint_ready`: `AskReady` is `PortReadyCache::get`, `Probe` the
request to the server, `StoreReady` the `set` after it. The three are separate
steps, because the cache's mutex is not held over the probe: two runs probe at
once, and an older answer may be stored over a newer one. `ServerTurns` is the
environment. A probe that fails does so within its timeouts (one second to
connect, one to read), and a run reports it right after; `late` limits what a
run does between its look at the cache and its report to one tick. All
runs of a behaviour are of the router mode or none is (`router`), and the agent
has its port to itself.

**ConfigStore.** A document is a version of modes, one of presets, the agents it
lists and the set of row edits it contains. `Open` truncates (`ofstream` does), `Write`
completes, `ReadDoc` fails on a truncated file; so a crash, or a second writer,
between the two is visible. `EditModes` holds `modes_config_mutex` from edit to
persist; `EditPreset` edits under another mutex and takes that one later;
`EditRow` (prompt, description, tokens) takes none. `Persisted` is the flag in
the reply. `Crash`, `Restart`, `Deploy` and `KillCoordinator` are the life of
the process; the proxy rewrites the active file *before* it kills. `Deploy`
takes modes and presets from the source file and the agents with their rows from
its request (`proxy_configure.cpp:23-33`), which may list any agents with any of
their edits; `deployed` is what the coordinator then loads, and `leftOut`
remembers the acknowledged row edits a redeploy lacked.

**Modes and Dispatch.** A call is a record: who, in what role, which earlier
texts its prompt quotes, how it ended. `EndCall` ends any running call with a
text, an error text or an exception. `SnapshotConfig` and `SnapshotRoster` are
the handler's two reads (`open` remembers the breakers that were open at the
second), `Supervise` the reordering, then a mode runs:
`FlatStart`/`FlatCollect`; `CascadeStart`/`CascadeCollect`/`EndReduce`;
`PipelineStart`, `Stage`, `StageEnd`, `Fallback`, `ChainEnd`;
`RouterStart`, `StreamChunk` (with the launch from the callback), `StreamEnd`,
`StreamThrow`, `RouterCollect`. `Unwind` is an exception that reaches the
handler: futures are joined on the way, so no call outlives it. The
classifier's text is a sequence of agent names, the marker `SELECTED:` and line
ends. `rank_by_affinity` depends on the history of prompts and is a free choice
among the candidates. The filters of the code, which walk a list and keep some
of it, are `Only`, `Without`, `WithTag` and `Distinct`: the elements at the
places kept, in their order (`AtPlaces`). They are functions over
`Names`, the names a configuration may contain, because the prover cannot
reason about `SelectSeq` or a fold with an operator.

**ModelRegistry.** `resident` is `__mlx_reg__`, `entries` is `entries_` with
the age of the last use in three steps (used; past the short window that memory
pressure evicts by; past the idle window), `caches` is `__mlx_sess__`, `lane`
is `g_lane_mu`. `ChooseStale`, `DropModels`, `EraseEntries` are the three steps
of `evict_idle`; `Generate`/`Stream`, `RunEnds` or `RunRaises`, `Account` those
of a generation; `StreamNoModel` and `StreamSetupFails` its early exits. A KV
slot is the pair of the model that computed it and its token. `RunRaises` is
the other end of the token loop, an exception of the generator: while it reads
the prompt the cache has any part of what is fed, later it may be a token off,
and the cache stays filed with the whole prompt. `partial` names the sessions
left so, until the cache is dropped. Prompt caches are modelled as enabled; the
code has them off by default.

**Requests.** `ResponseCache`, `DispatchState` and `MlxSessions` hold state and
its operations; they take no steps of their own. `Requests` says who calls
them. `job[t]` is the request that server thread `t` handles: its route, mode,
session, prompt, the system prompts in its copy of the roster, and where it is
(`at`). `call[t][a]` is its call to agent `a`, on the same thread or on one of
its own (`worker`). A mode is the sequence of its phases (`CallAll`,
`StreamNext`, …): who is called after whom and whose answers are quoted is all
that the shared state can tell apart; what a mode does with texts is in
`Dispatch`. `Arrive` is the beginning of a handler; `Gate` and `Gated` the
context gate, whose summariser's answer *is* the prompt afterwards; `Reject`
and `Enter` what follows the budget check (`Enter` fixes the roster: the agents
left without an open breaker, which also decide whether the user's turn is
recorded, `HasMlx`); `Sweep` and `Seed` the MLX session
before a stream; `Launch` a phase; `Leave`, `LeaveMlx` the exits, exceptions of
a mode included. A call goes through `Lookup` (cache), `Route`, `Resolve`,
`Note`, `Record` (the four looks that `call_agent_impl` and `stream_agent` take
at the dispatch context, in separate critical sections), `Hear` (the history
that replaces a stream's prompt), `Answered` or `Unanswered`, the attempt on
the other backend, `StoreAnswer`, `RecordTurn`. `Resolve` dereferences the
context without looking whether it is still there, as `backend_router.cpp:156`
does: `up` becomes FALSE then. `EditPrompt` and `ClearAfterEdit` are the two
steps of a PUT of a prompt, `CacheRequest`, `ResetBudget`, `WipeSessions` the
administration, and `Age` and `SessionGoesIdle` time.
Abstractions: the key's hash is injective; an answered call costs one token;
`set_budget` and the check after it are one step; a context is set and cleared
in one step, although its fields are read one by one elsewhere; an agent has a
port of its own; a pipeline on the architect routes is cut to two stages;
agents leave `inference_backend` unset. `spent`, `wiped`, `silent`, `alone` and the `by`
of contexts, decisions and turns are history.

## Runs and bounds

| run | asks | instance | distinct states |
|---|---|---|---|
| `port_gate` | progress through both gates, when releases match; refinement of the semaphore | 4 threads (one streams from an mlx server, one has a fallback backend), two calls each, limit 3, budget 3, estimates 2, 1, 3; first roster agent asks for no gate | 60 k |
| `port_usage` | the ledger, and wake-ups of both kinds, when replies report 0 or 2 tokens, none, or throw | 5 threads (one with estimate 0, one streams past the gate), one call each of up to 2 attempts, limit 3, budget 3 | 2.5 M |
| `budget_short_usage` | violation: see below | 3 threads | |
| `breaker` | window, trip, cooldown against the history of outcomes; the time until a server that is back is in service | window 2, cooldown 1, readiness 1 (the code has 60, 30 and 30 s), threshold 3, clock to 5, 5 outcomes (3 in router mode), 2 runs | 3.6 M |
| `config` | edits, crash, failing I/O, redeploy in any order | an edit of each of three kinds; one crash, one I/O error, one redeploy with any rows | 5.7 M |
| `config_prompt_lost` | violation | 2 requests | |
| `dispatch` | one dispatch in every mode | 3 agents, 13 configurations, 4 tokens of classifier text | 534 k |
| `flat_roster` | violation | as `dispatch` | |
| `mlx_models` | models, eviction and prompt caches | 2 threads, 3 calls between them, 3 agents on 2 models (one in 2 quantizations), 1 session, 4 prompts | 1.4 M |
| `mlx_cache_shared` | violation | as `mlx_models` | |
| `requests` | the four routes over what they share | 2 threads, 2 sessions, 3 agents of which at most 2 are in a roster, 2 prompts, up to 3 requests; 12 configurations (`MCRequests`), each with the routes, modes and administration that one question needs | 897 k |
| `tokens_uncharged` | violation | as `requests`, one configuration | |

Why these bounds suffice for what they ask:

- *PortGate*: a notification is taken by the wrong sleeper when a slot is freed
  beside a holder of tokens, a thread that waits for tokens (and holds the third
  slot) and one that waits for a slot: four threads and a limit of 3. The second
  call in `port_gate` lets a thread that left overtake one that was woken; its
  calls have no back-off, those of `port_usage` have, and several attempts each.
  With estimates of 1, 2 and 3, reported
  totals of 0 and 2 are less than, equal to and more than what was taken, and
  the subtraction reaches 0 while another request holds tokens. The proofs lift
  all but progress to any number of threads and calls.
- *Breaker*: five outcomes trip it (3), prove the late ones (4, 5) and a
  success in between; a clock of 5 passes one window (2) with its boundary and
  a cooldown before and after it. Two runs overlap. In the router mode three
  failures, the threshold, are the worst that can be reported for one answer;
  the bound `TTL + COOLDOWN + 2` of `BackInService` is reached by servers that come up at
  clock 0 or 1, and is tight: with 1 in place of 2 TLC finds a
  counterexample.
- *ConfigStore*: conflicts are between two writers; three requests of
  different kinds (versus locks) and the proxy give every pair. More than one
  crash is excluded by `OneCopyLeft` and not needed by the others.
- *Dispatch*: three agents are enough for a target, another member and a
  synthesizer or classifier; configurations name an absent agent in every
  place that can. Four tokens of text contain a name before the marker, a name
  after it and a line end.
- *ModelRegistry*: an eviction decided before a use and done after it needs two
  threads and three calls (one fills, two race); a cache is made, cut short
  and used by three calls in a row. The prompts are a prefix, two extensions
  that differ, and a longer one: growing, shrinking and editing.

- *Requests*: one run over everything is out of TLC's reach, and the questions
  do not need it: a conflict is between two requests, or a request and an
  administrator, over one of the shared parts. So `setup` is one of 12
  configurations: the cache under edits and expiry with two overlapping
  requests and a third; one request after the other with every operation on the
  cache in between; a cascade that quotes cached answers; two dispatches side by
  side with routing, one beside an MLX route, and two behind the gate; every
  mode of the two architect routes alone; budgets with refusals and resets on
  one thread that serves two sessions, and on two threads that serve one; one
  history under two requests with clears and eviction, under two agents of one
  request, and of a roster whose mlx agent may have an open breaker.
  Configurations differ in values only; the steps are the same.

`CHECK_DEADLOCK FALSE` is set for `Dispatch` (a dispatch ends),
`ModelRegistry` (threads stop at `MaxCalls`) and `Requests` (the last request
ends, or the process crashes). The other runs check deadlock;
there `AllDone` and `Stopped` name the states in which nothing is left to do.
Symmetry is used for safety properties only.

What the properties say (their comments in the modules have the lines):

- `SlotsCounted`, `FreeSlotNoticed`, `SleepersDoNotFit`, `LedgerAccounted`,
  `EveryCallEnds`, `ImplementsSlots`: the gate. `FreeSlotNoticed` is the subtle
  one: `notify_one` may wake a thread that waits for tokens while a slot is
  free, and this is harmless only because every holder of tokens wakes all;
  where tokens leaked, or the request exceeds the whole budget, there is no
  holder, and the property says that this is the only exception.
  `LedgerAccounted` bounds the ledger and the admission from both sides by what
  replies misreported, whatever they report; where they give back what was taken
  it says that the ledger is the sum of the requests in flight.
- `MatchesHistory`, `WindowMatchesHistory`: the breaker equals a definition
  over the complete history. `BackInService`: one "not ready" is reported again
  and again while it is remembered, each time as a failure that may restart the
  cooldown; this ends with the answer, so that a server that is back is left
  out for a bounded time.
- `AckedSurvive`, `OneCopyLeft`, `IdleInSync`, `ActiveHoldsAcked`: what survives
  what. Each names its preconditions: no overlap between writers that share no
  lock, no I/O error. Without them the code does not have the property (see
  `config_prompt_lost` and the list below).
- `KeepsPromise` (`Dispatch` implements `SwarmRun`), `StagesReadLastGood`,
  `ReducerReads`, `FinalIsLastGood`, `SomebodyAnswers`, `RosterHonoured`,
  `QualityPassNarrow`, `SelectionBounded`, `EarlySelectionStands`, `Replies`.
  `RosterHonoured` is about the modes that have a roster, cascade and pipeline;
  for flat see `flat_roster`.
- `ModelStays`, `ResidentReclaimable`, `SessionCountRight`, `ContextIsPrompt`.
- `CacheShape`, `ImplementsBoundedCache`: the list and the map of the cache
  under any order of lookups, stores, clears and resizes. `AnswerIsForThePrompt`:
  an answer fits what was asked though edits and the clear after them are two
  steps and calls store late. `ContextIsLive`: the context belongs to a dispatch
  that runs, though any dispatch clears it. `AloneIsRoutedByItsMode`: what
  concurrency breaks, a lone request has. `LedgerNotOver`: nobody pays for
  another session although threads are reused and each route has exits of its
  own. `HistoryHasTheTurn`: a history that replaces a prompt contains it, and an
  answer follows its question, for the streams of requests that record their turn
  (an mlx agent is left in the roster, or the MLX route); for the others see
  the list below.

## Fairness

- `PortGate!FairSpec`: weak fairness of every thread's own steps. The operating
  system schedules threads; a request ends at the latest by the client's read
  timeout; back-offs and pauses are sleeps. Nothing is promised of spurious
  wake-ups, of new calls or of the thread that `notify_one` picks.
- `SlotSemaphore`: strong fairness of a grant to each waiting caller, weak
  fairness of giving back. The gate has no queue, so strong fairness is what a
  caller gets when others call finitely often (the bound on calls): with an
  endless stream of newcomers the C++ gate may starve a waiter, and nothing
  here says otherwise.
- `Dispatch!Spec`: weak fairness of the handler's thread, with the classifier's
  stream in it, and of the calls' ends (their timeouts).
- `Breaker`, `ConfigStore`, `ModelRegistry`, `Requests`: safety only, no
  fairness. `BackInService` is a bound in ticks, not liveness: nothing needs to
  happen for the breaker to be closed but time.

## Proofs

Checked by TLAPS for all values of the constants that satisfy the modules'
assumptions: `PortGateAssumption` and `ModelRegistryAssumption` (finitely many
threads or sessions, functions on the right domains), `BreakerAssumption`
(naturals; threshold, cooldown and TTL not 0), `RequestBaseAssumption` (the
empty session id is no session), `ResponseCacheAssumption` (TTLs and sizes are
positive), `RequestsAssumption` (an agent supports its own engine;
configurations have the fields of `TypeOfSetup`), `ConfigStoreAssumption` (the
bounds are naturals, each request is of one kind) with `WritersAssumption` (the
proxy and "nobody" are not requests), and of the modes `DeploymentAssumption`
(deployed agents have distinct names and tags) and `ConfigsAssumption` (a
configuration has the fields of `Config`, with lists of any length and any
integer for `max_select`). No theorem has hypotheses of its own.

| theorem | says |
|---|---|
| `PortGateProofs!TypeCorrect` | `Spec => []TypeOK` |
| `PortGateProofs!CountsRight` | `Spec => []SlotsCounted` |
| `PortGateProofs!NoTokenWakeupLost` | `Spec => []SleepersDoNotFit` |
| `PortGateProofs!GateIsSemaphore` | `Spec => Slots!Safety`: the gate implements the safety part of `SlotSemaphore` |
| `PortGateProofs!LedgerBounded` | `Spec => []LedgerAccounted` |
| `PortGateProofs!SlotWakeupNotLost` | `Spec => []FreeSlotNoticed` |
| `ConfigStoreProofs!ConfigTypes` | `Spec => []TypeOK` |
| `ConfigStoreProofs!AcknowledgedSurvives` | `Spec => []AckedSurvive` |
| `ConfigStoreProofs!OneCopySurvives` | `Spec => []OneCopyLeft` |
| `ConfigStoreProofs!IdleFilesInSync` | `Spec => []IdleInSync` |
| `ConfigStoreProofs!ActiveFileHolds` | `Spec => []ActiveHoldsAcked` |
| `DispatchProofs!TypeCorrect` | `Spec => []TypeOK` |
| `DispatchProofs!PromiseKept` | `Spec => KeepsPromise`: a dispatch in any mode implements `SwarmRun` |
| `DispatchProofs!ReadsLastGood` | `Spec => []StagesReadLastGood` |
| `DispatchProofs!ReducerReadsAll` | `Spec => []ReducerReads` |
| `DispatchProofs!FinalText` | `Spec => []FinalIsLastGood` |
| `DispatchProofs!SomebodyAsked` | `Spec => []SomebodyAnswers` |
| `DispatchProofs!RosterFollowed` | `Spec => []RosterHonoured` |
| `DispatchProofs!QualityNarrow` | `Spec => []QualityPassNarrow` |
| `DispatchProofs!SelectionIsBounded` | `Spec => []SelectionBounded` |
| `DispatchProofs!EarlyIsFinal` | `Spec => []EarlySelectionStands` |
| `ModelRegistryProofs!TypeCorrect` | `Spec => []TypeOK` |
| `ModelRegistryProofs!ModelsStay` | `Spec => []ModelStays` |
| `ModelRegistryProofs!ResidentsReclaimable` | `Spec => []ResidentReclaimable` |
| `ModelRegistryProofs!CountRight` | `Spec => []SessionCountRight` |
| `ModelRegistryProofs!ContextRight` | `Spec => []ContextIsPrompt` |
| `BreakerProofs!TypeCorrect` | `Spec => []TypeOK` |
| `BreakerProofs!BreakerMatchesHistory` | `Spec => []MatchesHistory` |
| `BreakerProofs!WindowRight` | `Spec => []WindowMatchesHistory` |
| `BreakerProofs!ServerReturns` | `Spec => []BackInService` |
| `RequestsProofs!CacheStaysWhole` | `Spec => []CacheShape` |
| `RequestsProofs!CacheIsBounded` | `Spec => ImplementsBoundedCache`: the cache implements `BoundedCache` |
| `RequestsProofs!AnswersFit` | `Spec => []AnswerIsForThePrompt` |
| `RequestsProofs!NobodyOverpays` | `Spec => []LedgerNotOver` |
| `RequestsProofs!ContextsEnd` | `Spec => []ContextIsLive` |
| `RequestsProofs!HistoriesHaveTheTurn` | `Spec => []HistoryHasTheTurn` |
| `RequestsProofs!TypeCorrect` | `Spec => []TypeOK` |
| `RequestsProofs!AloneIsOwn` | `Spec => []AloneIsRoutedByItsMode` |

*PortGate.* `SlotsCounted` is not inductive: `count - 1` is a natural number
only because the leaver is one of `Holders`, and the equation must also hold
when there is no limit, where nobody holds. `GateInv` adds both, and that a
waiter is always gated. Steps are sorted by what they do to the two groups
`Holders` and `SlotWaiters` (enter, leave, neither: `HoldersMove`, `Within`,
`QuietStep`). `SleepersDoNotFit` is inductive beside the types; it needs no
ledger, so it holds also when tokens leak. The refinement shows each
step to be a request, a grant, a return or a stutter of the abstract semaphore.

The ledger is a sum over threads, and what one thread adds to a sum is where
induction over data would be needed. It is avoided by counting: `Units` has one
element per reserved token, and `TokenSumIsUnits` shows the sum to be their
number, so that a thread adds and takes away a finite set. The code reserves an
estimate and gives back the usage the server reports, stopping at 0, and gives
back nothing when a body throws. `LedgerInv` therefore has two inequalities in
place of an equation, and that nothing is admitted past the budget; each step
of the ledger stays, takes an estimate or gives some number back
(`LedgerMoves`, `Takes`, `Gives`). `FreeSlotNoticed` is not
inductive: the thread that takes a slot may leave a second one free.
`AwakeEnough` counts: at least as many threads wait awake as slots are free,
unless a thread waits for tokens that do not suffice (`TokenWaiters`). A
`notify_one` either wakes a slot's waiter or, by `SleepersDoNotFit`, one of
those; and they stay until tokens come back, which wakes everybody
(`TokenWaitersStay`). By `LedgerInv` such a thread waits for tokens that
somebody holds, unless they leaked or its estimate exceeds the budget.

*ConfigStore.* `StoreInv` describes an edit on its way: in memory from the
moment the handler changes it (`EditHeld`), in the document of the writer that
has read it, in the file written, and in the file that writer has still to write
(`OnItsWay`). A redeploy's rows are anybody's guess, so of the rows it promises
less: `Kept` leaves out what the redeploys lacked, `SourceKept` has the whole of
it for the source file, which no redeploy writes, and `RowsInSync` compares the
rows of the deployed agents, in the source file only until a redeploy.
`Placed` says where a request can stand and that whoever is at the files holds
`modes_config_mutex`. Its other parts are grouped by the condition
under which they hold, one for each property: no overlap of writers that share no
lock (`Alone`), no failing open or write either (`Kept`), failures but no
redeploy (`ActiveKept`), and no crash yet (`InSync`, `RowsInSync`). The last
accounts for each way a file may differ from the memory: a file is torn only
under the writer that has it open, and behind only when an edit of modes at the
files (`BehindModes`), or an edit of presets anywhere between its change of the
memory and this file (`BehindPresets`), has it still to write. An edit of presets
changes memory before it waits for the lock, so while one waits (`LockWaited`)
another writer's document may be behind too.

*Dispatch.* `RunInv` has a part for each thing a mode keeps. `StartInv` and
`ModeInv`: nothing is called before the mode runs, and places in the handler
belong to modes. `AgentsInv`: outside the pipeline the roster repeats nobody.
`ListedInv`, an invariant beside it: once the second read is done, the agents
taking part in a cascade or a pipeline are those listed, deployed and not
dropped, and the supervisor's reordering changes nothing in that. `CallsInv`: one
call per member, a reducer is the last call, a classifier the first, and in a
sequential mode only the last call can be running. `BroadcastInv`, `PipelineInv`
and `RouterInv` say who has been asked at each place, as a relation to who is
still to be asked: the stages asked and those left are the resolved order; the
agents asked are the ones picked, at most `Cap`. `TextsInv` are the properties
about texts quoted; they rest on `prev` being the last good call, which is in
`PipelineInv`. `StreamInv` is about the launch from the classifier's stream: it
happens when the SELECTED line is complete, and a complete line stays what it is
while the text grows (`PlaceIs`, `PlaceStays`, `AfterIs`, `LineStands`,
`InlineIs`). The three launches, from the stream, at its end and the
fallback, are one lemma (`Launched`). Lists are dealt with in `ModeCallsProofs`:
`AtPlacesIs` says what the elements at some places are and that they are
distinct when the places' are, by counting ranks in finite sets; `OnlyIs`,
`DistinctIs`, `WithoutIs` follow. For the refinement `PromiseIs` reduces the
abstract specification to a statement about calls (`PromiseStep`), and each
action is one of four kinds: it asks (`RunAsks`), starts the reducer
(`RunReduces`), closes (`RunCloses`) or does neither (`RunWaits`).

*ModelRegistry.* None of the four properties is inductive. `RegistryInv` adds:
`LaneInv` (who is in the lane holds it); `ResidentInv` (in the middle of an
eviction a path is out of memory before its entries go; in the middle of a call
a model without an entry is the caller's); `CountInv` (the count at all times);
`CacheInv` (every cache that no raise has cut short holds the tokens of the
prompt it is filed with, and a running stream's session is filed with the
stream's own prompt). `CacheInv` rests on lemmas about sequences: the trimmed
cache agrees with the common prefix (`CommonPrefixAgrees`, `ReusedAgrees`),
feeding the rest gives the prompt (`FedHolds`), trimming the generated tokens restores it
(`TrimmedHolds`). What a raise leaves is filed in a session of `partial`, and
of those only the types are known (`ReusedType`, `FiledCache`). `ModelStays` is
one part of `ResidentInv` and `LaneInv`.

*Breaker.* `MatchesHistory` speaks of the whole log, the code of a window that
reads and records cut at different times. `WindowInv` connects them: the window
is a suffix of the failures since the last success, and contains every one of
them that a later failure can still count. Pruning keeps that
(`PrunedIsSuffix`, `PrunedWindow`), so a failure trips the breaker exactly when
the log's definition says (`FailureCounts`, `SuccessForgets`, `SnapshotKeeps`).
`ServerReturns` rests on `ServiceInv`: a "not ready" that is remembered, found
or about to be reported is from before the server came back, and its age is at
most a TTL and a tick; what was reported is at most a tick older.

*Requests.* Every invariant is proved over `ShapeInv` (requests and calls are
records; only a request at its gate or in its phases has calls) by the same two
lemmas, `JobMoves` and `CallMoves`, which say what a step may do to a call
(`CallRule`). `CacheInv`: the list lists the keys of the map without
repetition, at most as many as the limit. `AnswerInv`: what the map holds for a
question was said about it, and so is what a call is about to store; that no
edit or clear can break this is the point of the key. `LedgerInv`: a thread
works for its request's session or for none, and for none when idle, on the MLX
routes and before a stream has entered. `ContextInv`: whoever set the context
and recorded decisions still runs, on one of the routes that clear them.
`HearsInv` and `HistoryInv`: only streams whose request has recorded its turn
read or write a history, except the requests in `silent`, whose stream had no
MLX agent left to ask when it entered and so recorded none; a turn stays until
its session is erased, which enters the request in `wiped`; and turns only grow
at the end (`TurnsExtended`, `TurnsErased`). `AloneInv` follows a request that
nobody overlaps: while it dispatches the context is set, the only dispatch that can have set it is itself
(`ContextInv`), so every look a call takes at it finds the request's own mode;
`alone` becomes FALSE as soon as another request arrives. `TypeOK` adds the
places (`PlacesInv`), the context (`RouterInv`) and the roster (`RosterInv`) to
what the other invariants say.

Only model-checked: liveness (`EveryCallEnds`, `Replies`, and the fairness that
`ImplementsSlots` has beyond `Slots!Safety`), which is out of the prover's
reach. Every invariant that a passing run checks is a theorem.

## Where code and documents disagree

Five runs exhibit a disagreement; the quoted lines are under "findings".

1. `budget_short_usage`: tokens are reserved by estimate and released by the
   usage the server reports. When that is lower the difference stays reserved
   for ever, and when the body of an answer throws while it is read nothing is
   released; a caller that fits then waits without end.
2. `config_prompt_lost`: a prompt edit answered "persisted" is lost when a mode
   edit read the files before it.
3. `flat_roster`: flat asks only the agents of its roster, though the documents
   say that it ignores the roster and asks everybody.
4. `mlx_cache_shared`: agents on different models share the prompt cache of
   their session.
5. `tokens_uncharged`: calls on threads of their own, which is all of a flat
   dispatch, are charged to no session; its budget is never used up.

Others, without a run. The models have the first three, and the properties of
the passing runs name them as their exceptions:

- *A redeploy's rows* (`ConfigStore`, `acked` and `leftOut`): the proxy takes the
  agents from the body of its request (`proxy_configure_ports_write.cpp:30,49`),
  so a page loaded before a prompt edit that was answered "persisted" puts the
  old prompt back in the active file and the restarted coordinator, though
  nothing overlapped the edit and the source file has it (`CAPABILITIES.md:308`:
  "immediate + durable").
- *A generator that raises* (`ModelRegistry`, `partial`): the cache is filed with
  the whole prompt before a token is fed and holds a part of it when the loop
  ends early (`model_registry_prompt_cache_codegen.cpp:84`,
  `model_registry_embed.cpp:203-220`); the next stream of the session reads a
  context with tokens missing, where line 222 promises "exactly the prompt KV".
- *A stream without a user turn* (`Requests`, `silent`): with routing on, an agent
  whose engine is llama is streamed from its MLX server although no agent with
  engine mlx is left in the roster (`coordinator_routes_architect_stream.cpp:131`);
  the user's turn is not recorded, and the prompt of the session's next request
  reaches no model (`agent_stream_llama.h:118`: the "caller appends user message
  before calling").
- *Port gate*: a port keeps the limits of its first agent, `agent.h:35-37` reads
  as if each agent had its own; llama streams take no slot
  (`agent_stream_llama.h:26`); usage above the estimate lets the budget be
  exceeded (`agent_client_http.cpp:99`, `agent.h:47`).
- *Breaker*: the late success of a call admitted before the trip closes the
  breaker at once (`agent_health.cpp:17`; `CAPABILITIES.md:235` describes a
  cooldown). A cached "not ready" is recorded as another failure by every
  dispatch for 30 seconds: three dispatches and one slow second of a server
  trip its breaker.
- *Shared state*: a dispatch of the flat mode beside a sequential one has its
  calls routed by the other's context (`docs/BACKEND_ROUTING.md:18`: "flat
  broadcast unchanged"), and the other's end clears the context between the two
  looks of `resolve` (`backend_router.cpp:154-156`), which then dereferences
  null; in `Requests` this is the step that sets `up` to FALSE, and why
  `AloneIsRoutedByItsMode` is stated for requests that are alone. The decision
  of the gate's summariser stays after a 429 until the next dispatch ends. The
  gate takes a failed summariser's error message as the prompt
  (`context_gate.h:68`).
- *Files of sessions and history*: rewritten in place (`session_store.cpp:47`),
  and one that cannot be parsed is loaded as empty; `session_new_id` counts
  without a lock (`session_store.cpp:29`). A prompt is assigned without the
  mutex the roster is copied under (`coordinator_routes_agents_meta.cpp:32`).
- *Config*: `swarm_config_store_write.h:2` speaks of atomic writes, line 31
  truncates in place and the result is never looked at; a torn source file is
  never repaired; edits answered between the proxy's rewrite of the active file
  and its kill are lost to the new coordinator
  (`proxy_configure_ports_write.cpp:22`; `CAPABILITIES.md:307`); applying a
  preset leaves the old `order` in place (`coordinator_routes_presets_impl.h:48`); the
  active mode is not persisted (`USER_MANUAL.md:70`).
- *Modes*: a stage that an order or roster repeats runs once
  (`pipeline_order.cpp:58`; `CAPABILITIES.md:62-63` allows duplicates, and two
  presets use them); an explicit order may contain the synthesizer, which then
  runs twice (`CAPABILITIES.md:39-41`); the substitution by tag in `pipeline_order.cpp:64`
  never applies; a quality pass
  whose target is no stage makes the fallback ask the first agent; a pipeline's
  synthesizer reads failed stages' error texts, and its own error text becomes
  the final; `USER_MANUAL.md:134` calls the last stage's output final where the
  code takes the last *good* one; under the router a single reachable agent is
  the classifier and nobody answers; a `SELECTED` line that names no allowed
  agent launches by whatever the text mentioned until then.
- *Handler*: an exception while the envelope is stamped leaves the dispatch
  context set; the contract ledger is read but nothing records into it.
- *MLX*: the session cap of `mlx_session_store.h:5` is enforced by a function
  nobody calls; in a session an agent's history replaces its prompt, so a
  synthesizer's prompt is not sent; clearing a session in mid-run recreates it
  without the user's message; `model_registry.cpp:26-27` describes entries with
  generations as loaded, which a failed load or the eviction of the other
  quantization contradicts; an eviction may drop a model that was used since it
  was chosen (`ResidentReclaimable` shows that it is not forgotten by it).

## What is not modelled

Prompt texts, token counts beyond the budget's arithmetic, HTTP details, the
wording of replies, logs and metrics. RAG, KV-slot heuristics, prompt budgets
and trajectories do not feed back into the modelled control. In modelled
components: the HTTP connection pool; the remote config service and the
roster's modification-time cache; tiered reduction (off by default); the
continuation of a session and the sessions and history files; the probe
averages behind `resolve`, whose choice is free; an exception between the
envelope's stamp and the handler's exit (`coordinator_routes_dispatch.cpp:199`),
which would leave the context set; MLX caches that cannot be trimmed,
exceptions of the callback that passes a token on, and failures to start the
interpreter. Most lines of the source tree are the
vendored `json.hpp` and `httplib.h`, which are not modelled either.

## Plan

Order of the modules, the first eight being there:

1. `PortGate` with `SlotSemaphore`: every call passes it.
2. `Breaker`, with the readiness cache. 3. `ConfigStore`. 4. The modes with
`SwarmRun`. 5. `Dispatch`. 6. `ModelRegistry`. 7. `ResponseCache` with
`BoundedCache`, `DispatchState`, `MlxSessions`. 8. `Requests` over these.
9. `ConfigStore` with the roster's cache and the remote service; the sessions
   and history files; the proxy's deployment as far as it is control.

Every invariant of the passing runs is proved, and so are the three refinements
but for fairness. Theorems next: the readiness cache shared by several agents of
a port, and the invariants of the modules of item 9.
