------------------------------ MODULE Requests ------------------------------
(* The requests of one coordinator and what they share: the response cache,   *)
(* the dispatch context, the token ledger, the MLX sessions, the prompts of   *)
(* the agents. Four routes dispatch a prompt:                                 *)
(*   architect  POST /api/architect        coordinator_routes_dispatch.cpp    *)
(*   stream     POST /api/architect/stream coordinator_routes_architect_stream*)
(*   mlx        POST /api/mlx/stream       coordinator_routes_mlx.cpp         *)
(*   submit     POST /api/mlx/submit       coordinator_routes_mlx.cpp         *)
(* each on a server thread, with calls on that thread or on threads of their  *)
(* own (agent_client.cpp, agent_stream*.{h,cpp}). What a mode does with the   *)
(* answers is in Dispatch; here a mode is the phases in which it calls agents. *)
(* One step is one critical section, or the part of the code between two.     *)
EXTENDS ResponseCache, DispatchState, MlxSessions

CONSTANTS
    Engine,        \* [agent -> the backend its engine field names]
    Supports,      \* [agent -> backends inference_backend::supports says it has]
    Users,         \* user prompts
    PromptEdits,   \* bound: how often agents' prompts are edited
    Setups         \* configurations: see TypeOfSetup

Backends == {"llama", "mlx"}
AdminOps == {"edit", "toggle", "resize", "flush", "reset", "wipe", "time"}

\* What the operator configures, what clients send, and which requests of the
\* administration interface come in between.
TypeOfSetup ==
    [routing: BOOLEAN,        \* backend routing is enabled
     budget: Nat,             \* token budget of a session, 0 for none
     reject: BOOLEAN,         \* reject_on_overrun
     gate: BOOLEAN,           \* the prompt may be summarised before the dispatch
     cached: BOOLEAN, ttl: Ttls, size: CacheSizes,  \* the response cache at the start
     agents: SUBSET Agents,   \* the roster
     routes: SUBSET Routes, modes: SUBSET Modes,
     sessions: SUBSET Sessions, users: SUBSET Users,
     ops: SUBSET AdminOps,
     threads: Nat,            \* threads of the server's pool
     requests: Nat]           \* bound: how many requests come in

ASSUME RequestsAssumption ==
    /\ Engine \in [Agents -> Backends] /\ Supports \in [Agents -> SUBSET Backends]
    /\ \A a \in Agents : Engine[a] \in Supports[a]
    /\ Setups \subseteq TypeOfSetup
    /\ PromptEdits \in Nat

VARIABLES
    setup,     \* the configuration, one of Setups
    up,        \* FALSE once the process has crashed
    prompts,   \* st.agents: [agent -> version of its system prompt]
    editors,   \* edits of a prompt that have yet to clear the cache
    arrivals,  \* requests so far; a request is known by its number
    job,       \* [server thread -> the request it handles]
    call,      \* [server thread -> [agent -> its call for that request]]
    spent,     \* history: [session -> answered calls made for it]
    wiped,     \* history: requests whose session was erased under them
    silent     \* history: streams that recorded no user turn

handlers == <<setup, up, prompts, editors, arrivals, job, call, spent, wiped, silent>>
vars == <<cache, dispatchState, mlxSessions, handlers>>

-----------------------------------------------------------------------------
(* Requests, phases and calls                                                 *)

NoJob == [id |-> 0, route |-> "architect", mode |-> "flat", session |-> NoSession,
          prompt |-> <<>>, versions |-> [a \in Agents |-> 0], roster |-> {},
          at |-> "idle", phase |-> 0, alone |-> TRUE]

NoCall == [pc |-> "off", stream |-> FALSE, worker |-> FALSE, hears |-> FALSE,
           ask |-> <<>>, routed |-> FALSE, backend |-> "llama",
           text |-> <<>>, heard |-> "nothing"]

\* Texts: what a user typed, what an agent said when it was asked, and the
\* message that stands for the answer of an agent that did not respond.
Typed(user) == <<"typed", user>>
Said(ask) == <<"said", ask>>
Failed == <<"failed">>

\* A phase of a mode calls several agents on threads of their own, or one on
\* the thread of the request. It calls (call_agent: cache, retries) or streams;
\* it gives the stream the session or not; its prompt quotes the phase before
\* or not; it has a system prompt of its own (a classifier's) or the agent's.
Phase(how, worker, hears, quotes, system) ==
    [stream |-> how = "stream", worker |-> worker, hears |-> hears,
     quotes |-> quotes, system |-> system]

CallAll        == Phase("call", TRUE, FALSE, FALSE, "own")
CallNext       == Phase("call", FALSE, FALSE, TRUE, "own")
CallClassifier == Phase("call", FALSE, FALSE, FALSE, "classify")
StreamAll      == Phase("stream", TRUE, TRUE, FALSE, "own")
StreamNext     == Phase("stream", FALSE, TRUE, TRUE, "own")
StreamReducer  == Phase("stream", FALSE, FALSE, TRUE, "own")
Classify       == Phase("stream", FALSE, FALSE, FALSE, "classify")
Summarise      == Phase("call", FALSE, FALSE, FALSE, "summarise")

\* The MLX routes serve the MLX agents of the roster only.
Roster(route) == IF route \in MlxRoutes THEN {a \in setup.agents : Engine[a] = "mlx"}
                                        ELSE setup.agents

\* The phases of a mode on a route, in order. An architect's pipeline is cut to
\* two stages; the MLX route's takes every agent.
ArchitectPhases(mode) ==
    CASE mode = "flat"     -> <<CallAll>>
      [] mode = "cascade"  -> <<CallAll, CallNext>>
      [] mode = "pipeline" -> <<CallNext, CallNext>>
      [] mode = "router"   -> <<Classify, CallAll>>

StreamPhases(mode) ==
    CASE mode = "flat"     -> <<StreamAll>>
      [] mode = "cascade"  -> <<StreamAll, StreamReducer>>
      [] mode = "pipeline" -> <<StreamNext, StreamNext, StreamReducer>>
      [] mode = "router"   -> <<CallClassifier, StreamAll>>

MlxPhases(mode) ==
    LET n == Cardinality(Roster("mlx"))
    IN  IF mode = "pipeline" THEN [i \in 1 .. n |-> StreamNext]
        ELSE IF mode = "cascade" /\ n > 1 THEN <<StreamAll, StreamNext>>
        ELSE <<StreamAll>>

PhasesOf(t) == CASE job[t].route = "architect" -> ArchitectPhases(job[t].mode)
                 [] job[t].route = "stream"    -> StreamPhases(job[t].mode)
                 [] job[t].route = "mlx"       -> MlxPhases(job[t].mode)
                 [] job[t].route = "submit"    -> <<CallAll>>

Running(t) == job[t].at # "idle"
Joined(t) == \A a \in Agents : call[t][a].pc \in {"off", "done"}
AtStep(t, label) == up /\ job[t].at = label
Goto(t, label) == job' = [job EXCEPT ![t].at = label]
Dropped(t) == /\ job' = [job EXCEPT ![t] = NoJob]
              /\ call' = [call EXCEPT ![t] = [a \in Agents |-> NoCall]]

\* What an agent is asked: under which system prompt, with which prompt. It is
\* what make_key hashes (the hash is taken to be injective).
Ask(t, a, p, quoted) ==
    [agent |-> a,
     system |-> IF p.system = "own" THEN <<"own", job[t].versions[a]>> ELSE <<p.system, 0>>,
     prompt |-> job[t].prompt,
     quoted |-> IF p.quotes THEN quoted ELSE {}]

NewCall(t, a, p, quoted) ==
    [NoCall EXCEPT !.pc = "start", !.stream = p.stream, !.worker = p.worker,
                   !.hears = p.hears, !.ask = Ask(t, a, p, quoted)]

\* The agents S are asked; calls that are over are collected.
CallThem(t, S, p, quoted) ==
    call' = [call EXCEPT ![t] = [a \in Agents |->
               IF a \in S THEN NewCall(t, a, p, quoted)
               ELSE IF call[t][a].pc = "done" THEN NoCall ELSE call[t][a]]]

Init ==
    /\ setup \in Setups
    /\ InitCache(setup.cached, setup.ttl, setup.size)
    /\ InitDispatchState(setup.routing)
    /\ InitMlxSessions
    /\ up = TRUE
    /\ prompts = [a \in Agents |-> 0] /\ editors = 0 /\ arrivals = 0
    /\ job = [t \in Threads |-> NoJob]
    /\ call = [t \in Threads |-> [a \in Agents |-> NoCall]]
    /\ spent = [s \in Sessions |-> 0] /\ wiped = {} /\ silent = {}

-----------------------------------------------------------------------------
(* A request comes in                                                         *)

NewJob(t, route, mode, s, user) ==
    [NoJob EXCEPT !.id = arrivals + 1, !.route = route, !.mode = mode,
                  !.session = s, !.prompt = Typed(user), !.versions = prompts,
                  !.roster = Roster(route),
                  !.at = IF route \in MlxRoutes THEN "sweep" ELSE "parsed",
                  !.alone = \A x \in Threads \ {t} : ~Running(x)]
Accompanied(t) == [job[t] EXCEPT !.alone = FALSE]

\* The handler parses the request, reads the active mode and copies the roster.
\* The architect route names the thread's session first of all.
Arrive(t) ==
    /\ AtStep(t, "idle") /\ arrivals < setup.requests
    /\ Cardinality({x \in Threads : Running(x)}) < setup.threads
    /\ \E route \in setup.routes, mode \in setup.modes,
          s \in setup.sessions, user \in setup.users :
         /\ route \in MlxRoutes => mode # "router"
         /\ Roster(route) # {}
         /\ job' = [x \in Threads |-> IF x = t THEN NewJob(t, route, mode, s, user)
                                     ELSE IF Running(x) THEN Accompanied(x) ELSE job[x]]
         /\ IF route = "architect" THEN SetSession(t, s) ELSE UNCHANGED tl
    /\ arrivals' = arrivals + 1
    /\ UNCHANGED <<cache, routing, ctx, decisions, ledger, mlxSessions,
                   setup, up, prompts, editors, call, spent, wiped, silent>>

\* context_gate::maybe_summarise: an agent shortens the prompt of an architect
\* request.
Gate(t) ==
    /\ AtStep(t, "parsed") /\ job[t].route = "architect" /\ setup.gate
    /\ \E a \in setup.agents : CallThem(t, {a}, Summarise, {})
    /\ Goto(t, "gated")
    /\ UNCHANGED <<cache, dispatchState, mlxSessions,
                   setup, up, prompts, editors, arrivals, spent, wiped, silent>>

\* What the agent said is the prompt from here on, its error message too.
Gated(t) ==
    /\ AtStep(t, "gated") /\ Joined(t)
    /\ \E a \in Agents :
         /\ call[t][a].pc = "done"
         /\ job' = [job EXCEPT ![t].at = "admit", ![t].prompt = call[t][a].text]
    /\ CallThem(t, {}, Summarise, {})
    /\ UNCHANGED <<cache, dispatchState, mlxSessions,
                   setup, up, prompts, editors, arrivals, spent, wiped, silent>>

\* set_budget, and what the check of the budget then finds. (A step between the
\* two has the effect it has before or after them.)
Admission(t) == up /\ job[t].at \in {"parsed", "admit"}
Refused(t) == LET s == job[t].session
              IN  setup.reject /\ ledger'[s].budget > 0
                               /\ ledger'[s].consumed >= ledger'[s].budget

\* Mutant: the thread keeps its session.
RejectKeepsSession(t) ==
    /\ Admission(t)
    /\ SetBudget(job[t].session, setup.budget) /\ Refused(t)
    /\ Dropped(t)
    /\ UNCHANGED <<cache, routing, ctx, decisions, tl, mlxSessions,
                   setup, up, prompts, editors, arrivals, spent, wiped, silent>>

\* The answer 429. A stream has not named its thread's session yet.
Reject(t) ==
    /\ Admission(t)
    /\ SetBudget(job[t].session, setup.budget) /\ Refused(t)
    /\ IF job[t].route = "architect" THEN ClearSession(t) ELSE UNCHANGED tl
    /\ Dropped(t)
    /\ UNCHANGED <<cache, routing, ctx, decisions, mlxSessions,
                   setup, up, prompts, editors, arrivals, spent, wiped, silent>>

HasMlx(S) == \E a \in S : Engine[a] = "mlx"
EnterAt(t, label, S) == job' = [job EXCEPT ![t].at = label, ![t].roster = S]

\* The handler copies the roster, with its prompts, and sets the context. Agents
\* that the mode does not list or whose breaker is open are left out. For a
\* stream this was done before, and here begins the content provider, on the
\* same thread. Its user turn is recorded if an MLX agent is left.
Enter(t) ==
    /\ Admission(t)
    /\ SetBudget(job[t].session, setup.budget) /\ ~Refused(t)
    /\ SetContext(job[t].mode, job[t].id)
    /\ \E S \in SUBSET setup.agents :
         \/ /\ job[t].route = "architect"
            /\ job' = [job EXCEPT ![t].at = "run", ![t].versions = prompts, ![t].roster = S]
            /\ UNCHANGED <<tl, silent>>
         \/ /\ job[t].route = "stream"
            /\ SetSession(t, job[t].session)
            /\ IF HasMlx(S) THEN EnterAt(t, "sweep", S) /\ UNCHANGED silent
                            ELSE EnterAt(t, "run", S) /\ silent' = silent \cup {job[t].id}
    /\ UNCHANGED <<cache, routing, decisions, mlxSessions,
                   setup, up, prompts, editors, arrivals, call, spent, wiped>>

-----------------------------------------------------------------------------
(* The MLX session of a stream                                                *)

\* The requests under way whose own turn is in one of the sessions S.
Seeded(S) == {job[t].id : t \in {x \in Threads : /\ job[x].session \in S
                                                /\ job[x].at = "run"
                                                /\ job[x].route # "architect"}}

\* cleanup_idle
Sweep(t) ==
    /\ AtStep(t, "sweep")
    /\ Erase(idle) /\ wiped' = wiped \cup Seeded(idle)
    /\ Goto(t, "seed")
    /\ UNCHANGED <<cache, dispatchState,
                   setup, up, prompts, editors, arrivals, call, spent, silent>>

\* Mutant: the user turn is recorded only if the session has turns already.
SeedKnown(t) ==
    /\ AtStep(t, "seed")
    /\ IF turns[job[t].session] # <<>>
         THEN AppendTurn(job[t].session, "user", job[t].id)
         ELSE UNCHANGED mlxSessions
    /\ Goto(t, "run")
    /\ UNCHANGED <<cache, dispatchState,
                   setup, up, prompts, editors, arrivals, call, spent, wiped, silent>>

\* The user turn, once, before any agent is called.
Seed(t) ==
    /\ AtStep(t, "seed")
    /\ AppendTurn(job[t].session, "user", job[t].id)
    /\ Goto(t, "run")
    /\ UNCHANGED <<cache, dispatchState,
                   setup, up, prompts, editors, arrivals, call, spent, wiped, silent>>

-----------------------------------------------------------------------------
(* Phases                                                                     *)

\* The router's classifier is still streaming: agents are launched from its
\* callback.
Classifying(t, a) == /\ job[t].route = "architect" /\ job[t].mode = "router"
                     /\ job[t].phase = 1 /\ call[t][a].pc = "serve"

\* The next phase calls its agents; those that a selection or the part of
\* synthesizer excludes are not among them. The MLX routes exclude none but the
\* synthesizer of a cascade.
Launch(t) ==
    /\ AtStep(t, "run") /\ job[t].phase < Len(PhasesOf(t))
    /\ LET p == PhasesOf(t)[job[t].phase + 1]
           over == {a \in Agents : call[t][a].pc = "done"}
           busy == {a \in Agents : call[t][a].pc # "off"} \ over
       IN /\ \A a \in busy : Classifying(t, a)
          /\ \E S \in SUBSET (job[t].roster \ busy) :
               /\ S # {} /\ (~p.worker => Cardinality(S) = 1)
               /\ (p.worker /\ job[t].route \in MlxRoutes) =>
                    Cardinality(Roster("mlx") \ S) = Len(PhasesOf(t)) - 1
               /\ CallThem(t, S, p, {call[t][a].text : a \in over})
    /\ job' = [job EXCEPT ![t].phase = @ + 1]
    /\ UNCHANGED <<cache, dispatchState, mlxSessions,
                   setup, up, prompts, editors, arrivals, spent, wiped, silent>>

\* A dispatch ends: after its last phase, after an earlier one when there is
\* nobody for the next, or when the mode throws, whose futures are joined on
\* the way. Context, decisions and session are cleared on each of these ways.
Leave(t) ==
    /\ AtStep(t, "run") /\ job[t].route \in {"architect", "stream"} /\ Joined(t)
    /\ ClearContext /\ ClearSession(t) /\ Dropped(t)
    /\ UNCHANGED <<cache, routing, ledger, mlxSessions,
                   setup, up, prompts, editors, arrivals, spent, wiped, silent>>

\* The MLX routes have set neither context nor session. A submitted prompt's
\* answers, put together, are one turn.
LeaveMlx(t) ==
    /\ AtStep(t, "run") /\ job[t].route \in MlxRoutes /\ Joined(t)
    /\ job[t].phase = Len(PhasesOf(t))
    /\ IF job[t].route = "submit"
         THEN AppendTurn(job[t].session, "assistant", job[t].id)
         ELSE UNCHANGED mlxSessions
    /\ Dropped(t)
    /\ UNCHANGED <<cache, dispatchState,
                   setup, up, prompts, editors, arrivals, spent, wiped, silent>>

-----------------------------------------------------------------------------
(* A call: call_agent_impl and stream_agent                                   *)

CallAt(t, a, label) == up /\ call[t][a].pc = label
Step(t, a, label) == call' = [call EXCEPT ![t][a].pc = label]
unseen == <<mlxSessions, setup, up, prompts, editors, arrivals, job, spent, wiped, silent>>

\* The MLX routes hold the mutex of the agent's port from before the call until
\* after it. (Each agent has a port of its own here.)
PortFree(t, a) == job[t].route \in MlxRoutes =>
    \A x \in Threads \ {t} : job[x].route \in MlxRoutes =>
        call[x][a].pc \in {"off", "start", "done"}

\* Mutant: the key leaves the system prompt out.
PromptKey(ask) == [ask EXCEPT !.system = <<"own", 0>>]

\* make_key
Key(ask) == ask

Lookup(t, a) ==
    /\ CallAt(t, a, "start") /\ ~call[t][a].stream /\ PortFree(t, a)
    /\ LET k == Key(call[t][a].ask)
       IN \/ /\ LookupHit(k)
             /\ call' = [call EXCEPT ![t][a].pc = "done", ![t][a].text = map[k].response]
          \/ /\ LookupMiss(k)
             /\ Step(t, a, "route")
    /\ UNCHANGED <<dispatchState, unseen>>

\* What follows when the backend is known.
Onwards(c, backend) ==
    IF c.stream /\ c.hears /\ backend = "mlx" THEN "hear" ELSE "serve"

\* resolve asks should_route. When it says no, the engine of the agent decides.
\* With routing disabled nothing that follows asks for the context.
Route(t, a) ==
    /\ \/ CallAt(t, a, "route")
       \/ CallAt(t, a, "start") /\ call[t][a].stream /\ PortFree(t, a)
    /\ IF ShouldRoute
         THEN Step(t, a, "resolve")
         ELSE call' = [call EXCEPT ![t][a].backend = Engine[a],
                         ![t][a].pc = IF routing THEN "note" ELSE Onwards(call[t][a], Engine[a])]
    /\ UNCHANGED <<cache, dispatchState, unseen>>

\* It said yes: resolve takes the context again, and uses it without looking
\* whether there still is one. What it picks depends on tags, pressure and
\* measured latencies.
Resolve(t, a) ==
    /\ CallAt(t, a, "resolve")
    /\ IF ctx.set
         THEN /\ \E b \in Supports[a] :
                   call' = [call EXCEPT ![t][a].pc = "note", ![t][a].backend = b,
                                        ![t][a].routed = TRUE]
              /\ UNCHANGED up
         ELSE up' = FALSE /\ UNCHANGED call
    /\ UNCHANGED <<cache, dispatchState, mlxSessions,
                   setup, prompts, editors, arrivals, job, spent, wiped, silent>>

\* should_route, asked again: is the decision to be recorded?
Note(t, a) ==
    /\ CallAt(t, a, "note")
    /\ Step(t, a, IF ShouldRoute THEN "record" ELSE Onwards(call[t][a], call[t][a].backend))
    /\ UNCHANGED <<cache, dispatchState, unseen>>

\* Where a call comes from.
Origin(t) == IF job[t].at = "gated" THEN "gate" ELSE job[t].route

Record(t, a) ==
    /\ CallAt(t, a, "record")
    /\ RecordDecision(a, job[t].id, Origin(t))
    /\ Step(t, a, Onwards(call[t][a], call[t][a].backend))
    /\ UNCHANGED <<cache, routing, ctx, ledger, tl, unseen>>

\* stream_mlx puts the session's history in the place of the prompt.
Hear(t, a) ==
    /\ CallAt(t, a, "hear")
    /\ call' = [call EXCEPT ![t][a].pc = "serve",
                            ![t][a].heard = Heard(job[t].session, job[t].id)]
    /\ UNCHANGED <<cache, dispatchState, unseen>>

\* An answered call is charged to the session of the thread that made it.
Charged(t, a) ==
    /\ Charge(IF call[t][a].worker THEN NoSession ELSE tl[t])
    /\ spent' = [spent EXCEPT ![job[t].session] = @ + 1]

\* Where an answered call goes on: an answer is stored, a stream from an MLX
\* server is a turn of the session.
Kept(c) == IF ~c.stream THEN "store"
           ELSE IF c.hears /\ c.backend = "mlx" THEN "turn" ELSE "done"

Answered(t, a) ==
    /\ CallAt(t, a, "serve")
    /\ Charged(t, a)
    /\ call' = [call EXCEPT ![t][a].pc = Kept(call[t][a]), ![t][a].text = Said(call[t][a].ask)]
    /\ UNCHANGED <<cache, routing, ctx, decisions, tl, mlxSessions,
                   setup, up, prompts, editors, arrivals, job, wiped, silent>>

\* No answer, and no more attempts; or the other backend is tried, if
\* should_route still says so. An attempt repeated on the same backend changes
\* nothing.
Unanswered(t, a) ==
    /\ CallAt(t, a, "serve")
    /\ \/ call' = [call EXCEPT ![t][a].pc = "done", ![t][a].text = Failed]
       \/ /\ ~call[t][a].stream /\ ShouldRoute /\ Backends \subseteq Supports[a]
          /\ Step(t, a, "other")
    /\ UNCHANGED <<cache, dispatchState, unseen>>

\* The attempt on the other backend: answered, refused for good, or failed like
\* the first one. The first two are recorded as the decision.
OtherAnswered(t, a) ==
    /\ CallAt(t, a, "other")
    /\ Charged(t, a) /\ RecordDecision(a, job[t].id, Origin(t))
    /\ call' = [call EXCEPT ![t][a].pc = "store", ![t][a].text = Said(call[t][a].ask)]
    /\ UNCHANGED <<cache, routing, ctx, tl, mlxSessions,
                   setup, up, prompts, editors, arrivals, job, wiped, silent>>

OtherUnanswered(t, a) ==
    /\ CallAt(t, a, "other")
    /\ \/ /\ RecordDecision(a, job[t].id, Origin(t))
          /\ call' = [call EXCEPT ![t][a].pc = "done", ![t][a].text = Failed]
       \/ UNCHANGED decisions /\ Step(t, a, "serve")
    /\ UNCHANGED <<cache, routing, ctx, ledger, tl, unseen>>

StoreAnswer(t, a) ==
    /\ CallAt(t, a, "store")
    /\ Store(Key(call[t][a].ask), call[t][a].text)
    /\ Step(t, a, "done")
    /\ UNCHANGED <<dispatchState, unseen>>

RecordTurn(t, a) ==
    /\ CallAt(t, a, "turn")
    /\ AppendTurn(job[t].session, "assistant", job[t].id)
    /\ Step(t, a, "done")
    /\ UNCHANGED <<cache, dispatchState,
                   setup, up, prompts, editors, arrivals, job, spent, wiped, silent>>

-----------------------------------------------------------------------------
(* The administration interface, and time                                     *)

Allowed(op) == up /\ op \in setup.ops
unasked == <<setup, up, arrivals, job, call, spent>>

\* PUT of an agent's prompt or description: the roster in memory is changed,
\* and the cache is cleared as a second step. Other threads run in between.
EditPrompt(a) ==
    /\ Allowed("edit") /\ prompts[a] < PromptEdits
    /\ prompts' = [prompts EXCEPT ![a] = @ + 1]
    /\ editors' = editors + 1
    /\ UNCHANGED <<cache, dispatchState, mlxSessions, unasked, wiped, silent>>

ClearAfterEdit ==
    /\ up /\ editors > 0
    /\ editors' = editors - 1
    /\ ClearCache
    /\ UNCHANGED <<dispatchState, mlxSessions, prompts, unasked, wiped, silent>>

CacheRequest ==
    /\ \/ Allowed("toggle") /\ \E on \in BOOLEAN : SetEnabled(on)
       \/ Allowed("resize") /\ \E ttl \in Ttls \cup {0}, size \in CacheSizes \cup {0} :
                                 Configure(ttl, size)
       \/ Allowed("flush") /\ ClearCache
       \/ Allowed("time") /\ Age
    /\ UNCHANGED <<dispatchState, mlxSessions, prompts, editors, unasked, wiped, silent>>

\* DELETE /api/token-budget/:id
ResetBudget(s) ==
    /\ Allowed("reset")
    /\ ResetLedger(s)
    /\ UNCHANGED <<cache, routing, ctx, decisions, tl, mlxSessions,
                   prompts, editors, unasked, wiped, silent>>

\* POST /api/mlx/session/clear, for one session or for all.
WipeSessions ==
    /\ Allowed("wipe")
    /\ \E S \in {{s} : s \in Sessions} \cup {Sessions} :
         Erase(S) /\ wiped' = wiped \cup Seeded(S)
    /\ UNCHANGED <<cache, dispatchState, prompts, editors, unasked, silent>>

SessionGoesIdle(s) ==
    /\ Allowed("time")
    /\ GoIdle(s)
    /\ UNCHANGED <<cache, dispatchState, prompts, editors, unasked, wiped, silent>>

HandlerStep(t) ==
    \/ Arrive(t) \/ Gate(t) \/ Gated(t) \/ Reject(t) \/ Enter(t)
    \/ Sweep(t) \/ Seed(t) \/ Launch(t) \/ Leave(t) \/ LeaveMlx(t)

CallStep(t, a) ==
    \/ Lookup(t, a) \/ Route(t, a) \/ Resolve(t, a) \/ Note(t, a) \/ Record(t, a)
    \/ Hear(t, a) \/ Answered(t, a) \/ Unanswered(t, a)
    \/ OtherAnswered(t, a) \/ OtherUnanswered(t, a)
    \/ StoreAnswer(t, a) \/ RecordTurn(t, a)

AdminStep ==
    \/ \E a \in setup.agents : EditPrompt(a)
    \/ ClearAfterEdit
    \/ CacheRequest
    \/ \E s \in setup.sessions : ResetBudget(s) \/ SessionGoesIdle(s)
    \/ WipeSessions

Next == \/ \E t \in Threads : HandlerStep(t)
        \/ \E t \in Threads, a \in Agents : CallStep(t, a)
        \/ AdminStep

Spec == Init /\ [][Next]_vars

-----------------------------------------------------------------------------
(* What has to hold                                                           *)

Pcs == {"off", "start", "route", "resolve", "note", "record", "hear", "serve",
        "other", "store", "turn", "done"}
Steps == {"idle", "parsed", "gated", "admit", "sweep", "seed", "run"}

\* The shape of the state.
TypeOK ==
    /\ setup \in Setups /\ up \in BOOLEAN /\ routing = setup.routing
    /\ cache_enabled \in BOOLEAN /\ ttl_secs \in Ttls /\ max_entries \in CacheSizes
    /\ ctx \in [set : BOOLEAN, mode : Modes, by : Nat]
    /\ decisions \subseteq [agent : Agents, by : Nat, from : Routes \cup {"gate"}]
    /\ ledger \in [Sessions -> [budget : Nat, consumed : Nat]]
    /\ tl \in [Threads -> Sessions \cup {NoSession}]
    /\ prompts \in [Agents -> 0 .. PromptEdits] /\ editors \in Nat /\ arrivals \in Nat
    /\ \A t \in Threads :
         /\ job[t].id \in 0 .. arrivals /\ job[t].at \in Steps /\ job[t].phase \in Nat
         /\ job[t].route \in Routes /\ job[t].mode \in Modes
         /\ job[t].session \in Sessions \cup {NoSession} /\ job[t].roster \subseteq Agents
         /\ \A a \in Agents : call[t][a].pc \in Pcs /\ call[t][a].backend \in Backends
    /\ turns \in [Sessions -> Seq([role : {"user", "assistant"}, by : Nat])]
    /\ idle \subseteq Sessions
    /\ spent \in [Sessions -> Nat] /\ wiped \subseteq Nat /\ silent \subseteq Nat

\* An answer, from an agent or out of the cache, is the answer to what was
\* asked: the prompt of this request under the system prompt its roster has. An
\* edit of a prompt, a call that was under way when the cache was cleared for
\* it, and requests with the old and the new prompt side by side do not change
\* that ("so old cached answers don't leak through", docs/USER_MANUAL.md).
AnswerIsForThePrompt ==
    \A t \in Threads, a \in Agents :
        call[t][a].pc \in {"store", "turn", "done"} =>
            call[t][a].text \in {Said(call[t][a].ask), Failed}

\* The dispatch context is that of a dispatch still running ("so it never leaks
\* into the next request", coordinator_routes_architect_stream.cpp), and so is
\* each decision; except those of the MLX routes, which clear nothing, and of
\* the gate's summariser, which may run under another dispatch's context and
\* whose request may then be refused: these last until the next dispatch ends.
ContextIsLive ==
    /\ ctx.set => \E t \in Threads : /\ job[t].id = ctx.by /\ job[t].mode = ctx.mode
                                     /\ job[t].at \in {"sweep", "seed", "run"}
    /\ \A d \in decisions :
         \/ \E t \in Threads : Running(t) /\ job[t].id = d.by
         \/ d.from \in MlxRoutes \cup {"gate"}

\* A request that has the process to itself is served as its own mode says: its
\* calls are routed when routing is on and the mode is sequential, never on the
\* MLX routes, and the process survives it.
AloneIsRoutedByItsMode ==
    \A t \in Threads : (Running(t) /\ job[t].alone) =>
        /\ up
        /\ \A a \in Agents :
             call[t][a].pc \in {"note", "record", "hear", "serve", "other", "store", "turn"}
               => call[t][a].routed = (/\ routing /\ job[t].at = "run"
                                       /\ Sequential(job[t].mode)
                                       /\ job[t].route \notin MlxRoutes)

\* No session pays for another one's calls: what the ledger says a session has
\* consumed, it has been answered. Threads are reused, and each route names and
\* forgets the thread's session in its own way.
LedgerNotOver == \A s \in Sessions : ledger[s].consumed <= spent[s]

\* When nothing runs and nobody has reset it, the ledger has every answered
\* call: call_agent records without a session id in its signature
\* (session_context.h), and the budget is checked against that record.
LedgerComplete ==
    (\A t \in Threads : ~Running(t)) => \A s \in Sessions : ledger[s].consumed = spent[s]

\* The history that replaces a prompt contains it: an agent is never called
\* with other turns only, and an answer is recorded after the turn it answers
\* ("caller appends user message before calling", agent_stream_llama.h); unless
\* the session was cleared or evicted while the request was running, or no
\* agent with engine mlx was left on the roster of a stream (its caller then
\* records no user turn).
HistoryHasTheTurn ==
    /\ \A t \in Threads, a \in Agents :
         call[t][a].heard = "foreign" => job[t].id \in wiped \cup silent
    /\ \A s \in Sessions : \A i \in DOMAIN turns[s] :
         LET r == turns[s][i].by
         IN  turns[s][i].role = "assistant" =>
               r \in wiped \cup silent \/ \E j \in 1 .. i - 1 : turns[s][j] = Turn("user", r)
=============================================================================
