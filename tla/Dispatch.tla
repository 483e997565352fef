------------------------------ MODULE Dispatch ------------------------------
(* One run of the coordinator's dispatch handler (POST /api/architect): it    *)
(* reads the active mode, copies the mode's configuration, then reads, under  *)
(* a second lock, the agents that take part, drops those whose circuit        *)
(* breaker is open, lets the supervisor reorder them, and runs the mode.      *)
(* Prompts, RAG, history and metrics are left out.                            *)
EXTENDS Broadcast, Pipeline, Router

CONSTANTS
    Targets  \* the agents a quality pass may name

vars == <<callVars, pipelineVars, routerVars>>

ClosedStates == {"done", "failed", "rejected"}

EmptyConfig ==
    [agents |-> <<>>, order |-> <<>>, preset |-> "", synthesizer |-> NoName,
     classifier |-> NoName, choices |-> <<>>, fallback |-> <<>>, max_select |-> 5]

NoQualityPass == [quality |-> FALSE, target |-> NoName]

Init ==
    /\ pc = "mode" /\ calls = <<>> /\ final = 0
    /\ \E pass \in {NoQualityPass} \cup [quality : {TRUE}, target : Targets] :
          ctx = [mode |-> "", cfg |-> EmptyConfig, agents |-> <<>>, open |-> {},
                 edited |-> FALSE, quality |-> pass.quality, target |-> pass.target]
    /\ chain = <<>> /\ prev = 0
    /\ raw = <<>> /\ picked = {} /\ launched = "no"

\* Mutant: a roster with an undeployed agent is ignored.
RosterWholly(mode, c) ==
    IF c.agents = <<>> \/ ~(ToSet(c.agents) \subseteq ToSet(Deployed)) THEN Deployed
    ELSE Distinct[c.agents \o (IF c.synthesizer \in ToSet(Deployed) THEN <<c.synthesizer>> ELSE <<>>)]

\* filter_agents_for_mode: the mode's roster (repeats kept in pipeline mode
\* only) and its synthesizer; everybody when it has no roster or none of it is
\* deployed.
RosterFor(mode, c) ==
    LET wanted == Only[c.agents][ToSet(Deployed)]
        listed == IF mode = "pipeline" THEN wanted ELSE Distinct[wanted]
        roster == IF c.synthesizer \in ToSet(Deployed) \ ToSet(listed)
                  THEN Append(listed, c.synthesizer) ELSE listed
    IN  IF c.agents = <<>> \/ roster = <<>> THEN Deployed ELSE roster

\* adaptive_select: under pressure the router selects fewer.
AdaptedSelect(base) ==
    {base} \cup {IF base > n THEN base - n ELSE 1 : n \in {1, 2}}

\* The mode is read once more than it is used; the configuration is a copy.
\* The budget of the session is checked after it: a run over it may be
\* answered 429.
SnapshotConfig ==
    /\ pc = "mode"
    /\ \E m \in Modes : \E c \in Configs[m] : \E n \in AdaptedSelect(c.max_select) :
          ctx' = [ctx EXCEPT !.mode = m, !.cfg = [c EXCEPT !.max_select = n]]
    /\ pc' \in {"roster", "rejected"}
    /\ UNCHANGED <<calls, final, pipelineVars, routerVars>>

\* The roster is read under a second lock: of the configuration the copy was
\* taken from, or of one that another request has put there since. Agents
\* whose breaker is open are dropped (excluded_unhealthy).
SnapshotRoster ==
    /\ pc = "roster"
    /\ \E c \in Configs[ctx.mode], open \in SUBSET ToSet(Deployed) :
          ctx' = [ctx EXCEPT
              !.agents = Only[RosterFor(ctx.mode, c)][ToSet(Deployed) \ open],
              !.open = open,
              !.edited = [c EXCEPT !.max_select = ctx.cfg.max_select] # ctx.cfg]
    /\ pc' = "supervise"
    /\ UNCHANGED <<calls, final, pipelineVars, routerVars>>

\* swarm_supervisor::apply: some agents are moved to the end. None is
\* pruned: that needs the overrun of a contract, and nothing charges one.
Supervise ==
    /\ pc = "supervise"
    /\ \E demoted \in SUBSET ToSet(ctx.agents) :
          ctx' = [ctx EXCEPT !.agents = Only[@][ToSet(@) \ demoted] \o Only[@][demoted]]
    /\ pc' = "start"
    /\ UNCHANGED <<calls, final, pipelineVars, routerVars>>

RunMode ==
    \/ BroadcastNext /\ UNCHANGED <<pipelineVars, routerVars>>
    \/ PipelineNext /\ UNCHANGED <<routerVars>>
    \/ RouterNext /\ UNCHANGED <<pipelineVars>>
    \/ EndReduce /\ UNCHANGED <<pipelineVars, routerVars>>

CallEnds == EndCall /\ UNCHANGED <<pipelineVars, routerVars>>

Handler == SnapshotConfig \/ SnapshotRoster \/ Supervise \/ RunMode

Next == Handler \/ CallEnds

\* The handler's thread runs, the classifier's stream in it; every call ends
\* (its timeouts see to it).
Fairness == WF_vars(Handler) /\ WF_vars(CallEnds)

Spec == Init /\ [][Next]_vars /\ Fairness

-----------------------------------------------------------------------------

TypeOK ==
    /\ pc \in {"mode", "roster", "supervise", "start", "stage", "stage_call", "fallback",
               "chain_end", "stream", "collect", "reduce"} \cup ClosedStates
    /\ ctx.mode \in Modes \cup {""}
    /\ ToSet(ctx.agents) \cup ToSet(chain) \cup picked \subseteq ToSet(Deployed)
    /\ calls \in Seq([agent : ToSet(Deployed), role : Roles, quoted : SUBSET (DOMAIN calls),
                      state : CallStates])
    /\ {final, prev} \subseteq 0 .. Len(calls)
    /\ launched \in {"no", "early", "end"}

MembersAsked == {calls[i].agent : i \in CallsBy("member")}

\* What a run promises whatever its mode (SwarmRun): an agent is asked for a
\* contribution once, however the stream, the end of the stream and the
\* fallback compete to launch it; a reducer starts when every contribution is
\* in; no call outlives the reply, not even one whose mode was ended by an
\* exception (coordinator_routes_dispatch.cpp:184-193 and the run function of
\* each mode).
Abstract ==
    INSTANCE SwarmRun WITH
        Names <- ToSet(Deployed),
        asked <- MembersAsked,
        waiting <- {calls[i].agent : i \in CallsBy("member") \cap InState("running")},
        phase <- CASE pc \in ClosedStates -> "closed"
                   [] pc \notin ClosedStates /\ CallsBy("reducer") = {} -> "open"
                   [] pc \notin ClosedStates /\ CallsBy("reducer") \cap InState("running") # {} ->
                        "reducing"
                   [] OTHER -> "reduced"
KeepsPromise == Abstract!Spec

\* A pipeline stage reads the latest good text before it, past any number of
\* failed stages, and never an error text (pipeline_stage_run.h:51-67).
StagesReadLastGood ==
    ctx.mode = "pipeline" =>
        \A i \in CallsBy("member") :
            LET good == {j \in 1 .. i - 1 : calls[j].state = "ok"}
            IN  calls[i].quoted = {j \in good : \A k \in good : k <= j}

\* The reducer of a cascade reads every healthy answer and no failed one; that
\* of a pipeline reads every stage (cascade_exec.h:56-64, pipeline_exec.h:59-66).
ReducerReads ==
    \A i \in CallsBy("reducer") :
        calls[i].quoted = IF ctx.mode = "cascade" THEN Healthy ELSE CallsBy("member")

\* The final text is the reducer's; without one, a pipeline's is that of its
\* last good stage, whatever failed after it, and it has none only when no
\* stage was good or it is the fallback's (pipeline_stage_run.h:62-68,
\* pipeline_exec.h:33-36, cascade.cpp:39-44).
FinalIsLastGood ==
    pc = "done" =>
        LET reducers == CallsBy("reducer") IN
        CASE reducers # {} -> final \in reducers
          [] reducers = {} /\ ctx.mode = "pipeline" /\ Healthy # {} ->
               final \in Healthy /\ \A i \in Healthy : i <= final
          [] OTHER -> final = 0 \/ (ctx.mode = "pipeline" /\ Len(calls) = 1)

\* With two agents to choose from somebody is asked to answer, whatever the
\* roster, the order, the choices, the fallback and the classifier's text name
\* (pipeline_exec.h:22-38, router_dispatch_collect.h:27-55).
SomebodyAnswers ==
    pc = "done" /\ ~ctx.quality /\ Cardinality(ToSet(ctx.agents)) >= 2
        => CallsBy("member") # {}

\* A cascade or a pipeline asks exactly the agents its roster names that are
\* deployed and whose breaker was not open, besides the synthesizer, though the
\* roster is filtered in one place, reordered in another and ordered in a third
\* (coordinator_routes_filters.cpp:7-37, pipeline_order.cpp:20-30). If none of
\* them is left, the modes fall back. An edit between the two reads is excluded.
RosterHonoured ==
    LET synth == {ctx.cfg.synthesizer}
        wanted == (ToSet(ctx.cfg.agents) \cap ToSet(Deployed)) \ (ctx.open \cup synth)
    IN  /\ pc = "done" /\ ~ctx.quality /\ ~ctx.edited /\ ctx.mode \in {"cascade", "pipeline"}
        /\ ctx.cfg.order = <<>> /\ wanted # {}
        => MembersAsked \ synth = wanted

\* A quality pass asks its target only, when the target takes part in the mode
\* (flat.cpp:19-33, cascade_exec.h:40-45, pipeline_stage_run.h:46-49,
\* router_setup.h:20-41).
QualityPassNarrow ==
    LET takingPart == IF ctx.mode = "pipeline" THEN ResolvedOrder(ctx.cfg, ctx.agents) ELSE ctx.agents
    IN  ctx.quality /\ ctx.target \in ToSet(takingPart) => MembersAsked \subseteq {ctx.target}

\* The router asks no more agents than max_select, one at least allowed, over
\* the early launch, the launch at the end and the fallback
\* (router_dispatch.cpp:49-54, router_dispatch_collect.h:41-53).
SelectionBounded ==
    ctx.mode = "router" =>
        /\ Cardinality(CallsBy("member")) <= Cap
        /\ ~ctx.quality => MembersAsked = picked

\* Launching before the classifier has finished picks what its whole text
\* would: nothing that arrives after a SELECTED line that names an allowed
\* agent changes the selection (router_dispatch.cpp:58-78). A line that names
\* none is excluded: there the cut of the stream decides.
EarlySelectionStands ==
    LET inline == ToSet(UpToEol(After(raw))) \cap ChoiceSet
    IN  ctx.mode = "router" /\ launched # "no" /\ Mark \in ToSet(raw) /\ inline # {}
            => picked \in Few(inline)

\* Every dispatch is answered, however its calls and its stream end.
Replies == <>(pc \in ClosedStates)

\* Flat mode has no roster: a finished dispatch that met no open breaker has
\* asked every deployed agent (docs/CAPABILITIES.md:35-37: "flat mode always
\* uses the full deployed swarm and ignores agents").
FlatAsksEverybody ==
    pc = "done" /\ ctx.mode = "flat" /\ ~ctx.quality /\ ~ctx.edited /\ ctx.open = {}
        => MembersAsked = ToSet(Deployed)
=============================================================================
