------------------------------ MODULE Pipeline ------------------------------
(* The sequential mode: each agent of the resolved order answers the prompt   *)
(* with the last good answer before it, then an optional synthesizer reduces  *)
(* all the stages.                                                            *)
EXTENDS ModeCalls

VARIABLES
    chain, \* the stages left of the resolved order
    prev   \* the call whose text the next stage is given; 0: none yet

pipelineVars == <<chain, prev>>

\* The agents of each role in turn; one that has several comes several times.
ByRole(names) ==
    WithTag(names, "planning") \o WithTag(names, "coding") \o WithTag(names, "review")
        \o WithTag(names, "data") \o WithTag(names, "synthesis")

\* pipeline_preset_order: the first agent of each role, none where a role is
\* not deployed.
PresetOrder(preset, names) ==
    LET role(t) == FirstWithTag(names, t)
    IN  CASE preset = "code-quality" ->
               role("planning") \o role("coding") \o role("review") \o role("coding")
          [] preset = "debug-fix" -> role("review") \o role("coding") \o role("review")
          [] preset = "docs-finalize" -> role("coding") \o role("synthesis")
          [] OTHER -> <<>>

\* An explicit order, the mode's roster, the preset, or the agents by role.
EffectiveOrder(c, names) ==
    LET roster == Without(c.agents, c.synthesizer)
    IN  CASE c.order # <<>> -> c.order
          [] c.order = <<>> /\ roster # <<>> -> roster
          [] c.order = <<>> /\ roster = <<>> /\ PresetOrder(c.preset, names) # <<>> ->
               PresetOrder(c.preset, names)
          [] OTHER -> Without(ByRole(names) \o names, c.synthesizer)

\* Mutant: absent agents are kept.
ResolvedUnfiltered(c, names) == Distinct[EffectiveOrder(c, names)]

\* Absent agents are dropped (the substitution by tag finds the tags of active
\* agents only, so it never replaces one) and repeated ones kept once.
ResolvedOrder(c, names) == Distinct[Only[EffectiveOrder(c, names)][ToSet(names)]]

PipelineStart ==
    /\ pc = "start" /\ ctx.mode = "pipeline"
    /\ chain' = ResolvedOrder(ctx.cfg, ctx.agents)
    /\ pc' = "stage"
    /\ UNCHANGED <<ctx, calls, final, prev>>

Stage ==
    /\ pc = "stage" /\ chain # <<>>
    /\ \/ /\ ctx.quality /\ Head(chain) # ctx.target
          /\ chain' = Tail(chain)
          /\ UNCHANGED <<pc, calls>>
       \/ /\ ~ctx.quality \/ Head(chain) = ctx.target
          /\ calls' = Append(calls, Call(Head(chain), "member", IF prev = 0 THEN {} ELSE {prev}))
          /\ pc' = "stage_call"
          /\ UNCHANGED chain
    /\ UNCHANGED <<ctx, final, prev>>

\* Mutant: an error text replaces the last good one.
StageEndAnyText ==
    /\ pc = "stage_call" /\ AllEnded
    /\ IF AnyThrew THEN Unwind /\ UNCHANGED <<chain, prev>>
       ELSE /\ prev' = Len(calls) /\ final' = Len(calls)
            /\ chain' = Tail(chain)
            /\ pc' = "stage"
    /\ UNCHANGED <<ctx, calls>>

\* A failed stage leaves the last good output in place.
StageEnd ==
    /\ pc = "stage_call" /\ AllEnded
    /\ \/ AnyThrew /\ Unwind /\ UNCHANGED <<chain, prev>>
       \/ /\ ~AnyThrew
          /\ LET i == Len(calls) IN
             IF calls[i].state = "ok"
             THEN prev' = i /\ final' = i
             ELSE UNCHANGED <<prev, final>>
          /\ chain' = Tail(chain)
          /\ pc' = "stage"
    /\ UNCHANGED <<ctx, calls>>

\* Mutant: without agents the mode does not return.
FallbackNoReturn ==
    /\ pc = "stage" /\ chain = <<>> /\ calls = <<>> /\ ctx.agents # <<>>
    /\ calls' = Calls(<<Head(ctx.agents)>>)
    /\ pc' = "fallback"
    /\ UNCHANGED <<ctx, final, chain, prev>>

\* Nobody was called: the first agent answers the bare prompt.
Fallback ==
    /\ pc = "stage" /\ chain = <<>> /\ calls = <<>>
    /\ IF ctx.agents = <<>> THEN Return(0) /\ UNCHANGED calls
       ELSE /\ calls' = Calls(<<Head(ctx.agents)>>)
            /\ pc' = "fallback"
            /\ UNCHANGED final
    /\ UNCHANGED <<ctx, chain, prev>>

FallbackEnd ==
    /\ pc = "fallback" /\ AllEnded
    /\ IF AnyThrew THEN Unwind ELSE pc' = "chain_end" /\ final' = Len(calls)
    /\ UNCHANGED <<ctx, calls, chain, prev>>

\* The synthesizer is given every stage's text, the failed ones' too.
ChainEnd ==
    /\ \/ pc = "stage" /\ chain = <<>> /\ calls # <<>>
       \/ pc = "chain_end"
    /\ IF ctx.cfg.synthesizer \in ToSet(ctx.agents)
       THEN Reduce(CallsBy("member"))
       ELSE Return(final) /\ UNCHANGED calls
    /\ UNCHANGED <<ctx, chain, prev>>

PipelineNext == PipelineStart \/ Stage \/ StageEnd \/ Fallback \/ FallbackEnd \/ ChainEnd
=============================================================================
