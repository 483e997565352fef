----------------------------- MODULE Broadcast -----------------------------
(* The two modes that ask everybody at once: flat returns the answers, and    *)
(* cascade has a synthesizer reduce the healthy ones to a final answer.       *)
EXTENDS ModeCalls

\* On a quality pass flat asks its target alone, everybody when it is absent.
FlatMembers ==
    IF ctx.quality /\ ctx.target \in ToSet(ctx.agents) THEN <<ctx.target>> ELSE ctx.agents

FlatStart ==
    /\ pc = "start" /\ ctx.mode = "flat"
    /\ calls' = Calls(FlatMembers)
    /\ pc' = "collect"
    /\ UNCHANGED <<ctx, final>>

FlatCollect ==
    /\ pc = "collect" /\ ctx.mode = "flat" /\ AllEnded
    /\ IF AnyThrew THEN Unwind ELSE Return(0)
    /\ UNCHANGED <<ctx, calls>>

\* Mutant: a quality pass is not narrowed.
CascadeEverybody == Without(ctx.agents, ctx.cfg.synthesizer)

\* The synthesizer does not answer the prompt itself; on a quality pass nobody
\* but the target does.
CascadeMembers ==
    LET members == Without(ctx.agents, ctx.cfg.synthesizer)
    IN  IF ctx.quality THEN Only[members][ToSet(members) \cap {ctx.target}] ELSE members

CascadeStart ==
    /\ pc = "start" /\ ctx.mode = "cascade"
    /\ calls' = Calls(CascadeMembers)
    /\ pc' = "collect"
    /\ UNCHANGED <<ctx, final>>

Healthy == CallsBy("member") \cap InState("ok")

\* Mutant: failed answers are reduced too.
CascadeCollectAll ==
    /\ pc = "collect" /\ ctx.mode = "cascade" /\ AllEnded
    /\ CASE AnyThrew -> Unwind /\ UNCHANGED calls
         [] ~AnyThrew /\ ctx.cfg.synthesizer \in ToSet(ctx.agents) -> Reduce(CallsBy("member"))
         [] OTHER -> Return(0) /\ UNCHANGED calls
    /\ UNCHANGED ctx

\* No synthesizer, an absent one or nothing healthy: the answers stand alone.
CascadeCollect ==
    /\ pc = "collect" /\ ctx.mode = "cascade" /\ AllEnded
    /\ \/ AnyThrew /\ Unwind /\ UNCHANGED calls
       \/ /\ ~AnyThrew
          /\ ctx.cfg.synthesizer \in ToSet(ctx.agents) /\ Healthy # {}
          /\ Reduce(Healthy)
       \/ /\ ~AnyThrew
          /\ ctx.cfg.synthesizer \notin ToSet(ctx.agents) \/ Healthy = {}
          /\ Return(0) /\ UNCHANGED calls
    /\ UNCHANGED ctx

BroadcastNext == FlatStart \/ FlatCollect \/ CascadeStart \/ CascadeCollect
=============================================================================
