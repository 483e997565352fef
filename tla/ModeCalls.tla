----------------------------- MODULE ModeCalls -----------------------------
(* What the dispatch modes of the coordinator (cpp_core/src/modes) share: the *)
(* context a run is given, the agent calls it makes and its final text. A     *)
(* call's text is abstracted to how it ended; which earlier texts are quoted  *)
(* in a prompt is kept.                                                       *)
EXTENDS Integers, Sequences, FiniteSets, SequencesExt

CONSTANTS
    Names,      \* the names a configuration may contain, of agents deployed or not
    Deployed,   \* the deployed agents' names, in configuration order
    Tags,       \* [name |-> its role tags]
    NoName,     \* an option that names nobody
    Configs     \* [mode |-> the configurations it may be given]

\* Names are unique, and those of the deployed agents have tags.
DeploymentAssumption ==
    /\ Deployed \in Seq(Names) /\ IsInjective(Deployed)
    /\ ToSet(Deployed) \subseteq DOMAIN Tags
    /\ NoName \notin ToSet(Deployed)
ASSUME DeploymentAssumption

Modes == DOMAIN Configs

\* The options of all modes together: the mode's roster, the pipeline's order
\* and preset (one that is unknown does what none does), the synthesizer, and
\* what the router chooses by.
Config ==
    [agents : Seq(Names), order : Seq(Names), preset : {"", "code-quality", "debug-fix", "docs-finalize"},
     synthesizer : Names \cup {NoName}, classifier : Names \cup {NoName},
     choices : Seq(Names), fallback : Seq(Names), max_select : Int]

ASSUME ConfigsAssumption == \A m \in Modes : Configs[m] \subseteq Config

VARIABLES
    pc,    \* where the handler stands
    ctx,   \* ModeContext: mode, cfg, agents, quality_pass and its target
    calls, \* the agent calls made so far, in order
    final  \* the call whose text is the envelope's "final"; 0: no text

callVars == <<pc, ctx, calls, final>>

Roles == {"member", "reducer", "classifier"}
CallStates == {"running", "ok", "error", "threw"}

\* A call to agent a whose prompt quotes the texts of the calls in quoted.
Call(a, role, quoted) ==
    [agent |-> a, role |-> role, quoted |-> quoted, state |-> "running"]

CallsBy(role) == {i \in DOMAIN calls : calls[i].role = role}
InState(s) == {i \in DOMAIN calls : calls[i].state = s}
AllEnded == InState("running") = {}
AnyThrew == InState("threw") # {}

\* Calls to all of names, with the user's prompt alone.
Calls(names) == [i \in DOMAIN names |-> Call(names[i], "member", {})]

\* An agent answers, answers with an error text, or the call throws. The
\* classifier's stream is ended by the router.
EndCall ==
    /\ \E i \in InState("running") \ CallsBy("classifier"), s \in {"ok", "error", "threw"} :
           calls' = [calls EXCEPT ![i].state = s]
    /\ UNCHANGED <<pc, ctx, final>>

\* The elements of s at the places I, in their order.
AtPlaces(s, I) ==
    [k \in 1 .. Cardinality(I) |-> s[CHOOSE i \in I : Cardinality({j \in I : j <= i}) = k]]

\* Those in S, repeats kept; and the first occurrence of each.
Only[s \in Seq(Names)] ==
    [S \in SUBSET Names |-> AtPlaces(s, {i \in DOMAIN s : s[i] \in S})]
Distinct[s \in Seq(Names)] ==
    AtPlaces(s, {i \in DOMAIN s : \A j \in 1 .. i - 1 : s[j] # s[i]})

Without(s, a) == Only[s][ToSet(s) \ {a}]

\* agents_with_tag, over names.
WithTag(names, tag) == Only[names][{n \in ToSet(names) : tag \in Tags[n]}]
FirstWithTag(names, tag) ==
    LET w == WithTag(names, tag) IN IF w = <<>> THEN <<>> ELSE <<Head(w)>>

\* A mode returns its envelope, or an exception reaches the handler, which
\* answers 500. Locals are destroyed on the way: a future waits for its call.
Return(f) == pc' = "done" /\ final' = f
Unwind == pc' = "failed" /\ UNCHANGED final

\* The reduction of what S contributed: one more call, to the synthesizer.
Reduce(S) ==
    /\ calls' = Append(calls, Call(ctx.cfg.synthesizer, "reducer", S))
    /\ pc' = "reduce"
    /\ UNCHANGED final

\* The reducer's text is final, an error text too.
EndReduce ==
    /\ pc = "reduce" /\ AllEnded
    /\ IF AnyThrew THEN Unwind ELSE Return(Len(calls))
    /\ UNCHANGED <<ctx, calls>>
=============================================================================
