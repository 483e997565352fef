-------------------------- MODULE DispatchProofs --------------------------
(***************************************************************************)
(* Theorems about Dispatch for any deployment, any configurations of its   *)
(* modes and any text of a classifier.                                     *)
(***************************************************************************)
EXTENDS Dispatch, ModeCallsProofs

Agents == ToSet(Deployed)

PCs == {"mode", "roster", "supervise", "start", "stage", "stage_call", "fallback",
        "chain_end", "stream", "collect", "reduce"} \cup ClosedStates

Context ==
    [mode : Modes \cup {""}, cfg : Config, agents : Seq(Names), open : SUBSET Names,
     edited : BOOLEAN,
     quality : BOOLEAN, target : Targets \cup {NoName}]

CallRecord == [agent : Agents, role : Roles, quoted : SUBSET Nat, state : CallStates]

TypeInv ==
    /\ pc \in PCs
    /\ ctx \in Context /\ ToSet(ctx.agents) \subseteq Agents
    /\ pc # "mode" => ctx.mode \in Modes
    /\ calls \in Seq(CallRecord) /\ \A i \in DOMAIN calls : calls[i].quoted \subseteq DOMAIN calls
    /\ chain \in Seq(Names) /\ ToSet(chain) \subseteq Agents
    /\ final \in 0 .. Len(calls) /\ prev \in 0 .. Len(calls)
    /\ raw \in Seq(Agents \cup {Mark, Eol})
    /\ picked \subseteq Agents
    /\ launched \in {"no", "early", "end"}

\* Before its mode is run a dispatch has done nothing.
Before == pc \in {"mode", "roster", "supervise", "start", "rejected"}

StartInv ==
    /\ Before => /\ calls = <<>> /\ chain = <<>> /\ prev = 0 /\ final = 0
                 /\ raw = <<>> /\ picked = {} /\ launched = "no"
    /\ pc \in {"mode", "roster"} => ctx.agents = <<>>

\* Where a dispatch can stand in its mode, and what the mode uses.
ModeInv ==
    /\ pc \in {"stage", "stage_call", "fallback", "chain_end"} => ctx.mode = "pipeline"
    /\ pc = "stream" => ctx.mode = "router"
    /\ pc = "collect" => ctx.mode \in {"flat", "cascade", "router"}
    /\ pc = "reduce" => ctx.mode \in {"cascade", "pipeline"}
    /\ pc \in {"done", "failed"} => ctx.mode \in {"flat", "cascade", "pipeline", "router"}
    /\ CallsBy("classifier") # {} => ctx.mode = "router"
    /\ CallsBy("reducer") # {} => ctx.mode \in {"cascade", "pipeline"}
    /\ ctx.mode # "router" => picked = {} /\ launched = "no"

\* No mode but the pipeline has an agent twice.
AgentsInv == ctx.mode # "pipeline" => IsInjective(ctx.agents)

\* Who is to answer of the roster that the configuration's copy names.
Wanted ==
    (ToSet(ctx.cfg.agents) \cap Agents) \ (ctx.open \cup {ctx.cfg.synthesizer})

\* Once the second read is done they are the agents that take part.
ListedInv ==
    /\ pc \notin {"mode", "roster", "rejected"} /\ ctx.mode \in {"cascade", "pipeline"}
    /\ ~ctx.edited /\ Wanted # {}
    => ToSet(ctx.agents) \ {ctx.cfg.synthesizer} = Wanted

CallsInv ==
    /\ \A i, j \in CallsBy("member") : calls[i].agent = calls[j].agent => i = j
    /\ \A i \in CallsBy("reducer") : i = Len(calls) /\ pc \in {"reduce", "done", "failed"}
    /\ \A i \in CallsBy("classifier") : i = 1
    /\ pc \in {"stage", "chain_end"} \cup ClosedStates => AllEnded
    /\ pc \in {"stage", "chain_end"} => ~AnyThrew
    /\ pc \in {"stage_call", "fallback", "reduce"} =>
          /\ Len(calls) > 0
          /\ \A i \in InState("running") \cup InState("threw") : i = Len(calls)
    /\ pc \in {"stage_call", "fallback"} => Len(calls) \in CallsBy("member")
    /\ pc = "reduce" => Len(calls) \in CallsBy("reducer")

BroadcastInv ==
    /\ ctx.mode = "flat" /\ ~Before => MembersAsked = ToSet(FlatMembers)
    /\ ctx.mode = "cascade" /\ ~Before => MembersAsked = ToSet(CascadeMembers)

Resolved == ToSet(ResolvedOrder(ctx.cfg, ctx.agents))
LastGood(n) ==
    LET good == {j \in 1 .. n : calls[j].state = "ok"} IN {j \in good : \A k \in good : k <= j}
Given == IF prev = 0 THEN {} ELSE {prev}

PipelineInv ==
    /\ pc = "stage" =>
          /\ IsInjective(chain) /\ MembersAsked \cap ToSet(chain) = {}
          /\ Given = LastGood(Len(calls)) /\ final = prev
    /\ pc = "stage_call" =>
          /\ IsInjective(chain) /\ chain # <<>> /\ calls[Len(calls)].agent = Head(chain)
          /\ MembersAsked \cap ToSet(Tail(chain)) = {}
          /\ Given = LastGood(Len(calls) - 1) /\ final = prev
    /\ pc \in {"fallback", "chain_end"} => Len(calls) = 1
    /\ pc = "fallback" => final = 0
    /\ pc = "chain_end" => final = 1
    /\ ctx.mode = "pipeline" /\ ~Before /\ ~ctx.quality =>
          \/ Resolved = {} /\ pc \notin {"stage_call"} /\ chain = <<>>
          \/ pc \in {"stage", "stage_call"} /\ MembersAsked \cup ToSet(chain) = Resolved
          \/ pc \in {"reduce", "done"} /\ MembersAsked = Resolved
          \/ pc = "failed"
    /\ ctx.mode = "pipeline" /\ ctx.quality /\ ctx.target \in Resolved =>
          /\ MembersAsked \subseteq {ctx.target}
          /\ pc \in {"stage", "stage_call"} => ctx.target \in MembersAsked \cup ToSet(chain)
    /\ ctx.mode = "pipeline" /\ ctx.agents # <<>>
        /\ pc \in {"fallback", "chain_end", "reduce", "done"} => CallsBy("member") # {}

RouterInv ==
    /\ pc = "stream" => /\ calls # <<>> /\ 1 \in CallsBy("classifier") \cap InState("running")
                        /\ ~ctx.quality
    /\ pc = "stream" /\ launched = "no" => picked = {}
    /\ ctx.mode = "router" /\ ~ctx.quality => MembersAsked = picked
    /\ ctx.mode = "router" /\ ctx.quality => MembersAsked \subseteq {ctx.target}
    /\ Cardinality(picked) <= Cap
    /\ pc \in {"collect", "done"} /\ ctx.mode = "router" /\ ~ctx.quality /\ ~AnyThrew
        /\ Cardinality(ToSet(ctx.agents)) >= 2 => picked # {}
    /\ pc = "done" /\ ctx.mode = "router" => ~AnyThrew

StreamInv ==
    /\ EarlySelectionStands
    /\ pc = "stream" => launched # "end"
    /\ launched = "early" => LineComplete(raw)

\* Which texts were read.
TextsInv == StagesReadLastGood /\ ReducerReads /\ FinalIsLastGood

RunInv ==
    /\ TypeInv /\ StartInv /\ ModeInv /\ AgentsInv /\ CallsInv
    /\ BroadcastInv /\ PipelineInv /\ RouterInv /\ StreamInv /\ TextsInv

-----------------------------------------------------------------------------
(* The sequences a run is made of                                           *)

LEMMA Deployment ==
    /\ Deployed \in Seq(Names) /\ IsInjective(Deployed)
    /\ Agents \subseteq Names /\ IsFiniteSet(Agents) /\ NoName \notin Agents
<1>1. Deployed \in Seq(Names) /\ IsInjective(Deployed) /\ NoName \notin Agents
  BY DeploymentAssumption DEF DeploymentAssumption, Agents
<1>2. Agents \subseteq Names /\ IsFiniteSet(Agents)
  BY <1>1, EmptyIs, MembersFinite DEF Agents
<1>3. QED
  BY <1>1, <1>2

LEMMA RosterForIs ==
    ASSUME NEW mode, NEW c \in Config
    PROVE  /\ RosterFor(mode, c) \in Seq(Names) /\ ToSet(RosterFor(mode, c)) \subseteq Agents
           /\ mode # "pipeline" => IsInjective(RosterFor(mode, c))
           /\ ToSet(c.agents) \cap Agents # {} =>
                /\ ToSet(RosterFor(mode, c)) \subseteq ToSet(c.agents) \cup {c.synthesizer}
                /\ ToSet(c.agents) \cap Agents \subseteq ToSet(RosterFor(mode, c))
<1> DEFINE wanted == Only[c.agents][ToSet(Deployed)]
           listed == IF mode = "pipeline" THEN wanted ELSE Distinct[wanted]
           roster == IF c.synthesizer \in ToSet(Deployed) \ ToSet(listed)
                     THEN Append(listed, c.synthesizer) ELSE listed
<1>1. c.agents \in Seq(Names)
  BY DEF Config
<1>2. wanted \in Seq(Names) /\ ToSet(wanted) = ToSet(c.agents) \cap Agents
  BY <1>1, Deployment, OnlyIs DEF Agents
<1> HIDE DEF wanted
<1>3. /\ listed \in Seq(Names) /\ ToSet(listed) = ToSet(c.agents) \cap Agents
      /\ mode # "pipeline" => IsInjective(listed)
  BY <1>2, DistinctIs
<1> HIDE DEF listed
<1>4. /\ roster \in Seq(Names) /\ ToSet(roster) \subseteq Agents
      /\ mode # "pipeline" => IsInjective(roster)
      /\ ToSet(roster) \subseteq ToSet(c.agents) \cup {c.synthesizer}
      /\ ToSet(c.agents) \cap Agents \subseteq ToSet(roster)
  <2>1. CASE c.synthesizer \in ToSet(Deployed) \ ToSet(listed)
    <3>1. c.synthesizer \in Names
      BY <2>1, Deployment DEF Agents
    <3>2. /\ Append(listed, c.synthesizer) \in Seq(Names)
          /\ ToSet(Append(listed, c.synthesizer)) = ToSet(listed) \cup {c.synthesizer}
          /\ IsInjective(listed) => IsInjective(Append(listed, c.synthesizer))
      BY <1>3, <2>1, <3>1, AppendIs
    <3>3. QED
      BY <1>3, <2>1, <3>2 DEF Agents
  <2>2. CASE c.synthesizer \notin ToSet(Deployed) \ ToSet(listed)
    BY <1>3, <2>2
  <2>3. QED
    BY <2>1, <2>2
<1>5. RosterFor(mode, c) = IF c.agents = <<>> \/ roster = <<>> THEN Deployed ELSE roster
  BY DEF RosterFor, roster, listed, wanted
<1> HIDE DEF roster
<1>6. c.agents = <<>> \/ roster = <<>> => ToSet(c.agents) \cap Agents = {}
  BY <1>1, <1>4, EmptyIs
<1>7. Deployed \in Seq(Names) /\ ToSet(Deployed) \subseteq Agents /\ IsInjective(Deployed)
  BY Deployment DEF Agents
<1>8. CASE c.agents = <<>> \/ roster = <<>>
  BY <1>5, <1>6, <1>7, <1>8
<1>9. CASE ~(c.agents = <<>> \/ roster = <<>>)
  BY <1>4, <1>5, <1>9
<1>10. QED
  BY <1>8, <1>9

LEMMA FirstWithTagIs ==
    ASSUME NEW names \in Seq(Names), NEW tag
    PROVE  /\ WithTag(names, tag) \in Seq(Names) /\ FirstWithTag(names, tag) \in Seq(Names)
           /\ ToSet(FirstWithTag(names, tag)) \subseteq ToSet(names)
<1>1. {n \in ToSet(names) : tag \in Tags[n]} \subseteq Names
  BY EmptyIs
<1>2. WithTag(names, tag) \in Seq(Names) /\ ToSet(WithTag(names, tag)) \subseteq ToSet(names)
  BY <1>1, OnlyIs DEF WithTag
<1> DEFINE w == WithTag(names, tag)
<1>3. FirstWithTag(names, tag) = IF w = <<>> THEN <<>> ELSE <<Head(w)>>
  BY DEF FirstWithTag
<1> HIDE DEF w
<1>4. w \in Seq(Names) /\ ToSet(w) \subseteq ToSet(names)
  BY <1>2 DEF w
<1>5. w # <<>> => Head(w) \in ToSet(w) /\ Head(w) \in Names
  BY <1>4, EmptyIs, HeadTailIs
<1>6. ToSet(<<Head(w)>>) = {Head(w)} /\ ToSet(<<>>) = {}
  BY DEF ToSet
<1>7. QED
  BY <1>2, <1>3, <1>4, <1>5, <1>6

LEMMA EffectiveOrderIs ==
    ASSUME NEW c \in Config, NEW names \in Seq(Names)
    PROVE  EffectiveOrder(c, names) \in Seq(Names)
<1>1. c.agents \in Seq(Names) /\ c.order \in Seq(Names)
  BY DEF Config
<1>2. PresetOrder(c.preset, names) \in Seq(Names)
  BY FirstWithTagIs DEF PresetOrder
<1>3. ByRole(names) \in Seq(Names)
  BY FirstWithTagIs DEF ByRole
<1>4. Without(c.agents, c.synthesizer) \in Seq(Names)
  BY <1>1, WithoutIs
<1>5. Without(ByRole(names) \o names, c.synthesizer) \in Seq(Names)
  <2>1. ByRole(names) \o names \in Seq(Names)
    BY <1>3
  <2>2. QED
    BY <2>1, WithoutIs
<1>6. QED
  BY <1>1, <1>2, <1>4, <1>5 DEF EffectiveOrder

\* The order a pipeline follows names active agents, each once; the mode's
\* roster, where there is one and no explicit order.
LEMMA ResolvedIs ==
    ASSUME NEW c \in Config, NEW names \in Seq(Names)
    PROVE  /\ ResolvedOrder(c, names) \in Seq(Names) /\ IsInjective(ResolvedOrder(c, names))
           /\ ToSet(ResolvedOrder(c, names)) \subseteq ToSet(names)
           /\ c.order = <<>> /\ ToSet(c.agents) \ {c.synthesizer} # {} =>
                ToSet(ResolvedOrder(c, names))
                    = (ToSet(c.agents) \cap ToSet(names)) \ {c.synthesizer}
<1> DEFINE e == EffectiveOrder(c, names)
           o == Only[e][ToSet(names)]
<1>1. e \in Seq(Names) /\ ToSet(names) \subseteq Names
  BY EffectiveOrderIs, EmptyIs
<1>2. ASSUME c.order = <<>>, ToSet(c.agents) \ {c.synthesizer} # {}
      PROVE  ToSet(e) = ToSet(c.agents) \ {c.synthesizer}
  <2>1. c.agents \in Seq(Names)
    BY DEF Config
  <2> DEFINE w == Without(c.agents, c.synthesizer)
  <2>2. w \in Seq(Names) /\ ToSet(w) = ToSet(c.agents) \ {c.synthesizer}
    BY <2>1, WithoutIs
  <2>3. w # <<>>
    BY <1>2, <2>2, EmptyIs
  <2>4. e = w
    BY <1>2, <2>3 DEF EffectiveOrder
  <2>5. QED
    BY <2>2, <2>4
<1>3. ResolvedOrder(c, names) = Distinct[o]
  BY DEF ResolvedOrder
<1> HIDE DEF e
<1>4. o \in Seq(Names) /\ ToSet(o) = ToSet(e) \cap ToSet(names)
  BY <1>1, OnlyIs
<1> HIDE DEF o
<1>5. QED
  BY <1>2, <1>3, <1>4, DistinctIs

-----------------------------------------------------------------------------
(* What a step does to the calls                                            *)

LEMMA SameCalls ==
    ASSUME calls \in Seq(CallRecord), calls' \in Seq(CallRecord), Len(calls') = Len(calls),
           \A i \in DOMAIN calls : /\ calls'[i].agent = calls[i].agent
                                   /\ calls'[i].role = calls[i].role
    PROVE  /\ DOMAIN calls' = DOMAIN calls
           /\ \A role : CallsBy(role)' = CallsBy(role)
           /\ MembersAsked' = MembersAsked
<1>1. DOMAIN calls' = DOMAIN calls
  OBVIOUS
<1>2. \A role : CallsBy(role)' = CallsBy(role)
  BY <1>1 DEF CallsBy
<1>3. MembersAsked' = MembersAsked
  <2>1. \A i \in CallsBy("member") : calls'[i].agent = calls[i].agent
    BY DEF CallsBy
  <2>2. QED
    BY <1>2, <2>1 DEF MembersAsked
<1>4. QED
  BY <1>1, <1>2, <1>3

\* A call that ends.
LEMMA CallEnded ==
    ASSUME calls \in Seq(CallRecord), NEW i \in DOMAIN calls, NEW s \in CallStates \ {"running"},
           calls' = [calls EXCEPT ![i].state = s]
    PROVE  /\ calls' \in Seq(CallRecord) /\ Len(calls') = Len(calls)
           /\ \A j \in DOMAIN calls : /\ calls'[j].agent = calls[j].agent
                                      /\ calls'[j].role = calls[j].role
                                      /\ calls'[j].quoted = calls[j].quoted
                                      /\ j # i => calls'[j] = calls[j]
           /\ calls'[i].state = s
           /\ InState("running")' = InState("running") \ {i}
<1>1. calls[i] \in CallRecord
  OBVIOUS
<1>2. [calls[i] EXCEPT !.state = s] \in CallRecord
  BY <1>1 DEF CallRecord
<1>3. /\ calls' \in Seq(CallRecord) /\ Len(calls') = Len(calls) /\ DOMAIN calls' = DOMAIN calls
      /\ calls'[i] = [calls[i] EXCEPT !.state = s]
      /\ \A j \in DOMAIN calls : j # i => calls'[j] = calls[j]
  BY <1>2
<1>4. /\ calls'[i].agent = calls[i].agent /\ calls'[i].role = calls[i].role
      /\ calls'[i].quoted = calls[i].quoted /\ calls'[i].state = s
  BY <1>1, <1>3 DEF CallRecord
<1>5. InState("running")' = InState("running") \ {i}
  BY <1>3, <1>4 DEF InState
<1>6. QED
  BY <1>3, <1>4, <1>5

\* Calls to further members, made while the first call may end.
LEMMA MoreCalls ==
    ASSUME calls \in Seq(CallRecord), NEW b \in Seq(CallRecord), Len(b) = Len(calls),
           \A i \in DOMAIN calls : b[i].agent = calls[i].agent /\ b[i].role = calls[i].role,
           NEW names \in Seq(Names), ToSet(names) \subseteq Agents,
           calls' = b \o Calls(names)
    PROVE  /\ calls' \in Seq(CallRecord) /\ Len(calls') = Len(calls) + Len(names)
           /\ \A i \in DOMAIN calls : i \in DOMAIN calls' /\ calls'[i] = b[i]
           /\ \A i \in DOMAIN calls' \ DOMAIN calls :
                /\ i - Len(calls) \in DOMAIN names
                /\ calls'[i] = Call(names[i - Len(calls)], "member", {})
           /\ CallsBy("reducer")' = CallsBy("reducer")
           /\ CallsBy("classifier")' = CallsBy("classifier")
           /\ CallsBy("member")' = CallsBy("member") \cup (DOMAIN calls' \ DOMAIN calls)
           /\ MembersAsked' = MembersAsked \cup ToSet(names)
<1> DEFINE new == Calls(names)
<1>1. Len(names) \in Nat /\ DOMAIN names = 1 .. Len(names)
  OBVIOUS
<1>2. \A k \in DOMAIN names : names[k] \in Agents
  BY DEF ToSet
<1>3. \A k \in DOMAIN names : Call(names[k], "member", {}) \in CallRecord
  BY <1>2 DEF Call, CallRecord, Roles, CallStates
<1>4. /\ new \in Seq(CallRecord) /\ Len(new) = Len(names) /\ DOMAIN new = DOMAIN names
      /\ \A k \in DOMAIN names : new[k] = Call(names[k], "member", {})
  BY <1>1, <1>3 DEF Calls
<1> HIDE DEF new
<1>5. calls' = b \o new
  BY DEF new
<1>6. /\ calls' \in Seq(CallRecord) /\ Len(calls') = Len(calls) + Len(names)
      /\ DOMAIN calls' = 1 .. Len(calls) + Len(names) /\ DOMAIN calls = 1 .. Len(calls)
      /\ Len(calls) \in Nat
      /\ \A i \in DOMAIN calls : i \in DOMAIN calls' /\ calls'[i] = b[i]
  <2>1. calls' \in Seq(CallRecord) /\ Len(calls') = Len(b) + Len(new)
    BY <1>4, <1>5
  <2>2. \A i \in 1 .. Len(b) : calls'[i] = b[i]
    BY <1>4, <1>5
  <2>3. Len(calls) \in Nat /\ DOMAIN calls = 1 .. Len(calls)
    OBVIOUS
  <2>4. QED
    BY <1>1, <1>4, <2>1, <2>2, <2>3
<1>7. ASSUME NEW i \in DOMAIN calls' \ DOMAIN calls
      PROVE  /\ i - Len(calls) \in DOMAIN names
             /\ calls'[i] = Call(names[i - Len(calls)], "member", {})
  <2>1. i - Len(calls) \in DOMAIN names /\ i > Len(calls)
    BY <1>1, <1>6
  <2>2. calls'[i] = new[i - Len(calls)]
    BY <1>4, <1>5, <1>6, <2>1
  <2>3. QED
    BY <1>4, <2>1, <2>2
<1>8. ASSUME NEW i \in DOMAIN calls' \ DOMAIN calls
      PROVE  /\ calls'[i].role = "member" /\ calls'[i].agent = names[i - Len(calls)]
             /\ i - Len(calls) \in DOMAIN names
  <2>1. /\ calls'[i] = Call(names[i - Len(calls)], "member", {})
        /\ i - Len(calls) \in DOMAIN names
    BY <1>7
  <2>2. QED
    BY <2>1 DEF Call
<1>9. \A i \in DOMAIN calls : /\ calls'[i].agent = calls[i].agent
                              /\ calls'[i].role = calls[i].role
  BY <1>6
<1>10. /\ CallsBy("reducer")' = CallsBy("reducer")
       /\ CallsBy("classifier")' = CallsBy("classifier")
       /\ CallsBy("member")' = CallsBy("member") \cup (DOMAIN calls' \ DOMAIN calls)
  BY <1>6, <1>8, <1>9 DEF CallsBy
<1>11. MembersAsked' = MembersAsked \cup ToSet(names)
  <2>1. ASSUME NEW i \in CallsBy("member")'
        PROVE  calls'[i].agent \in MembersAsked \cup ToSet(names)
    <3>1. CASE i \in CallsBy("member")
      BY <1>9, <3>1 DEF MembersAsked, CallsBy
    <3>2. CASE i \in DOMAIN calls' \ DOMAIN calls
      BY <1>8, <3>2 DEF ToSet
    <3>3. QED
      BY <1>10, <3>1, <3>2
  <2>2. ASSUME NEW i \in CallsBy("member") PROVE calls[i].agent \in MembersAsked'
    <3>1. i \in CallsBy("member")' /\ calls'[i].agent = calls[i].agent
      BY <1>9, <1>10 DEF CallsBy
    <3>2. QED
      BY <3>1 DEF MembersAsked
  <2>3. ASSUME NEW k \in DOMAIN names PROVE names[k] \in MembersAsked'
    <3>1. k + Len(calls) \in DOMAIN calls' \ DOMAIN calls
      BY <1>1, <1>6
    <3>2. calls'[k + Len(calls)].agent = names[k] /\ k + Len(calls) \in CallsBy("member")'
      BY <1>1, <1>6, <1>8, <1>10, <3>1
    <3>3. QED
      BY <3>2 DEF MembersAsked
  <2>4. QED
    BY <2>1, <2>2, <2>3 DEF MembersAsked, ToSet
<1>12. QED
  BY <1>6, <1>7, <1>10, <1>11

\* One more call, to a single agent.
LEMMA OneMoreCall ==
    ASSUME calls \in Seq(CallRecord), NEW a \in Agents, NEW role \in Roles, NEW q,
           q \subseteq DOMAIN calls, calls' = Append(calls, Call(a, role, q))
    PROVE  /\ calls' \in Seq(CallRecord) /\ Len(calls') = Len(calls) + 1
           /\ \A i \in DOMAIN calls : i \in DOMAIN calls' /\ calls'[i] = calls[i]
           /\ calls'[Len(calls')] = Call(a, role, q)
           /\ CallsBy(role)' = CallsBy(role) \cup {Len(calls')}
           /\ \A other : other # role => CallsBy(other)' = CallsBy(other)
           /\ MembersAsked' = IF role = "member" THEN MembersAsked \cup {a} ELSE MembersAsked
           /\ InState("running")' = InState("running") \cup {Len(calls')}
           /\ \A s : s # "running" => InState(s)' = InState(s)
<1>1. Call(a, role, q) \in CallRecord
  BY DEF Call, CallRecord, CallStates
<1>2. /\ calls' \in Seq(CallRecord) /\ Len(calls') = Len(calls) + 1 /\ Len(calls) \in Nat
      /\ \A i \in DOMAIN calls : i \in DOMAIN calls' /\ calls'[i] = calls[i]
      /\ calls'[Len(calls')] = Call(a, role, q)
      /\ DOMAIN calls' = DOMAIN calls \cup {Len(calls')} /\ Len(calls') \notin DOMAIN calls
  BY <1>1
<1>3. /\ calls'[Len(calls')].role = role /\ calls'[Len(calls')].agent = a
      /\ calls'[Len(calls')].state = "running"
  BY <1>2 DEF Call
<1>4. /\ CallsBy(role)' = CallsBy(role) \cup {Len(calls')}
      /\ \A other : other # role => CallsBy(other)' = CallsBy(other)
  BY <1>2, <1>3 DEF CallsBy
<1>5. /\ InState("running")' = InState("running") \cup {Len(calls')}
      /\ \A s : s # "running" => InState(s)' = InState(s)
  BY <1>2, <1>3 DEF InState
<1>6. \A i \in CallsBy("member") : calls'[i].agent = calls[i].agent
  BY <1>2 DEF CallsBy
<1>7. MembersAsked' = IF role = "member" THEN MembersAsked \cup {a} ELSE MembersAsked
  BY <1>3, <1>4, <1>6 DEF MembersAsked
<1>8. QED
  BY <1>2, <1>4, <1>5, <1>7

-----------------------------------------------------------------------------
(* What a step does to the context                                          *)

\* The context of a run but for the agents that take part.
SameOptions ==
    /\ ctx'.mode = ctx.mode /\ ctx'.cfg = ctx.cfg
    /\ ctx'.quality = ctx.quality /\ ctx'.target = ctx.target

LEMMA ContextTypes ==
    ASSUME ctx \in Context
    PROVE  /\ ctx.mode \in Modes \cup {""} /\ ctx.cfg \in Config /\ ctx.agents \in Seq(Names)
           /\ ctx.edited \in BOOLEAN /\ ctx.quality \in BOOLEAN
           /\ ctx.cfg.max_select \in Int
           /\ ctx.cfg.agents \in Seq(Names) /\ ctx.cfg.order \in Seq(Names)
BY DEF Context, Config

LEMMA ConfigRead ==
    ASSUME TypeInv, SnapshotConfig
    PROVE  /\ ctx' \in Context /\ ctx'.agents = ctx.agents /\ ctx'.edited = ctx.edited
           /\ ctx'.quality = ctx.quality /\ ctx'.target = ctx.target
<1>1. PICK m \in Modes : \E c \in Configs[m] : \E n \in AdaptedSelect(c.max_select) :
          ctx' = [ctx EXCEPT !.mode = m, !.cfg = [c EXCEPT !.max_select = n]]
  BY DEF SnapshotConfig
<1>a. PICK c \in Configs[m] : \E n \in AdaptedSelect(c.max_select) :
          ctx' = [ctx EXCEPT !.mode = m, !.cfg = [c EXCEPT !.max_select = n]]
  BY <1>1
<1>b. PICK n \in AdaptedSelect(c.max_select) :
          ctx' = [ctx EXCEPT !.mode = m, !.cfg = [c EXCEPT !.max_select = n]]
  BY <1>a
<1>2. c \in Config
  BY ConfigsAssumption DEF ConfigsAssumption
<1>3. n \in Int
  <2>1. c.max_select \in Int
    BY <1>2 DEF Config
  <2>2. QED
    BY <2>1 DEF AdaptedSelect
<1>4. [c EXCEPT !.max_select = n] \in Config
  BY <1>2, <1>3 DEF Config
<1>5. ctx \in Context
  BY DEF TypeInv
<1>6. QED
  BY <1>b, <1>4, <1>5 DEF Context

LEMMA RosterRead ==
    ASSUME TypeInv, SnapshotRoster
    PROVE  /\ ctx' \in Context /\ SameOptions
           /\ ToSet(ctx'.agents) \subseteq Agents /\ AgentsInv'
           /\ ctx.mode \in {"cascade", "pipeline"} /\ ~ctx'.edited /\ Wanted' # {} =>
                ToSet(ctx'.agents) \ {ctx'.cfg.synthesizer} = Wanted'
<1>1. PICK c \in Configs[ctx.mode], open \in SUBSET ToSet(Deployed) :
          ctx' = [ctx EXCEPT
              !.agents = Only[RosterFor(ctx.mode, c)][ToSet(Deployed) \ open],
              !.open = open,
              !.edited = [c EXCEPT !.max_select = ctx.cfg.max_select] # ctx.cfg]
  BY DEF SnapshotRoster
<1> DEFINE r == RosterFor(ctx.mode, c)
           o == Only[r][ToSet(Deployed) \ open]
           edit == [c EXCEPT !.max_select = ctx.cfg.max_select] # ctx.cfg
<1>2. ctx \in Context
  BY DEF TypeInv
<1>3. c \in Config
  <2>1. ctx.mode \in Modes
    BY DEF SnapshotRoster, TypeInv
  <2>2. QED
    BY ConfigsAssumption, <2>1 DEF ConfigsAssumption
<1>4. /\ r \in Seq(Names) /\ ToSet(r) \subseteq Agents
      /\ ctx.mode # "pipeline" => IsInjective(r)
      /\ ToSet(c.agents) \cap Agents # {} =>
           /\ ToSet(r) \subseteq ToSet(c.agents) \cup {c.synthesizer}
           /\ ToSet(c.agents) \cap Agents \subseteq ToSet(r)
  BY <1>3, RosterForIs
<1> HIDE DEF r
<1>5. /\ o \in Seq(Names) /\ ToSet(o) = ToSet(r) \ open /\ open \subseteq Names
      /\ IsInjective(r) => IsInjective(o)
  <2>1. ToSet(Deployed) \ open \subseteq Names
    BY Deployment DEF Agents
  <2>2. /\ o \in Seq(Names) /\ ToSet(o) = ToSet(r) \cap (ToSet(Deployed) \ open)
        /\ IsInjective(r) => IsInjective(o)
    BY <1>4, <2>1, OnlyIs
  <2>3. ToSet(r) \subseteq ToSet(Deployed) /\ open \subseteq Names
    BY <1>4, Deployment DEF Agents
  <2> HIDE DEF o
  <2>4. QED
    BY <2>2, <2>3
<1> HIDE DEF o
<1>6. ~edit => c.agents = ctx.cfg.agents /\ c.synthesizer = ctx.cfg.synthesizer
  BY <1>2, <1>3 DEF Config, Context
<1>7. edit \in BOOLEAN
  OBVIOUS
<1> HIDE DEF edit
<1>8. ctx' = [ctx EXCEPT !.agents = o, !.open = open, !.edited = edit]
  BY <1>1 DEF o, r, edit
<1>9. /\ ctx' \in Context /\ SameOptions /\ ctx'.agents = o /\ ctx'.edited = edit
      /\ ctx'.open = open
  BY <1>2, <1>5, <1>7, <1>8 DEF Context, SameOptions
<1>10. AgentsInv'
  BY <1>4, <1>5, <1>9 DEF AgentsInv, SameOptions
<1>11. ASSUME ~ctx'.edited, Wanted' # {}
       PROVE  ToSet(ctx'.agents) \ {ctx'.cfg.synthesizer} = Wanted'
  <2>1. ctx'.cfg.agents = c.agents /\ ctx'.cfg.synthesizer = c.synthesizer
    BY <1>6, <1>9, <1>11 DEF SameOptions
  <2>2. Wanted' = (ToSet(c.agents) \cap Agents) \ (open \cup {c.synthesizer})
    BY <1>9, <2>1 DEF Wanted
  <2>3. ToSet(c.agents) \cap Agents # {}
    BY <1>11, <2>2
  <2>4. QED
    BY <1>4, <1>5, <1>9, <2>1, <2>2, <2>3
<1>12. QED
  BY <1>4, <1>5, <1>9, <1>10, <1>11

LEMMA AgentsReordered ==
    ASSUME TypeInv, AgentsInv, Supervise
    PROVE  /\ ctx' \in Context /\ SameOptions
           /\ ctx'.edited = ctx.edited /\ ctx'.open = ctx.open
           /\ ToSet(ctx'.agents) = ToSet(ctx.agents) /\ AgentsInv'
<1>1. PICK demoted \in SUBSET ToSet(ctx.agents) :
          ctx' = [ctx EXCEPT !.agents = Only[@][ToSet(@) \ demoted] \o Only[@][demoted]]
  BY DEF Supervise
<1> DEFINE a == ctx.agents
           r == Only[a][ToSet(a) \ demoted] \o Only[a][demoted]
<1>2. ctx \in Context /\ a \in Seq(Names) /\ ToSet(a) \subseteq Names
  BY ContextTypes, EmptyIs DEF TypeInv
<1>3. /\ Only[a][ToSet(a) \ demoted] \in Seq(Names)
      /\ ToSet(Only[a][ToSet(a) \ demoted]) = ToSet(a) \ demoted
      /\ IsInjective(a) => IsInjective(Only[a][ToSet(a) \ demoted])
  <2>1. ToSet(a) \ demoted \subseteq Names /\ ToSet(a) \cap (ToSet(a) \ demoted) = ToSet(a) \ demoted
    BY <1>2
  <2> HIDE DEF a
  <2>2. QED
    BY <1>2, <2>1, OnlyIs
<1>4. /\ Only[a][demoted] \in Seq(Names)
      /\ ToSet(Only[a][demoted]) = demoted
      /\ IsInjective(a) => IsInjective(Only[a][demoted])
  <2>1. demoted \subseteq Names /\ ToSet(a) \cap demoted = demoted
    BY <1>2
  <2> HIDE DEF a
  <2>2. QED
    BY <1>2, <2>1, OnlyIs
<1>5. /\ r \in Seq(Names) /\ ToSet(r) = ToSet(a)
      /\ IsInjective(a) => IsInjective(r)
  <2> DEFINE s == Only[a][ToSet(a) \ demoted]
             t == Only[a][demoted]
  <2>1. s \in Seq(Names) /\ t \in Seq(Names) /\ ToSet(s) \cap ToSet(t) = {}
        /\ ToSet(s) \cup ToSet(t) = ToSet(a)
    BY <1>3, <1>4
  <2>2. IsInjective(a) => IsInjective(s) /\ IsInjective(t)
    BY <1>3, <1>4
  <2> HIDE DEF s, t, a
  <2>3. r = s \o t
    BY DEF s, t
  <2>4. QED
    <3>1. /\ s \o t \in Seq(Names) /\ ToSet(s \o t) = ToSet(s) \cup ToSet(t)
          /\ IsInjective(s) /\ IsInjective(t) /\ ToSet(s) \cap ToSet(t) = {}
               => IsInjective(s \o t)
      BY <2>1, ConcatIs
    <3>2. QED
      BY <2>1, <2>2, <2>3, <3>1
<1> HIDE DEF r
<1>6. ctx' = [ctx EXCEPT !.agents = r]
  BY <1>1 DEF r
<1>7. /\ ctx' \in Context /\ SameOptions /\ ctx'.agents = r
      /\ ctx'.edited = ctx.edited /\ ctx'.open = ctx.open
  BY <1>2, <1>5, <1>6 DEF Context, SameOptions
<1>8. AgentsInv'
  BY <1>5, <1>7 DEF AgentsInv, SameOptions
<1>9. QED
  BY <1>5, <1>7, <1>8

-----------------------------------------------------------------------------
(* What the modes ask for                                                   *)

\* The first calls of a run.
LEMMA FirstCalls ==
    ASSUME calls = <<>>, NEW names \in Seq(Names), ToSet(names) \subseteq Agents,
           calls' = Calls(names)
    PROVE  /\ calls' \in Seq(CallRecord) /\ Len(calls') = Len(names)
           /\ DOMAIN calls' = DOMAIN names
           /\ \A i \in DOMAIN calls' : calls'[i] = Call(names[i], "member", {})
           /\ \A i \in DOMAIN calls' : /\ calls'[i].agent = names[i] /\ calls'[i].quoted = {}
                                       /\ calls'[i].role = "member" /\ calls'[i].state = "running"
           /\ CallsBy("member")' = DOMAIN calls'
           /\ CallsBy("reducer")' = {} /\ CallsBy("classifier")' = {}
           /\ MembersAsked' = ToSet(names)
<1>1. DOMAIN names = 1 .. Len(names) /\ Len(names) \in Nat
  OBVIOUS
<1>2. \A i \in DOMAIN names : names[i] \in Agents
  BY DEF ToSet
<1>3. \A i \in DOMAIN names : Call(names[i], "member", {}) \in CallRecord
  BY <1>2 DEF Call, CallRecord, Roles, CallStates
<1>4. /\ calls' = [i \in 1 .. Len(names) |-> Call(names[i], "member", {})]
      /\ DOMAIN calls' = DOMAIN names
  BY <1>1 DEF Calls
<1>5. calls' \in Seq(CallRecord) /\ Len(calls') = Len(names)
  BY <1>1, <1>3, <1>4
<1>6. \A i \in DOMAIN calls' : calls'[i] = Call(names[i], "member", {})
  BY <1>1, <1>4
<1>7. \A i \in DOMAIN calls' :
          /\ calls'[i].agent = names[i] /\ calls'[i].quoted = {}
          /\ calls'[i].role = "member" /\ calls'[i].state = "running"
  BY <1>6 DEF Call
<1>8. /\ CallsBy("member")' = DOMAIN calls'
      /\ CallsBy("reducer")' = {} /\ CallsBy("classifier")' = {}
  BY <1>7 DEF CallsBy
<1>9. MembersAsked' = ToSet(names)
  <2>1. MembersAsked' = {calls'[i].agent : i \in DOMAIN calls'}
    BY <1>8 DEF MembersAsked
  <2>2. \A i \in DOMAIN names : calls'[i].agent = names[i]
    BY <1>4, <1>7
  <2>3. QED
    BY <1>4, <2>1, <2>2 DEF ToSet
<1>10. QED
  BY <1>4, <1>5, <1>6, <1>7, <1>8, <1>9

LEMMA AgentsTaking ==
    ASSUME TypeInv
    PROVE  /\ Reachable \subseteq Agents /\ Agents \subseteq Names
           /\ IsFiniteSet(Reachable) /\ Reachable = ToSet(ctx.agents)
<1>1. ctx.agents \in Seq(Names)
  BY ContextTypes DEF TypeInv
<1>2. QED
  BY <1>1, Deployment, MembersFinite DEF Reachable, TypeInv

LEMMA FlatMembersAre ==
    ASSUME TypeInv
    PROVE  /\ FlatMembers \in Seq(Names) /\ ToSet(FlatMembers) \subseteq ToSet(ctx.agents)
           /\ IsInjective(ctx.agents) => IsInjective(FlatMembers)
           /\ ~ctx.quality => ToSet(FlatMembers) = ToSet(ctx.agents)
           /\ ctx.quality /\ ctx.target \in ToSet(ctx.agents) => ToSet(FlatMembers) = {ctx.target}
<1>1. ctx.agents \in Seq(Names)
  BY ContextTypes DEF TypeInv
<1>2. CASE ctx.quality /\ ctx.target \in ToSet(ctx.agents)
  <2>1. FlatMembers = <<ctx.target>>
    BY <1>2 DEF FlatMembers
  <2>2. ctx.target \in Names
    BY <1>1, <1>2, EmptyIs
  <2>3. ToSet(<<ctx.target>>) = {ctx.target} /\ IsInjective(<<ctx.target>>)
    BY DEF ToSet, IsInjective
  <2>4. QED
    BY <1>2, <2>1, <2>2, <2>3
<1>3. CASE ~(ctx.quality /\ ctx.target \in ToSet(ctx.agents))
  BY <1>1, <1>3 DEF FlatMembers
<1>4. QED
  BY <1>2, <1>3

LEMMA CascadeMembersAre ==
    ASSUME TypeInv
    PROVE  /\ CascadeMembers \in Seq(Names) /\ ToSet(CascadeMembers) \subseteq ToSet(ctx.agents)
           /\ IsInjective(ctx.agents) => IsInjective(CascadeMembers)
           /\ ~ctx.quality => ToSet(CascadeMembers) = ToSet(ctx.agents) \ {ctx.cfg.synthesizer}
           /\ ctx.quality => ToSet(CascadeMembers) \subseteq {ctx.target}
<1> DEFINE m == Without(ctx.agents, ctx.cfg.synthesizer)
<1>1. ctx.agents \in Seq(Names)
  BY ContextTypes DEF TypeInv
<1>2. /\ m \in Seq(Names) /\ ToSet(m) = ToSet(ctx.agents) \ {ctx.cfg.synthesizer}
      /\ IsInjective(ctx.agents) => IsInjective(m)
  BY <1>1, WithoutIs
<1>3. CascadeMembers = IF ctx.quality THEN Only[m][ToSet(m) \cap {ctx.target}] ELSE m
  BY DEF CascadeMembers
<1> HIDE DEF m
<1>4. ToSet(m) \cap {ctx.target} \subseteq Names
  BY <1>2, EmptyIs
<1>5. /\ Only[m][ToSet(m) \cap {ctx.target}] \in Seq(Names)
      /\ ToSet(Only[m][ToSet(m) \cap {ctx.target}]) = ToSet(m) \cap (ToSet(m) \cap {ctx.target})
      /\ IsInjective(m) => IsInjective(Only[m][ToSet(m) \cap {ctx.target}])
  BY <1>2, <1>4, OnlyIs
<1>6. CASE ctx.quality
  BY <1>2, <1>3, <1>5, <1>6
<1>7. CASE ~ctx.quality
  BY <1>2, <1>3, <1>7
<1>8. QED
  BY <1>6, <1>7

LEMMA ClassifierIs ==
    ASSUME NEW c, NEW names \in Seq(Names), names # <<>>
    PROVE  Classifier(c, names) \in ToSet(names)
<1> DEFINE f == FirstWithTag(names, "planning")
           s == f \o names
<1>1. f \in Seq(Names) /\ ToSet(f) \subseteq ToSet(names)
  BY FirstWithTagIs
<1>2. Classifier(c, names) \in ToSet(names) \/ Classifier(c, names) = Head(s)
  BY DEF Classifier
<1> HIDE DEF f
<1>3. s \in Seq(Names) /\ ToSet(s) = ToSet(f) \cup ToSet(names)
  BY <1>1, ConcatIs
<1>4. ToSet(names) # {}
  BY EmptyIs
<1> HIDE DEF s
<1>5. s # <<>>
  BY <1>3, <1>4, EmptyIs
<1>6. Head(s) \in ToSet(s)
  BY <1>3, <1>5, HeadTailIs
<1>7. QED
  BY <1>1, <1>2, <1>3, <1>6

LEMMA CapIs ==
    ASSUME ctx \in Context
    PROVE  Cap \in Nat /\ Cap >= 1
<1>1. ctx.cfg.max_select \in Int
  BY ContextTypes
<1>2. QED
  BY <1>1 DEF Cap

LEMMA FewAre ==
    ASSUME ctx \in Context, NEW S, IsFiniteSet(S), NEW X \in Few(S)
    PROVE  /\ X \subseteq S /\ IsFiniteSet(X) /\ Cardinality(X) <= Cap
           /\ S # {} => X # {}
<1>1. Cap \in Nat /\ Cap >= 1
  BY CapIs
<1>2. CASE Cardinality(S) <= Cap
  BY <1>2 DEF Few
<1>3. CASE ~(Cardinality(S) <= Cap)
  <2>1. X \in SUBSET S /\ Cardinality(X) = Cap
    BY <1>3 DEF Few, kSubset
  <2>2. IsFiniteSet(X)
    BY <2>1, FS_Subset
  <2>3. X # {}
    BY <1>1, <2>1, FS_EmptySet
  <2>4. QED
    BY <1>1, <2>1, <2>2, <2>3
<1>4. QED
  BY <1>2, <1>3

LEMMA ChoicesAre ==
    ASSUME TypeInv
    PROVE  /\ ChoiceSet \subseteq Reachable /\ ChoiceSet \subseteq Agents /\ IsFiniteSet(ChoiceSet)
           /\ \A text : NamesIn(text) \subseteq ChoiceSet /\ IsFiniteSet(NamesIn(text))
<1>1. ChoiceSet \subseteq Reachable
  BY DEF ChoiceSet
<1>2. ChoiceSet \subseteq Agents /\ IsFiniteSet(ChoiceSet)
  BY <1>1, AgentsTaking, FS_Subset
<1>3. ASSUME NEW text PROVE NamesIn(text) \subseteq ChoiceSet
  BY DEF NamesIn
<1>4. QED
  BY <1>1, <1>2, <1>3, FS_Subset

\* Whoever the router falls back to takes part, and somebody does where two
\* agents are there.
LEMMA FallbacksAre ==
    ASSUME TypeInv, NEW X \in FallbackChoices
    PROVE  /\ X \subseteq Reachable /\ IsFiniteSet(X) /\ Cardinality(X) <= Cap
           /\ Cardinality(Reachable) >= 2 => X # {}
<1> DEFINE configured == ToSet(ctx.cfg.fallback) \cap Reachable
           others == Without(ctx.agents, Classifier(ctx.cfg, ctx.agents))
<1>1. /\ ctx \in Context /\ ctx.agents \in Seq(Names)
      /\ IsFiniteSet(Reachable) /\ Reachable = ToSet(ctx.agents)
  BY AgentsTaking, ContextTypes DEF TypeInv
<1>2. CASE configured # {}
  <2>1. X \in Few(configured)
    BY <1>2 DEF FallbackChoices
  <2>2. IsFiniteSet(configured)
    BY <1>1, FS_Subset
  <2> HIDE DEF configured
  <2>3. X \subseteq configured /\ IsFiniteSet(X) /\ Cardinality(X) <= Cap /\ X # {}
    BY <1>1, <1>2, <2>1, <2>2, FewAre
  <2>4. QED
    BY <2>3 DEF configured
<1>3. CASE configured = {}
  <2>1. X = ToSet(FirstFew(others))
    BY <1>3 DEF FallbackChoices
  <2>2. others \in Seq(Names) /\ ToSet(others) = Reachable \ {Classifier(ctx.cfg, ctx.agents)}
    BY <1>1, WithoutIs
  <2> HIDE DEF others
  <2> DEFINE n == IF Len(others) < Cap THEN Len(others) ELSE Cap
             few == SubSeq(others, 1, n)
  <2>3. Cap \in Nat /\ Cap >= 1 /\ Len(others) \in Nat /\ n \in 0 .. Len(others) /\ n <= Cap
    BY <1>1, <2>2, CapIs
  <2>4. FirstFew(others) = few
    BY DEF FirstFew
  <2>5. others # <<>> => n >= 1
    BY <2>2, <2>3
  <2> HIDE DEF n
  <2>6. few \in Seq(Names) /\ Len(few) = n /\ \A i \in 1 .. n : few[i] = others[i]
    BY <2>2, <2>3
  <2> HIDE DEF few
  <2>7. ToSet(few) \subseteq ToSet(others)
    BY <2>2, <2>3, <2>6 DEF ToSet
  <2>8. IsFiniteSet(ToSet(few)) /\ Cardinality(ToSet(few)) <= n
    BY <2>6, MembersFinite
  <2>9. others # <<>> => ToSet(few) # {}
    <3>1. others # <<>> => Len(few) >= 1
      BY <2>3, <2>5, <2>6
    <3>2. others # <<>> => few # <<>>
      BY <3>1
    <3>3. QED
      BY <2>6, <3>2, EmptyIs
  <2>10. Cardinality(Reachable) >= 2 => others # <<>>
    <3>1. HAVE Cardinality(Reachable) >= 2
    <3>2. \A x : Reachable \ {x} # {}
      <4>1. ASSUME NEW x, Reachable \ {x} = {} PROVE FALSE
        <5>1. Reachable \in SUBSET {x} /\ IsFiniteSet({x}) /\ Cardinality({x}) = 1
          BY <4>1, FS_Singleton
        <5>2. Cardinality(Reachable) <= 1
          BY <5>1, FS_Subset
        <5>3. Cardinality(Reachable) \in Nat
          BY <1>1, FS_CardinalityType
        <5>4. QED
          BY <3>1, <5>2, <5>3
      <4>2. QED
        BY <4>1
    <3>3. QED
      BY <2>2, <3>2, EmptyIs
  <2>11. Cardinality(ToSet(few)) <= Cap
    <3>1. Cardinality(ToSet(few)) \in Nat
      BY <2>8, FS_CardinalityType
    <3>2. QED
      BY <2>3, <2>8, <3>1
  <2>12. QED
    BY <2>1, <2>2, <2>4, <2>7, <2>8, <2>9, <2>10, <2>11
<1>4. QED
  BY <1>2, <1>3

-----------------------------------------------------------------------------
(* Before the mode runs                                                     *)

Idle ==
    /\ Before /\ StartInv /\ AgentsInv
    /\ ctx \in Context /\ ToSet(ctx.agents) \subseteq Agents
    /\ pc # "mode" => ctx.mode \in Modes

LEMMA IdleHolds == Idle => RunInv
<1> SUFFICES ASSUME Idle PROVE RunInv
  OBVIOUS
<1>1. /\ calls = <<>> /\ chain = <<>> /\ prev = 0 /\ final = 0
      /\ raw = <<>> /\ picked = {} /\ launched = "no"
  BY DEF Idle, StartInv
<1>2. /\ DOMAIN calls = {} /\ Len(calls) = 0 /\ ToSet(chain) = {}
  BY <1>1 DEF ToSet
<1>3. /\ \A role : CallsBy(role) = {}
      /\ \A s : InState(s) = {}
      /\ MembersAsked = {}
  BY <1>2 DEF CallsBy, InState, MembersAsked
<1>4. pc \in {"mode", "roster", "supervise", "start", "rejected"}
  BY DEF Idle, Before
<1>5. TypeInv
  BY <1>1, <1>2, <1>4 DEF Idle, TypeInv, PCs, ClosedStates
<1>6. ModeInv
  BY <1>1, <1>3, <1>4 DEF ModeInv
<1>7. CallsInv
  BY <1>3, <1>4 DEF CallsInv, AllEnded, AnyThrew
<1>8. BroadcastInv
  BY DEF Idle, BroadcastInv
<1>9. PipelineInv
  BY <1>3, <1>4 DEF Idle, PipelineInv
<1>10. RouterInv
  <2>1. Cardinality(picked) = 0 /\ Cap >= 0
    BY <1>1, CapIs, FS_EmptySet DEF Idle
  <2>2. QED
    BY <1>1, <1>3, <1>4, <2>1 DEF RouterInv
<1>11. StreamInv
  BY <1>1 DEF StreamInv, EarlySelectionStands
<1>12. TextsInv
  BY <1>3, <1>4 DEF TextsInv, StagesReadLastGood, ReducerReads, FinalIsLastGood
<1>13. QED
  BY <1>5, <1>6, <1>7, <1>8, <1>9, <1>10, <1>11, <1>12 DEF Idle, RunInv

LEMMA RunStarts == Init => RunInv
<1> SUFFICES ASSUME Init PROVE Idle
  BY IdleHolds
<1>1. PICK pass \in {NoQualityPass} \cup [quality : {TRUE}, target : Targets] :
          ctx = [mode |-> "", cfg |-> EmptyConfig, agents |-> <<>>, open |-> {},
                 edited |-> FALSE, quality |-> pass.quality, target |-> pass.target]
  BY DEF Init
<1>2. pass.quality \in BOOLEAN /\ pass.target \in Targets \cup {NoName}
  <2>1. CASE pass = NoQualityPass
    BY <2>1 DEF NoQualityPass
  <2>2. CASE pass \in [quality : {TRUE}, target : Targets]
    BY <2>2
  <2>3. QED
    BY <2>1, <2>2
<1>3. EmptyConfig \in Config
  BY DEF EmptyConfig, Config
<1>4. ctx \in Context /\ ctx.agents = <<>>
  <2>1. "" \in Modes \cup {""} /\ FALSE \in BOOLEAN /\ <<>> \in Seq(Names)
        /\ {} \in SUBSET Names
    OBVIOUS
  <2>2. QED
    BY <1>1, <1>2, <1>3, <2>1 DEF Context
<1>5. ToSet(ctx.agents) = {} /\ IsInjective(ctx.agents)
  BY <1>4 DEF ToSet, IsInjective
<1>6. QED
  BY <1>4, <1>5 DEF Init, Idle, Before, StartInv, AgentsInv

LEMMA PreludeRuns ==
    ASSUME RunInv, SnapshotConfig \/ SnapshotRoster \/ Supervise
    PROVE  RunInv'
<1>1. TypeInv /\ StartInv /\ AgentsInv
  BY DEF RunInv
<1>2. pc \in {"mode", "roster", "supervise"} /\ Before
  BY DEF SnapshotConfig, SnapshotRoster, Supervise, Before
<1>3. UNCHANGED <<calls, final, chain, prev, raw, picked, launched>>
  BY DEF SnapshotConfig, SnapshotRoster, Supervise, pipelineVars, routerVars
<1>4. SUFFICES Idle'
  BY IdleHolds, PTL
<1>5. CASE SnapshotConfig
  <2>1. /\ ctx' \in Context /\ ctx'.agents = ctx.agents /\ ctx.agents = <<>>
        /\ pc' \in {"roster", "rejected"}
    BY <1>1, <1>5, ConfigRead DEF SnapshotConfig, StartInv
  <2>2. ctx'.mode \in Modes
    <3>1. PICK m \in Modes : \E c \in Configs[m] : \E n \in AdaptedSelect(c.max_select) :
              ctx' = [ctx EXCEPT !.mode = m, !.cfg = [c EXCEPT !.max_select = n]]
      BY <1>5 DEF SnapshotConfig
    <3>2. QED
      BY <1>1, <3>1 DEF TypeInv, Context
  <2>3. ToSet(<<>>) = {} /\ IsInjective(<<>>)
    BY DEF ToSet, IsInjective
  <2>4. QED
    BY <1>1, <1>2, <1>3, <2>1, <2>2, <2>3 DEF Idle, Before, StartInv, AgentsInv
<1>6. CASE SnapshotRoster
  <2>1. pc = "roster" /\ pc' = "supervise"
    BY <1>6 DEF SnapshotRoster
  <2>2. QED
    BY <1>1, <1>2, <1>3, <1>6, <2>1, RosterRead
    DEF Idle, Before, StartInv, SameOptions, TypeInv
<1>7. CASE Supervise
  <2>1. pc = "supervise" /\ pc' = "start"
    BY <1>7 DEF Supervise
  <2>2. QED
    BY <1>1, <1>2, <1>3, <1>7, <2>1, AgentsReordered
    DEF Idle, Before, StartInv, SameOptions, TypeInv
<1>8. QED
  BY <1>5, <1>6, <1>7

-----------------------------------------------------------------------------
(* Parts of the invariant a step cannot disturb                             *)

\* Outside the router.
LEMMA RouterAway ==
    ASSUME TypeInv, ModeInv, ctx' = ctx, ctx.mode # "router", UNCHANGED routerVars,
           pc' # "stream"
    PROVE  RouterInv' /\ StreamInv'
<1>1. picked' = {} /\ launched' = "no"
  BY DEF ModeInv, routerVars
<1>2. Cardinality(picked') = 0 /\ Cap' = Cap /\ Cap >= 0
  BY <1>1, CapIs, FS_EmptySet DEF TypeInv, Cap
<1>3. RouterInv'
  BY <1>1, <1>2 DEF RouterInv
<1>4. StreamInv'
  BY <1>1 DEF StreamInv, EarlySelectionStands
<1>5. QED
  BY <1>3, <1>4

\* Outside the pipeline.
LEMMA PipelineAway ==
    ASSUME ctx'.mode # "pipeline", pc' \notin {"stage", "stage_call", "fallback", "chain_end"}
    PROVE  PipelineInv' /\ StagesReadLastGood'
BY DEF PipelineInv, StagesReadLastGood

LEMMA ContextKept ==
    ASSUME TypeInv, AgentsInv, ctx' = ctx
    PROVE  /\ ctx' \in Context /\ ToSet(ctx'.agents) \subseteq Agents /\ AgentsInv'
           /\ FlatMembers' = FlatMembers /\ CascadeMembers' = CascadeMembers
           /\ Resolved' = Resolved
BY DEF TypeInv, AgentsInv, FlatMembers, CascadeMembers, Resolved

-----------------------------------------------------------------------------
(* Everybody at once                                                        *)

LEMMA BroadcastStarts ==
    ASSUME RunInv, FlatStart \/ CascadeStart, UNCHANGED <<pipelineVars, routerVars>>
    PROVE  RunInv'
<1> DEFINE names == IF ctx.mode = "flat" THEN FlatMembers ELSE CascadeMembers
<1>1. TypeInv /\ StartInv /\ ModeInv /\ AgentsInv
  BY DEF RunInv
<1>2. /\ pc = "start" /\ pc' = "collect" /\ ctx.mode \in {"flat", "cascade"} /\ ctx' = ctx
      /\ calls' = Calls(names) /\ final' = final
  BY DEF FlatStart, CascadeStart
<1>3. calls = <<>> /\ chain = <<>> /\ prev = 0 /\ final = 0
  BY <1>1, <1>2 DEF StartInv, Before
<1>4. IsInjective(ctx.agents)
  BY <1>1, <1>2 DEF AgentsInv
<1>5. names \in Seq(Names) /\ ToSet(names) \subseteq Agents /\ IsInjective(names)
  BY <1>1, <1>4, FlatMembersAre, CascadeMembersAre DEF TypeInv
<1> HIDE DEF names
<1>6. /\ calls' \in Seq(CallRecord) /\ DOMAIN calls' = DOMAIN names /\ Len(calls') \in Nat
      /\ \A i \in DOMAIN calls' : /\ calls'[i].agent = names[i] /\ calls'[i].quoted = {}
                                  /\ calls'[i].state = "running"
      /\ CallsBy("member")' = DOMAIN calls'
      /\ CallsBy("reducer")' = {} /\ CallsBy("classifier")' = {}
      /\ MembersAsked' = ToSet(names)
  <2>1. /\ calls' \in Seq(CallRecord) /\ DOMAIN calls' = DOMAIN names
        /\ \A i \in DOMAIN calls' : /\ calls'[i].agent = names[i] /\ calls'[i].quoted = {}
                                    /\ calls'[i].state = "running"
        /\ CallsBy("member")' = DOMAIN calls'
        /\ CallsBy("reducer")' = {} /\ CallsBy("classifier")' = {}
        /\ MembersAsked' = ToSet(names)
    BY <1>2, <1>3, <1>5, FirstCalls
  <2>2. QED
    BY <2>1
<1>7. /\ ctx' \in Context /\ ToSet(ctx'.agents) \subseteq Agents /\ AgentsInv'
      /\ FlatMembers' = FlatMembers /\ CascadeMembers' = CascadeMembers
  BY <1>1, <1>2, ContextKept
<1>8. TypeInv'
  BY <1>1, <1>2, <1>3, <1>6, <1>7 DEF TypeInv, PCs, pipelineVars, routerVars
<1>9. StartInv' /\ ModeInv'
  BY <1>1, <1>2, <1>6 DEF StartInv, ModeInv, Before, routerVars
<1>10. CallsInv'
  <2>1. \A i, j \in CallsBy("member")' : calls'[i].agent = calls'[j].agent => i = j
    BY <1>5, <1>6 DEF IsInjective
  <2>2. QED
    BY <1>2, <1>6, <2>1 DEF CallsInv, ClosedStates
<1>11. BroadcastInv'
  BY <1>2, <1>6, <1>7 DEF BroadcastInv, names
<1>12. PipelineInv' /\ StagesReadLastGood'
  BY <1>2, PipelineAway
<1>13. RouterInv' /\ StreamInv'
  BY <1>1, <1>2, RouterAway
<1>14. TextsInv'
  BY <1>2, <1>6, <1>12 DEF TextsInv, ReducerReads, FinalIsLastGood
<1>15. QED
  BY <1>7, <1>8, <1>9, <1>10, <1>11, <1>12, <1>13, <1>14 DEF RunInv

-----------------------------------------------------------------------------
(* The end of a run                                                         *)

\* What stays when neither the context nor the calls change.
LEMMA CallsKept ==
    ASSUME UNCHANGED <<ctx, calls>>
    PROVE  /\ \A role : CallsBy(role)' = CallsBy(role)
           /\ \A s : InState(s)' = InState(s)
           /\ MembersAsked' = MembersAsked /\ Healthy' = Healthy /\ Cap' = Cap
           /\ Resolved' = Resolved /\ FlatMembers' = FlatMembers
           /\ CascadeMembers' = CascadeMembers /\ Reachable' = Reachable
           /\ AllEnded' = AllEnded /\ AnyThrew' = AnyThrew
BY DEF CallsBy, InState, MembersAsked, Healthy, Cap, Resolved, FlatMembers, CascadeMembers,
       Reachable, AllEnded, AnyThrew

LEMMA StreamKept ==
    ASSUME StreamInv, UNCHANGED <<ctx, raw, picked, launched>>, pc' = "stream" => pc = "stream"
    PROVE  StreamInv'
<1>1. ChoiceSet' = ChoiceSet /\ Cap' = Cap
  BY DEF ChoiceSet, Reachable, Cap
<1>2. LineComplete(raw') = LineComplete(raw) /\ LineComplete(raw)' = LineComplete(raw')
  BY DEF LineComplete
<1>3. EarlySelectionStands'
  BY <1>1 DEF StreamInv, EarlySelectionStands, Few
<1>4. QED
  BY <1>2, <1>3 DEF StreamInv

LEMMA Closes ==
    ASSUME RunInv, ~Before, pc' \in {"done", "failed"}, AllEnded,
           UNCHANGED <<ctx, calls, pipelineVars, routerVars>>,
           ctx.mode \in {"flat", "cascade", "pipeline", "router"},
           final' \in 0 .. Len(calls), FinalIsLastGood',
           pc' = "done" /\ ctx.mode = "pipeline" =>
              /\ ~ctx.quality => MembersAsked = Resolved \/ (Resolved = {} /\ chain = <<>>)
              /\ ctx.agents # <<>> => CallsBy("member") # {},
           pc' = "done" /\ ctx.mode = "router" => pc = "collect" /\ ~AnyThrew
    PROVE  RunInv'
<1>1. /\ TypeInv /\ StartInv /\ ModeInv /\ AgentsInv /\ CallsInv
      /\ BroadcastInv /\ PipelineInv /\ RouterInv /\ StreamInv /\ TextsInv
  BY DEF RunInv
<1>2. /\ ctx' = ctx /\ calls' = calls /\ chain' = chain /\ prev' = prev
      /\ raw' = raw /\ picked' = picked /\ launched' = launched
  BY DEF pipelineVars, routerVars
<1>3. /\ \A role : CallsBy(role)' = CallsBy(role)
      /\ \A s : InState(s)' = InState(s)
      /\ MembersAsked' = MembersAsked /\ Healthy' = Healthy /\ Cap' = Cap
      /\ Resolved' = Resolved /\ FlatMembers' = FlatMembers
      /\ CascadeMembers' = CascadeMembers
      /\ AllEnded' = AllEnded /\ AnyThrew' = AnyThrew
  BY <1>2, CallsKept
<1>4. TypeInv'
  BY <1>1, <1>2 DEF TypeInv, PCs, ClosedStates, Before
<1>5. StartInv' /\ ModeInv'
  BY <1>1, <1>2, <1>3 DEF StartInv, ModeInv, Before
<1>6. AgentsInv'
  BY <1>1, <1>2, ContextKept
<1>7. CallsInv'
  BY <1>1, <1>2, <1>3 DEF CallsInv, ClosedStates
<1>8. BroadcastInv'
  BY <1>1, <1>2, <1>3 DEF BroadcastInv
<1>9. PipelineInv'
  BY <1>1, <1>2, <1>3 DEF PipelineInv
<1>10. RouterInv'
  BY <1>1, <1>2, <1>3 DEF RouterInv
<1>11. StreamInv'
  BY <1>1, <1>2, StreamKept
<1>12. TextsInv'
  BY <1>1, <1>2, <1>3 DEF TextsInv, StagesReadLastGood, ReducerReads
<1>13. QED
  BY <1>4, <1>5, <1>6, <1>7, <1>8, <1>9, <1>10, <1>11, <1>12 DEF RunInv

LEMMA CollectsEnd ==
    ASSUME RunInv, pc = "collect", AllEnded, ctx.mode \in {"flat", "cascade", "router"},
           Unwind \/ (Return(0) /\ ctx.mode # "router")
              \/ (Return(0) /\ ~AnyThrew),
           UNCHANGED <<ctx, calls, pipelineVars, routerVars>>
    PROVE  RunInv'
<1>1. TypeInv /\ CallsInv
  BY DEF RunInv
<1>2. pc' \in {"done", "failed"} /\ final' \in 0 .. Len(calls)
  BY <1>1 DEF Unwind, Return, TypeInv
<1>3. FinalIsLastGood'
  <2>1. CallsBy("reducer") = {}
    BY <1>1 DEF CallsInv
  <2>2. CallsBy("reducer")' = {}
    BY <2>1, CallsKept
  <2>3. pc' = "done" => final' = 0
    BY DEF Unwind, Return
  <2>4. ctx'.mode # "pipeline"
    OBVIOUS
  <2>5. QED
    BY <2>2, <2>3, <2>4 DEF FinalIsLastGood
<1>4. pc' = "done" /\ ctx.mode = "router" => ~AnyThrew
  BY DEF Unwind
<1>5. QED
  BY <1>2, <1>3, <1>4, Closes DEF Before

LEMMA ReduceEnds ==
    ASSUME RunInv, EndReduce, UNCHANGED <<pipelineVars, routerVars>>
    PROVE  RunInv'
<1>1. TypeInv /\ CallsInv /\ ModeInv /\ PipelineInv
  BY DEF RunInv
<1>2. /\ pc = "reduce" /\ AllEnded /\ UNCHANGED <<ctx, calls>>
      /\ Unwind \/ Return(Len(calls))
  BY DEF EndReduce
<1>3. pc' \in {"done", "failed"} /\ final' \in 0 .. Len(calls) /\ ctx.mode \in {"cascade", "pipeline"}
  BY <1>1, <1>2 DEF Unwind, Return, TypeInv, ModeInv
<1>4. FinalIsLastGood'
  <2>1. Len(calls) \in CallsBy("reducer")
    BY <1>1, <1>2 DEF CallsInv
  <2>2. CallsBy("reducer")' = CallsBy("reducer")
    BY <1>2, CallsKept
  <2>3. pc' = "done" => final' = Len(calls)
    BY <1>2 DEF Unwind, Return
  <2>4. QED
    BY <2>1, <2>2, <2>3 DEF FinalIsLastGood
<1>5. ctx.mode = "pipeline" =>
              /\ ~ctx.quality => MembersAsked = Resolved \/ (Resolved = {} /\ chain = <<>>)
              /\ ctx.agents # <<>> => CallsBy("member") # {}
  BY <1>1, <1>2 DEF PipelineInv, Before
<1>6. QED
  BY <1>2, <1>3, <1>4, <1>5, Closes DEF Before

-----------------------------------------------------------------------------
(* The end of a call                                                        *)

LEMMA CallEndsKeeps ==
    ASSUME RunInv, CallEnds
    PROVE  RunInv'
<1>1. /\ TypeInv /\ StartInv /\ ModeInv /\ AgentsInv /\ CallsInv
      /\ BroadcastInv /\ PipelineInv /\ RouterInv /\ StreamInv /\ TextsInv
  BY DEF RunInv
<1>2. PICK i \in InState("running") \ CallsBy("classifier"), s \in {"ok", "error", "threw"} :
          calls' = [calls EXCEPT ![i].state = s]
  BY DEF CallEnds, EndCall
<1>3. /\ pc' = pc /\ ctx' = ctx /\ final' = final /\ chain' = chain /\ prev' = prev
      /\ raw' = raw /\ picked' = picked /\ launched' = launched
  BY DEF CallEnds, EndCall, pipelineVars, routerVars
<1>4. i \in DOMAIN calls /\ calls[i].state = "running" /\ s \in CallStates \ {"running"}
  BY DEF InState, CallStates
<1>5. /\ calls' \in Seq(CallRecord) /\ Len(calls') = Len(calls)
      /\ \A j \in DOMAIN calls : /\ calls'[j].agent = calls[j].agent
                                 /\ calls'[j].role = calls[j].role
                                 /\ calls'[j].quoted = calls[j].quoted
                                 /\ j # i => calls'[j] = calls[j]
      /\ calls'[i].state = s
      /\ InState("running")' = InState("running") \ {i}
  BY <1>1, <1>2, <1>4, CallEnded DEF TypeInv
<1>6. /\ DOMAIN calls' = DOMAIN calls
      /\ \A role : CallsBy(role)' = CallsBy(role)
      /\ MembersAsked' = MembersAsked
  BY <1>1, <1>5, SameCalls DEF TypeInv
<1>7. /\ \A j \in InState("threw")' : j = i \/ j \in InState("threw")
      /\ InState("threw") \subseteq InState("threw")'
  BY <1>4, <1>5, <1>6 DEF InState
<1>8. pc \in {"stage_call", "fallback", "stream", "collect", "reduce"}
  <2>1. DOMAIN calls # {} /\ ~AllEnded
    BY <1>2, <1>4 DEF AllEnded
  <2>2. ~Before
    BY <1>1, <2>1 DEF StartInv
  <2>3. QED
    BY <1>1, <2>1, <2>2 DEF CallsInv, TypeInv, PCs, Before, ClosedStates
<1>9. pc \in {"stage_call", "fallback", "reduce"} => i = Len(calls)
  BY <1>1, <1>2 DEF CallsInv
<1>10. TypeInv'
  BY <1>1, <1>3, <1>5, <1>6 DEF TypeInv
<1>11. StartInv' /\ ModeInv'
  BY <1>1, <1>3, <1>6, <1>8 DEF StartInv, ModeInv, Before
<1>12. AgentsInv' /\ FlatMembers' = FlatMembers /\ CascadeMembers' = CascadeMembers
       /\ Resolved' = Resolved /\ Cap' = Cap
  BY <1>1, <1>3, ContextKept DEF Cap
<1>13. CallsInv'
  <2>1. \A j, k \in CallsBy("member")' : calls'[j].agent = calls'[k].agent => j = k
    <3>1. \A j \in CallsBy("member") : calls'[j].agent = calls[j].agent
      BY <1>5 DEF CallsBy
    <3>2. QED
      BY <1>1, <1>6, <3>1 DEF CallsInv
  <2>2. pc \in {"stage_call", "fallback", "reduce"} =>
          \A j \in InState("running")' \cup InState("threw")' : j = Len(calls')
    BY <1>1, <1>5, <1>7, <1>9 DEF CallsInv
  <2>3. QED
    BY <1>1, <1>3, <1>5, <1>6, <1>8, <2>1, <2>2 DEF CallsInv, ClosedStates
<1>14. BroadcastInv'
  BY <1>1, <1>3, <1>6, <1>12 DEF BroadcastInv, Before
<1>15. \A n \in Nat : n < i => LastGood(n)' = LastGood(n)
  <2>1. i \in 1 .. Len(calls)
    BY <1>1, <1>4 DEF TypeInv
  <2>2. ASSUME NEW n \in Nat, n < i, NEW j \in 1 .. n PROVE calls'[j] = calls[j]
    BY <1>5, <2>1, <2>2
  <2>3. QED
    BY <2>2 DEF LastGood
<1>16. PipelineInv'
  <2>1. pc = "stage_call" => LastGood(Len(calls) - 1)' = LastGood(Len(calls) - 1)
                             /\ calls'[Len(calls')].agent = calls[Len(calls)].agent
                             /\ Len(calls') = Len(calls)
    <3>1. i \in 1 .. Len(calls) /\ Len(calls) \in Nat
      BY <1>1, <1>4 DEF TypeInv
    <3>2. QED
      BY <1>5, <1>9, <1>15, <3>1
  <2>2. Given' = Given
    BY <1>3 DEF Given
  <2>3. QED
    BY <1>1, <1>3, <1>5, <1>6, <1>8, <1>12, <2>1, <2>2 DEF PipelineInv, Before
<1>17. RouterInv'
  <2>1. pc = "stream" => 1 \in CallsBy("classifier")' /\ 1 \in InState("running")'
    BY <1>1, <1>2, <1>5, <1>6 DEF RouterInv
  <2>2. AnyThrew => AnyThrew'
    BY <1>7 DEF AnyThrew
  <2>3. pc = "stream" => calls' # <<>>
    BY <1>5, <1>6, <1>4
  <2>4. QED
    BY <1>1, <1>3, <1>6, <1>8, <1>12, <2>1, <2>2, <2>3 DEF RouterInv
<1>18. StreamInv'
  BY <1>1, <1>3, StreamKept
<1>19. TextsInv'
  <2>1. StagesReadLastGood'
    <3>1. SUFFICES ASSUME ctx.mode = "pipeline", NEW k \in CallsBy("member")
                   PROVE  (LET good == {j \in 1 .. k - 1 : calls[j].state = "ok"}
                           IN  calls[k].quoted = {j \in good : \A l \in good : l <= j})'
      BY <1>3, <1>6 DEF StagesReadLastGood
    <3>2. k \in 1 .. Len(calls) /\ i \in 1 .. Len(calls) /\ Len(calls) \in Nat
      BY <1>1, <1>4 DEF TypeInv, CallsBy
    <3>3. i = Len(calls)
      BY <1>1, <1>8, <1>9, <3>1 DEF ModeInv
    <3>4. \A j \in 1 .. k - 1 : calls'[j] = calls[j]
      BY <1>5, <3>2, <3>3
    <3>5. calls'[k].quoted = calls[k].quoted
      BY <1>5, <3>2
    <3>6. LET good == {j \in 1 .. k - 1 : calls[j].state = "ok"}
          IN  calls[k].quoted = {j \in good : \A l \in good : l <= j}
      BY <1>1, <3>1 DEF TextsInv, StagesReadLastGood
    <3>7. QED
      BY <3>4, <3>5, <3>6
  <2>2. ReducerReads'
    <3>1. SUFFICES ASSUME NEW k \in CallsBy("reducer")
                   PROVE  (calls[k].quoted = IF ctx.mode = "cascade" THEN Healthy
                                             ELSE CallsBy("member"))'
      BY <1>6 DEF ReducerReads
    <3>2. pc = "reduce" /\ k = Len(calls) /\ k = i /\ k \in DOMAIN calls
      BY <1>1, <1>8, <1>9 DEF CallsInv, CallsBy
    <3>3. i \notin CallsBy("member")
      BY <3>2 DEF CallsBy
    <3>4. \A j \in CallsBy("member") : calls'[j] = calls[j]
      BY <1>5, <3>3 DEF CallsBy
    <3>5. Healthy' = Healthy
      BY <1>6, <3>4 DEF Healthy, CallsBy, InState
    <3>6. calls'[k].quoted = calls[k].quoted
      BY <1>5, <3>2
    <3>7. QED
      BY <1>1, <1>3, <1>6, <3>5, <3>6 DEF TextsInv, ReducerReads
  <2>3. FinalIsLastGood'
    BY <1>3, <1>8 DEF FinalIsLastGood
  <2>4. QED
    BY <2>1, <2>2, <2>3 DEF TextsInv
<1>20. QED
  BY <1>10, <1>11, <1>12, <1>13, <1>14, <1>16, <1>17, <1>18, <1>19 DEF RunInv

-----------------------------------------------------------------------------
(* The start of a reduction                                                 *)

LEMMA ReduceStarts ==
    ASSUME RunInv, pc \in {"collect", "stage", "chain_end"}, ctx.mode \in {"cascade", "pipeline"},
           AllEnded, ~AnyThrew, ctx.cfg.synthesizer \in ToSet(ctx.agents),
           CallsBy("member") # {},
           Reduce(IF ctx.mode = "cascade" THEN Healthy ELSE CallsBy("member")),
           ctx.mode = "pipeline" /\ ~ctx.quality =>
              MembersAsked = Resolved \/ (Resolved = {} /\ chain = <<>>),
           UNCHANGED <<ctx, pipelineVars, routerVars>>
    PROVE  RunInv'
<1> DEFINE S == IF ctx.mode = "cascade" THEN Healthy ELSE CallsBy("member")
           a == ctx.cfg.synthesizer
           n == Len(calls')
<1>1. /\ TypeInv /\ StartInv /\ ModeInv /\ AgentsInv /\ CallsInv
      /\ BroadcastInv /\ PipelineInv /\ RouterInv /\ StreamInv /\ TextsInv
  BY DEF RunInv
<1>2. /\ pc' = "reduce" /\ ctx' = ctx /\ final' = final /\ chain' = chain /\ prev' = prev
      /\ raw' = raw /\ picked' = picked /\ launched' = launched
      /\ calls' = Append(calls, Call(a, "reducer", S))
  BY DEF Reduce, pipelineVars, routerVars
<1>3. a \in Agents /\ "reducer" \in Roles /\ S \subseteq DOMAIN calls
  BY <1>1 DEF TypeInv, Roles, Healthy, CallsBy
<1> HIDE DEF S, a
<1>4. /\ calls' \in Seq(CallRecord) /\ n = Len(calls) + 1
      /\ \A i \in DOMAIN calls : i \in DOMAIN calls' /\ calls'[i] = calls[i]
      /\ calls'[n] = Call(a, "reducer", S)
      /\ CallsBy("reducer")' = CallsBy("reducer") \cup {n}
      /\ \A other : other # "reducer" => CallsBy(other)' = CallsBy(other)
      /\ MembersAsked' = MembersAsked
      /\ InState("running")' = InState("running") \cup {n}
      /\ \A s : s # "running" => InState(s)' = InState(s)
  BY <1>1, <1>2, <1>3, OneMoreCall DEF TypeInv
<1>5. calls'[n].quoted = S
  BY <1>4 DEF Call
<1>6. Len(calls) \in Nat /\ DOMAIN calls = 1 .. Len(calls) /\ DOMAIN calls' = 1 .. n /\ n \in Nat
  BY <1>1, <1>4 DEF TypeInv
<1> HIDE DEF n
<1>7. /\ CallsBy("reducer") = {} /\ CallsBy("classifier") = {}
      /\ InState("running") = {} /\ InState("threw") = {}
  BY <1>1 DEF CallsInv, ModeInv, AllEnded, AnyThrew
<1>8. TypeInv'
  <2>1. \A i \in DOMAIN calls' : calls'[i].quoted \subseteq DOMAIN calls'
    <3>1. \A i \in DOMAIN calls : calls'[i].quoted \subseteq DOMAIN calls'
      BY <1>1, <1>4 DEF TypeInv
    <3>2. calls'[n].quoted \subseteq DOMAIN calls'
      BY <1>3, <1>4, <1>5
    <3>3. QED
      BY <1>4, <1>6, <3>1, <3>2
  <2>2. QED
    BY <1>1, <1>2, <1>4, <1>6, <2>1 DEF TypeInv, PCs, n
<1>9. StartInv' /\ ModeInv'
  BY <1>1, <1>2, <1>4, <1>7 DEF StartInv, ModeInv, Before
<1>10. AgentsInv' /\ FlatMembers' = FlatMembers /\ CascadeMembers' = CascadeMembers
       /\ Resolved' = Resolved /\ Cap' = Cap
  BY <1>1, <1>2, ContextKept DEF Cap
<1>11. CallsInv'
  <2>1. \A i, j \in CallsBy("member")' : calls'[i].agent = calls'[j].agent => i = j
    <3>1. \A i \in CallsBy("member") : calls'[i] = calls[i]
      BY <1>4 DEF CallsBy
    <3>2. QED
      BY <1>1, <1>4, <3>1 DEF CallsInv
  <2>2. /\ CallsBy("reducer")' = {n} /\ CallsBy("classifier")' = {}
        /\ InState("running")' = {n} /\ InState("threw")' = {}
    BY <1>4, <1>7
  <2>3. n = Len(calls') /\ n > 0
    BY <1>4, <1>6 DEF n
  <2>4. QED
    BY <1>2, <2>1, <2>2, <2>3 DEF CallsInv, ClosedStates
<1>12. BroadcastInv'
  BY <1>1, <1>2, <1>4, <1>10 DEF BroadcastInv, Before
<1>13. PipelineInv'
  BY <1>1, <1>2, <1>4, <1>10 DEF PipelineInv, Before
<1>14. RouterInv' /\ StreamInv'
  BY <1>1, <1>2, RouterAway
<1>15. TextsInv'
  <2>1. StagesReadLastGood'
    <3>1. SUFFICES ASSUME ctx.mode = "pipeline", NEW k \in CallsBy("member")
                   PROVE  (LET good == {j \in 1 .. k - 1 : calls[j].state = "ok"}
                           IN  calls[k].quoted = {j \in good : \A l \in good : l <= j})'
      BY <1>2, <1>4 DEF StagesReadLastGood
    <3>2. k \in 1 .. Len(calls)
      BY <1>6 DEF CallsBy
    <3>3. \A j \in 1 .. k : calls'[j] = calls[j]
      BY <1>4, <1>6, <3>2
    <3>4. LET good == {j \in 1 .. k - 1 : calls[j].state = "ok"}
          IN  calls[k].quoted = {j \in good : \A l \in good : l <= j}
      BY <1>1, <3>1 DEF TextsInv, StagesReadLastGood
    <3>5. QED
      BY <3>2, <3>3, <3>4
  <2>2. ReducerReads'
    <3>1. S = IF ctx.mode = "cascade" THEN Healthy ELSE CallsBy("member")
      BY DEF S
    <3>2. Healthy' = Healthy
      BY <1>4 DEF Healthy
    <3>3. QED
      BY <1>2, <1>4, <1>5, <1>7, <3>1, <3>2 DEF ReducerReads
  <2>3. QED
    BY <1>2, <2>1, <2>2 DEF TextsInv, FinalIsLastGood
<1>16. QED
  BY <1>8, <1>9, <1>10, <1>11, <1>12, <1>13, <1>14, <1>15 DEF RunInv

LEMMA BroadcastCollects ==
    ASSUME RunInv, FlatCollect \/ CascadeCollect, UNCHANGED <<pipelineVars, routerVars>>
    PROVE  RunInv'
<1>1. CASE FlatCollect
  <2>1. /\ pc = "collect" /\ AllEnded /\ ctx.mode = "flat" /\ UNCHANGED <<ctx, calls>>
        /\ Unwind \/ Return(0)
    BY <1>1 DEF FlatCollect
  <2>2. QED
    BY <2>1, CollectsEnd
<1>2. CASE CascadeCollect
  <2>1. pc = "collect" /\ AllEnded /\ ctx.mode = "cascade" /\ ctx' = ctx
    BY <1>2 DEF CascadeCollect
  <2>2. CASE UNCHANGED calls /\ (Unwind \/ Return(0))
    BY <2>1, <2>2, CollectsEnd
  <2>3. CASE /\ ~AnyThrew /\ ctx.cfg.synthesizer \in ToSet(ctx.agents) /\ Healthy # {}
             /\ Reduce(Healthy)
    <3>1. CallsBy("member") # {}
      BY <2>3 DEF Healthy
    <3>2. Reduce(IF ctx.mode = "cascade" THEN Healthy ELSE CallsBy("member"))
      BY <2>1, <2>3
    <3>3. QED
      BY <2>1, <2>3, <3>1, <3>2, ReduceStarts
  <2>4. QED
    BY <1>2, <2>2, <2>3 DEF CascadeCollect
<1>3. QED
  BY <1>1, <1>2

-----------------------------------------------------------------------------
(* One after the other                                                      *)

LEMMA PipelineStarts ==
    ASSUME RunInv, PipelineStart, UNCHANGED routerVars
    PROVE  RunInv'
<1>1. TypeInv /\ StartInv /\ ModeInv /\ AgentsInv
  BY DEF RunInv
<1>2. /\ pc = "start" /\ pc' = "stage" /\ ctx.mode = "pipeline" /\ ctx' = ctx
      /\ calls' = calls /\ final' = final /\ prev' = prev
      /\ chain' = ResolvedOrder(ctx.cfg, ctx.agents)
      /\ raw' = raw /\ picked' = picked /\ launched' = launched
  BY DEF PipelineStart, routerVars
<1>3. calls = <<>> /\ prev = 0 /\ final = 0
  BY <1>1, <1>2 DEF StartInv, Before
<1>4. ctx.cfg \in Config /\ ctx.agents \in Seq(Names)
  BY <1>1, ContextTypes DEF TypeInv
<1>5. chain' \in Seq(Names) /\ IsInjective(chain') /\ ToSet(chain') \subseteq ToSet(ctx.agents)
  BY <1>2, <1>4, ResolvedIs
<1>6. /\ ctx' \in Context /\ ToSet(ctx'.agents) \subseteq Agents /\ AgentsInv'
      /\ Resolved' = Resolved /\ ToSet(chain') = Resolved
  BY <1>1, <1>2, ContextKept DEF Resolved
<1>7. /\ \A role : CallsBy(role)' = {} /\ MembersAsked' = {} /\ \A s : InState(s)' = {}
      /\ DOMAIN calls' = {} /\ Len(calls') = 0
  <2>1. DOMAIN calls' = {} /\ Len(calls') = 0
    BY <1>2, <1>3
  <2>2. QED
    BY <2>1 DEF CallsBy, MembersAsked, InState
<1>8. TypeInv'
  BY <1>1, <1>2, <1>5, <1>6 DEF TypeInv, PCs
<1>9. StartInv' /\ ModeInv'
  BY <1>1, <1>2, <1>7 DEF StartInv, ModeInv, Before
<1>10. CallsInv'
  BY <1>2, <1>7 DEF CallsInv, AllEnded, AnyThrew
<1>11. BroadcastInv'
  BY <1>2 DEF BroadcastInv
<1>12. PipelineInv'
  <2>1. LastGood(0)' = {}
    BY DEF LastGood
  <2>2. Given' = {} /\ final' = prev'
    BY <1>2, <1>3 DEF Given
  <2>3. QED
    BY <1>2, <1>5, <1>6, <1>7, <2>1, <2>2 DEF PipelineInv
<1>13. RouterInv' /\ StreamInv'
  BY <1>1, <1>2, RouterAway DEF routerVars
<1>14. TextsInv'
  BY <1>2, <1>7 DEF TextsInv, StagesReadLastGood, ReducerReads, FinalIsLastGood
<1>15. QED
  BY <1>6, <1>8, <1>9, <1>10, <1>11, <1>12, <1>13, <1>14 DEF RunInv

\* A stage that is left out, on a quality pass.
LEMMA StageSkipped ==
    ASSUME RunInv, pc = "stage", chain # <<>>, ctx.quality, Head(chain) # ctx.target,
           chain' = Tail(chain), UNCHANGED <<pc, ctx, calls, final, prev, routerVars>>
    PROVE  RunInv'
<1>1. /\ TypeInv /\ StartInv /\ ModeInv /\ AgentsInv /\ CallsInv
      /\ BroadcastInv /\ PipelineInv /\ TextsInv
  BY DEF RunInv
<1>2. ctx.mode = "pipeline" /\ chain \in Seq(Names)
  BY <1>1 DEF ModeInv, TypeInv
<1>3. /\ chain' \in Seq(Names) /\ ToSet(chain) = {Head(chain)} \cup ToSet(chain')
      /\ IsInjective(chain) => IsInjective(chain')
  BY <1>2, HeadTailIs
<1>4. /\ \A role : CallsBy(role)' = CallsBy(role)
      /\ \A s : InState(s)' = InState(s)
      /\ MembersAsked' = MembersAsked /\ Healthy' = Healthy
      /\ Resolved' = Resolved /\ AllEnded' = AllEnded /\ AnyThrew' = AnyThrew
  BY CallsKept
<1>5. TypeInv'
  BY <1>1, <1>3 DEF TypeInv, routerVars
<1>6. StartInv' /\ ModeInv' /\ AgentsInv'
  BY <1>1, <1>4, ContextKept DEF StartInv, ModeInv, Before, routerVars
<1>7. CallsInv' /\ BroadcastInv'
  BY <1>1, <1>2, <1>4 DEF CallsInv, BroadcastInv
<1>8. PipelineInv'
  <2>1. Given' = Given /\ LastGood(Len(calls))' = LastGood(Len(calls))
    BY DEF Given, LastGood
  <2>2. QED
    BY <1>1, <1>2, <1>3, <1>4, <2>1 DEF PipelineInv
<1>9. RouterInv' /\ StreamInv'
  BY <1>1, <1>2, RouterAway
<1>10. TextsInv'
  BY <1>1, <1>4 DEF TextsInv, StagesReadLastGood, ReducerReads, FinalIsLastGood
<1>11. QED
  BY <1>5, <1>6, <1>7, <1>8, <1>9, <1>10 DEF RunInv

\* A stage that is run.
LEMMA StageCalled ==
    ASSUME RunInv, pc = "stage", chain # <<>>, ~ctx.quality \/ Head(chain) = ctx.target,
           calls' = Append(calls, Call(Head(chain), "member", IF prev = 0 THEN {} ELSE {prev})),
           pc' = "stage_call", UNCHANGED <<ctx, final, chain, prev, routerVars>>
    PROVE  RunInv'
<1> DEFINE n == Len(calls')
           a == Head(chain)
<1>1. /\ TypeInv /\ StartInv /\ ModeInv /\ AgentsInv /\ CallsInv
      /\ BroadcastInv /\ PipelineInv /\ TextsInv
  BY DEF RunInv
<1>2. ctx.mode = "pipeline" /\ chain \in Seq(Names)
  BY <1>1 DEF ModeInv, TypeInv
<1>3. /\ a \in ToSet(chain) /\ ToSet(chain) = {a} \cup ToSet(Tail(chain))
      /\ IsInjective(chain) /\ a \notin ToSet(Tail(chain))
  BY <1>1, <1>2, HeadTailIs DEF PipelineInv
<1>4. a \in Agents /\ "member" \in Roles /\ Given \subseteq DOMAIN calls
  BY <1>1, <1>3 DEF TypeInv, Roles, Given
<1>5. calls' = Append(calls, Call(a, "member", Given))
  BY DEF Given
<1> HIDE DEF a
<1>6. /\ calls' \in Seq(CallRecord) /\ n = Len(calls) + 1
      /\ \A i \in DOMAIN calls : i \in DOMAIN calls' /\ calls'[i] = calls[i]
      /\ calls'[n] = Call(a, "member", Given)
      /\ CallsBy("member")' = CallsBy("member") \cup {n}
      /\ \A other : other # "member" => CallsBy(other)' = CallsBy(other)
      /\ MembersAsked' = MembersAsked \cup {a}
      /\ InState("running")' = InState("running") \cup {n}
      /\ \A s : s # "running" => InState(s)' = InState(s)
  BY <1>1, <1>4, <1>5, OneMoreCall DEF TypeInv
<1>7. calls'[n].quoted = Given /\ calls'[n].agent = a /\ calls'[n].state = "running"
  BY <1>6 DEF Call
<1>8. Len(calls) \in Nat /\ DOMAIN calls = 1 .. Len(calls) /\ DOMAIN calls' = 1 .. n /\ n \in Nat
  BY <1>1, <1>6 DEF TypeInv
<1> HIDE DEF n
<1>9. /\ CallsBy("reducer")' = {} /\ CallsBy("classifier")' = {}
      /\ InState("running")' = {n} /\ InState("threw")' = {}
  <2>1. /\ CallsBy("reducer") = {} /\ CallsBy("classifier") = {}
        /\ InState("running") = {} /\ InState("threw") = {}
    BY <1>1, <1>2 DEF CallsInv, ModeInv, AllEnded, AnyThrew
  <2>2. QED
    BY <1>6, <2>1
<1>a. PICK m \in Nat : m = Len(calls)
  BY <1>8
<1>b. n = Len(calls') /\ n = m + 1 /\ Len(calls') - 1 = m
  BY <1>6, <1>8, <1>a DEF n
<1>10. TypeInv'
  <2>1. \A i \in DOMAIN calls' : calls'[i].quoted \subseteq DOMAIN calls'
    <3>1. \A i \in DOMAIN calls : calls'[i].quoted \subseteq DOMAIN calls'
      BY <1>1, <1>6 DEF TypeInv
    <3>2. calls'[n].quoted \subseteq DOMAIN calls'
      BY <1>4, <1>6, <1>7
    <3>3. \A i \in DOMAIN calls' : i \in DOMAIN calls \/ i = n
      BY <1>8, <1>b
    <3>4. QED
      BY <3>1, <3>2, <3>3
  <2>2. final' \in 0 .. Len(calls') /\ prev' \in 0 .. Len(calls')
    BY <1>1, <1>8, <1>a, <1>b DEF TypeInv
  <2>3. raw' = raw /\ picked' = picked /\ launched' = launched
    BY DEF routerVars
  <2>4. QED
    BY <1>1, <1>6, <2>1, <2>2, <2>3 DEF TypeInv, PCs
<1>11. StartInv' /\ ModeInv'
  BY <1>1, <1>2, <1>9 DEF StartInv, ModeInv, Before, routerVars
<1>12. AgentsInv' /\ Resolved' = Resolved
  BY <1>1, ContextKept
<1>13. a \notin MembersAsked
  BY <1>1, <1>3 DEF PipelineInv
<1>14. CallsInv'
  <2>1. \A i, j \in CallsBy("member")' : calls'[i].agent = calls'[j].agent => i = j
    <3>1. \A i \in CallsBy("member") : calls'[i] = calls[i] /\ calls'[i].agent # a
      BY <1>6, <1>13 DEF CallsBy, MembersAsked
    <3>2. QED
      BY <1>1, <1>6, <1>7, <3>1 DEF CallsInv
  <2>2. n = Len(calls') /\ n > 0 /\ n \in CallsBy("member")'
    BY <1>6, <1>8 DEF n
  <2>3. QED
    BY <1>9, <2>1, <2>2 DEF CallsInv, ClosedStates
<1>15. BroadcastInv'
  BY <1>2 DEF BroadcastInv
<1>16. LastGood(m)' = LastGood(m) /\ LastGood(Len(calls) - 1)' = LastGood(m)
       /\ Given = LastGood(m)
  <2>1. \A i \in 1 .. m : calls'[i] = calls[i]
    BY <1>6, <1>8, <1>a
  <2>2. LastGood(m)' = LastGood(m)
    BY <2>1 DEF LastGood
  <2>3. LastGood(Len(calls) - 1)' = LastGood(m)'
    BY <1>b DEF LastGood
  <2>4. QED
    BY <1>1, <1>a, <2>2, <2>3 DEF PipelineInv
<1>17. PipelineInv'
  <2>1. Given' = Given /\ n = Len(calls')
    BY DEF Given, n
  <2>2. /\ IsInjective(chain') /\ chain' # <<>> /\ calls'[Len(calls')].agent = Head(chain')
        /\ MembersAsked' \cap ToSet(Tail(chain')) = {}
        /\ Given' = LastGood(Len(calls) - 1)' /\ final' = prev'
    BY <1>1, <1>3, <1>6, <1>7, <1>16, <2>1 DEF PipelineInv, a
  <2>3. ~ctx.quality => MembersAsked' \cup ToSet(chain') = Resolved
    <3>1. HAVE ~ctx.quality
    <3>2. MembersAsked \cup ToSet(chain) = Resolved
      BY <1>1, <1>2, <1>3, <3>1 DEF PipelineInv, Before
    <3>3. QED
      BY <1>3, <1>6, <3>2
  <2>4. ctx.quality /\ ctx.target \in Resolved =>
          /\ MembersAsked' \subseteq {ctx.target}
          /\ ctx.target \in MembersAsked' \cup ToSet(chain')
    <3>1. HAVE ctx.quality /\ ctx.target \in Resolved
    <3>2. MembersAsked \subseteq {ctx.target} /\ a = ctx.target
      BY <1>1, <1>2, <3>1 DEF PipelineInv, a
    <3>3. QED
      BY <1>6, <3>2
  <2>5. QED
    BY <1>2, <1>12, <2>2, <2>3, <2>4 DEF PipelineInv
<1>18. RouterInv' /\ StreamInv'
  BY <1>1, <1>2, RouterAway
<1>19. TextsInv'
  <2>1. StagesReadLastGood'
    <3>1. SUFFICES ASSUME NEW k \in CallsBy("member")'
                   PROVE  (LET good == {j \in 1 .. k - 1 : calls[j].state = "ok"}
                           IN  calls[k].quoted = {j \in good : \A l \in good : l <= j})'
      BY DEF StagesReadLastGood
    <3>2. CASE k = n
      <4>1. calls'[n].quoted = LastGood(m)'
        BY <1>7, <1>16
      <4>2. k - 1 = m
        BY <1>b, <3>2
      <4>3. QED
        BY <3>2, <4>1, <4>2 DEF LastGood
    <3>3. CASE k \in CallsBy("member")
      <4>1. k \in 1 .. Len(calls)
        BY <1>8, <3>3 DEF CallsBy
      <4>2. \A j \in 1 .. k : calls'[j] = calls[j]
        BY <1>6, <1>8, <4>1
      <4>3. LET good == {j \in 1 .. k - 1 : calls[j].state = "ok"}
            IN  calls[k].quoted = {j \in good : \A l \in good : l <= j}
        BY <1>1, <1>2, <3>3 DEF TextsInv, StagesReadLastGood
      <4>4. QED
        BY <4>1, <4>2, <4>3
    <3>4. QED
      BY <1>6, <3>2, <3>3
  <2>2. QED
    BY <1>9, <2>1 DEF TextsInv, ReducerReads, FinalIsLastGood
<1>20. QED
  BY <1>10, <1>11, <1>12, <1>14, <1>15, <1>17, <1>18, <1>19 DEF RunInv

\* The last good call, one call further.
LEMMA LastGoodIs ==
    ASSUME NEW n \in Nat, n >= 1
    PROVE  LastGood(n) = IF calls[n].state = "ok" THEN {n} ELSE LastGood(n - 1)
<1> DEFINE good(k) == {j \in 1 .. k : calls[j].state = "ok"}
<1>1. 1 .. n = (1 .. n - 1) \cup {n} /\ n \notin 1 .. n - 1
  OBVIOUS
<1>2. CASE calls[n].state = "ok"
  <2>1. n \in good(n) /\ \A j \in good(n) : j <= n /\ j \in Nat
    BY <1>2
  <2>2. \A j \in good(n) : n <= j => j = n
    BY <2>1
  <2>3. QED
    BY <1>2, <2>1, <2>2 DEF LastGood
<1>3. CASE calls[n].state # "ok"
  <2>1. good(n) = good(n - 1)
    BY <1>1, <1>3
  <2>2. QED
    BY <1>3, <2>1 DEF LastGood
<1>4. QED
  BY <1>2, <1>3

LEMMA StageEnds ==
    ASSUME RunInv, StageEnd, UNCHANGED routerVars
    PROVE  RunInv'
<1>1. /\ TypeInv /\ StartInv /\ ModeInv /\ AgentsInv /\ CallsInv
      /\ BroadcastInv /\ PipelineInv /\ TextsInv
  BY DEF RunInv
<1>2. /\ pc = "stage_call" /\ AllEnded /\ UNCHANGED <<ctx, calls>>
      /\ ctx.mode = "pipeline" /\ ~Before
  BY <1>1 DEF StageEnd, ModeInv, Before
<1>3. CASE Unwind /\ UNCHANGED <<chain, prev>>
  <2>1. pc' = "failed" /\ final' \in 0 .. Len(calls) /\ FinalIsLastGood'
    BY <1>1, <1>3 DEF Unwind, TypeInv, FinalIsLastGood
  <2>2. QED
    BY <1>2, <1>3, <2>1, Closes DEF pipelineVars
<1>4. CASE /\ ~AnyThrew
           /\ IF calls[Len(calls)].state = "ok"
              THEN prev' = Len(calls) /\ final' = Len(calls)
              ELSE UNCHANGED <<prev, final>>
           /\ chain' = Tail(chain)
           /\ pc' = "stage"
  <2>1. PICK n \in Nat : n = Len(calls) /\ n >= 1
    BY <1>1, <1>2 DEF TypeInv, CallsInv
  <2>2. /\ \A role : CallsBy(role)' = CallsBy(role)
        /\ \A s : InState(s)' = InState(s)
        /\ MembersAsked' = MembersAsked /\ Healthy' = Healthy
        /\ Resolved' = Resolved /\ AllEnded' = AllEnded /\ AnyThrew' = AnyThrew
    BY <1>2, CallsKept
  <2>3. /\ chain' \in Seq(Names) /\ ToSet(chain) = {Head(chain)} \cup ToSet(chain')
        /\ IsInjective(chain')
    BY <1>1, <1>2, <1>4, HeadTailIs DEF PipelineInv, TypeInv
  <2>4. Head(chain) \in MembersAsked
    BY <1>1, <1>2 DEF PipelineInv, CallsInv, MembersAsked
  <2>5. TypeInv'
    BY <1>1, <1>2, <1>4, <2>1, <2>3 DEF TypeInv, PCs, routerVars
  <2>6. StartInv' /\ ModeInv' /\ AgentsInv'
    BY <1>1, <1>2, <1>4, <2>2, ContextKept DEF StartInv, ModeInv, Before, routerVars
  <2>7. CallsInv' /\ BroadcastInv'
    BY <1>1, <1>2, <1>4, <2>2 DEF CallsInv, BroadcastInv, ClosedStates
  <2>8. Given' = LastGood(Len(calls))' /\ final' = prev'
    <3>1. /\ Given = LastGood(n - 1) /\ final = prev
          /\ LastGood(n) = IF calls[n].state = "ok" THEN {n} ELSE LastGood(n - 1)
      BY <1>1, <1>2, <2>1, LastGoodIs DEF PipelineInv
    <3>2. LastGood(Len(calls))' = LastGood(n)
      BY <1>2, <2>1 DEF LastGood
    <3>3. CASE calls[n].state = "ok"
      <4>1. prev' = n /\ final' = n /\ n # 0
        BY <1>4, <2>1, <3>3
      <4>2. Given' = {n}
        BY <4>1 DEF Given
      <4>3. QED
        BY <3>1, <3>2, <3>3, <4>1, <4>2
    <3>4. CASE calls[n].state # "ok"
      <4>1. prev' = prev /\ final' = final
        BY <1>4, <2>1, <3>4
      <4>2. Given' = Given
        BY <4>1 DEF Given
      <4>3. QED
        BY <3>1, <3>2, <3>4, <4>1, <4>2
    <3>5. QED
      BY <3>3, <3>4
  <2>9. PipelineInv'
    BY <1>1, <1>2, <1>4, <2>2, <2>3, <2>4, <2>8 DEF PipelineInv, Before
  <2>10. RouterInv' /\ StreamInv'
    BY <1>1, <1>2, <1>4, RouterAway
  <2>11. TextsInv'
    BY <1>1, <1>2, <1>4, <2>2 DEF TextsInv, StagesReadLastGood, ReducerReads, FinalIsLastGood
  <2>12. QED
    BY <2>5, <2>6, <2>7, <2>9, <2>10, <2>11 DEF RunInv
<1>5. QED
  BY <1>3, <1>4 DEF StageEnd

\* Nobody was called.
LEMMA FallsBack ==
    ASSUME RunInv, Fallback, UNCHANGED routerVars
    PROVE  RunInv'
<1>1. /\ TypeInv /\ StartInv /\ ModeInv /\ AgentsInv /\ CallsInv
      /\ BroadcastInv /\ PipelineInv /\ TextsInv
  BY DEF RunInv
<1>2. /\ pc = "stage" /\ chain = <<>> /\ calls = <<>> /\ UNCHANGED <<ctx, chain, prev>>
      /\ ctx.mode = "pipeline" /\ ~Before
  BY <1>1 DEF Fallback, ModeInv, Before
<1>3. AllEnded /\ MembersAsked = {} /\ CallsBy("reducer") = {} /\ prev = 0 /\ final = 0
  <2>1. DOMAIN calls = {} /\ Len(calls) = 0
    BY <1>2
  <2>2. QED
    BY <1>1, <2>1 DEF AllEnded, InState, MembersAsked, CallsBy, TypeInv
<1>4. ToSet(chain) = {}
  BY <1>2 DEF ToSet
<1>5. ~ctx.quality => Resolved = {}
  BY <1>1, <1>2, <1>3, <1>4 DEF PipelineInv, Before
<1>6. CASE ctx.agents = <<>> /\ Return(0) /\ UNCHANGED calls
  <2>1. CallsBy("reducer")' = {}
    BY <1>2, <1>3, <1>6, CallsKept
  <2>2. Healthy' = {}
    BY <1>2, <1>6 DEF Healthy, CallsBy
  <2>3. FinalIsLastGood'
    BY <1>6, <2>1, <2>2 DEF FinalIsLastGood, Return
  <2>4. pc' = "done" /\ final' \in 0 .. Len(calls)
    BY <1>1, <1>6 DEF Return, TypeInv
  <2>5. QED
    BY <1>2, <1>3, <1>5, <1>6, <2>3, <2>4, Closes DEF pipelineVars
<1>7. CASE /\ ctx.agents # <<>> /\ calls' = Calls(<<Head(ctx.agents)>>)
           /\ pc' = "fallback" /\ UNCHANGED final
  <2> DEFINE a == Head(ctx.agents)
             names == <<a>>
  <2>1. ctx.agents \in Seq(Names)
    BY <1>1, ContextTypes DEF TypeInv
  <2>2. a \in Agents /\ a \in Names
    BY <1>1, <1>7, <2>1, HeadTailIs, Deployment DEF TypeInv
  <2> HIDE DEF a
  <2>3. names \in Seq(Names) /\ ToSet(names) \subseteq Agents /\ Len(names) = 1 /\ DOMAIN names = {1}
    BY <2>2 DEF ToSet
  <2>4. calls' = Calls(names)
    BY <1>7 DEF a
  <2> HIDE DEF names
  <2>5. /\ calls' \in Seq(CallRecord) /\ Len(calls') = 1 /\ DOMAIN calls' = {1}
        /\ \A i \in DOMAIN calls' : /\ calls'[i].agent = names[i] /\ calls'[i].quoted = {}
                                    /\ calls'[i].state = "running"
        /\ CallsBy("member")' = {1}
        /\ CallsBy("reducer")' = {} /\ CallsBy("classifier")' = {}
        /\ MembersAsked' = ToSet(names)
    BY <1>2, <2>3, <2>4, FirstCalls
  <2>6. InState("running")' = {1} /\ InState("threw")' = {}
    BY <2>5 DEF InState
  <2>7. TypeInv'
    BY <1>1, <1>2, <1>3, <1>7, <2>5 DEF TypeInv, PCs, routerVars
  <2>8. StartInv' /\ ModeInv' /\ AgentsInv'
    BY <1>1, <1>2, <1>7, <2>5, ContextKept DEF StartInv, ModeInv, Before, routerVars
  <2>9. CallsInv'
    <3>1. Len(calls)' = 1 /\ Len(calls') > 0
      BY <2>5
    <3>2. \A i, j \in CallsBy("member")' : calls'[i].agent = calls'[j].agent => i = j
      BY <2>5
    <3>3. \A i \in InState("running")' \cup InState("threw")' : i = Len(calls')
      BY <2>6, <3>1
    <3>4. Len(calls') \in CallsBy("member")' /\ pc' = "fallback"
      BY <1>7, <2>5, <3>1
    <3>5. QED
      BY <2>5, <3>1, <3>2, <3>3, <3>4 DEF CallsInv, ClosedStates
  <2>10. BroadcastInv'
    BY <1>2 DEF BroadcastInv
  <2>11. PipelineInv'
    <3>1. Resolved' = Resolved
      BY <1>2 DEF Resolved
    <3>2. ctx.quality => ctx.target \notin Resolved
      BY <1>1, <1>2, <1>3, <1>4 DEF PipelineInv
    <3>3. QED
      BY <1>2, <1>3, <1>5, <1>7, <2>5, <3>1, <3>2 DEF PipelineInv, Before
  <2>12. RouterInv' /\ StreamInv'
    BY <1>1, <1>2, <1>7, RouterAway
  <2>13. TextsInv'
    <3>1. {j \in 1 .. 1 - 1 : calls'[j].state = "ok"} = {}
      OBVIOUS
    <3>2. StagesReadLastGood'
      BY <2>5, <3>1 DEF StagesReadLastGood
    <3>3. QED
      BY <1>7, <2>5, <3>2 DEF TextsInv, ReducerReads, FinalIsLastGood
  <2>14. QED
    BY <2>7, <2>8, <2>9, <2>10, <2>11, <2>12, <2>13 DEF RunInv
<1>8. QED
  BY <1>6, <1>7 DEF Fallback

LEMMA FallbackEnds ==
    ASSUME RunInv, FallbackEnd, UNCHANGED routerVars
    PROVE  RunInv'
<1>1. /\ TypeInv /\ StartInv /\ ModeInv /\ AgentsInv /\ CallsInv
      /\ BroadcastInv /\ PipelineInv /\ TextsInv
  BY DEF RunInv
<1>2. /\ pc = "fallback" /\ AllEnded /\ UNCHANGED <<ctx, calls, chain, prev>>
      /\ ctx.mode = "pipeline" /\ ~Before /\ Len(calls) = 1
  BY <1>1 DEF FallbackEnd, ModeInv, Before, PipelineInv
<1>3. CASE Unwind
  <2>1. pc' = "failed" /\ final' \in 0 .. Len(calls) /\ FinalIsLastGood'
    BY <1>1, <1>3 DEF Unwind, TypeInv, FinalIsLastGood
  <2>2. QED
    BY <1>2, <1>3, <2>1, Closes DEF pipelineVars
<1>4. CASE ~AnyThrew /\ pc' = "chain_end" /\ final' = Len(calls)
  <2>1. /\ \A role : CallsBy(role)' = CallsBy(role)
        /\ \A s : InState(s)' = InState(s)
        /\ MembersAsked' = MembersAsked /\ Healthy' = Healthy
        /\ Resolved' = Resolved /\ AllEnded' = AllEnded /\ AnyThrew' = AnyThrew
    BY <1>2, CallsKept
  <2>2. TypeInv'
    BY <1>1, <1>2, <1>4 DEF TypeInv, PCs, routerVars
  <2>3. StartInv' /\ ModeInv' /\ AgentsInv'
    BY <1>1, <1>2, <1>4, <2>1, ContextKept DEF StartInv, ModeInv, Before, routerVars
  <2>4. CallsInv' /\ BroadcastInv'
    BY <1>1, <1>2, <1>4, <2>1 DEF CallsInv, BroadcastInv, ClosedStates
  <2>5. PipelineInv'
    BY <1>1, <1>2, <1>4, <2>1 DEF PipelineInv, Before
  <2>6. RouterInv' /\ StreamInv'
    BY <1>1, <1>2, <1>4, RouterAway
  <2>7. TextsInv'
    BY <1>1, <1>2, <1>4, <2>1 DEF TextsInv, StagesReadLastGood, ReducerReads, FinalIsLastGood
  <2>8. QED
    BY <2>2, <2>3, <2>4, <2>5, <2>6, <2>7 DEF RunInv
<1>5. QED
  BY <1>3, <1>4 DEF FallbackEnd

\* Where some call was good there is a last one.
LEMMA SomeIsLast ==
    ASSUME NEW n \in Nat, NEW j \in 1 .. n, calls[j].state = "ok"
    PROVE  LastGood(n) # {}
<1> DEFINE good == {k \in 1 .. n : calls[k].state = "ok"}
           S == {n - k : k \in good}
<1>1. S \subseteq Nat /\ S # {}
  OBVIOUS
<1>2. PICK m \in S : \A k \in S : m <= k
  BY <1>1, Least
<1>3. PICK l \in good : m = n - l
  OBVIOUS
<1>4. \A k \in good : k <= l
  BY <1>2, <1>3
<1>5. QED
  BY <1>3, <1>4 DEF LastGood

\* The text a pipeline returns without a synthesizer.
LEMMA ChainFinal ==
    ASSUME TypeInv, CallsInv, ModeInv, PipelineInv, ctx.mode = "pipeline",
           (pc = "stage" /\ calls # <<>>) \/ pc = "chain_end",
           Return(final), UNCHANGED <<ctx, calls>>
    PROVE  FinalIsLastGood'
<1>1. /\ CallsBy("reducer") = {} /\ CallsBy("classifier") = {}
      /\ \A i \in DOMAIN calls : calls[i].role \in Roles
  <2>1. CallsBy("reducer") = {} /\ CallsBy("classifier") = {}
    BY DEF CallsInv, ModeInv
  <2>2. \A i \in DOMAIN calls : calls[i] \in CallRecord
    BY DEF TypeInv
  <2>3. QED
    BY <2>1, <2>2 DEF CallRecord
<1>2. CallsBy("member") = DOMAIN calls /\ Healthy = InState("ok")
  BY <1>1 DEF CallsBy, Healthy, InState, Roles
<1>3. /\ CallsBy("reducer")' = {} /\ Healthy' = Healthy /\ final' = final
  BY <1>1, CallsKept DEF Return
<1>4. DOMAIN calls = 1 .. Len(calls) /\ Len(calls) \in Nat
  BY DEF TypeInv
<1>5. CASE pc = "stage"
  <2>1. Given = LastGood(Len(calls)) /\ final = prev
    BY <1>5 DEF PipelineInv
  <2>2. CASE prev = 0
    <3>1. LastGood(Len(calls)) = {}
      BY <2>1, <2>2 DEF Given
    <3>2. Healthy = {}
      BY <1>2, <1>4, <3>1, SomeIsLast DEF InState
    <3>3. QED
      BY <1>3, <2>1, <2>2, <3>2 DEF FinalIsLastGood
  <2>3. CASE prev # 0
    <3>1. prev \in LastGood(Len(calls))
      BY <2>1, <2>3 DEF Given
    <3>2. prev \in Healthy /\ \A i \in Healthy : i <= prev
      BY <1>2, <1>4, <3>1 DEF LastGood, InState
    <3>3. QED
      BY <1>3, <2>1, <3>2 DEF FinalIsLastGood
  <2>4. QED
    BY <2>2, <2>3
<1>6. CASE pc = "chain_end"
  <2>1. Len(calls) = 1 /\ final = 1
    BY <1>6 DEF PipelineInv
  <2>2. \A i \in Healthy : i = 1
    BY <1>2, <1>4, <2>1 DEF InState
  <2>3. QED
    BY <1>3, <2>1, <2>2 DEF FinalIsLastGood
<1>7. QED
  BY <1>5, <1>6

LEMMA ChainEnds ==
    ASSUME RunInv, ChainEnd, UNCHANGED routerVars
    PROVE  RunInv'
<1>1. /\ TypeInv /\ StartInv /\ ModeInv /\ AgentsInv /\ CallsInv
      /\ BroadcastInv /\ PipelineInv /\ TextsInv
  BY DEF RunInv
<1>2. /\ pc \in {"stage", "chain_end"} /\ UNCHANGED <<ctx, chain, prev>>
      /\ ctx.mode = "pipeline" /\ ~Before /\ AllEnded /\ ~AnyThrew
      /\ pc = "stage" => chain = <<>> /\ calls # <<>>
  BY <1>1 DEF ChainEnd, ModeInv, Before, CallsInv
<1>3. CallsBy("member") # {}
  <2>1. calls # <<>>
    BY <1>1, <1>2 DEF PipelineInv, TypeInv
  <2>2. 1 \in DOMAIN calls
    BY <1>1, <2>1 DEF TypeInv
  <2>3. CallsBy("reducer") = {} /\ CallsBy("classifier") = {}
    BY <1>1, <1>2 DEF CallsInv, ModeInv
  <2>4. calls[1] \in CallRecord
    BY <1>1, <2>2 DEF TypeInv
  <2>5. QED
    BY <2>2, <2>3, <2>4 DEF CallsBy, Roles, CallRecord
<1>4. ~ctx.quality => MembersAsked = Resolved \/ (Resolved = {} /\ chain = <<>>)
  <2>1. pc = "stage" => ToSet(chain) = {}
    BY <1>2 DEF ToSet
  <2>2. QED
    BY <1>1, <1>2, <2>1 DEF PipelineInv, Before
<1>5. CASE ctx.cfg.synthesizer \in ToSet(ctx.agents) /\ Reduce(CallsBy("member"))
  <2>1. Reduce(IF ctx.mode = "cascade" THEN Healthy ELSE CallsBy("member"))
    BY <1>2, <1>5
  <2>2. QED
    BY <1>2, <1>3, <1>4, <1>5, <2>1, ReduceStarts DEF pipelineVars
<1>6. CASE Return(final) /\ UNCHANGED calls
  <2>1. FinalIsLastGood'
    BY <1>1, <1>2, <1>6, ChainFinal
  <2>2. pc' = "done" /\ final' \in 0 .. Len(calls)
    BY <1>1, <1>6 DEF Return, TypeInv
  <2>3. QED
    BY <1>2, <1>3, <1>4, <1>6, <2>1, <2>2, Closes DEF pipelineVars
<1>7. QED
  BY <1>5, <1>6 DEF ChainEnd

LEMMA PipelineRuns ==
    ASSUME RunInv, PipelineNext, UNCHANGED routerVars
    PROVE  RunInv'
<1>1. CASE Stage
  BY <1>1, StageSkipped, StageCalled DEF Stage
<1>2. QED
  BY <1>1, PipelineStarts, StageEnds, FallsBack, FallbackEnds, ChainEnds DEF PipelineNext

-----------------------------------------------------------------------------
(* The classifier's text                                                    *)

\* The place of the first x in a text.
Place(text, x) == SelectInSeq(text, LAMBDA y : y = x)

LEMMA PlaceIs ==
    ASSUME NEW T, NEW s \in Seq(T), NEW x
    PROVE  /\ x \in ToSet(s) =>
                /\ Place(s, x) \in DOMAIN s /\ s[Place(s, x)] = x
                /\ \A j \in DOMAIN s : s[j] = x => Place(s, x) <= j
           /\ x \notin ToSet(s) => Place(s, x) = 0
<1> DEFINE I == {i \in 1 .. Len(s) : s[i] = x}
<1>1. Place(s, x) = IF I # {} THEN Min(I) ELSE 0
  BY DEF Place, SelectInSeq
<1>2. DOMAIN s = 1 .. Len(s) /\ Len(s) \in Nat
  OBVIOUS
<1>3. x \in ToSet(s) <=> I # {}
  BY <1>2 DEF ToSet
<1>4. ASSUME I # {} PROVE Min(I) \in I /\ \A j \in I : Min(I) <= j
  <2> HIDE DEF I
  <2>0. I \subseteq Nat
    BY DEF I
  <2>1. \E i \in I : \A j \in I : i <= j
    BY <1>4, <2>0, Least
  <2>2. QED
    BY <2>1 DEF Min
<1>5. QED
  BY <1>1, <1>2, <1>3, <1>4

\* What stays the first x when the text grows.
LEMMA PlaceStays ==
    ASSUME NEW T, NEW s \in Seq(T), NEW t \in Seq(T), NEW x \in ToSet(s), Len(s) <= Len(t),
           \A i \in DOMAIN s : t[i] = s[i]
    PROVE  x \in ToSet(t) /\ Place(t, x) = Place(s, x)
<1>1. /\ Place(s, x) \in DOMAIN s /\ s[Place(s, x)] = x
      /\ \A j \in DOMAIN s : s[j] = x => Place(s, x) <= j
  BY PlaceIs
<1>2. /\ DOMAIN s = 1 .. Len(s) /\ DOMAIN t = 1 .. Len(t) /\ Len(s) \in Nat /\ Len(t) \in Nat
  OBVIOUS
<1>3. Place(s, x) \in DOMAIN t /\ t[Place(s, x)] = x
  BY <1>1, <1>2
<1>4. x \in ToSet(t)
  BY <1>3 DEF ToSet
<1>5. /\ Place(t, x) \in DOMAIN t /\ t[Place(t, x)] = x
      /\ \A j \in DOMAIN t : t[j] = x => Place(t, x) <= j
  BY <1>4, PlaceIs
<1>6. Place(t, x) <= Place(s, x)
  BY <1>3, <1>5
<1>7. Place(t, x) \in DOMAIN s
  BY <1>1, <1>2, <1>5, <1>6
<1>8. Place(s, x) <= Place(t, x)
  BY <1>1, <1>5, <1>7
<1>9. QED
  BY <1>1, <1>2, <1>4, <1>5, <1>6, <1>8

LEMMA AfterIs ==
    ASSUME NEW T, NEW s \in Seq(T), Mark \in ToSet(s)
    PROVE  /\ Place(s, Mark) \in DOMAIN s
           /\ After(s) \in Seq(T) /\ Len(After(s)) = Len(s) - Place(s, Mark)
           /\ \A i \in DOMAIN After(s) : After(s)[i] = s[Place(s, Mark) + i]
<1> DEFINE p == Place(s, Mark)
<1>1. p \in DOMAIN s
  BY PlaceIs
<1>2. After(s) = SubSeq(s, p + 1, Len(s))
  BY DEF After, Place
<1> HIDE DEF p
<1>3. p \in 1 .. Len(s) /\ Len(s) \in Nat
  BY <1>1
<1>4. /\ SubSeq(s, p + 1, Len(s)) \in Seq(T) /\ Len(SubSeq(s, p + 1, Len(s))) = Len(s) - p
      /\ \A i \in 1 .. Len(s) - p : SubSeq(s, p + 1, Len(s))[i] = s[p + i]
  BY <1>3
<1>5. QED
  BY <1>1, <1>2, <1>3, <1>4 DEF p

LEMMA UpToEolIs ==
    ASSUME NEW T, NEW s \in Seq(T)
    PROVE  UpToEol(s) = IF Eol \in ToSet(s) THEN SubSeq(s, 1, Place(s, Eol) - 1) ELSE s
<1>1. UpToEol(s) = IF Place(s, Eol) = 0 THEN s ELSE SubSeq(s, 1, Place(s, Eol) - 1)
  BY DEF UpToEol, Place
<1>2. Eol \in ToSet(s) => Place(s, Eol) # 0
  <2>1. HAVE Eol \in ToSet(s)
  <2>2. Place(s, Eol) \in DOMAIN s
    BY <2>1, PlaceIs
  <2>3. QED
    BY <2>2
<1>3. Eol \notin ToSet(s) => Place(s, Eol) = 0
  BY PlaceIs
<1>4. QED
  BY <1>1, <1>2, <1>3

\* A complete SELECTED line stays what it is while the text grows.
LEMMA LineStands ==
    ASSUME NEW T, NEW s \in Seq(T), NEW x \in T, LineComplete(s)
    PROVE  /\ LineComplete(Append(s, x)) /\ Mark \in ToSet(s)
           /\ UpToEol(After(Append(s, x))) = UpToEol(After(s))
<1> DEFINE t == Append(s, x)
           p == Place(s, Mark)
           a == After(s)
           b == After(t)
<1>1. Mark \in ToSet(s) /\ Eol \in ToSet(a)
  BY DEF LineComplete
<1>2. /\ t \in Seq(T) /\ Len(t) = Len(s) + 1 /\ Len(s) \in Nat
      /\ \A i \in DOMAIN s : t[i] = s[i]
  OBVIOUS
<1> HIDE DEF t
<1>3. Mark \in ToSet(t) /\ Place(t, Mark) = p
  <2>1. Len(s) <= Len(t)
    BY <1>2
  <2>2. QED
    BY <1>1, <1>2, <2>1, PlaceStays
<1>4. /\ p \in DOMAIN s /\ a \in Seq(T) /\ Len(a) = Len(s) - p
      /\ \A i \in DOMAIN a : a[i] = s[p + i]
  BY <1>1, AfterIs
<1>5. /\ b \in Seq(T) /\ Len(b) = Len(t) - p
      /\ \A i \in DOMAIN b : b[i] = t[p + i]
  BY <1>2, <1>3, AfterIs
<1> HIDE DEF a, b, p
<1>6. /\ Len(a) \in Nat /\ Len(b) = Len(a) + 1
      /\ DOMAIN a = 1 .. Len(a) /\ DOMAIN b = 1 .. Len(b) /\ DOMAIN s = 1 .. Len(s)
      /\ p \in Nat
  BY <1>2, <1>4, <1>5
<1>7. ASSUME NEW i \in DOMAIN a PROVE i \in DOMAIN b /\ b[i] = a[i]
  <2>1. i \in DOMAIN b /\ p + i \in DOMAIN s
    BY <1>2, <1>4, <1>6
  <2>2. b[i] = t[p + i] /\ a[i] = s[p + i] /\ t[p + i] = s[p + i]
    BY <1>2, <1>4, <1>5, <2>1
  <2>3. QED
    BY <2>1, <2>2
<1>8. Eol \in ToSet(b) /\ Place(b, Eol) = Place(a, Eol)
  <2>1. Len(a) <= Len(b)
    BY <1>6
  <2>2. QED
    BY <1>1, <1>4, <1>5, <1>7, <2>1, PlaceStays
<1> DEFINE q == Place(a, Eol)
<1>9. q \in DOMAIN a
  BY <1>1, <1>4, PlaceIs
<1>10. UpToEol(a) = SubSeq(a, 1, q - 1) /\ UpToEol(b) = SubSeq(b, 1, q - 1)
  BY <1>1, <1>4, <1>5, <1>8, UpToEolIs
<1> HIDE DEF q
<1>11. SubSeq(a, 1, q - 1) = SubSeq(b, 1, q - 1)
  <2>1. q \in 1 .. Len(a) /\ q \in 1 .. Len(b) /\ q - 1 \in Nat
    BY <1>6, <1>9
  <2>2. /\ SubSeq(a, 1, q - 1) = [i \in 1 .. q - 1 |-> a[i]]
        /\ SubSeq(b, 1, q - 1) = [i \in 1 .. q - 1 |-> b[i]]
    BY <1>4, <1>5, <1>6, <2>1
  <2>3. \A i \in 1 .. q - 1 : a[i] = b[i]
    BY <1>6, <1>7, <2>1
  <2>4. QED
    BY <2>2, <2>3
<1>12. LineComplete(t)
  BY <1>3, <1>8 DEF LineComplete, b
<1>13. QED
  BY <1>1, <1>10, <1>11, <1>12 DEF t, a, b

\* A line that follows the marker at once and names somebody is the one used.
LEMMA InlineIs ==
    ASSUME NEW T, NEW s \in Seq(T), Mark \in ToSet(s),
           ToSet(UpToEol(After(s))) \cap ChoiceSet # {}
    PROVE  NamesIn(s) = ToSet(UpToEol(After(s))) \cap ChoiceSet
<1> DEFINE a == After(s)
           from == SelectInSeq(a, LAMBDA x : x # Eol)
           q == Place(a, Eol)
<1>1. a \in Seq(T)
  BY AfterIs
<1>2. UpToEol(a) = IF Eol \in ToSet(a) THEN SubSeq(a, 1, q - 1) ELSE a
  BY <1>1, UpToEolIs
<1>3. Eol \in ToSet(a) =>
        q \in DOMAIN a /\ a[q] = Eol /\ \A j \in DOMAIN a : a[j] = Eol => q <= j
  BY <1>1, PlaceIs
<1>4. NamesIn(s) = LET line == ToSet(IF Mark \notin ToSet(s) \/ from = 0 THEN <<>>
                                     ELSE UpToEol(SubSeq(a, from, Len(a)))) \cap ChoiceSet
                   IN  IF line # {} THEN line ELSE ToSet(s) \cap ChoiceSet
  BY DEF NamesIn, SelectedLine
<1>5. ToSet(UpToEol(a)) # {}
  OBVIOUS
<1>6. from = IF {i \in 1 .. Len(a) : a[i] # Eol} # {} THEN Min({i \in 1 .. Len(a) : a[i] # Eol}) ELSE 0
  BY DEF SelectInSeq
<1> HIDE DEF from, q
<1>7. a # <<>> /\ a[1] # Eol
  <2>1. CASE Eol \in ToSet(a)
    <3>1. q # 1
      <4>1. SUFFICES ASSUME q = 1 PROVE FALSE
        OBVIOUS
      <4>2. SubSeq(a, 1, q - 1) = <<>>
        BY <1>1, <4>1
      <4>3. ToSet(<<>>) = {}
        BY DEF ToSet
      <4>4. QED
        BY <1>2, <1>5, <2>1, <4>2, <4>3
    <3> HIDE DEF a
    <3>2. q \in 1 .. Len(a) /\ 1 \in DOMAIN a /\ Len(a) \in Nat
      BY <1>1, <1>3, <2>1
    <3>3. QED
      BY <1>1, <1>3, <2>1, <3>1, <3>2
  <2>2. CASE Eol \notin ToSet(a)
    <3>1. ToSet(a) # {}
      BY <1>2, <1>5, <2>2
    <3> HIDE DEF a
    <3>2. a # <<>>
      BY <1>1, <3>1, EmptyIs
    <3>3. 1 \in DOMAIN a
      BY <1>1, <3>2
    <3>4. QED
      BY <2>2, <3>2, <3>3 DEF ToSet
  <2>3. QED
    BY <2>1, <2>2
<1> HIDE DEF a
<1>8. from = 1
  <2> DEFINE I == {i \in 1 .. Len(a) : a[i] # Eol}
  <2>1. 1 \in I /\ \A i \in I : i \in Nat /\ 1 <= i
    BY <1>1, <1>7
  <2>2. from = Min(I)
    BY <1>6, <2>1
  <2> HIDE DEF I
  <2>3. Min(I) = 1
    <3>1. Min(I) \in I /\ \A i \in I : Min(I) <= i
      BY <2>1 DEF Min
    <3>2. QED
      BY <2>1, <3>1
  <2>4. QED
    BY <2>2, <2>3
<1>9. SubSeq(a, from, Len(a)) = a
  BY <1>1, <1>8
<1>10. (IF Mark \notin ToSet(s) \/ from = 0 THEN <<>> ELSE UpToEol(SubSeq(a, from, Len(a))))
          = UpToEol(a)
  <2>1. ~(Mark \notin ToSet(s) \/ from = 0)
    BY <1>8
  <2>2. QED
    BY <1>9, <2>1
<1>11. ToSet(UpToEol(a)) \cap ChoiceSet # {}
  BY DEF a
<1> DEFINE u == UpToEol(a)
<1> HIDE DEF u
<1>12. NamesIn(s) = ToSet(u) \cap ChoiceSet
  BY <1>4, <1>10, <1>11 DEF u
<1>13. QED
  BY <1>12 DEF a, u

\* Those that answer their port take part.
LEMMA RouterAgents ==
    ASSUME TypeInv, AgentsInv, ctx.mode = "router", NEW up \in SUBSET Reachable,
           ctx' = [ctx EXCEPT !.agents = Only[ctx.agents][up]]
    PROVE  /\ ctx' \in Context /\ SameOptions /\ ctx'.edited = ctx.edited
           /\ ctx'.agents = Only[ctx.agents][up] /\ ctx'.agents \in Seq(Names)
           /\ ToSet(ctx'.agents) = up /\ up \subseteq Agents /\ up \subseteq Names
           /\ AgentsInv' /\ Cap' = Cap
<1> DEFINE o == Only[ctx.agents][up]
<1>1. ctx \in Context /\ ctx.agents \in Seq(Names)
  BY ContextTypes DEF TypeInv
<1>2. up \subseteq Names /\ up \subseteq Agents /\ ToSet(ctx.agents) \cap up = up
  BY AgentsTaking
<1>3. /\ o \in Seq(Names) /\ ToSet(o) = up
      /\ IsInjective(ctx.agents) => IsInjective(o)
  BY <1>1, <1>2, OnlyIs
<1> HIDE DEF o
<1>4. ctx' = [ctx EXCEPT !.agents = o]
  BY DEF o
<1>5. ctx' \in Context /\ SameOptions /\ ctx'.edited = ctx.edited /\ ctx'.agents = o
  BY <1>1, <1>3, <1>4 DEF Context, SameOptions
<1>6. AgentsInv'
  <2>1. IsInjective(ctx'.agents)
    BY <1>3, <1>5 DEF AgentsInv
  <2>2. ToSet(ctx'.agents) \subseteq ToSet(ctx.agents)
    BY <1>2, <1>3, <1>5
  <2>3. QED
    BY <1>5, <2>1 DEF AgentsInv
<1>7. Cap' = Cap
  BY <1>5 DEF Cap, SameOptions
<1>8. QED
  BY <1>2, <1>3, <1>5, <1>6, <1>7 DEF o

-----------------------------------------------------------------------------
(* The agents a classifier picks                                            *)

\* What the start of a router run leaves to be shown.
LEMMA RouterBegun ==
    ASSUME RunInv, pc = "start", ctx.mode = "router",
           NEW up \in SUBSET Reachable, ctx' = [ctx EXCEPT !.agents = Only[ctx.agents][up]],
           UNCHANGED <<pipelineVars, routerVars>>,
           pc' \in {"done", "collect", "stream"}, final' = 0,
           calls' \in Seq(CallRecord), Len(calls') <= 1,
           \A i \in DOMAIN calls' : calls'[i].quoted = {} /\ calls'[i].state = "running",
           pc' = "done" => calls' = <<>> /\ (ctx.quality \/ up = {}),
           pc' = "collect" => ctx.quality /\ CallsBy("classifier")' = {},
           pc' = "stream" => ~ctx.quality /\ 1 \in CallsBy("classifier")',
           CallsBy("reducer")' = {},
           MembersAsked' \subseteq IF ctx.quality THEN {ctx.target} ELSE {}
    PROVE  RunInv'
<1>1. TypeInv /\ StartInv /\ ModeInv /\ AgentsInv
  BY DEF RunInv
<1>2. /\ chain' = <<>> /\ prev' = 0 /\ raw' = <<>> /\ picked' = {} /\ launched' = "no"
      /\ chain' = chain /\ prev' = prev /\ raw' = raw /\ picked' = picked
  BY <1>1 DEF StartInv, Before, pipelineVars, routerVars
<1>3. /\ ctx' \in Context /\ SameOptions /\ ctx'.agents \in Seq(Names)
      /\ ToSet(ctx'.agents) = up /\ up \subseteq Agents /\ AgentsInv' /\ Cap' = Cap
  BY <1>1, RouterAgents
<1>4. ctx'.mode = "router" /\ ctx'.quality = ctx.quality /\ ctx'.target = ctx.target
  BY <1>3 DEF SameOptions
<1>5. DOMAIN calls' = 1 .. Len(calls') /\ Len(calls') \in Nat
  OBVIOUS
<1>6. \A i \in DOMAIN calls' : i = 1 /\ i = Len(calls')
  BY <1>5
<1>7. TypeInv'
  <2>1. \A i \in DOMAIN calls' : calls'[i].quoted \subseteq DOMAIN calls'
    OBVIOUS
  <2>2. final' \in 0 .. Len(calls') /\ prev' \in 0 .. Len(calls')
    BY <1>2, <1>5
  <2>3. QED
    BY <1>1, <1>2, <1>3, <1>4, <2>1, <2>2 DEF TypeInv, PCs, ClosedStates
<1>8. StartInv' /\ ModeInv'
  BY <1>2, <1>4 DEF StartInv, ModeInv, Before
<1>9. CallsInv'
  <2>1. \A role : \A i \in CallsBy(role)' : i \in DOMAIN calls'
    BY DEF CallsBy
  <2>2. \A i, j \in CallsBy("member")' : calls'[i].agent = calls'[j].agent => i = j
    BY <1>6, <2>1
  <2>3. \A i \in CallsBy("classifier")' : i = 1
    BY <1>6, <2>1
  <2>4. pc' = "done" => AllEnded'
    BY DEF AllEnded, InState
  <2>5. QED
    BY <2>2, <2>3, <2>4 DEF CallsInv, ClosedStates
<1>10. BroadcastInv' /\ PipelineInv' /\ StagesReadLastGood'
  BY <1>4 DEF BroadcastInv, PipelineInv, StagesReadLastGood
<1>11. RouterInv'
  <2>1. Cardinality(picked') = 0 /\ Cap \in Nat
    BY <1>1, <1>2, CapIs, FS_EmptySet DEF TypeInv
  <2>2. pc' = "stream" => calls' # <<>> /\ 1 \in InState("running")'
    BY DEF CallsBy, InState
  <2>3. pc' = "done" /\ ~ctx.quality => Cardinality(ToSet(ctx'.agents)) = 0
    BY <1>3, FS_EmptySet
  <2>4. pc' = "done" => ~AnyThrew'
    BY DEF AnyThrew, InState
  <2>5. QED
    BY <1>2, <1>3, <1>4, <2>1, <2>2, <2>3, <2>4 DEF RouterInv
<1>12. StreamInv'
  BY <1>2 DEF StreamInv, EarlySelectionStands
<1>13. TextsInv'
  BY <1>4, <1>10 DEF TextsInv, ReducerReads, FinalIsLastGood
<1>14. QED
  BY <1>3, <1>7, <1>8, <1>9, <1>10, <1>11, <1>12, <1>13 DEF RunInv

LEMMA RouterStarts ==
    ASSUME RunInv, RouterStart, UNCHANGED pipelineVars
    PROVE  RunInv'
<1>1. TypeInv /\ StartInv /\ ModeInv /\ AgentsInv
  BY DEF RunInv
<1>2. /\ pc = "start" /\ ctx.mode = "router" /\ UNCHANGED routerVars
      /\ calls = <<>> /\ final = 0
  BY <1>1 DEF RouterStart, StartInv, Before
<1>3. PICK up \in SUBSET Reachable :
        LET names == Only[ctx.agents][up]
        IN  /\ ctx' = [ctx EXCEPT !.agents = names]
            /\ \/ /\ names = <<>> \/ (ctx.quality /\ ctx.target \notin up)
                  /\ Return(0) /\ UNCHANGED calls
               \/ /\ ctx.quality /\ ctx.target \in up
                  /\ calls' = Calls(<<ctx.target>>)
                  /\ pc' = "collect" /\ UNCHANGED final
               \/ /\ ~ctx.quality /\ names # <<>>
                  /\ calls' = <<Call(Classifier(ctx.cfg, names), "classifier", {})>>
                  /\ pc' = "stream" /\ UNCHANGED final
  BY DEF RouterStart
<1> DEFINE names == Only[ctx.agents][up]
<1>4. /\ ctx' = [ctx EXCEPT !.agents = Only[ctx.agents][up]]
      /\ names \in Seq(Names) /\ ToSet(names) = up /\ up \subseteq Agents /\ up \subseteq Names
  BY <1>1, <1>2, <1>3, RouterAgents
<1> HIDE DEF names
<1>5. CASE /\ names = <<>> \/ (ctx.quality /\ ctx.target \notin up)
           /\ Return(0) /\ UNCHANGED calls
  <2>1. calls' = <<>> /\ pc' = "done" /\ final' = 0 /\ DOMAIN calls' = {} /\ Len(calls') = 0
    BY <1>2, <1>5 DEF Return
  <2>2. CallsBy("reducer")' = {} /\ MembersAsked' = {}
    BY <2>1 DEF CallsBy, MembersAsked
  <2>3. ctx.quality \/ up = {}
    BY <1>4, <1>5, EmptyIs
  <2>4. calls' \in Seq(CallRecord) /\ Len(calls') <= 1
    BY <2>1
  <2>5. \A i \in DOMAIN calls' : calls'[i].quoted = {} /\ calls'[i].state = "running"
    BY <2>1
  <2>6. MembersAsked' \subseteq IF ctx.quality THEN {ctx.target} ELSE {}
    BY <2>2
  <2>7. QED
    BY <1>2, <1>4, <2>1, <2>2, <2>3, <2>4, <2>5, <2>6, RouterBegun
<1>6. CASE /\ ctx.quality /\ ctx.target \in up
           /\ calls' = Calls(<<ctx.target>>)
           /\ pc' = "collect" /\ UNCHANGED final
  <2> DEFINE one == <<ctx.target>>
  <2>1. ctx.target \in Agents /\ ctx.target \in Names
    BY <1>4, <1>6
  <2>2. one \in Seq(Names) /\ ToSet(one) = {ctx.target} /\ Len(one) = 1
    BY <2>1 DEF ToSet
  <2>3. calls' = Calls(one)
    BY <1>6
  <2> HIDE DEF one
  <2>4. ToSet(one) \subseteq Agents
    BY <2>1, <2>2
  <2>5. /\ calls' \in Seq(CallRecord) /\ Len(calls') = Len(one)
        /\ \A i \in DOMAIN calls' : /\ calls'[i].agent = one[i] /\ calls'[i].quoted = {}
                                    /\ calls'[i].role = "member" /\ calls'[i].state = "running"
        /\ CallsBy("reducer")' = {} /\ CallsBy("classifier")' = {}
        /\ MembersAsked' = ToSet(one)
    BY <1>2, <2>2, <2>3, <2>4, FirstCalls
  <2>6. Len(calls') <= 1
    BY <2>2, <2>5
  <2>7. QED
    BY <1>2, <1>4, <1>6, <2>2, <2>5, <2>6, RouterBegun
<1>7. CASE /\ ~ctx.quality /\ names # <<>>
           /\ calls' = <<Call(Classifier(ctx.cfg, names), "classifier", {})>>
           /\ pc' = "stream" /\ UNCHANGED final
  <2> DEFINE a == Classifier(ctx.cfg, names)
  <2>1. a \in Agents
    BY <1>4, <1>7, ClassifierIs
  <2>2. calls' = <<Call(a, "classifier", {})>>
    BY <1>7
  <2> HIDE DEF a
  <2>3. Call(a, "classifier", {}) \in CallRecord
    BY <2>1 DEF Call, CallRecord, Roles, CallStates
  <2>4. /\ calls' \in Seq(CallRecord) /\ Len(calls') = 1 /\ DOMAIN calls' = {1}
        /\ calls'[1] = Call(a, "classifier", {})
    BY <2>2, <2>3
  <2>5. calls'[1].role = "classifier" /\ calls'[1].quoted = {} /\ calls'[1].state = "running"
    BY <2>4 DEF Call
  <2>6. /\ CallsBy("reducer")' = {} /\ CallsBy("member")' = {} /\ CallsBy("classifier")' = {1}
    BY <2>4, <2>5 DEF CallsBy
  <2>7. MembersAsked' = {}
    BY <2>6 DEF MembersAsked
  <2>8. \A i \in DOMAIN calls' : calls'[i].quoted = {} /\ calls'[i].state = "running"
    BY <2>4, <2>5
  <2>9. MembersAsked' \subseteq IF ctx.quality THEN {ctx.target} ELSE {}
    BY <2>7
  <2>10. Len(calls') <= 1 /\ 1 \in CallsBy("classifier")' /\ final' = 0
    BY <1>2, <1>7, <2>4, <2>6
  <2>11. pc' \in {"done", "collect", "stream"} /\ pc' = "stream" /\ ~ctx.quality
    BY <1>7
  <2>12. QED
    BY <1>2, <1>4, <2>4, <2>6, <2>8, <2>9, <2>10, <2>11, RouterBegun
<1>8. QED
  BY <1>3, <1>5, <1>6, <1>7 DEF names

\* A launch while or when the classifier's stream ends: those in S are called.
LEMMA Launched ==
    ASSUME RunInv, pc = "stream", UNCHANGED <<ctx, final, pipelineVars>>,
           NEW b \in Seq(CallRecord), Len(b) = Len(calls),
           \A i \in DOMAIN calls : /\ b[i].agent = calls[i].agent /\ b[i].role = calls[i].role
                                   /\ b[i].quoted = calls[i].quoted,
           NEW S \in SUBSET Agents, S \cap picked = {}, picked' = picked \cup S,
           calls' = b \o Calls(SetToSeq(S)),
           Cardinality(picked') <= Cap,
           pc' \in {"stream", "collect"},
           pc' = "stream" => b[1].state = "running" /\ (launched' = "no" => picked' = {}),
           pc' = "collect" =>
               b[1].state = "threw" \/ picked' # {} \/ ~(Cardinality(Reachable) >= 2),
           raw' \in Seq(Agents \cup {Mark, Eol}), launched' \in {"no", "early", "end"},
           StreamInv'
    PROVE  RunInv'
<1> DEFINE names == SetToSeq(S)
<1>1. /\ TypeInv /\ StartInv /\ ModeInv /\ AgentsInv /\ CallsInv /\ RouterInv
  BY DEF RunInv
<1>2. /\ ctx' = ctx /\ final' = final /\ chain' = chain /\ prev' = prev
      /\ ctx.mode = "router" /\ ~ctx.quality
      /\ calls # <<>> /\ 1 \in CallsBy("classifier") /\ CallsBy("reducer") = {}
      /\ MembersAsked = picked
  BY <1>1 DEF pipelineVars, ModeInv, RouterInv, CallsInv
<1>3. names \in Seq(Names) /\ ToSet(names) = S /\ IsInjective(names)
  <2>1. IsFiniteSet(S) /\ S \subseteq Names
    BY Deployment, FS_Subset
  <2>2. SetToSeq(S) \in Seq(S) /\ ToSet(SetToSeq(S)) = S /\ IsInjective(SetToSeq(S))
    BY <2>1, SetToSeqIs
  <2> HIDE DEF names
  <2>3. names \in Seq(S) /\ ToSet(names) = S /\ IsInjective(names)
    BY <2>2 DEF names
  <2>4. QED
    BY <2>1, <2>3
<1>4. calls' = b \o Calls(names)
  OBVIOUS
<1> HIDE DEF names
<1>5. /\ calls' \in Seq(CallRecord) /\ Len(calls') = Len(calls) + Len(names)
      /\ \A i \in DOMAIN calls : i \in DOMAIN calls' /\ calls'[i] = b[i]
      /\ \A i \in DOMAIN calls' \ DOMAIN calls :
           /\ i - Len(calls) \in DOMAIN names
           /\ calls'[i] = Call(names[i - Len(calls)], "member", {})
      /\ CallsBy("reducer")' = CallsBy("reducer")
      /\ CallsBy("classifier")' = CallsBy("classifier")
      /\ CallsBy("member")' = CallsBy("member") \cup (DOMAIN calls' \ DOMAIN calls)
      /\ MembersAsked' = MembersAsked \cup S
  <2>1. \A i \in DOMAIN calls : b[i].agent = calls[i].agent /\ b[i].role = calls[i].role
    OBVIOUS
  <2>2. ToSet(names) \subseteq Agents
    BY <1>3
  <2>3. QED
    BY <1>1, <1>3, <1>4, <2>1, <2>2, MoreCalls DEF TypeInv
<1>6. /\ Len(calls) \in Nat /\ DOMAIN calls = 1 .. Len(calls) /\ Len(calls') \in Nat
      /\ Len(calls) <= Len(calls') /\ DOMAIN calls' = 1 .. Len(calls')
  BY <1>1, <1>3, <1>5 DEF TypeInv
<1>7. \A i \in DOMAIN calls' \ DOMAIN calls :
          /\ calls'[i].agent = names[i - Len(calls)] /\ calls'[i].quoted = {}
          /\ i - Len(calls) \in DOMAIN names /\ calls'[i].agent \in S
  <2>1. \A k \in DOMAIN names : names[k] \in S
    BY <1>3 DEF ToSet
  <2>2. ASSUME NEW i \in DOMAIN calls' \ DOMAIN calls
        PROVE  /\ calls'[i].agent = names[i - Len(calls)] /\ calls'[i].quoted = {}
               /\ i - Len(calls) \in DOMAIN names
    <3>1. /\ i - Len(calls) \in DOMAIN names
          /\ calls'[i] = Call(names[i - Len(calls)], "member", {})
      BY <1>5
    <3>2. QED
      BY <3>1 DEF Call
  <2>3. QED
    BY <2>1, <2>2
<1>8. TypeInv'
  <2>1. ASSUME NEW i \in DOMAIN calls' PROVE calls'[i].quoted \subseteq DOMAIN calls'
    <3>1. CASE i \in DOMAIN calls
      BY <1>1, <1>5, <3>1 DEF TypeInv
    <3>2. CASE i \notin DOMAIN calls
      BY <1>7, <3>2
    <3>3. QED
      BY <3>1, <3>2
  <2>2. final' \in 0 .. Len(calls') /\ prev' \in 0 .. Len(calls')
    BY <1>1, <1>2, <1>6 DEF TypeInv
  <2>3. QED
    BY <1>1, <1>2, <1>5, <2>1, <2>2 DEF TypeInv, PCs
<1>9. StartInv' /\ ModeInv'
  BY <1>1, <1>2, <1>5 DEF StartInv, ModeInv, Before
<1>10. AgentsInv' /\ Cap' = Cap
  BY <1>1, <1>2, ContextKept DEF Cap
<1>11. CallsInv'
  <2>1. ASSUME NEW i \in CallsBy("member"), NEW j \in DOMAIN calls' \ DOMAIN calls
        PROVE  calls'[i].agent # calls'[j].agent
    <3>1. calls[i].agent \in picked /\ calls'[i].agent = calls[i].agent
      BY <1>2, <1>5 DEF MembersAsked, CallsBy
    <3>2. QED
      BY <1>7, <3>1
  <2>2. ASSUME NEW i \in CallsBy("member"), NEW j \in CallsBy("member"),
               calls'[i].agent = calls'[j].agent
        PROVE  i = j
    <3>1. calls'[i].agent = calls[i].agent /\ calls'[j].agent = calls[j].agent
      BY <1>5 DEF CallsBy
    <3>2. QED
      BY <1>1, <2>2, <3>1 DEF CallsInv
  <2>3. ASSUME NEW i \in DOMAIN calls' \ DOMAIN calls, NEW j \in DOMAIN calls' \ DOMAIN calls,
               calls'[i].agent = calls'[j].agent
        PROVE  i = j
    <3>1. i - Len(calls) = j - Len(calls)
      BY <1>3, <1>7, <2>3 DEF IsInjective
    <3>2. QED
      BY <1>6, <3>1
  <2>4. \A i, j \in CallsBy("member")' : calls'[i].agent = calls'[j].agent => i = j
    <3>1. CallsBy("member")' = CallsBy("member") \cup (DOMAIN calls' \ DOMAIN calls)
      BY <1>5
    <3>2. SUFFICES ASSUME NEW i \in CallsBy("member")', NEW j \in CallsBy("member")',
                          calls'[i].agent = calls'[j].agent
                   PROVE  i = j
      OBVIOUS
    <3>3. CASE i \in CallsBy("member")
      BY <2>1, <2>2, <3>1, <3>2, <3>3
    <3>4. CASE i \in DOMAIN calls' \ DOMAIN calls
      BY <2>1, <2>3, <3>1, <3>2, <3>4
    <3>5. QED
      BY <3>1, <3>3, <3>4
  <2>5. CallsBy("reducer")' = {} /\ \A i \in CallsBy("classifier")' : i = 1
    BY <1>1, <1>2, <1>5 DEF CallsInv
  <2>6. QED
    BY <2>4, <2>5 DEF CallsInv, ClosedStates
<1>12. BroadcastInv' /\ PipelineInv' /\ StagesReadLastGood'
  BY <1>2 DEF BroadcastInv, PipelineInv, StagesReadLastGood
<1>13. RouterInv'
  <2>1. 1 \in DOMAIN calls /\ 1 \in DOMAIN calls' /\ calls'[1] = b[1]
    BY <1>2, <1>5 DEF CallsBy
  <2>2. pc' = "stream" => 1 \in CallsBy("classifier")' \cap InState("running")' /\ calls' # <<>>
    BY <1>2, <1>5, <2>1 DEF InState
  <2>3. b[1].state = "threw" => AnyThrew'
    BY <2>1 DEF AnyThrew, InState
  <2>4. Reachable = ToSet(ctx.agents)
    BY DEF Reachable
  <2>5. QED
    BY <1>2, <1>5, <1>10, <2>2, <2>3, <2>4 DEF RouterInv
<1>14. TextsInv'
  BY <1>2, <1>5, <1>12 DEF TextsInv, ReducerReads, FinalIsLastGood
<1>15. QED
  BY <1>8, <1>9, <1>10, <1>11, <1>12, <1>13, <1>14 DEF RunInv

LEMMA NoneLaunched ==
    ASSUME NEW b \in Seq(CallRecord)
    PROVE  b \o Calls(SetToSeq({})) = b
<1> DEFINE names == SetToSeq({})
<1>1. names \in Seq({}) /\ Len(names) = 0
  <2>1. IsFiniteSet({}) /\ Cardinality({}) = 0
    BY FS_EmptySet
  <2>2. QED
    BY <2>1, SetToSeqIs
<1> HIDE DEF names
<1>2. names = <<>>
  BY <1>1
<1>3. Calls(<<>>) = <<>>
  BY DEF Calls
<1>4. QED
  BY <1>2, <1>3 DEF names

\* The agents that follow the marker on its line.
Inline(text) == ToSet(UpToEol(After(text))) \cap ChoiceSet

LEMMA StreamHolds ==
    ASSUME ctx' = ctx,
           launched' # "no" /\ Mark \in ToSet(raw') /\ Inline(raw') # {}
               => picked' \in Few(Inline(raw')),
           launched' = "early" => LineComplete(raw'),
           pc' = "stream" => launched' # "end"
    PROVE  StreamInv'
<1>1. ChoiceSet' = ChoiceSet /\ Cap' = Cap
  BY DEF ChoiceSet, Reachable, Cap
<1>2. \A S : Few(S)' = Few(S)
  BY <1>1 DEF Few
<1>3. EarlySelectionStands'
  BY <1>1 DEF EarlySelectionStands, Inline, Few
<1>4. LineComplete(raw)' = LineComplete(raw')
  BY DEF LineComplete
<1>5. QED
  BY <1>3, <1>4 DEF StreamInv

LEMMA ChunkArrives ==
    ASSUME RunInv, StreamChunk, UNCHANGED pipelineVars
    PROVE  RunInv'
<1>1. /\ TypeInv /\ ModeInv /\ RouterInv /\ StreamInv
  BY DEF RunInv
<1>2. /\ pc = "stream" /\ pc' = "stream" /\ UNCHANGED <<ctx, final>>
      /\ calls # <<>> /\ 1 \in InState("running") /\ launched \in {"no", "early"}
      /\ calls \in Seq(CallRecord)
      /\ launched = "no" => picked = {}
      /\ picked \subseteq Agents /\ Cardinality(picked) <= Cap
  BY <1>1 DEF StreamChunk, RouterInv, StreamInv, TypeInv
<1>3. PICK x \in ChoiceSet \cup {Mark, Eol} : raw' = Append(raw, x)
  BY DEF StreamChunk
<1> DEFINE T == Agents \cup {Mark, Eol}
<1>4. raw \in Seq(T) /\ x \in T /\ raw' \in Seq(T)
  BY <1>1, <1>3, ChoicesAre DEF TypeInv
<1>5. calls[1].state = "running"
  BY <1>2 DEF InState
<1>6. CASE /\ launched = "no" /\ LineComplete(raw')
           /\ launched' = "early"
           /\ picked' \in Few(NamesIn(raw'))
           /\ calls' = calls \o Calls(SetToSeq(picked'))
  <2>1. /\ picked' \subseteq NamesIn(raw') /\ Cardinality(picked') <= Cap
        /\ NamesIn(raw') \subseteq Agents
    <3>1. NamesIn(raw') \subseteq Agents /\ IsFiniteSet(NamesIn(raw'))
      BY <1>1, ChoicesAre
    <3>2. ctx \in Context
      BY <1>1 DEF TypeInv
    <3>3. QED
      BY <1>6, <3>1, <3>2, FewAre
  <2>2. StreamInv'
    <3>1. Mark \in ToSet(raw') /\ Inline(raw') # {} => NamesIn(raw') = Inline(raw')
      BY <1>4, InlineIs DEF Inline
    <3>2. QED
      BY <1>2, <1>6, <3>1, StreamHolds
  <2>3. picked' \cap picked = {} /\ picked' = picked \cup picked' /\ picked' \in SUBSET Agents
    BY <1>2, <1>6, <2>1
  <2>4. QED
    BY <1>2, <1>4, <1>5, <1>6, <2>1, <2>2, <2>3, Launched
<1>7. CASE ~(launched = "no" /\ LineComplete(raw')) /\ UNCHANGED <<launched, picked, calls>>
  <2>1. StreamInv'
    <3>1. CASE launched = "no"
      BY <1>2, <1>7, <3>1, StreamHolds
    <3>2. CASE launched = "early"
      <4>1. LineComplete(raw)
        BY <1>1, <3>2 DEF StreamInv
      <4>2. /\ LineComplete(raw') /\ Mark \in ToSet(raw)
            /\ UpToEol(After(raw')) = UpToEol(After(raw))
        BY <1>3, <1>4, <4>1, LineStands
      <4>3. Inline(raw') = Inline(raw)
        BY <4>2 DEF Inline
      <4>4. Inline(raw) # {} => picked \in Few(Inline(raw))
        BY <1>1, <1>2, <3>2, <4>2 DEF StreamInv, EarlySelectionStands, ModeInv, Inline
      <4>5. QED
        BY <1>2, <1>7, <3>2, <4>2, <4>3, <4>4, StreamHolds
    <3>3. QED
      BY <1>2, <3>1, <3>2
  <2>2. calls' = calls \o Calls(SetToSeq({}))
    BY <1>2, <1>7, NoneLaunched
  <2>3. {} \cap picked = {} /\ picked' = picked \cup {} /\ {} \in SUBSET Agents
    BY <1>7
  <2>4. QED
    BY <1>2, <1>4, <1>5, <1>7, <2>1, <2>2, <2>3, Launched
<1>8. QED
  BY <1>6, <1>7 DEF StreamChunk

\* The end of the classifier's call.
LEMMA ClassifierEnded ==
    ASSUME RunInv, pc = "stream", NEW s \in {"ok", "error", "threw"},
           NEW b, b = [calls EXCEPT ![1].state = s]
    PROVE  /\ b \in Seq(CallRecord) /\ Len(b) = Len(calls) /\ b[1].state = s
           /\ \A i \in DOMAIN calls : /\ b[i].agent = calls[i].agent /\ b[i].role = calls[i].role
                                      /\ b[i].quoted = calls[i].quoted
<1>1. calls \in Seq(CallRecord) /\ 1 \in DOMAIN calls
  BY DEF RunInv, TypeInv, RouterInv, CallsBy
<1>2. calls[1] \in CallRecord /\ s \in CallStates
  BY <1>1 DEF CallStates
<1>3. [calls[1] EXCEPT !.state = s] \in CallRecord
  BY <1>2 DEF CallRecord
<1>4. /\ b \in Seq(CallRecord) /\ Len(b) = Len(calls)
      /\ b[1] = [calls[1] EXCEPT !.state = s]
      /\ \A i \in DOMAIN calls : i # 1 => b[i] = calls[i]
  BY <1>1, <1>3
<1>5. /\ b[1].agent = calls[1].agent /\ b[1].role = calls[1].role
      /\ b[1].quoted = calls[1].quoted /\ b[1].state = s
  BY <1>2, <1>4 DEF CallRecord
<1>6. QED
  BY <1>4, <1>5

LEMMA StreamEnds ==
    ASSUME RunInv, StreamEnd, UNCHANGED pipelineVars
    PROVE  RunInv'
<1>1. /\ TypeInv /\ ModeInv /\ RouterInv /\ StreamInv
  BY DEF RunInv
<1>2. /\ pc = "stream" /\ pc' = "collect" /\ UNCHANGED <<ctx, final, raw>>
      /\ launched \in {"no", "early"} /\ ctx.mode = "router" /\ ctx \in Context
      /\ launched = "no" => picked = {}
      /\ picked \subseteq Agents /\ Cardinality(picked) <= Cap
      /\ launched' = IF launched = "no" THEN "end" ELSE launched
      /\ raw' \in Seq(Agents \cup {Mark, Eol})
  BY <1>1 DEF StreamEnd, RouterInv, StreamInv, TypeInv, ModeInv
<1>3. PICK s \in {"ok", "error"},
           sel \in (IF launched = "no" THEN Few(NamesIn(raw)) ELSE {picked}) :
          /\ picked' \in IF sel = {} THEN FallbackChoices ELSE {sel}
          /\ calls' = [calls EXCEPT ![1].state = s] \o Calls(SetToSeq(picked' \ picked))
  BY DEF StreamEnd
<1>4. \A X \in FallbackChoices :
          /\ X \subseteq Agents /\ Cardinality(X) <= Cap
          /\ Cardinality(Reachable) >= 2 => X # {}
  BY <1>1, FallbacksAre, AgentsTaking
<1>5. \A X \in Few(NamesIn(raw)) : X \subseteq Agents /\ Cardinality(X) <= Cap
  <2>1. NamesIn(raw) \subseteq Agents /\ IsFiniteSet(NamesIn(raw))
    BY <1>1, ChoicesAre
  <2>2. QED
    BY <1>2, <2>1, FewAre
<1>6. /\ sel \subseteq Agents /\ Cardinality(sel) <= Cap
      /\ picked # {} => sel = picked
  BY <1>2, <1>3, <1>5
<1>7. /\ picked' \subseteq Agents /\ Cardinality(picked') <= Cap
      /\ picked' # {} \/ ~(Cardinality(Reachable) >= 2)
      /\ sel # {} => picked' = sel
  BY <1>3, <1>4, <1>6
<1>8. StreamInv'
  <2>1. SUFFICES ASSUME Mark \in ToSet(raw), Inline(raw) # {}
                 PROVE  picked' \in Few(Inline(raw))
    <3>1. launched' = "early" => LineComplete(raw')
      BY <1>1, <1>2 DEF StreamInv
    <3>2. raw' = raw /\ ctx' = ctx /\ pc' # "stream"
      BY <1>2
    <3>3. QED
      BY <3>1, <3>2, StreamHolds
  <2>2. sel \in Few(Inline(raw))
    <3>1. CASE launched = "no"
      <4>1. NamesIn(raw) = Inline(raw)
        BY <1>1, <2>1, InlineIs DEF Inline, TypeInv
      <4>2. QED
        BY <1>3, <3>1, <4>1
    <3>2. CASE launched = "early"
      BY <1>1, <1>2, <1>3, <2>1, <3>2 DEF StreamInv, EarlySelectionStands, Inline
    <3>3. QED
      BY <1>2, <3>1, <3>2
  <2>3. sel # {}
    <3>1. IsFiniteSet(Inline(raw))
      BY <1>1, ChoicesAre, FS_Subset DEF Inline
    <3>2. QED
      BY <1>2, <2>1, <2>2, <3>1, FewAre
  <2>4. QED
    BY <1>7, <2>2, <2>3
<1> DEFINE b == [calls EXCEPT ![1].state = s]
           S == picked' \ picked
<1>9. /\ b \in Seq(CallRecord) /\ Len(b) = Len(calls) /\ b[1].state = s
      /\ \A i \in DOMAIN calls : /\ b[i].agent = calls[i].agent /\ b[i].role = calls[i].role
                                 /\ b[i].quoted = calls[i].quoted
  BY <1>2, ClassifierEnded
<1>10. calls' = b \o Calls(SetToSeq(S))
  BY <1>3
<1> HIDE DEF b
<1>11. S \in SUBSET Agents /\ S \cap picked = {} /\ picked' = picked \cup S
  BY <1>6, <1>7
<1> HIDE DEF S
<1>12. launched' \in {"no", "early", "end"}
  BY <1>2
<1>13. QED
  BY <1>2, <1>7, <1>8, <1>9, <1>10, <1>11, <1>12, Launched

LEMMA StreamThrows ==
    ASSUME RunInv, StreamThrow, UNCHANGED pipelineVars
    PROVE  RunInv'
<1>1. /\ TypeInv /\ ModeInv /\ RouterInv /\ StreamInv
  BY DEF RunInv
<1>2. /\ pc = "stream" /\ pc' = "collect" /\ UNCHANGED <<ctx, final, raw, picked, launched>>
      /\ calls' = [calls EXCEPT ![1].state = "threw"]
      /\ Cardinality(picked') <= Cap
      /\ raw' \in Seq(Agents \cup {Mark, Eol}) /\ launched' \in {"no", "early", "end"}
  BY <1>1 DEF StreamThrow, RouterInv, TypeInv, routerVars
<1>3. /\ calls' \in Seq(CallRecord) /\ Len(calls') = Len(calls) /\ calls'[1].state = "threw"
      /\ \A i \in DOMAIN calls :
            /\ calls'[i].agent = calls[i].agent /\ calls'[i].role = calls[i].role
            /\ calls'[i].quoted = calls[i].quoted
  BY <1>2, ClassifierEnded
<1>4. calls' = calls' \o Calls(SetToSeq({}))
  BY <1>3, NoneLaunched
<1>5. StreamInv'
  BY <1>1, <1>2, StreamKept
<1>6. {} \cap picked = {} /\ picked' = picked \cup {} /\ {} \in SUBSET Agents
  BY <1>2
<1>7. QED
  BY <1>2, <1>3, <1>4, <1>5, <1>6, Launched

LEMMA RouterRuns ==
    ASSUME RunInv, RouterNext, UNCHANGED pipelineVars
    PROVE  RunInv'
<1>1. CASE RouterCollect
  <2>1. /\ pc = "collect" /\ AllEnded /\ ctx.mode = "router"
        /\ Unwind \/ (Return(0) /\ ~AnyThrew)
        /\ UNCHANGED <<ctx, calls, pipelineVars, routerVars>>
    BY <1>1 DEF RouterCollect
  <2>2. QED
    BY <2>1, CollectsEnd
<1>2. QED
  BY <1>1, RouterStarts, ChunkArrives, StreamEnds, StreamThrows DEF RouterNext

-----------------------------------------------------------------------------
(* The invariant                                                            *)

LEMMA RunKept ==
    ASSUME RunInv, UNCHANGED vars
    PROVE  RunInv'
<1>1. /\ pc' = pc /\ ctx' = ctx /\ calls' = calls /\ final' = final
      /\ chain' = chain /\ prev' = prev
      /\ raw' = raw /\ picked' = picked /\ launched' = launched
  BY DEF vars, callVars, pipelineVars, routerVars
<1>2. /\ TypeInv /\ StartInv /\ ModeInv /\ AgentsInv /\ CallsInv
      /\ BroadcastInv /\ PipelineInv /\ RouterInv /\ StreamInv /\ TextsInv
  BY DEF RunInv
<1>3. /\ \A role : CallsBy(role)' = CallsBy(role)
      /\ \A s : InState(s)' = InState(s)
      /\ MembersAsked' = MembersAsked /\ Healthy' = Healthy /\ Cap' = Cap
      /\ Resolved' = Resolved /\ FlatMembers' = FlatMembers
      /\ CascadeMembers' = CascadeMembers /\ Reachable' = Reachable
      /\ AllEnded' = AllEnded /\ AnyThrew' = AnyThrew
  BY <1>1, CallsKept
<1>4. TypeInv' /\ StartInv' /\ ModeInv' /\ AgentsInv'
  BY <1>1, <1>2, <1>3, ContextKept DEF TypeInv, StartInv, ModeInv, Before
<1>5. CallsInv' /\ BroadcastInv'
  BY <1>1, <1>2, <1>3 DEF CallsInv, BroadcastInv, Before
<1>6. PipelineInv'
  <2>1. /\ Given' = Given /\ LastGood(Len(calls))' = LastGood(Len(calls))
        /\ LastGood(Len(calls) - 1)' = LastGood(Len(calls) - 1)
    BY <1>1 DEF Given, LastGood
  <2>2. QED
    BY <1>1, <1>2, <1>3, <2>1 DEF PipelineInv, Before
<1>7. RouterInv' /\ StreamInv'
  BY <1>1, <1>2, <1>3, StreamKept DEF RouterInv
<1>8. TextsInv'
  BY <1>1, <1>2, <1>3 DEF TextsInv, StagesReadLastGood, ReducerReads, FinalIsLastGood
<1>9. QED
  BY <1>4, <1>5, <1>6, <1>7, <1>8 DEF RunInv

LEMMA RunSteps == RunInv /\ [Next]_vars => RunInv'
<1> SUFFICES ASSUME RunInv, [Next]_vars PROVE RunInv'
  OBVIOUS
<1>1. CASE SnapshotConfig \/ SnapshotRoster \/ Supervise
  BY <1>1, PreludeRuns
<1>2. CASE BroadcastNext /\ UNCHANGED <<pipelineVars, routerVars>>
  BY <1>2, BroadcastStarts, BroadcastCollects DEF BroadcastNext
<1>3. CASE PipelineNext /\ UNCHANGED <<routerVars>>
  BY <1>3, PipelineRuns
<1>4. CASE RouterNext /\ UNCHANGED <<pipelineVars>>
  BY <1>4, RouterRuns
<1>5. CASE EndReduce /\ UNCHANGED <<pipelineVars, routerVars>>
  BY <1>5, ReduceEnds
<1>6. CASE CallEnds
  BY <1>6, CallEndsKeeps
<1>7. CASE UNCHANGED vars
  BY <1>7, RunKept
<1>8. QED
  BY <1>1, <1>2, <1>3, <1>4, <1>5, <1>6, <1>7 DEF Next, Handler, RunMode

LEMMA RunInvariant == Spec => []RunInv
BY RunStarts, RunSteps, PTL DEF Spec

-----------------------------------------------------------------------------
(* What every run keeps                                                     *)

\* The variables have their types.
THEOREM TypeCorrect == Spec => []TypeOK
<1>1. RunInv => TypeOK
  <2> SUFFICES ASSUME RunInv PROVE TypeOK
    OBVIOUS
  <2>1. TypeInv
    BY DEF RunInv
  <2> DEFINE R == [agent : ToSet(Deployed), role : Roles, quoted : SUBSET (DOMAIN calls),
                   state : CallStates]
  <2>2. calls \in Seq(R)
    <3>1. ASSUME NEW i \in DOMAIN calls PROVE calls[i] \in R
      <4>1. calls[i] \in CallRecord /\ calls[i].quoted \subseteq DOMAIN calls
        BY <2>1 DEF TypeInv
      <4>2. QED
        BY <4>1 DEF CallRecord, Agents
    <3> HIDE DEF R
    <3>2. DOMAIN calls = 1 .. Len(calls) /\ Len(calls) \in Nat /\ calls = [i \in 1 .. Len(calls) |-> calls[i]]
      BY <2>1 DEF TypeInv
    <3>3. QED
      BY <3>1, <3>2
  <2>3. ctx.mode \in Modes \cup {""}
    BY <2>1, ContextTypes DEF TypeInv
  <2>4. QED
    BY <2>1, <2>2, <2>3 DEF TypeOK, TypeInv, PCs, Agents
<1>2. QED
  BY <1>1, RunInvariant, PTL

\* A pipeline stage reads the latest good text before it and no error text.
THEOREM ReadsLastGood == Spec => []StagesReadLastGood
<1>1. RunInv => StagesReadLastGood
  BY DEF RunInv, TextsInv
<1>2. QED
  BY <1>1, RunInvariant, PTL

\* A reducer reads what it is meant to, whatever ended in which order.
THEOREM ReducerReadsAll == Spec => []ReducerReads
<1>1. RunInv => ReducerReads
  BY DEF RunInv, TextsInv
<1>2. QED
  BY <1>1, RunInvariant, PTL

\* The final text is the reducer's or the last good stage's.
THEOREM FinalText == Spec => []FinalIsLastGood
<1>1. RunInv => FinalIsLastGood
  BY DEF RunInv, TextsInv
<1>2. QED
  BY <1>1, RunInvariant, PTL

\* An early launch picks what the whole text would have.
THEOREM EarlyIsFinal == Spec => []EarlySelectionStands
<1>1. RunInv => EarlySelectionStands
  BY DEF RunInv, StreamInv
<1>2. QED
  BY <1>1, RunInvariant, PTL

\* In a run that has left its prelude the mode is one of the four.
LEMMA ModeRuns ==
    ASSUME RunInv, ~Before
    PROVE  ctx.mode \in {"flat", "cascade", "pipeline", "router"}
<1>1. TypeInv /\ ModeInv
  BY DEF RunInv
<1>2. QED
  BY <1>1 DEF TypeInv, ModeInv, PCs, ClosedStates, Before

LEMMA TwoAgents ==
    ASSUME NEW S, IsFiniteSet(S), Cardinality(S) >= 2, NEW x
    PROVE  S \ {x} # {}
<1> SUFFICES ASSUME S \ {x} = {} PROVE FALSE
  OBVIOUS
<1>1. S \in SUBSET {x} /\ IsFiniteSet({x}) /\ Cardinality({x}) = 1
  BY FS_Singleton
<1>2. Cardinality(S) <= 1 /\ Cardinality(S) \in Nat
  BY <1>1, FS_Subset, FS_CardinalityType
<1>3. QED
  BY <1>2

\* With two agents to choose from somebody is asked, whatever the mode, the
\* configuration and the classifier's text.
THEOREM SomebodyAsked == Spec => []SomebodyAnswers
<1>1. RunInv => SomebodyAnswers
  <2> SUFFICES ASSUME RunInv, pc = "done", ~ctx.quality, Cardinality(ToSet(ctx.agents)) >= 2
               PROVE  CallsBy("member") # {}
    BY DEF SomebodyAnswers
  <2>1. /\ TypeInv /\ BroadcastInv /\ PipelineInv /\ RouterInv /\ ~Before
        /\ ctx.mode \in {"flat", "cascade", "pipeline", "router"}
    BY ModeRuns DEF RunInv, Before
  <2>2. IsFiniteSet(ToSet(ctx.agents)) /\ ctx.agents \in Seq(Names)
    BY <2>1, AgentsTaking, ContextTypes DEF TypeInv
  <2>3. ToSet(ctx.agents) \ {ctx.cfg.synthesizer} # {}
    BY <2>2, TwoAgents
  <2>4. MembersAsked # {} => CallsBy("member") # {}
    BY DEF MembersAsked
  <2>5. CASE ctx.mode = "flat"
    BY <2>1, <2>3, <2>4, <2>5, FlatMembersAre DEF BroadcastInv
  <2>6. CASE ctx.mode = "cascade"
    BY <2>1, <2>3, <2>4, <2>6, CascadeMembersAre DEF BroadcastInv
  <2>7. CASE ctx.mode = "pipeline"
    <3>1. ctx.agents # <<>>
      BY <2>2, <2>3, EmptyIs
    <3>2. QED
      BY <2>1, <2>7, <3>1 DEF PipelineInv
  <2>8. CASE ctx.mode = "router"
    BY <2>1, <2>4, <2>8 DEF RouterInv
  <2>9. QED
    BY <2>1, <2>5, <2>6, <2>7, <2>8
<1>2. QED
  BY <1>1, RunInvariant, PTL

\* The second read finds the roster of the first, less the agents it drops,
\* and no step of a cascade or a pipeline changes who takes part.
LEMMA ListedKept ==
    ASSUME RunInv, ListedInv, [Next]_vars
    PROVE  ListedInv'
<1>1. TypeInv /\ AgentsInv /\ ModeInv
  BY DEF RunInv
<1>2. CASE SnapshotConfig
  BY <1>2 DEF SnapshotConfig, ListedInv
<1>3. CASE SnapshotRoster
  <2>1. ctx'.mode = ctx.mode
    BY <1>1, <1>3, RosterRead DEF SameOptions
  <2>2. QED
    BY <1>1, <1>3, <2>1, RosterRead DEF ListedInv
<1>4. CASE Supervise
  <2>1. /\ ctx'.mode = ctx.mode /\ ctx'.cfg = ctx.cfg /\ ctx'.edited = ctx.edited
        /\ ctx'.open = ctx.open /\ ToSet(ctx'.agents) = ToSet(ctx.agents)
    BY <1>1, <1>4, AgentsReordered DEF SameOptions
  <2>2. pc = "supervise"
    BY <1>4 DEF Supervise
  <2>3. QED
    BY <2>1, <2>2 DEF ListedInv, Wanted
<1>5. ASSUME ctx' = ctx, pc \notin {"mode", "roster", "rejected"} \/ pc' = pc
      PROVE  ListedInv'
  BY <1>5 DEF ListedInv, Wanted
<1>6. CASE RunMode \/ CallEnds
  <2>1. CASE RouterStart
    <3>1. ctx'.mode = "router"
      BY <1>1, <2>1 DEF RouterStart, TypeInv, Context
    <3>2. QED
      BY <3>1 DEF ListedInv
  <2>2. CASE ~RouterStart
    <3>1. CASE BroadcastNext
      BY <1>5, <3>1 DEF BroadcastNext, FlatStart, FlatCollect, CascadeStart, CascadeCollect
    <3>2. CASE PipelineNext
      BY <1>5, <3>2 DEF PipelineNext, PipelineStart, Stage, StageEnd, Fallback, FallbackEnd,
                        ChainEnd
    <3>3. CASE RouterNext
      BY <1>5, <2>2, <3>3 DEF RouterNext, StreamChunk, StreamEnd, StreamThrow, RouterCollect
    <3>4. CASE EndReduce \/ CallEnds
      BY <1>5, <3>4 DEF EndReduce, CallEnds, EndCall
    <3>5. QED
      BY <1>6, <3>1, <3>2, <3>3, <3>4 DEF RunMode
  <2>3. QED
    BY <2>1, <2>2
<1>7. CASE UNCHANGED vars
  BY <1>5, <1>7 DEF vars, callVars
<1>8. QED
  BY <1>2, <1>3, <1>4, <1>6, <1>7 DEF Next, Handler

\* A cascade and a pipeline ask exactly those their roster names that are
\* deployed and whose breaker was closed, though two places of the code read
\* it; flat mode and the router ask others (FlatAsksEverybody, picked).
THEOREM RosterFollowed == Spec => []RosterHonoured
<1>1. RunInv /\ ListedInv => RosterHonoured
  <2> SUFFICES ASSUME RunInv, ListedInv, pc = "done", ~ctx.quality, ~ctx.edited,
                      ctx.mode \in {"cascade", "pipeline"}, ctx.cfg.order = <<>>, Wanted # {}
               PROVE  MembersAsked \ {ctx.cfg.synthesizer} = Wanted
    BY DEF RosterHonoured, Wanted, Agents
  <2>1. TypeInv /\ AgentsInv /\ BroadcastInv /\ PipelineInv /\ ~Before
    BY DEF RunInv, Before
  <2>2. ToSet(ctx.agents) \ {ctx.cfg.synthesizer} = Wanted
    BY DEF ListedInv
  <2>4. CASE ctx.mode = "cascade"
    BY <2>1, <2>2, <2>4, CascadeMembersAre DEF BroadcastInv
  <2>5. CASE ctx.mode = "pipeline"
    <3>1. ctx.cfg \in Config /\ ctx.agents \in Seq(Names)
      BY <2>1, ContextTypes DEF TypeInv
    <3>2. ToSet(ctx.cfg.agents) \ {ctx.cfg.synthesizer} # {}
      BY DEF Wanted
    <3>3. (ToSet(ctx.cfg.agents) \cap ToSet(ctx.agents)) \ {ctx.cfg.synthesizer} = Wanted
      BY <2>2 DEF Wanted
    <3>4. Resolved = Wanted
      BY <3>1, <3>2, <3>3, ResolvedIs DEF Resolved
    <3>5. MembersAsked = Resolved
      BY <2>1, <2>5, <3>4 DEF PipelineInv
    <3>6. QED
      BY <3>4, <3>5 DEF Wanted
  <2>6. QED
    BY <2>4, <2>5
<1>2. Init => ListedInv
  BY DEF Init, ListedInv
<1>3. QED
  BY <1>1, <1>2, ListedKept, RunInvariant, PTL DEF Spec

\* A quality pass asks nobody but its target, where the target takes part.
THEOREM QualityNarrow == Spec => []QualityPassNarrow
<1>1. RunInv => QualityPassNarrow
  <2> SUFFICES ASSUME RunInv, ctx.quality,
                      ctx.target \in ToSet(IF ctx.mode = "pipeline"
                                           THEN ResolvedOrder(ctx.cfg, ctx.agents)
                                           ELSE ctx.agents)
               PROVE  MembersAsked \subseteq {ctx.target}
    BY DEF QualityPassNarrow
  <2>1. TypeInv /\ StartInv /\ BroadcastInv /\ PipelineInv /\ RouterInv
    BY DEF RunInv
  <2>2. CASE Before
    <3>1. DOMAIN calls = {}
      BY <2>1, <2>2 DEF StartInv
    <3>2. QED
      BY <3>1 DEF MembersAsked, CallsBy
  <2>3. CASE ~Before
    <3>1. ctx.mode \in {"flat", "cascade", "pipeline", "router"}
      BY <2>3, ModeRuns
    <3>2. CASE ctx.mode = "flat"
      BY <2>1, <2>3, <3>2, FlatMembersAre DEF BroadcastInv
    <3>3. CASE ctx.mode = "cascade"
      BY <2>1, <2>3, <3>3, CascadeMembersAre DEF BroadcastInv
    <3>4. CASE ctx.mode = "pipeline"
      BY <2>1, <3>4 DEF PipelineInv, Resolved
    <3>5. CASE ctx.mode = "router"
      BY <2>1, <3>5 DEF RouterInv
    <3>6. QED
      BY <3>1, <3>2, <3>3, <3>4, <3>5
  <2>4. QED
    BY <2>2, <2>3
<1>2. QED
  BY <1>1, RunInvariant, PTL

\* The router never asks more than max_select, over its three ways to launch.
THEOREM SelectionIsBounded == Spec => []SelectionBounded
<1>1. RunInv => SelectionBounded
  <2> SUFFICES ASSUME RunInv, ctx.mode = "router"
               PROVE  /\ Cardinality(CallsBy("member")) <= Cap
                      /\ ~ctx.quality => MembersAsked = picked
    BY DEF SelectionBounded
  <2>1. TypeInv /\ CallsInv /\ RouterInv
    BY DEF RunInv
  <2>2. Cap \in Nat /\ Cap >= 1
    BY <2>1, CapIs DEF TypeInv
  <2> DEFINE M == CallsBy("member")
             f == [i \in M |-> calls[i].agent]
  <2>3. f \in Injection(M, MembersAsked)
    BY <2>1 DEF CallsInv, MembersAsked, Injection, IsInjective
  <2>4. MembersAsked \subseteq Agents /\ IsFiniteSet(MembersAsked)
    <3>1. \A i \in DOMAIN calls : calls[i].agent \in Agents
      <4>1. \A i \in DOMAIN calls : calls[i] \in CallRecord
        BY <2>1 DEF TypeInv
      <4>2. QED
        BY <4>1 DEF CallRecord
    <3>2. MembersAsked \subseteq Agents
      BY <3>1 DEF MembersAsked, CallsBy
    <3>3. QED
      BY <3>2, Deployment, FS_Subset
  <2> HIDE DEF f
  <2>5. IsFiniteSet(M) /\ Cardinality(M) <= Cardinality(MembersAsked)
    BY <2>3, <2>4, FS_Injection
  <2>6. Cardinality(MembersAsked) <= Cap
    <3>1. CASE ctx.quality
      <4>1. MembersAsked \in SUBSET {ctx.target} /\ Cardinality({ctx.target}) = 1
            /\ IsFiniteSet({ctx.target})
        BY <2>1, <3>1, FS_Singleton DEF RouterInv
      <4>2. Cardinality(MembersAsked) <= 1 /\ Cardinality(MembersAsked) \in Nat
        BY <2>4, <4>1, FS_Subset, FS_CardinalityType
      <4>3. QED
        BY <2>2, <4>2
    <3>2. CASE ~ctx.quality
      BY <2>1, <3>2 DEF RouterInv
    <3>3. QED
      BY <3>1, <3>2
  <2>7. Cardinality(M) \in Nat /\ Cardinality(MembersAsked) \in Nat
    BY <2>4, <2>5, FS_CardinalityType
  <2>8. QED
    BY <2>1, <2>2, <2>5, <2>6, <2>7 DEF RouterInv
<1>2. QED
  BY <1>1, RunInvariant, PTL

-----------------------------------------------------------------------------
(* The promise of a run                                                     *)

\* The state of SwarmRun that a state of a dispatch stands for.
Waiting == {calls[i].agent : i \in CallsBy("member") \cap InState("running")}
Closed == pc \in ClosedStates
Reducing == CallsBy("reducer") \cap InState("running") # {}
Phase ==
    CASE Closed -> "closed"
      [] ~Closed /\ CallsBy("reducer") = {} -> "open"
      [] ~Closed /\ CallsBy("reducer") # {} /\ Reducing -> "reducing"
      [] OTHER -> "reduced"

LEMMA PhaseIs ==
    /\ Closed => Phase = "closed"
    /\ ~Closed /\ CallsBy("reducer") = {} => Phase = "open"
    /\ ~Closed /\ CallsBy("reducer") # {} /\ Reducing => Phase = "reducing"
    /\ ~Closed /\ CallsBy("reducer") # {} /\ ~Reducing => Phase = "reduced"
BY DEF Phase

Asks(S) ==
    /\ Phase = "open" /\ S # {} /\ S \cap MembersAsked = {} /\ S \subseteq Agents
    /\ MembersAsked' = MembersAsked \cup S /\ Waiting' = Waiting \cup S /\ Phase' = Phase

Finishes(a) ==
    /\ a \in Waiting /\ a \in Agents
    /\ Waiting' = Waiting \ {a} /\ MembersAsked' = MembersAsked /\ Phase' = Phase

Passes(from, to) ==
    /\ Phase \in from /\ Phase' = to
    /\ MembersAsked' = MembersAsked /\ Waiting' = Waiting

PromiseStep ==
    \/ \E S : Asks(S)
    \/ \E a : Finishes(a)
    \/ Passes({"open"}, "reducing") /\ MembersAsked # {} /\ Waiting = {}
    \/ Passes({"reducing"}, "reduced")
    \/ Passes({"open", "reduced"}, "closed") /\ Waiting = {}
    \/ MembersAsked' = MembersAsked /\ Waiting' = Waiting /\ Phase' = Phase

LEMMA PromiseIs ==
    ASSUME PromiseStep
    PROVE  [Abstract!Next]_(Abstract!vars)
<1> DEFINE aPhase == CASE pc \in ClosedStates -> "closed"
                       [] pc \notin ClosedStates /\ CallsBy("reducer") = {} -> "open"
                       [] pc \notin ClosedStates /\ CallsBy("reducer") \cap InState("running") # {} ->
                            "reducing"
                       [] OTHER -> "reduced"
<1>1. aPhase = Phase /\ aPhase' = Phase'
  BY DEF Phase, Closed, Reducing
<1> HIDE DEF aPhase
<1>2. CASE \E S : Asks(S)
  <2>1. PICK S : Asks(S)
    BY <1>2
  <2>2. Abstract!Ask(S)
    BY <2>1, <1>1 DEF Asks, Abstract!Ask, aPhase, Waiting
  <2>3. S \in SUBSET ToSet(Deployed)
    BY <2>1 DEF Asks, Agents
  <2>4. QED
    BY <2>2, <2>3 DEF Abstract!Next
<1>3. CASE \E a : Finishes(a)
  <2>1. PICK a : Finishes(a)
    BY <1>3
  <2>2. Abstract!Finish(a)
    BY <2>1, <1>1 DEF Finishes, Abstract!Finish, aPhase, Waiting
  <2>3. a \in ToSet(Deployed)
    BY <2>1 DEF Finishes, Agents
  <2>4. QED
    BY <2>2, <2>3 DEF Abstract!Next
<1>4. CASE Passes({"open"}, "reducing") /\ MembersAsked # {} /\ Waiting = {}
  <2>1. Abstract!Reduce
    BY <1>1, <1>4 DEF Passes, Abstract!Reduce, aPhase, Waiting
  <2>2. QED
    BY <2>1 DEF Abstract!Next
<1>5. CASE Passes({"reducing"}, "reduced")
  <2>1. Abstract!Reduced
    BY <1>1, <1>5 DEF Passes, Abstract!Reduced, aPhase, Waiting
  <2>2. QED
    BY <2>1 DEF Abstract!Next
<1>6. CASE Passes({"open", "reduced"}, "closed") /\ Waiting = {}
  <2>1. Abstract!Close
    BY <1>1, <1>6 DEF Passes, Abstract!Close, aPhase, Waiting
  <2>2. QED
    BY <2>1 DEF Abstract!Next
<1>7. CASE MembersAsked' = MembersAsked /\ Waiting' = Waiting /\ Phase' = Phase
  BY <1>1, <1>7 DEF Abstract!vars, aPhase, Waiting
<1>8. QED
  BY <1>2, <1>3, <1>4, <1>5, <1>6, <1>7 DEF PromiseStep

\* The calls stay, and so does the phase.
LEMMA RunWaits ==
    ASSUME UNCHANGED calls, CallsBy("reducer") = {}, ~Closed, ~Closed'
    PROVE  PromiseStep
<1>1. Waiting' = Waiting /\ MembersAsked' = MembersAsked /\ CallsBy("reducer")' = CallsBy("reducer")
  BY DEF Waiting, MembersAsked, CallsBy, InState
<1>2. Phase = "open" /\ Phase' = "open"
  BY <1>1 DEF Phase
<1>3. QED
  BY <1>1, <1>2 DEF PromiseStep

LEMMA RunCloses ==
    ASSUME UNCHANGED calls, AllEnded, ~Closed, Closed'
    PROVE  PromiseStep
<1>1. Waiting' = Waiting /\ MembersAsked' = MembersAsked
  BY DEF Waiting, MembersAsked, CallsBy, InState
<1>2. Waiting = {} /\ ~Reducing
  BY DEF Waiting, Reducing, AllEnded
<1>3. Phase \in {"open", "reduced"} /\ Phase' = "closed"
  BY <1>2 DEF Phase
<1>4. QED
  BY <1>1, <1>2, <1>3 DEF PromiseStep, Passes

\* Members are called while others still run or the classifier's call ends.
LEMMA RunAsks ==
    ASSUME calls \in Seq(CallRecord), NEW b \in Seq(CallRecord), Len(b) = Len(calls),
           \A i \in DOMAIN calls : b[i].agent = calls[i].agent /\ b[i].role = calls[i].role,
           \A i \in CallsBy("member") : b[i] = calls[i],
           NEW names \in Seq(Names), ToSet(names) \subseteq Agents,
           ToSet(names) \cap MembersAsked = {},
           calls' = b \o Calls(names), CallsBy("reducer") = {}, ~Closed, ~Closed'
    PROVE  PromiseStep
<1>1. /\ calls' \in Seq(CallRecord) /\ Len(calls') = Len(calls) + Len(names)
      /\ \A i \in DOMAIN calls : i \in DOMAIN calls' /\ calls'[i] = b[i]
      /\ \A i \in DOMAIN calls' \ DOMAIN calls :
           /\ i - Len(calls) \in DOMAIN names
           /\ calls'[i] = Call(names[i - Len(calls)], "member", {})
      /\ CallsBy("reducer")' = CallsBy("reducer")
      /\ CallsBy("member")' = CallsBy("member") \cup (DOMAIN calls' \ DOMAIN calls)
      /\ MembersAsked' = MembersAsked \cup ToSet(names)
  BY MoreCalls
<1>2. Phase = "open" /\ Phase' = Phase
  BY <1>1 DEF Phase
<1>3. ASSUME NEW i \in DOMAIN calls' \ DOMAIN calls
      PROVE  /\ calls'[i].agent = names[i - Len(calls)] /\ calls'[i].state = "running"
             /\ i - Len(calls) \in DOMAIN names
  <2>1. /\ i - Len(calls) \in DOMAIN names
        /\ calls'[i] = Call(names[i - Len(calls)], "member", {})
    BY <1>1
  <2>2. QED
    BY <2>1 DEF Call
<1>4. \A i \in CallsBy("member") : calls'[i] = calls[i] /\ i \in DOMAIN calls /\ i \in DOMAIN calls'
  BY <1>1 DEF CallsBy
<1>5. \A i : i \in CallsBy("member")' \cap InState("running")'
           <=> i \in CallsBy("member") \cap InState("running") \/ i \in DOMAIN calls' \ DOMAIN calls
  BY <1>1, <1>3, <1>4 DEF InState
<1>6. Waiting' = Waiting \cup ToSet(names)
  <2>1. ASSUME NEW i \in CallsBy("member")' \cap InState("running")'
        PROVE  calls'[i].agent \in Waiting \cup ToSet(names)
    <3>1. CASE i \in CallsBy("member") \cap InState("running")
      BY <1>4, <3>1 DEF Waiting
    <3>2. CASE i \in DOMAIN calls' \ DOMAIN calls
      BY <1>3, <3>2 DEF ToSet
    <3>3. QED
      BY <1>5, <3>1, <3>2
  <2>2. ASSUME NEW i \in CallsBy("member") \cap InState("running")
        PROVE  calls[i].agent \in Waiting'
    <3>1. i \in CallsBy("member")' \cap InState("running")' /\ calls'[i].agent = calls[i].agent
      BY <1>4, <1>5
    <3>2. QED
      BY <3>1 DEF Waiting
  <2>3. ASSUME NEW k \in DOMAIN names PROVE names[k] \in Waiting'
    <3>1. Len(names) \in Nat /\ DOMAIN names = 1 .. Len(names) /\ Len(calls) \in Nat
          /\ DOMAIN calls = 1 .. Len(calls) /\ DOMAIN calls' = 1 .. Len(calls')
      BY <1>1
    <3>2. /\ k + Len(calls) \in DOMAIN calls' \ DOMAIN calls
          /\ k + Len(calls) - Len(calls) = k
      BY <1>1, <3>1
    <3>3. calls'[k + Len(calls)].agent = names[k]
      BY <1>3, <3>2
    <3>4. k + Len(calls) \in CallsBy("member")' \cap InState("running")'
      BY <1>5, <3>2
    <3>5. QED
      BY <3>3, <3>4 DEF Waiting
  <2>4. Waiting' \subseteq Waiting \cup ToSet(names)
    <3> DEFINE W == Waiting \cup ToSet(names)
    <3>1. \A i \in CallsBy("member")' \cap InState("running")' : calls'[i].agent \in W
      BY <2>1
    <3> HIDE DEF W
    <3>2. Waiting' \subseteq W
      BY <3>1 DEF Waiting
    <3>3. QED
      BY <3>2 DEF W
  <2>5. Waiting \subseteq Waiting'
    <3> DEFINE W == Waiting'
    <3>1. \A i \in CallsBy("member") \cap InState("running") : calls[i].agent \in W
      BY <2>2
    <3> HIDE DEF W
    <3>2. Waiting \subseteq W
      BY <3>1 DEF Waiting
    <3>3. QED
      BY <3>2 DEF W
  <2>6. ToSet(names) \subseteq Waiting'
    BY <2>3 DEF ToSet
  <2>7. QED
    BY <2>4, <2>5, <2>6
<1>7. CASE ToSet(names) = {}
  BY <1>1, <1>2, <1>6, <1>7 DEF PromiseStep
<1>8. CASE ToSet(names) # {}
  <2>1. Asks(ToSet(names))
    BY <1>1, <1>2, <1>6, <1>8 DEF Asks
  <2>2. QED
    BY <2>1 DEF PromiseStep
<1>9. QED
  BY <1>7, <1>8

\* The first calls of a run.
LEMMA RunAsksFirst ==
    ASSUME calls = <<>>, NEW names \in Seq(Names), ToSet(names) \subseteq Agents,
           calls' = Calls(names), ~Closed, ~Closed'
    PROVE  PromiseStep
<1> DEFINE b == <<>>
           new == Calls(names)
<1>1. calls \in Seq(CallRecord) /\ b \in Seq(CallRecord) /\ Len(b) = Len(calls) /\ DOMAIN calls = {}
  OBVIOUS
<1>2. CallsBy("member") = {} /\ CallsBy("reducer") = {} /\ MembersAsked = {}
  BY <1>1 DEF CallsBy, MembersAsked
<1>3. calls' = b \o new
  <2>1. new \in Seq({new[i] : i \in DOMAIN new})
    <3>1. DOMAIN new = 1 .. Len(names) /\ Len(names) \in Nat
      BY DEF Calls
    <3>2. new = [i \in 1 .. Len(names) |-> new[i]]
      BY <3>1 DEF Calls
    <3> HIDE DEF new
    <3>3. QED
      BY <3>1, <3>2
  <2> HIDE DEF new
  <2>2. <<>> \o new = new
    BY <2>1
  <2>3. QED
    BY <2>2 DEF new
<1> HIDE DEF b
<1>4. QED
  BY <1>1, <1>2, <1>3, RunAsks

LEMMA RunReduces ==
    ASSUME calls \in Seq(CallRecord), NEW q, q \subseteq DOMAIN calls, AllEnded, ~Closed,
           ctx.cfg.synthesizer \in Agents, Reduce(q),
           CallsBy("reducer") = {}, CallsBy("member") # {}
    PROVE  PromiseStep
<1> DEFINE a == ctx.cfg.synthesizer
           n == Len(calls')
<1>1. calls' = Append(calls, Call(a, "reducer", q)) /\ pc' = "reduce" /\ "reducer" \in Roles
  BY DEF Reduce, Roles
<1>2. /\ calls' \in Seq(CallRecord)
      /\ CallsBy("reducer")' = CallsBy("reducer") \cup {n}
      /\ \A other : other # "reducer" => CallsBy(other)' = CallsBy(other)
      /\ MembersAsked' = MembersAsked
      /\ InState("running")' = InState("running") \cup {n}
  BY <1>1, OneMoreCall
<1>3. Waiting = {} /\ MembersAsked # {} /\ Phase = "open"
  BY DEF Waiting, MembersAsked, AllEnded, Phase
<1>4. n \in CallsBy("reducer")' /\ InState("running")' = {n} /\ CallsBy("member")' = CallsBy("member")
  BY <1>2 DEF AllEnded
<1>5. n \notin CallsBy("member")'
  BY <1>4 DEF CallsBy
<1>6. Waiting' = {}
  BY <1>4, <1>5 DEF Waiting
<1>7. ~Closed' /\ CallsBy("reducer")' # {} /\ Reducing'
  BY <1>1, <1>4 DEF Closed, ClosedStates, Reducing
<1>8. Phase' = "reducing"
  BY <1>7 DEF Phase
<1>9. QED
  BY <1>2, <1>3, <1>6, <1>8 DEF PromiseStep, Passes

LEMMA CallPromise ==
    ASSUME RunInv, CallEnds
    PROVE  PromiseStep
<1>1. TypeInv /\ StartInv /\ CallsInv /\ ModeInv
  BY DEF RunInv
<1>2. PICK i \in InState("running") \ CallsBy("classifier"), s \in {"ok", "error", "threw"} :
          calls' = [calls EXCEPT ![i].state = s]
  BY DEF CallEnds, EndCall
<1>3. /\ pc' = pc /\ calls \in Seq(CallRecord) /\ i \in DOMAIN calls
      /\ s \in CallStates \ {"running"} /\ calls[i] \in CallRecord
  BY <1>1, <1>2 DEF CallEnds, EndCall, TypeInv, InState, CallStates
<1>4. /\ calls' \in Seq(CallRecord) /\ Len(calls') = Len(calls)
      /\ \A j \in DOMAIN calls : /\ calls'[j].agent = calls[j].agent
                                 /\ calls'[j].role = calls[j].role
      /\ InState("running")' = InState("running") \ {i}
  BY <1>2, <1>3, CallEnded
<1>5. /\ \A role : CallsBy(role)' = CallsBy(role)
      /\ MembersAsked' = MembersAsked
  BY <1>3, <1>4, SameCalls
<1>6. ~Closed /\ ~Closed'
  <2>1. ~Closed
    BY <1>1, <1>2 DEF CallsInv, AllEnded, Closed
  <2>2. QED
    BY <1>3, <2>1 DEF Closed
<1>7. i \in CallsBy("member") \/ i \in CallsBy("reducer")
  BY <1>2, <1>3 DEF CallsBy, CallRecord, Roles
<1>8. Waiting' = {calls[j].agent : j \in (CallsBy("member") \cap InState("running")) \ {i}}
  <2>1. CallsBy("member")' \cap InState("running")' = (CallsBy("member") \cap InState("running")) \ {i}
    BY <1>4, <1>5
  <2>2. \A j \in CallsBy("member") : calls'[j].agent = calls[j].agent
    BY <1>4 DEF CallsBy
  <2>3. QED
    BY <2>1, <2>2 DEF Waiting
<1>9. CASE i \in CallsBy("reducer")
  <2>1. i \notin CallsBy("member")
    BY <1>9 DEF CallsBy
  <2>2. Waiting' = Waiting
    BY <1>8, <2>1 DEF Waiting
  <2>3. Reducing /\ CallsBy("reducer") # {}
    BY <1>2, <1>9 DEF Reducing
  <2>4. ~Reducing'
    BY <1>1, <1>2, <1>4, <1>5, <1>9 DEF Reducing, CallsInv
  <2>5. Phase = "reducing" /\ Phase' = "reduced"
    BY <1>5, <1>6, <2>3, <2>4 DEF Phase
  <2>6. QED
    BY <1>5, <2>2, <2>5 DEF PromiseStep, Passes
<1>10. CASE i \in CallsBy("member") /\ i \notin CallsBy("reducer")
  <2> DEFINE a == calls[i].agent
  <2>1. a \in Waiting /\ a \in Agents
    BY <1>2, <1>3, <1>10 DEF Waiting, CallRecord
  <2>2. \A j \in CallsBy("member") : calls[j].agent = a => j = i
    BY <1>1, <1>10 DEF CallsInv
  <2>3. Waiting' = Waiting \ {a}
    BY <1>8, <2>2 DEF Waiting
  <2>4. Phase' = Phase
    <3>1. Reducing' <=> Reducing
      BY <1>4, <1>5, <1>10 DEF Reducing
    <3>2. QED
      BY <1>5, <1>6, <3>1 DEF Phase
  <2>5. Finishes(a)
    BY <1>5, <2>1, <2>3, <2>4 DEF Finishes
  <2>6. QED
    BY <2>5 DEF PromiseStep
<1>11. QED
  BY <1>7, <1>9, <1>10

\* No reducer works but in a reduction.
LEMMA NoReducer ==
    ASSUME RunInv, pc \notin {"reduce", "done", "failed"}
    PROVE  CallsBy("reducer") = {}
<1>1. \A i \in CallsBy("reducer") : pc \in {"reduce", "done", "failed"}
  BY DEF RunInv, CallsInv
<1>2. QED
  BY <1>1

LEMMA PreludePromise ==
    ASSUME RunInv, SnapshotConfig \/ SnapshotRoster \/ Supervise
    PROVE  PromiseStep
<1>1. /\ pc \in {"mode", "roster", "supervise"} /\ UNCHANGED calls
      /\ pc' \in {"roster", "rejected", "supervise", "start"}
  BY DEF SnapshotConfig, SnapshotRoster, Supervise
<1>2. calls = <<>> /\ CallsBy("reducer") = {} /\ ~Closed
  BY <1>1, NoReducer DEF RunInv, StartInv, Before, Closed, ClosedStates
<1>3. AllEnded
  BY <1>2 DEF AllEnded, InState
<1>4. CASE Closed'
  BY <1>1, <1>2, <1>3, <1>4, RunCloses
<1>5. CASE ~Closed'
  BY <1>1, <1>2, <1>5, RunWaits
<1>6. QED
  BY <1>4, <1>5

LEMMA BroadcastPromise ==
    ASSUME RunInv, BroadcastNext
    PROVE  PromiseStep
<1>1. TypeInv /\ StartInv
  BY DEF RunInv
<1>2. CASE FlatStart
  <2>1. /\ calls = <<>> /\ ~Closed /\ ~Closed' /\ calls' = Calls(FlatMembers)
    BY <1>1, <1>2 DEF FlatStart, StartInv, Before, Closed, ClosedStates
  <2>2. FlatMembers \in Seq(Names) /\ ToSet(FlatMembers) \subseteq Agents
    BY <1>1, FlatMembersAre DEF TypeInv
  <2>3. QED
    BY <2>1, <2>2, RunAsksFirst
<1>3. CASE CascadeStart
  <2>1. /\ calls = <<>> /\ ~Closed /\ ~Closed' /\ calls' = Calls(CascadeMembers)
    BY <1>1, <1>3 DEF CascadeStart, StartInv, Before, Closed, ClosedStates
  <2>2. CascadeMembers \in Seq(Names) /\ ToSet(CascadeMembers) \subseteq Agents
    BY <1>1, CascadeMembersAre DEF TypeInv
  <2>3. QED
    BY <2>1, <2>2, RunAsksFirst
<1>4. CASE FlatCollect
  <2>1. AllEnded /\ UNCHANGED calls /\ ~Closed /\ Closed'
    BY <1>4 DEF FlatCollect, Unwind, Return, Closed, ClosedStates
  <2>2. QED
    BY <2>1, RunCloses
<1>5. CASE CascadeCollect
  <2>1. pc = "collect" /\ AllEnded /\ ~Closed /\ CallsBy("reducer") = {}
    BY <1>5, NoReducer DEF CascadeCollect, Closed, ClosedStates
  <2>2. CASE UNCHANGED calls /\ (Unwind \/ Return(0))
    <3>1. Closed'
      BY <2>2 DEF Unwind, Return, Closed, ClosedStates
    <3>2. QED
      BY <2>1, <2>2, <3>1, RunCloses
  <2>3. CASE /\ ctx.cfg.synthesizer \in ToSet(ctx.agents) /\ Healthy # {}
             /\ Reduce(Healthy)
    <3>1. /\ CallsBy("member") # {} /\ Healthy \subseteq DOMAIN calls
          /\ ctx.cfg.synthesizer \in Agents /\ calls \in Seq(CallRecord)
      BY <1>1, <2>3 DEF Healthy, CallsBy, TypeInv
    <3>2. QED
      BY <2>1, <2>3, <3>1, RunReduces
  <2>4. QED
    BY <1>5, <2>2, <2>3 DEF CascadeCollect
<1>6. QED
  BY <1>2, <1>3, <1>4, <1>5 DEF BroadcastNext

LEMMA StagePromise ==
    ASSUME RunInv, Stage
    PROVE  PromiseStep
<1> DEFINE a == Head(chain)
           q == IF prev = 0 THEN {} ELSE {prev}
           n == Len(calls')
<1>1. TypeInv /\ PipelineInv
  BY DEF RunInv
<1>2. /\ pc = "stage" /\ chain # <<>> /\ chain \in Seq(Names) /\ ToSet(chain) \subseteq Agents
      /\ ~Closed /\ CallsBy("reducer") = {} /\ calls \in Seq(CallRecord)
      /\ MembersAsked \cap ToSet(chain) = {}
  BY <1>1, NoReducer DEF Stage, TypeInv, PipelineInv, Closed, ClosedStates
<1>3. CASE UNCHANGED <<pc, calls>>
  <2>1. ~Closed'
    BY <1>2, <1>3 DEF Closed
  <2>2. QED
    BY <1>2, <1>3, <2>1, RunWaits
<1>4. CASE calls' = Append(calls, Call(a, "member", q)) /\ pc' = "stage_call"
  <2>1. a \in Agents /\ a \notin MembersAsked /\ q \subseteq DOMAIN calls /\ "member" \in Roles
    <3>1. a \in ToSet(chain)
      BY <1>2, HeadTailIs
    <3>2. q \subseteq DOMAIN calls
      BY <1>1 DEF TypeInv
    <3>3. QED
      BY <1>2, <3>1, <3>2 DEF Roles
  <2> HIDE DEF a, q
  <2>2. /\ calls' \in Seq(CallRecord)
        /\ \A i \in DOMAIN calls : i \in DOMAIN calls' /\ calls'[i] = calls[i]
        /\ calls'[n] = Call(a, "member", q)
        /\ CallsBy("member")' = CallsBy("member") \cup {n}
        /\ \A other : other # "member" => CallsBy(other)' = CallsBy(other)
        /\ MembersAsked' = MembersAsked \cup {a}
        /\ InState("running")' = InState("running") \cup {n}
    BY <1>2, <1>4, <2>1, OneMoreCall
  <2>3. calls'[n].agent = a /\ n = Len(calls) + 1
    BY <1>2, <1>4, <2>2 DEF Call
  <2>4. n \notin CallsBy("member")
    BY <1>2, <2>3 DEF CallsBy
  <2> HIDE DEF n
  <2>5. CallsBy("member")' \cap InState("running")' = (CallsBy("member") \cap InState("running")) \cup {n}
    BY <2>2, <2>4
  <2>6. \A i \in CallsBy("member") : calls'[i] = calls[i]
    BY <2>2 DEF CallsBy
  <2>7. Waiting' = Waiting \cup {a}
    BY <2>3, <2>5, <2>6 DEF Waiting
  <2>8. Phase = "open" /\ Phase' = "open"
    BY <1>2, <1>4, <2>2 DEF Phase, Closed, ClosedStates
  <2>9. Asks({a})
    BY <2>1, <2>2, <2>7, <2>8 DEF Asks
  <2>10. QED
    BY <2>9 DEF PromiseStep
<1>5. QED
  BY <1>3, <1>4 DEF Stage

LEMMA PipelinePromise ==
    ASSUME RunInv, PipelineNext
    PROVE  PromiseStep
<1>1. TypeInv /\ StartInv /\ CallsInv /\ PipelineInv
  BY DEF RunInv
<1>2. CASE PipelineStart
  <2>1. UNCHANGED calls /\ CallsBy("reducer") = {} /\ ~Closed /\ ~Closed'
    BY <1>2, NoReducer DEF PipelineStart, Closed, ClosedStates
  <2>2. QED
    BY <2>1, RunWaits
<1>3. CASE StageEnd \/ FallbackEnd
  <2>1. /\ UNCHANGED calls /\ AllEnded /\ CallsBy("reducer") = {} /\ ~Closed
    BY <1>3, NoReducer DEF StageEnd, FallbackEnd, Closed, ClosedStates
  <2>2. CASE Closed'
    BY <2>1, <2>2, RunCloses
  <2>3. CASE ~Closed'
    BY <2>1, <2>3, RunWaits
  <2>4. QED
    BY <2>2, <2>3
<1>4. CASE Fallback
  <2>1. calls = <<>> /\ ~Closed
    BY <1>4 DEF Fallback, Closed, ClosedStates
  <2>2. AllEnded
    BY <2>1 DEF AllEnded, InState
  <2>3. CASE Return(0) /\ UNCHANGED calls
    <3>1. Closed'
      BY <2>3 DEF Return, Closed, ClosedStates
    <3>2. QED
      BY <2>1, <2>2, <2>3, <3>1, RunCloses
  <2>4. CASE /\ ctx.agents # <<>> /\ calls' = Calls(<<Head(ctx.agents)>>)
             /\ pc' = "fallback"
    <3> DEFINE a == Head(ctx.agents)
               one == <<a>>
    <3>1. ctx.agents \in Seq(Names)
      BY <1>1, ContextTypes DEF TypeInv
    <3>2. a \in Agents /\ a \in Names
      BY <1>1, <2>4, <3>1, HeadTailIs, Deployment DEF TypeInv
    <3> HIDE DEF a
    <3>3. one \in Seq(Names) /\ ToSet(one) \subseteq Agents
      BY <3>2 DEF ToSet
    <3>4. calls' = Calls(one)
      BY <2>4 DEF a
    <3> HIDE DEF one
    <3>5. ~Closed'
      BY <2>4 DEF Closed, ClosedStates
    <3>6. QED
      BY <2>1, <3>3, <3>4, <3>5, RunAsksFirst
  <2>5. QED
    BY <1>4, <2>3, <2>4 DEF Fallback
<1>5. CASE ChainEnd
  <2>1. /\ AllEnded /\ CallsBy("reducer") = {} /\ ~Closed /\ calls \in Seq(CallRecord)
    BY <1>1, <1>5, NoReducer DEF ChainEnd, Closed, ClosedStates, CallsInv, TypeInv
  <2>2. CASE ctx.cfg.synthesizer \in ToSet(ctx.agents) /\ Reduce(CallsBy("member"))
    <3>1. ctx.cfg.synthesizer \in Agents /\ CallsBy("member") \subseteq DOMAIN calls
      BY <1>1, <2>2 DEF TypeInv, CallsBy
    <3>2. CallsBy("member") # {}
      <4>1. calls # <<>> /\ ctx.mode = "pipeline"
        BY <1>1, <1>5 DEF ChainEnd, PipelineInv, RunInv, ModeInv
      <4>2. 1 \in DOMAIN calls /\ calls[1] \in CallRecord
        BY <2>1, <4>1
      <4>3. CallsBy("classifier") = {}
        BY <4>1 DEF RunInv, ModeInv
      <4>4. QED
        BY <2>1, <4>2, <4>3 DEF CallsBy, CallRecord, Roles
    <3>3. QED
      BY <2>1, <2>2, <3>1, <3>2, RunReduces
  <2>3. CASE Return(final) /\ UNCHANGED calls
    <3>1. Closed'
      BY <2>3 DEF Return, Closed, ClosedStates
    <3>2. QED
      BY <2>1, <2>3, <3>1, RunCloses
  <2>4. QED
    BY <1>5, <2>2, <2>3 DEF ChainEnd
<1>6. QED
  BY <1>2, <1>3, <1>4, <1>5, StagePromise DEF PipelineNext

LEMMA LaunchPromise ==
    ASSUME RunInv, pc = "stream",
           NEW b \in Seq(CallRecord), Len(b) = Len(calls),
           \A i \in DOMAIN calls : b[i].agent = calls[i].agent /\ b[i].role = calls[i].role,
           \A i \in CallsBy("member") : b[i] = calls[i],
           NEW S \in SUBSET Agents, S \cap picked = {}, calls' = b \o Calls(SetToSeq(S)), ~Closed'
    PROVE  PromiseStep
<1> DEFINE names == SetToSeq(S)
<1>1. /\ calls \in Seq(CallRecord) /\ MembersAsked = picked /\ CallsBy("reducer") = {} /\ ~Closed
  BY NoReducer DEF RunInv, TypeInv, RouterInv, ModeInv, Closed, ClosedStates
<1>2. names \in Seq(Names) /\ ToSet(names) = S
  <2>1. IsFiniteSet(S) /\ S \subseteq Names
    BY Deployment, FS_Subset
  <2>2. SetToSeq(S) \in Seq(S) /\ ToSet(SetToSeq(S)) = S
    BY <2>1, SetToSeqIs
  <2> HIDE DEF names
  <2>3. names \in Seq(S) /\ ToSet(names) = S
    BY <2>2 DEF names
  <2>4. QED
    BY <2>1, <2>3
<1>3. calls' = b \o Calls(names)
  OBVIOUS
<1> HIDE DEF names
<1>4. ToSet(names) \subseteq Agents /\ ToSet(names) \cap MembersAsked = {}
  BY <1>1, <1>2
<1>5. QED
  BY <1>1, <1>2, <1>3, <1>4, RunAsks

LEMMA RouterPromise ==
    ASSUME RunInv, RouterNext
    PROVE  PromiseStep
<1>1. TypeInv /\ StartInv /\ AgentsInv /\ CallsInv /\ RouterInv /\ ModeInv
  BY DEF RunInv
<1>2. CASE RouterStart
  <2>1. pc = "start" /\ ctx.mode = "router" /\ calls = <<>> /\ ~Closed
    BY <1>1, <1>2 DEF RouterStart, StartInv, Before, Closed, ClosedStates
  <2>2. PICK up \in SUBSET Reachable :
          LET names == Only[ctx.agents][up]
          IN  \/ Return(0) /\ UNCHANGED calls
              \/ /\ ctx.target \in up /\ calls' = Calls(<<ctx.target>>)
                 /\ pc' = "collect"
              \/ /\ calls' = <<Call(Classifier(ctx.cfg, names), "classifier", {})>>
                 /\ pc' = "stream"
    BY <1>2 DEF RouterStart
  <2>3. CASE Return(0) /\ UNCHANGED calls
    <3>1. Closed' /\ AllEnded
      BY <2>1, <2>3 DEF Return, Closed, ClosedStates, AllEnded, InState
    <3>2. QED
      BY <2>1, <2>3, <3>1, RunCloses
  <2>4. CASE ctx.target \in up /\ calls' = Calls(<<ctx.target>>) /\ pc' = "collect"
    <3> DEFINE one == <<ctx.target>>
    <3>1. ctx.target \in Agents /\ ctx.target \in Names
      BY <1>1, <2>4, AgentsTaking
    <3>2. one \in Seq(Names) /\ ToSet(one) \subseteq Agents
      BY <3>1 DEF ToSet
    <3>3. calls' = Calls(one)
      BY <2>4
    <3> HIDE DEF one
    <3>4. ~Closed'
      BY <2>4 DEF Closed, ClosedStates
    <3>5. QED
      BY <2>1, <3>2, <3>3, <3>4, RunAsksFirst
  <2>5. ASSUME NEW a, calls' = <<Call(a, "classifier", {})>>, pc' = "stream" PROVE PromiseStep
    <3>1. DOMAIN calls' = {1} /\ calls'[1].role = "classifier"
      BY <2>5 DEF Call
    <3>2. CallsBy("member")' = {} /\ CallsBy("reducer")' = {}
      BY <3>1 DEF CallsBy
    <3>3. CallsBy("member") = {} /\ CallsBy("reducer") = {}
      BY <2>1 DEF CallsBy
    <3>4. MembersAsked' = {} /\ MembersAsked = {} /\ Waiting' = {} /\ Waiting = {}
      BY <3>2, <3>3 DEF MembersAsked, Waiting
    <3>5. Phase = "open" /\ Phase' = "open"
      BY <2>1, <2>5, <3>2, <3>3 DEF Phase, Closed, ClosedStates
    <3>6. QED
      BY <3>4, <3>5 DEF PromiseStep
  <2>6. QED
    BY <2>2, <2>3, <2>4, <2>5
<1>3. CASE StreamChunk
  <2>1. /\ pc = "stream" /\ pc' = "stream" /\ ~Closed /\ ~Closed' /\ ctx \in Context
        /\ calls \in Seq(CallRecord) /\ CallsBy("reducer") = {}
    BY <1>1, <1>3, NoReducer DEF StreamChunk, Closed, ClosedStates, TypeInv
  <2>2. CASE UNCHANGED calls
    BY <2>1, <2>2, RunWaits
  <2>3. CASE /\ launched = "no" /\ picked' \in Few(NamesIn(raw'))
             /\ calls' = calls \o Calls(SetToSeq(picked'))
    <3>1. NamesIn(raw') \subseteq Agents /\ IsFiniteSet(NamesIn(raw'))
      BY <1>1, ChoicesAre
    <3>2. picked' \in SUBSET Agents /\ picked' \cap picked = {}
      BY <1>1, <2>1, <2>3, <3>1, FewAre DEF RouterInv
    <3>3. QED
      BY <2>1, <2>3, <3>2, LaunchPromise
  <2>4. QED
    BY <1>3, <2>2, <2>3 DEF StreamChunk
<1>4. \A i \in CallsBy("member") : i \in DOMAIN calls
  BY DEF CallsBy
<1>5. pc = "stream" => \A i \in CallsBy("member") : i # 1
  BY <1>1 DEF RouterInv, CallsBy
<1>6. CASE StreamEnd
  <2>1. /\ pc = "stream" /\ pc' = "collect" /\ ~Closed' /\ ctx \in Context
        /\ calls \in Seq(CallRecord) /\ picked \subseteq Agents
    BY <1>1, <1>6 DEF StreamEnd, Closed, ClosedStates, TypeInv
  <2>2. PICK s \in {"ok", "error"},
             sel \in (IF launched = "no" THEN Few(NamesIn(raw)) ELSE {picked}) :
            /\ picked' \in IF sel = {} THEN FallbackChoices ELSE {sel}
            /\ calls' = [calls EXCEPT ![1].state = s] \o Calls(SetToSeq(picked' \ picked))
    BY <1>6 DEF StreamEnd
  <2>3. picked' \subseteq Agents
    <3>1. \A X \in FallbackChoices : X \subseteq Agents
      BY <1>1, FallbacksAre, AgentsTaking
    <3>2. NamesIn(raw) \subseteq Agents /\ IsFiniteSet(NamesIn(raw))
      BY <1>1, ChoicesAre
    <3>3. sel \subseteq Agents
      BY <2>1, <2>2, <3>2, FewAre
    <3>4. QED
      BY <2>2, <3>1, <3>3
  <2> DEFINE b == [calls EXCEPT ![1].state = s]
             S == picked' \ picked
  <2>b. b = [calls EXCEPT ![1].state = s]
    OBVIOUS
  <2> HIDE DEF b
  <2>4. /\ b \in Seq(CallRecord) /\ Len(b) = Len(calls)
        /\ \A i \in DOMAIN calls : b[i].agent = calls[i].agent /\ b[i].role = calls[i].role
    <3> HIDE DEF S
    <3>1. s \in {"ok", "error", "threw"}
      OBVIOUS
    <3>2. QED
      BY <2>1, <2>b, <3>1, ClassifierEnded
  <2>5. \A i \in CallsBy("member") : b[i] = calls[i]
    BY <1>4, <1>5, <2>1, <2>b
  <2>6. calls' = b \o Calls(SetToSeq(S))
    BY <2>2, <2>b
  <2>7. S \in SUBSET Agents /\ S \cap picked = {}
    BY <2>3
  <2> HIDE DEF S
  <2>8. QED
    BY <2>1, <2>4, <2>5, <2>6, <2>7, LaunchPromise
<1>7. CASE StreamThrow
  <2>1. /\ pc = "stream" /\ pc' = "collect" /\ ~Closed'
        /\ calls' = [calls EXCEPT ![1].state = "threw"] /\ calls \in Seq(CallRecord)
    BY <1>1, <1>7 DEF StreamThrow, Closed, ClosedStates, TypeInv
  <2>2. /\ calls' \in Seq(CallRecord) /\ Len(calls') = Len(calls)
        /\ \A i \in DOMAIN calls : calls'[i].agent = calls[i].agent /\ calls'[i].role = calls[i].role
    BY <2>1, ClassifierEnded
  <2>3. \A i \in CallsBy("member") : calls'[i] = calls[i]
    BY <1>4, <1>5, <2>1
  <2>4. calls' = calls' \o Calls(SetToSeq({}))
    BY <2>2, NoneLaunched
  <2>5. {} \in SUBSET Agents /\ {} \cap picked = {}
    OBVIOUS
  <2>6. QED
    BY <2>1, <2>2, <2>3, <2>4, <2>5, LaunchPromise
<1>8. CASE RouterCollect
  <2>1. AllEnded /\ UNCHANGED calls /\ ~Closed /\ Closed'
    BY <1>8 DEF RouterCollect, Unwind, Return, Closed, ClosedStates
  <2>2. QED
    BY <2>1, RunCloses
<1>9. QED
  BY <1>2, <1>3, <1>6, <1>7, <1>8 DEF RouterNext

\* Whatever its mode, a run asks an agent once, reduces what is complete and
\* leaves no call behind its reply.
THEOREM PromiseKept == Spec => KeepsPromise
<1>1. Init => Abstract!Init
  <2> SUFFICES ASSUME Init PROVE Abstract!Init
    OBVIOUS
  <2>1. calls = <<>> /\ pc \notin ClosedStates
    BY DEF Init, ClosedStates
  <2>2. \A role : CallsBy(role) = {}
    BY <2>1 DEF CallsBy
  <2>3. QED
    BY <2>1, <2>2 DEF Abstract!Init, MembersAsked
<1>2. RunInv /\ [Next]_vars => [Abstract!Next]_(Abstract!vars)
  <2> SUFFICES ASSUME RunInv, [Next]_vars PROVE PromiseStep
    BY PromiseIs
  <2>1. CASE EndReduce
    <3>1. AllEnded /\ UNCHANGED calls /\ ~Closed /\ Closed'
      BY <2>1 DEF EndReduce, Unwind, Return, Closed, ClosedStates
    <3>2. QED
      BY <3>1, RunCloses
  <2>2. CASE UNCHANGED vars
    <3>1. pc' = pc /\ calls' = calls
      BY <2>2 DEF vars, callVars
    <3>2. MembersAsked' = MembersAsked /\ Waiting' = Waiting /\ Phase' = Phase
      BY <3>1 DEF MembersAsked, Waiting, Phase, Closed, Reducing, CallsBy, InState
    <3>3. QED
      BY <3>2 DEF PromiseStep
  <2>3. CASE SnapshotConfig \/ SnapshotRoster \/ Supervise
    BY <2>3, PreludePromise
  <2>4. CASE BroadcastNext
    BY <2>4, BroadcastPromise
  <2>5. CASE PipelineNext
    BY <2>5, PipelinePromise
  <2>6. CASE RouterNext
    BY <2>6, RouterPromise
  <2>7. CASE CallEnds
    BY <2>7, CallPromise
  <2>8. QED
    BY <2>1, <2>2, <2>3, <2>4, <2>5, <2>6, <2>7 DEF Next, Handler, RunMode
<1>3. QED
  BY <1>1, <1>2, RunInvariant, PTL DEF Spec, KeepsPromise, Abstract!Spec
=============================================================================
