------------------------------- MODULE Router -------------------------------
(* The mode in which a classifier agent picks who answers. The classifier's   *)
(* text arrives as a stream, and the picked agents are called as soon as its  *)
(* SELECTED line is complete. The text is a sequence of agents' names, the    *)
(* marker SELECTED: and line ends; the marker is written at most once.        *)
EXTENDS ModeCalls, FiniteSetsExt

CONSTANTS
    Mark, Eol, \* the marker SELECTED: and a line end
    RawMax     \* bound: tokens of classifier text

VARIABLES
    raw,     \* StreamState.raw
    picked,  \* StreamState.selected
    launched \* StreamState.agents_launched: "no", "early" or "end"

routerVars == <<raw, picked, launched>>

Reachable == ToSet(ctx.agents)

\* The configured classifier, else the first planner, else the first agent.
Classifier(c, names) ==
    IF c.classifier \in ToSet(names) THEN c.classifier
    ELSE Head(FirstWithTag(names, "planning") \o names)

\* With no choices configured: everybody but the classifier.
ChoiceSet ==
    IF ctx.cfg.choices # <<>> THEN ToSet(ctx.cfg.choices) \cap Reachable
    ELSE Reachable \ {Classifier(ctx.cfg, ctx.agents)}

\* A selection ends with the pick that reaches max_select, the first at least.
Cap == IF ctx.cfg.max_select > 1 THEN ctx.cfg.max_select ELSE 1

\* Mutant: the last resort is not cut at max_select.
Everybody(names) == names
FirstFew(names) == SubSeq(names, 1, IF Len(names) < Cap THEN Len(names) ELSE Cap)

\* rank_by_affinity orders the candidates by the prompts they answered before:
\* any of them may come first.
Few(S) == IF Cardinality(S) <= Cap THEN {S} ELSE kSubset(Cap, S)

After(text) == SubSeq(text, SelectInSeq(text, LAMBDA x : x = Mark) + 1, Len(text))
UpToEol(text) ==
    LET i == SelectInSeq(text, LAMBDA x : x = Eol) IN IF i = 0 THEN text ELSE SubSeq(text, 1, i - 1)

\* The first text after the marker, on its line or on a later one.
SelectedLine(text) ==
    LET rest == After(text)
        from == SelectInSeq(rest, LAMBDA x : x # Eol)
    IN  IF Mark \notin ToSet(text) \/ from = 0 THEN <<>>
        ELSE UpToEol(SubSeq(rest, from, Len(rest)))

\* extract_names_from_plan: the SELECTED line's names, else all those mentioned.
NamesIn(text) ==
    LET line == ToSet(SelectedLine(text)) \cap ChoiceSet
    IN  IF line # {} THEN line ELSE ToSet(text) \cap ChoiceSet

\* Mutant: the line end is not waited for.
MarkSeen(text) == Mark \in ToSet(text)
LineComplete(text) == Mark \in ToSet(text) /\ Eol \in ToSet(After(text))

\* Agents that do not answer their port are left out of the run. On a quality
\* pass the target is called without asking a classifier.
RouterStart ==
    /\ pc = "start" /\ ctx.mode = "router"
    /\ \E up \in SUBSET Reachable :
          LET names == Only[ctx.agents][up]
          IN  /\ ctx' = [ctx EXCEPT !.agents = names]
              /\ \/ /\ names = <<>> \/ (ctx.quality /\ ctx.target \notin up)
                    /\ Return(0) /\ UNCHANGED calls
                 \/ /\ ctx.quality /\ ctx.target \in up
                    /\ calls' = Calls(<<ctx.target>>)
                    /\ pc' = "collect" /\ UNCHANGED final
                 \/ /\ ~ctx.quality /\ names # <<>>
                    /\ calls' = <<Call(Classifier(ctx.cfg, names), "classifier", {})>>
                    /\ pc' = "stream" /\ UNCHANGED final
    /\ UNCHANGED routerVars

\* on_chunk: the text grows; its first complete SELECTED line launches the
\* agents it names, were they none, and no later text launches any.
StreamChunk ==
    /\ pc = "stream" /\ Len(raw) < RawMax
    /\ \E x \in ChoiceSet \cup {Mark, Eol} :
          /\ x = Mark => Mark \notin ToSet(raw)
          /\ raw' = Append(raw, x)
    /\ IF launched = "no" /\ LineComplete(raw')
       THEN /\ launched' = "early"
            /\ picked' \in Few(NamesIn(raw'))
            /\ calls' = calls \o Calls(SetToSeq(picked'))
       ELSE UNCHANGED <<launched, picked, calls>>
    /\ UNCHANGED <<pc, ctx, final>>

\* Mutant: no last resort behind the configured fallback.
ConfiguredFallback == Few(ToSet(ctx.cfg.fallback) \cap Reachable)

\* The configured fallback, else everybody but the classifier. With neither
\* the first max_select of the others are the fallback.
FallbackChoices ==
    LET others == Without(ctx.agents, Classifier(ctx.cfg, ctx.agents))
        configured == ToSet(ctx.cfg.fallback) \cap Reachable
    IN  IF configured # {} THEN Few(configured) ELSE {ToSet(FirstFew(others))}

\* Mutant: the end of the stream launches what was launched early.
StreamEndRelaunches ==
    /\ pc = "stream"
    /\ \E s \in {"ok", "error"}, sel \in Few(NamesIn(raw)) :
          /\ picked' \in IF sel = {} THEN FallbackChoices ELSE {sel}
          /\ calls' = [calls EXCEPT ![1].state = s] \o Calls(SetToSeq(picked'))
    /\ launched' = "end"
    /\ pc' = "collect"
    /\ UNCHANGED <<ctx, final, raw>>

\* The stream is over: what was not launched yet is launched now, and a
\* selection that is still empty is replaced by the fallback.
StreamEnd ==
    /\ pc = "stream"
    /\ \E s \in {"ok", "error"},
          sel \in (IF launched = "no" THEN Few(NamesIn(raw)) ELSE {picked}) :
          /\ picked' \in IF sel = {} THEN FallbackChoices ELSE {sel}
          /\ calls' = [calls EXCEPT ![1].state = s] \o Calls(SetToSeq(picked' \ picked))
    /\ launched' = IF launched = "no" THEN "end" ELSE launched
    /\ pc' = "collect"
    /\ UNCHANGED <<ctx, final, raw>>

\* The stream throws: the agents launched early are waited for.
StreamThrow ==
    /\ pc = "stream"
    /\ calls' = [calls EXCEPT ![1].state = "threw"]
    /\ pc' = "collect"
    /\ UNCHANGED <<ctx, final, routerVars>>

RouterCollect ==
    /\ pc = "collect" /\ ctx.mode = "router" /\ AllEnded
    /\ IF AnyThrew THEN Unwind ELSE Return(0)
    /\ UNCHANGED <<ctx, calls, routerVars>>

RouterNext == RouterStart \/ StreamChunk \/ StreamEnd \/ StreamThrow \/ RouterCollect
=============================================================================
