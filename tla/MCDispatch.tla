----------------------------- MODULE MCDispatch -----------------------------
(* Instances of Dispatch for TLC.                                           *)
EXTENDS Dispatch

Planner == "architect"
Coder == "programmer"
Judge == "tester"
Absent == "reviewer"

AllNames == {Planner, Coder, Judge, Absent}
ThreeAgents == <<Planner, Coder, Judge>>
ThreeAgentsTags ==
    [n \in {Planner, Coder, Judge} |->
        CASE n = Planner -> {"planning"} [] n = Coder -> {"coding"} [] OTHER -> {"review", "synthesis"}]

Plain == EmptyConfig
EachMode ==
    [flat |-> {Plain, [Plain EXCEPT !.agents = <<Coder, Absent>>]},
     cascade |-> {[Plain EXCEPT !.synthesizer = Judge],
                  [Plain EXCEPT !.agents = <<Coder, Planner>>, !.synthesizer = Judge],
                  [Plain EXCEPT !.agents = <<Coder, Absent>>, !.synthesizer = Absent]},
     pipeline |-> {[Plain EXCEPT !.synthesizer = Judge],
                   [Plain EXCEPT !.preset = "debug-fix"],
                   [Plain EXCEPT !.agents = <<Coder, Judge, Coder>>, !.preset = "code-quality"],
                   [Plain EXCEPT !.agents = <<Absent>>, !.synthesizer = Planner],
                   [Plain EXCEPT !.agents = <<Coder, Judge>>, !.order = <<Judge, Absent, Coder>>]},
     router |-> {[Plain EXCEPT !.max_select = 1],
                 [Plain EXCEPT !.choices = <<Coder, Judge>>, !.classifier = Judge, !.max_select = 2],
                 [Plain EXCEPT !.choices = <<Absent>>, !.fallback = <<Absent, Coder>>, !.max_select = 0]}]

BothTargets == {Coder, Absent}
=============================================================================
