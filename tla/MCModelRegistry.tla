--------------------------- MODULE MCModelRegistry ---------------------------
(* Instances of ModelRegistry for TLC.                                      *)
EXTENDS ModelRegistry, TLC

CONSTANTS t1, t2, s1

TwoThreads == {t1, t2}

\* Two quantizations of one model, and another model.
ThreeAgents == {"coder", "tester", "planner"}
Models == [a \in ThreeAgents |-> IF a = "planner" THEN "large" ELSE "small"]
Quants == [a \in ThreeAgents |-> IF a = "tester" THEN "4bit" ELSE "8bit"]

\* A short prompt, one that grows out of it and an edited one.
GrownAndEdited == {<<"a">>, <<"a", "b">>, <<"a", "c">>, <<"a", "b", "c">>}

ThreadSymmetry == Permutations(TwoThreads)
=============================================================================
