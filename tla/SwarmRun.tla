------------------------------ MODULE SwarmRun ------------------------------
(* What one dispatch promises, whatever its mode: it asks agents for         *)
(* contributions, each at most once; it may then have one agent reduce what  *)
(* was contributed, but only when every contribution is in; and it replies   *)
(* when nobody it asked is still at work.                                    *)

CONSTANT Names \* the agents

VARIABLES asked,   \* the agents asked for a contribution
          waiting, \* those of them that have not finished
          phase    \* "open", "reducing", "reduced", "closed"

vars == <<asked, waiting, phase>>

Init == asked = {} /\ waiting = {} /\ phase = "open"

Ask(S) ==
    /\ phase = "open" /\ S # {} /\ S \cap asked = {}
    /\ asked' = asked \cup S
    /\ waiting' = waiting \cup S
    /\ UNCHANGED phase

Finish(a) ==
    /\ a \in waiting
    /\ waiting' = waiting \ {a}
    /\ UNCHANGED <<asked, phase>>

Reduce ==
    /\ phase = "open" /\ asked # {} /\ waiting = {}
    /\ phase' = "reducing"
    /\ UNCHANGED <<asked, waiting>>

Reduced ==
    /\ phase = "reducing"
    /\ phase' = "reduced"
    /\ UNCHANGED <<asked, waiting>>

Close ==
    /\ phase \in {"open", "reduced"} /\ waiting = {}
    /\ phase' = "closed"
    /\ UNCHANGED <<asked, waiting>>

Next ==
    \/ \E S \in SUBSET Names : Ask(S)
    \/ \E a \in Names : Finish(a)
    \/ Reduce \/ Reduced \/ Close

Spec == Init /\ [][Next]_vars
=============================================================================
