--------------------------- MODULE SlotSemaphore ---------------------------
(***************************************************************************)
(* What the per-port request gate promises its callers, with no mutex, no  *)
(* condition variable and no counter: a set of callers that wait for a     *)
(* slot and a set, of at most `Slots`, that hold one; a free slot goes to  *)
(* some waiting caller, and no caller waits for ever.  PortGate implements *)
(* it (cpp_core/src/agent_client_pool.cpp, PortSemaphore).                 *)
(***************************************************************************)
EXTENDS Integers, FiniteSets

CONSTANTS Callers, Slots

VARIABLES want, have

svars == <<want, have>>

Init == want = {} /\ have = {}

Ask(c) ==
    /\ c \notin want \cup have
    /\ want' = want \cup {c}
    /\ UNCHANGED have

Grant(c) ==
    /\ c \in want
    /\ Cardinality(have) < Slots
    /\ want' = want \ {c}
    /\ have' = have \cup {c}

GiveBack(c) ==
    /\ c \in have
    /\ have' = have \ {c}
    /\ UNCHANGED want

Next == \E c \in Callers : Ask(c) \/ Grant(c) \/ GiveBack(c)

\* Never more than Slots holders, and only callers that asked.
Safety == Init /\ [][Next]_svars

\* A waiting caller is granted a slot in the end, and a slot comes back.
Spec ==
    /\ Safety
    /\ \A c \in Callers : SF_svars(Grant(c)) /\ WF_svars(GiveBack(c))
=============================================================================
