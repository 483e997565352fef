---------------------------- MODULE BoundedCache ----------------------------
(* What the response cache promises its callers, whatever order it keeps its  *)
(* entries in: it holds at most `limit` answers, it changes an answer only    *)
(* when a new one is stored for the same key, and it drops others only to     *)
(* make room for a new one, as many as that takes. (A store is a stutter when *)
(* the cache is off, so nothing here says that a store has an effect.)        *)
EXTENDS Naturals, FiniteSets, Functions

VARIABLES held,  \* [key -> answer]
          limit  \* how many answers fit

Init == held = <<>> /\ limit \in Nat \ {0}

\* Of the answers f, keep n: all of them when that many fit.
KeepOf(f, n, mustKeep) ==
    \E drop \in SUBSET (DOMAIN f \ mustKeep) :
        /\ IF Cardinality(DOMAIN f) > n
             THEN Cardinality(drop) = Cardinality(DOMAIN f) - n
             ELSE drop = {}
        /\ held' = Restrict(f, DOMAIN f \ drop)

\* A new answer for k, whatever it is.
Put(k) ==
    /\ KeepOf([x \in {k} \cup DOMAIN held |-> IF x = k THEN held'[k] ELSE held[x]], limit, {k})
    /\ UNCHANGED limit

\* An answer whose time is over.
Forget(k) == held' = Restrict(held, DOMAIN held \ {k}) /\ UNCHANGED limit

ForgetAll == held' = <<>> /\ UNCHANGED limit

Resize(n) == n \in Nat \ {0} /\ limit' = n /\ KeepOf(held, n, {})

Next == \/ \E k \in DOMAIN held' : Put(k)
        \/ \E k \in DOMAIN held : Forget(k)
        \/ ForgetAll
        \/ Resize(limit')

Spec == Init /\ [][Next]_<<held, limit>>
=============================================================================
