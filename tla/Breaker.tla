------------------------------ MODULE Breaker ------------------------------
(***************************************************************************)
(* The per-agent circuit breaker (cpp_core/src/agent_health.cpp) under the *)
(* dispatches that use it: a dispatch asks is_open once, when it builds    *)
(* its roster, and the calls it makes to the agent report their outcome    *)
(* any time later (call_agent_impl).  The router mode first looks whether  *)
(* the agent's server answers (modes/router_endpoint.cpp), remembers that  *)
(* for a while, and reports a failure each time it finds that it does not. *)
(*                                                                         *)
(* The entries of different agents are independent; one is modelled, with  *)
(* the port it has to itself.  The clock is the code's steady clock in     *)
(* coarser units.                                                          *)
(***************************************************************************)
EXTENDS Integers, Sequences, FiniteSets, SequencesExt

CONSTANTS
    Runs,        \* dispatches, several at once
    WINDOW,      \* WINDOW_MS
    THRESHOLD,   \* failures in the window that trip the breaker
    COOLDOWN,    \* COOLDOWN_MS
    TTL,         \* READY_TTL_SECS
    MaxNow,      \* bound: the clock stops here
    MaxRecords   \* bound: [router -> outcomes recorded in a behaviour]

ASSUME BreakerAssumption ==
    /\ WINDOW \in Nat /\ COOLDOWN \in Nat \ {0} /\ THRESHOLD \in Nat \ {0}
    /\ TTL \in Nat \ {0}
    /\ MaxNow \in Nat /\ MaxRecords \in [BOOLEAN -> Nat]

VARIABLES
    router,          \* whether the runs are of the router mode
    now,
    failure_ts,      \* Entry.failure_ts
    tripped,         \* Entry.tripped
    cooldown_until,  \* Entry.cooldown_until_ms
    server,          \* whether the agent's server answers, and then since when
    ready,           \* g_ready_cache.m[port]; its expiry is 0 when it is absent
    at,              \* [run -> how far it is with the agent]
    late,            \* runs whose probe began before the last tick
    log              \* history: every outcome recorded, oldest first

entry == <<failure_ts, tripped, cooldown_until>>
vars == <<router, now, entry, server, ready, at, late, log>>

Init ==
    /\ router \in BOOLEAN
    /\ now = 0
    /\ failure_ts = <<>>
    /\ tripped = FALSE
    /\ cooldown_until = 0
    /\ server \in [up : BOOLEAN, since : {0}]
    /\ ready = [ok |-> FALSE, expiry |-> 0]
    /\ at = [r \in Runs |-> "away"]
    /\ late = {}
    /\ log = <<>>

\* prune_window pops expired failures from the front only.
Pruned(ts) ==
    LET kept == {i \in DOMAIN ts : \E j \in 1 .. i : now - ts[j] <= WINDOW}
    IN  SubSeq(ts, Len(ts) - Cardinality(kept) + 1, Len(ts))

is_open == tripped /\ now < cooldown_until

\* Mutant: a success leaves the old failures in the window.
RecordSuccessKeepsWindow ==
    /\ failure_ts' = Pruned(failure_ts)
    /\ tripped' = FALSE
    /\ cooldown_until' = 0

RecordSuccess ==
    /\ failure_ts' = <<>>
    /\ tripped' = FALSE
    /\ cooldown_until' = 0

\* Mutant: a repeated failure extends the old deadline instead of restarting it.
RecordFailureAccumulates ==
    /\ failure_ts' = Append(Pruned(failure_ts), now)
    /\ tripped' = (tripped \/ Len(failure_ts') >= THRESHOLD)
    /\ cooldown_until' = IF tripped' THEN cooldown_until + now + COOLDOWN
                                   ELSE cooldown_until

\* Mutant: a failure of a tripped agent does not restart the cooldown.
RecordFailureNoExtension ==
    /\ failure_ts' = Append(Pruned(failure_ts), now)
    /\ tripped' = (tripped \/ Len(failure_ts') >= THRESHOLD)
    /\ cooldown_until' = IF tripped' /\ ~tripped THEN now + COOLDOWN
                                                 ELSE cooldown_until

RecordFailure ==
    /\ failure_ts' = Append(Pruned(failure_ts), now)
    /\ tripped' = (tripped \/ Len(failure_ts') >= THRESHOLD)
    /\ cooldown_until' = IF tripped' THEN now + COOLDOWN ELSE cooldown_until

Record(ok, probed) ==
    /\ Len(log) < MaxRecords[router]
    /\ IF ok THEN RecordSuccess ELSE RecordFailure
    /\ log' = Append(log, [at |-> now, ok |-> ok, probed |-> probed])
    /\ UNCHANGED <<router, now, server>>

Goto(r, step) == at' = [at EXCEPT ![r] = step]

-----------------------------------------------------------------------------
\* The dispatch builds its roster: an agent whose breaker is open is left out.
\* The router mode goes on to ask for the server, the others to their calls.
Admit(r) ==
    /\ at[r] = "away"
    /\ ~is_open
    /\ Goto(r, IF router THEN "asking" ELSE "calling")
    /\ UNCHANGED <<router, now, entry, server, ready, late, log>>

\* A call of an admitted run comes back; the run may call the agent again
\* (pipeline stages that repeat it, a cascade and its synthesis).
CallEnds(r) ==
    /\ at[r] = "calling"
    /\ \E ok \in BOOLEAN : Record(ok, FALSE)
    /\ UNCHANGED <<ready, at, late>>

RunEnds(r) ==
    /\ at[r] = "calling"
    /\ Goto(r, "away")
    /\ UNCHANGED <<router, now, entry, server, ready, late, log>>

-----------------------------------------------------------------------------
(* endpoint_ready and filter_reachable: one run's steps with the agent        *)

Remembered == ready.expiry > 0 /\ now <= ready.expiry

\* Mutant: an answer that is asked for stays for another TTL.
AskReadySliding(r) ==
    /\ at[r] = "asking"
    /\ Goto(r, IF ~Remembered THEN "probing"
               ELSE IF ready.ok THEN "calling" ELSE "unreachable")
    /\ ready' = IF Remembered THEN [ready EXCEPT !.expiry = now + TTL] ELSE ready
    /\ UNCHANGED <<router, now, entry, server, late, log>>

\* PortReadyCache::get: an answer is good up to and with its expiry.
AskReady(r) ==
    /\ at[r] = "asking"
    /\ Goto(r, IF ~Remembered THEN "probing"
               ELSE IF ready.ok THEN "calling" ELSE "unreachable")
    /\ UNCHANGED <<router, now, entry, server, ready, late, log>>

\* The request to the server is answered, or not in time.
Probe(r) ==
    /\ at[r] = "probing"
    /\ Goto(r, IF server.up THEN "found" ELSE "missed")
    /\ UNCHANGED <<router, now, entry, server, ready, late, log>>

\* PortReadyCache::set, after the probe: that of a run which probed earlier may
\* come later.
StoreReady(r) ==
    /\ at[r] \in {"found", "missed"}
    /\ ready' = [ok |-> at[r] = "found", expiry |-> now + TTL]
    /\ Goto(r, IF at[r] = "found" THEN "calling" ELSE "unreachable")
    /\ late' = IF at[r] = "found" THEN late \ {r} ELSE late
    /\ UNCHANGED <<router, now, entry, server, log>>

\* The run goes on without an agent whose server did not answer, and reports a
\* failure, whether it has probed itself or not.
Unreachable(r) ==
    /\ at[r] = "unreachable"
    /\ Record(FALSE, TRUE)
    /\ Goto(r, "away")
    /\ late' = late \ {r}
    /\ UNCHANGED ready

-----------------------------------------------------------------------------
\* GET /api/health/agents prunes the window as it reads.
Snapshot ==
    /\ failure_ts' = Pruned(failure_ts)
    /\ UNCHANGED <<router, now, tripped, cooldown_until, server, ready, at, late, log>>

\* The server stops answering, or starts to.
ServerTurns ==
    /\ router
    /\ server' = [up |-> ~server.up, since |-> IF server.up THEN 0 ELSE now]
    /\ UNCHANGED <<router, now, entry, ready, at, late, log>>

Looking == {r \in Runs : at[r] \in {"probing", "found", "missed", "unreachable"}}

\* A probe times out after two seconds, so that what a run does between looking
\* for the answer and reporting it spans at most one tick.
Tick ==
    /\ now < MaxNow
    /\ late = {}
    /\ now' = now + 1
    /\ late' = Looking
    /\ UNCHANGED <<router, entry, server, ready, at, log>>

Next ==
    \/ \E r \in Runs : \/ Admit(r) \/ CallEnds(r) \/ RunEnds(r)
                        \/ AskReady(r) \/ Probe(r) \/ StoreReady(r) \/ Unreachable(r)
    \/ Snapshot \/ ServerTurns \/ Tick

Spec == Init /\ [][Next]_vars

-----------------------------------------------------------------------------
TypeOK ==
    /\ router \in BOOLEAN /\ now \in 0 .. MaxNow
    /\ failure_ts \in Seq(0 .. now)
    /\ tripped \in BOOLEAN
    /\ cooldown_until \in 0 .. now + COOLDOWN
    /\ server \in [up : BOOLEAN, since : 0 .. now]
    /\ ready \in [ok : BOOLEAN, expiry : 0 .. now + TTL]
    /\ at \in [Runs -> {"away", "asking", "probing", "found", "missed",
                        "unreachable", "calling"}]
    /\ late \subseteq Looking
    /\ log \in Seq([at : 0 .. now, ok : BOOLEAN, probed : BOOLEAN])

-----------------------------------------------------------------------------
(* The breaker against its history                                          *)

\* Failures recorded since the last success, as indices of the log.
CurrentFailures ==
    {i \in DOMAIN log : \A j \in i .. Len(log) : ~log[j].ok}

\* Failure i is the THRESHOLD-th, or a later one, of the window that ends
\* with it.
Trips(i) ==
    Cardinality({j \in CurrentFailures : j <= i /\ log[i].at - log[j].at <= WINDOW})
        >= THRESHOLD

\* The breaker is tripped exactly when, since the last success, THRESHOLD
\* failures fell into one window, however the runs that reported them
\* overlapped and whenever snapshots pruned; the cooldown then runs from the
\* latest failure.
MatchesHistory ==
    /\ tripped <=> \E i \in CurrentFailures : Trips(i)
    /\ cooldown_until = IF tripped THEN Last(log).at + COOLDOWN ELSE 0

\* What a window of the health report may show: no failure older than the
\* last success or than the window before the latest outcome.
WindowMatchesHistory ==
    \A k \in DOMAIN failure_ts :
        /\ \E i \in CurrentFailures : log[i].at = failure_ts[k]
        /\ Last(log).at - failure_ts[k] <= WINDOW

-----------------------------------------------------------------------------
(* The breaker against the server                                             *)

\* An agent whose server is back is back in service: however many runs have
\* left it out and reported it for one probe's answer, and in whatever order
\* their answers were stored, the breaker is closed again once an answer from
\* before, its report (each a probe's time late) and a cooldown have passed;
\* unless calls failed.
BackInService ==
    (/\ server.up /\ now >= server.since + TTL + COOLDOWN + 2
     /\ \A i \in DOMAIN log :
          ~log[i].ok /\ ~log[i].probed => log[i].at + COOLDOWN <= now) =>
        ~is_open /\ ~(Remembered /\ ~ready.ok)
=============================================================================
