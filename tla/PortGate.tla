------------------------------ MODULE PortGate ------------------------------
(***************************************************************************)
(* The gate in front of one inference server port: the per-port request    *)
(* limit and the per-port KV token budget of cpp_core/src/                 *)
(* agent_client_pool.cpp, and the callers that pass through it             *)
(* (call_agent_impl, call_agent_once, stream_mlx, stream_llama).           *)
(*                                                                         *)
(* Both gates of a port share ONE mutex and ONE condition variable.  A     *)
(* critical section under the mutex is one action here.  The condition     *)
(* variable is the set `cv` of the threads asleep on it: a thread leaves   *)
(* the set when it is notified (or spuriously) and then tests its          *)
(* predicate again under the mutex.                                        *)
(*                                                                         *)
(* Ports have separate PortSemaphores and no caller holds two of them, so  *)
(* one port is modelled.                                                   *)
(***************************************************************************)
EXTENDS Integers, Sequences, FiniteSets, FiniteSetsExt

CONSTANTS
    Threads,         \* threads that call agents behind this port
    Streamers,       \* those that call stream_agent; the others call_agent_impl
    Mlx,             \* those whose agent runs on the mlx engine
    Routed,          \* those whose agent may fall back to the other backend
    Roster,          \* agents sharing the port, in swarm-config order
    Estimate,        \* [Threads -> Nat], prompt chars / 4 + output cap
    UsageTotals,     \* prompt_tokens + completion_tokens a 200 may report
    BodyMayThrow,    \* may a 200 carry a body whose parse throws?
    RETRY_ATTEMPTS,  \* attempts of one call_agent_impl (2 in the code)
    CallsPerThread   \* bound: calls a thread makes

RosterEntry == [max_concurrency : Int, kv_token_budget : Int]

ASSUME PortGateAssumption ==
    /\ IsFiniteSet(Threads)
    /\ Streamers \subseteq Threads
    /\ Mlx \subseteq Threads
    /\ Routed \subseteq Threads
    /\ Roster \in Seq(RosterEntry)
    /\ Estimate \in [Threads -> Nat]
    /\ UsageTotals \subseteq Nat
    /\ BodyMayThrow \in BOOLEAN
    /\ RETRY_ATTEMPTS \in Nat \ {0}
    /\ CallsPerThread \in Nat

VARIABLES
    pc,                \* where each thread is
    count,             \* PortSemaphore.count: slots taken
    waiting,           \* PortSemaphore.waiting: threads inside acquire()
    tokens_in_flight,  \* PortSemaphore.tokens_in_flight
    cv,                \* threads asleep on PortSemaphore.cv
    attempt,           \* index of the current attempt of each call
    fallback,          \* is the attempt the alternative backend's?
    calls,             \* calls each thread has started
    leaked,            \* history: tokens taken that no reply gave back
    overpaid           \* history: tokens given back that were not taken

gate == <<count, waiting, tokens_in_flight, cv>>
local == <<attempt, fallback, calls>>
history == <<leaked, overpaid>>
vars == <<pc, gate, local, history>>

-----------------------------------------------------------------------------
(* init_port_concurrency: the first roster agent of the port that asks for  *)
(* either gate creates the semaphore; the later ones find it there.         *)

NeedsSem(a) == a.max_concurrency > 0 \/ a.kv_token_budget > 0

Asking == {i \in DOMAIN Roster : NeedsSem(Roster[i])}

Installer == CHOOSE i \in Asking : \A j \in Asking : i <= j

limit == IF Asking = {} THEN 0 ELSE Roster[Installer].max_concurrency

token_budget == IF Asking = {} THEN 0 ELSE Roster[Installer].kv_token_budget

-----------------------------------------------------------------------------
PCs == {"idle", "slot", "slotwait", "tokens", "tokenwait", "http", "stream",
        "backoff", "leave", "yield"}

\* stream_llama takes no slot; call_agent_impl and stream_mlx do.
Gated(t) == limit > 0 /\ (t \in Streamers => t \in Mlx)

\* Between acquire() and release_has_waiters().
Inside == {"tokens", "tokenwait", "http", "stream", "backoff", "leave"}

Holders == {t \in Threads : Gated(t) /\ pc[t] \in Inside}

\* Asleep, or awake again, in the wait loop of acquire().
SlotWaiters == {t \in Threads : pc[t] = "slotwait"}

\* Threads whose request is at the server.
InFlight == {t \in Threads : pc[t] \in {"http", "stream"}}

Init ==
    /\ pc = [t \in Threads |-> "idle"]
    /\ count = 0
    /\ waiting = 0
    /\ tokens_in_flight = 0
    /\ cv = {}
    /\ attempt = [t \in Threads |-> 0]
    /\ fallback = [t \in Threads |-> FALSE]
    /\ calls = [t \in Threads |-> 0]
    /\ leaked = 0 /\ overpaid = 0

Goto(t, label) == pc' = [pc EXCEPT ![t] = label]

AfterSlot(t) == IF t \in Streamers THEN "stream" ELSE "tokens"

\* A call that missed the response cache comes to the gate.
Call(t) ==
    /\ pc[t] = "idle"
    /\ calls[t] < CallsPerThread
    /\ calls' = [calls EXCEPT ![t] = @ + 1]
    /\ attempt' = [attempt EXCEPT ![t] = 0]
    /\ fallback' = [fallback EXCEPT ![t] = FALSE]
    /\ Goto(t, "slot")
    /\ UNCHANGED <<gate, history>>

-----------------------------------------------------------------------------
(* PortSemaphore::acquire                                                   *)

\* limit <= 0, or a caller that never asks: no request gate.
SkipSlot(t) ==
    /\ pc[t] = "slot"
    /\ ~Gated(t)
    /\ Goto(t, AfterSlot(t))
    /\ UNCHANGED <<gate, local, history>>

\* ++waiting, and the predicate holds at once: --waiting, ++count.
TakeSlot(t) ==
    /\ pc[t] = "slot"
    /\ Gated(t)
    /\ count < limit
    /\ count' = count + 1
    /\ Goto(t, AfterSlot(t))
    /\ UNCHANGED <<waiting, tokens_in_flight, cv, local, history>>

\* Mutant: sleeps without ++waiting.
SleepForSlotUncounted(t) ==
    /\ pc[t] = "slot"
    /\ Gated(t)
    /\ count >= limit
    /\ cv' = cv \cup {t}
    /\ Goto(t, "slotwait")
    /\ UNCHANGED <<count, waiting, tokens_in_flight, local, history>>

\* ++waiting, and the predicate fails: asleep.
SleepForSlot(t) ==
    /\ pc[t] = "slot"
    /\ Gated(t)
    /\ count >= limit
    /\ waiting' = waiting + 1
    /\ cv' = cv \cup {t}
    /\ Goto(t, "slotwait")
    /\ UNCHANGED <<count, tokens_in_flight, local, history>>

\* Mutant: `if` in the place of the wait loop, the predicate is not retested.
WakeTakeSlotUntested(t) ==
    /\ pc[t] = "slotwait"
    /\ t \notin cv
    /\ waiting' = waiting - 1
    /\ count' = count + 1
    /\ Goto(t, AfterSlot(t))
    /\ UNCHANGED <<tokens_in_flight, cv, local, history>>

\* Awake again, the predicate holds.
WakeTakeSlot(t) ==
    /\ pc[t] = "slotwait"
    /\ t \notin cv
    /\ count < limit
    /\ waiting' = waiting - 1
    /\ count' = count + 1
    /\ Goto(t, AfterSlot(t))
    /\ UNCHANGED <<tokens_in_flight, cv, local, history>>

\* Awake again, a thread that came later has the slot.
WakeSlotTaken(t) ==
    /\ pc[t] = "slotwait"
    /\ t \notin cv
    /\ count >= limit
    /\ cv' = cv \cup {t}
    /\ UNCHANGED <<pc, count, waiting, tokens_in_flight, local, history>>

-----------------------------------------------------------------------------
(* PortSemaphore::acquire_tokens, called by call_agent_once                 *)

Fits(t) == tokens_in_flight + Estimate[t] <= token_budget

SkipTokens(t) ==
    /\ pc[t] = "tokens"
    /\ token_budget <= 0 \/ Estimate[t] <= 0
    /\ Goto(t, "http")
    /\ UNCHANGED <<gate, local, history>>

TakeTokens(t) ==
    /\ \/ pc[t] = "tokens" /\ token_budget > 0 /\ Estimate[t] > 0
       \/ pc[t] = "tokenwait" /\ t \notin cv
    /\ Fits(t)
    /\ tokens_in_flight' = tokens_in_flight + Estimate[t]
    /\ Goto(t, "http")
    /\ UNCHANGED <<count, waiting, cv, local, history>>

SleepForTokens(t) ==
    /\ \/ pc[t] = "tokens" /\ token_budget > 0 /\ Estimate[t] > 0
       \/ pc[t] = "tokenwait" /\ t \notin cv
    /\ ~Fits(t)
    /\ cv' = cv \cup {t}
    /\ Goto(t, "tokenwait")
    /\ UNCHANGED <<count, waiting, tokens_in_flight, local, history>>

\* Mutant: notify_one in the place of notify_all.
ReleaseTokensNotifyOne(actual) ==
    IF token_budget <= 0 \/ actual <= 0
      THEN UNCHANGED <<tokens_in_flight, cv>>
      ELSE /\ tokens_in_flight' = IF tokens_in_flight >= actual
                                    THEN tokens_in_flight - actual ELSE 0
           /\ IF cv = {} THEN UNCHANGED cv ELSE \E s \in cv : cv' = cv \ {s}

\* PortSemaphore::release_tokens: a no-op without a budget or for 0 tokens,
\* otherwise deduct (not below 0) and notify_all.
ReleaseTokens(actual) ==
    IF token_budget <= 0 \/ actual <= 0
      THEN UNCHANGED <<tokens_in_flight, cv>>
      ELSE /\ tokens_in_flight' = IF tokens_in_flight >= actual
                                    THEN tokens_in_flight - actual ELSE 0
           /\ cv' = {}

-----------------------------------------------------------------------------
(* What follows an attempt, in the retry loop of call_agent_impl.           *)

\* The attempt settled the call: success, or an error not worth a retry.
Settle(t) == Goto(t, "leave") /\ UNCHANGED local

\* The attempt failed and may be repeated: the other backend first (it runs
\* on the same port and takes tokens again), then a back-off and the next
\* attempt, until RETRY_ATTEMPTS are used up.
Retry(t) ==
    /\ UNCHANGED calls
    /\ \/ /\ t \in Routed
          /\ ~fallback[t]
          /\ fallback' = [fallback EXCEPT ![t] = TRUE]
          /\ Goto(t, "tokens")
          /\ UNCHANGED attempt
       \/ /\ t \notin Routed \/ fallback[t]
          /\ fallback' = [fallback EXCEPT ![t] = FALSE]
          /\ IF attempt[t] + 1 < RETRY_ATTEMPTS
               THEN /\ attempt' = [attempt EXCEPT ![t] = @ + 1]
                    /\ Goto(t, "backoff")
               ELSE /\ Goto(t, "leave")
                    /\ UNCHANGED attempt

\* History: thread t is done with its estimate and gave back `actual` tokens.
Account(t, actual) ==
    IF token_budget <= 0 THEN UNCHANGED history
    ELSE /\ leaked' = leaked + (IF actual < Estimate[t] THEN Estimate[t] - actual ELSE 0)
         /\ overpaid' = overpaid + (IF actual > Estimate[t] THEN actual - Estimate[t] ELSE 0)

\* A 200 whose body parses: `usage` gives the tokens to release, the estimate
\* when it is missing.  Text settles the call, an empty answer is retried.
Answered(t) ==
    /\ pc[t] = "http"
    /\ \E actual \in UsageTotals \cup {Estimate[t]} :
          ReleaseTokens(actual) /\ Account(t, actual)
    /\ Settle(t) \/ Retry(t)
    /\ UNCHANGED <<count, waiting>>

\* Mutant: the error path forgets the tokens.
RefusedUnreleased(t) ==
    /\ pc[t] = "http"
    /\ Settle(t) \/ Retry(t)
    /\ UNCHANGED <<gate, history>>

\* A status other than 200 (5xx is retried, the others are final), or no
\* response at all (retried): the estimate is released.
Refused(t) ==
    /\ pc[t] = "http"
    /\ ReleaseTokens(Estimate[t])
    /\ Settle(t) \/ Retry(t)
    /\ UNCHANGED <<count, waiting, history>>

\* A 200 whose body does not parse, or whose content or usage has the wrong
\* type: the catch block releases no tokens.
BodyThrows(t) ==
    /\ pc[t] = "http"
    /\ BodyMayThrow
    /\ Account(t, 0)
    /\ Retry(t)
    /\ UNCHANGED gate

BackoffOver(t) ==
    /\ pc[t] = "backoff"
    /\ Goto(t, "tokens")
    /\ UNCHANGED <<gate, local, history>>

\* The stream ends, is cancelled or never connects.
StreamEnds(t) ==
    /\ pc[t] = "stream"
    /\ Goto(t, "leave")
    /\ UNCHANGED <<gate, local, history>>

-----------------------------------------------------------------------------
(* PortSemaphore::release_has_waiters, and the pause an mlx caller makes    *)
(* when it left waiters behind.                                             *)

\* Mutant: the slot comes back without a notification.
NotifyNone == UNCHANGED cv

\* notify_one: any one of the sleepers, whatever it waits for.
NotifyOne == \/ cv = {} /\ UNCHANGED cv
             \/ \E s \in cv : cv' = cv \ {s}

ReleaseSlot(t) ==
    /\ pc[t] = "leave"
    /\ IF Gated(t) THEN count' = count - 1 /\ NotifyOne
                   ELSE UNCHANGED <<count, cv>>
    /\ Goto(t, IF Gated(t) /\ waiting > 0 /\ t \in Mlx THEN "yield" ELSE "idle")
    /\ UNCHANGED <<waiting, tokens_in_flight, local, history>>

YieldOver(t) ==
    /\ pc[t] = "yield"
    /\ Goto(t, "idle")
    /\ UNCHANGED <<gate, local, history>>

\* The standard allows a wait to return unnotified.
SpuriousWakeup ==
    /\ \E s \in cv : cv' = cv \ {s}
    /\ UNCHANGED <<pc, count, waiting, tokens_in_flight, local, history>>

-----------------------------------------------------------------------------
\* What the scheduler must run once the thread has entered the call.
Step(t) ==
    \/ SkipSlot(t) \/ TakeSlot(t) \/ SleepForSlot(t)
    \/ WakeTakeSlot(t) \/ WakeSlotTaken(t)
    \/ SkipTokens(t) \/ TakeTokens(t) \/ SleepForTokens(t)
    \/ Answered(t) \/ Refused(t) \/ BodyThrows(t) \/ BackoffOver(t)
    \/ StreamEnds(t) \/ ReleaseSlot(t) \/ YieldOver(t)

\* Every thread has made its calls (an artefact of the CallsPerThread bound).
AllDone ==
    /\ \A t \in Threads : pc[t] = "idle" /\ calls[t] = CallsPerThread
    /\ UNCHANGED vars

Next == (\E t \in Threads : Call(t) \/ Step(t)) \/ SpuriousWakeup \/ AllDone

Spec == Init /\ [][Next]_vars

\* Threads are scheduled, a request ends by its read timeout at the latest,
\* sleeps end.  Spurious wake-ups and new calls are not promised.
FairSpec == Spec /\ \A t \in Threads : WF_vars(Step(t))

-----------------------------------------------------------------------------
TypeOK ==
    /\ pc \in [Threads -> PCs]
    /\ count \in Nat
    /\ waiting \in Nat
    /\ tokens_in_flight \in Nat
    /\ cv \subseteq Threads
    /\ attempt \in [Threads -> 0 .. RETRY_ATTEMPTS - 1]
    /\ fallback \in [Threads -> BOOLEAN]
    /\ calls \in [Threads -> 0 .. CallsPerThread]
    /\ leaked \in Nat /\ overpaid \in Nat

-----------------------------------------------------------------------------
(* Safety                                                                   *)

\* The request gate counts right through every interleaving of waking,
\* barging, retrying and leaving: the slots taken are the callers between
\* acquire() and release_has_waiters(), never more than the limit, and
\* `waiting` (it decides the pause after an mlx call) is the threads asleep
\* or woken inside acquire().
SlotsCounted ==
    limit > 0 =>
        /\ count = Cardinality(Holders)
        /\ count <= limit
        /\ waiting = Cardinality(SlotWaiters)

HoldsTokens(t) == token_budget > 0 /\ Estimate[t] > 0 /\ pc[t] = "http"

TokensHeld == MapThenSumSet(LAMBDA t : Estimate[t], {t \in Threads : HoldsTokens(t)})

\* No wake-up for a slot is lost although notify_one may wake a thread that
\* waits for tokens and finds too few: while a slot is free and a thread sleeps
\* for one, some thread inside acquire() is awake, or one waits for tokens that
\* a request in flight holds and will give back waking every sleeper. Only
\* where no request holds them (they leaked, or the estimate exceeds the whole
\* budget) can the slot stay unnoticed beside that other thread.
FreeSlotNoticed ==
    SlotWaiters \cap cv # {} /\ count < limit =>
        \/ SlotWaiters \ cv # {}
        \/ \E t \in Threads :
              /\ pc[t] = "tokenwait" /\ ~Fits(t)
              /\ \/ \E u \in Threads : HoldsTokens(u)
                 \/ leaked > 0 \/ Estimate[t] > token_budget

\* The same for tokens: a request asleep for tokens does not fit, so whoever
\* lowers tokens_in_flight has to wake it.
SleepersDoNotFit == \A t \in cv : pc[t] = "tokenwait" => ~Fits(t)

\* The ledger of the budget is what the requests in flight were admitted with,
\* but for what replies gave back too little (a smaller usage, none where the
\* body throws) or too much: over any number of attempts no other token is lost,
\* taken twice or given back twice, also where the subtraction stops at 0, and
\* only overpaid tokens let more into the server than the budget
\* (agent_client_http.cpp:99-101 and 138-144, agent_client_pool.cpp:60-75).
LedgerAccounted ==
    /\ TokensHeld - overpaid <= tokens_in_flight
    /\ tokens_in_flight <= TokensHeld + leaked
    /\ TokensHeld = 0 \/ TokensHeld <= token_budget + overpaid

-----------------------------------------------------------------------------
(* The abstract gate                                                        *)

Slots == INSTANCE SlotSemaphore WITH
    Callers <- Threads,
    Slots   <- limit,
    want    <- {t \in Threads : Gated(t) /\ pc[t] \in {"slot", "slotwait"}},
    have    <- Holders

\* The gate is the counting semaphore its callers rely on: never more holders
\* than slots, a slot only to who waits for one, and no caller waits for ever.
ImplementsSlots == Slots!Spec

-----------------------------------------------------------------------------
(* Liveness                                                                 *)

\* Every call comes back: no caller waits for ever on either gate, whatever
\* thread each notify_one picks.
EveryCallEnds == \A t \in Threads : pc[t] # "idle" ~> pc[t] = "idle"
=============================================================================
