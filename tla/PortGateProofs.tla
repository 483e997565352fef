--------------------------- MODULE PortGateProofs ---------------------------
(***************************************************************************)
(* Theorems about PortGate for every roster, every number of threads and   *)
(* every retry and call bound.                                             *)
(*                                                                         *)
(* SlotsCounted is not inductive: that `count` stays a natural number when *)
(* a caller leaves needs it to be the number of holders, and the same for  *)
(* `waiting`.  GateInv states both for every limit.                        *)
(*                                                                         *)
(* The ledger of tokens is the sum of the estimates of the calls that have *)
(* been granted theirs and not given it back, one term per thread; the sum *)
(* is a fold, about which TokenSumIsUnits and the lemmas before it say     *)
(* what a single thread does to it.                                        *)
(*                                                                         *)
(* What replies give back need not be what was taken: LedgerInv bounds the *)
(* ledger from both sides by what has leaked and what was overpaid.        *)
(*                                                                         *)
(* FreeSlotNoticed, that nobody sleeps beside a slot that is free, is not  *)
(* inductive either: AwakeEnough counts those who are awake against the    *)
(* slots that are free, unless a thread waits for tokens that do not       *)
(* suffice; it can have had the notification.                              *)
(***************************************************************************)
EXTENDS PortGate, FiniteSetTheorems, WellFoundedInduction, TLAPS

GateInv ==
    /\ TypeOK
    /\ count = Cardinality(Holders)
    /\ waiting = Cardinality(SlotWaiters)
    /\ count = 0 \/ count <= limit
    /\ \A t \in SlotWaiters : Gated(t)

-----------------------------------------------------------------------------
(* Lemmas                                                                   *)

LEMMA Least ==
    ASSUME NEW S, S \subseteq Nat, S # {}
    PROVE  \E i \in S : \A j \in S : i <= j
<1>1. PICK i \in S : \A j \in S : <<j, i>> \notin OpToRel(<, Nat)
  BY WFMin, NatLessThanWellFounded, Zenon
<1>2. \A j \in S : ~(j < i)
  BY <1>1, Zenon DEF OpToRel
<1>3. QED
  BY <1>2

LEMMA LimitType == limit \in Int /\ token_budget \in Int
<1>1. CASE Asking = {}
  BY <1>1 DEF limit, token_budget
<1>2. CASE Asking # {}
  <2>1. Asking \subseteq Nat /\ \A i \in Asking : Roster[i] \in RosterEntry
    BY PortGateAssumption DEF PortGateAssumption, Asking
  <2>2. Installer \in Asking
    BY <1>2, <2>1, Least DEF Installer
  <2>3. QED
    BY <1>2, <2>1, <2>2 DEF limit, token_budget, RosterEntry
<1>3. QED
  BY <1>1, <1>2

LEMMA FiniteGroups ==
    /\ IsFiniteSet(Holders) /\ Cardinality(Holders) \in Nat
    /\ IsFiniteSet(SlotWaiters) /\ Cardinality(SlotWaiters) \in Nat
<1>1. Holders \subseteq Threads /\ SlotWaiters \subseteq Threads
  BY DEF Holders, SlotWaiters
<1>2. QED
  BY <1>1, FS_Subset, FS_CardinalityType, PortGateAssumption
  DEF PortGateAssumption

\* How the two groups follow a thread that moves.
LEMMA HoldersMove ==
    ASSUME TypeOK, NEW t \in Threads, NEW l \in PCs, Goto(t, l)
    PROVE  Holders' = IF Gated(t) /\ l \in Inside THEN Holders \cup {t}
                                                  ELSE Holders \ {t}
BY DEF TypeOK, Goto, Holders, Gated

LEMMA SlotWaitersMove ==
    ASSUME TypeOK, NEW t \in Threads, NEW l \in PCs, Goto(t, l)
    PROVE  SlotWaiters' = IF l = "slotwait" THEN SlotWaiters \cup {t}
                                            ELSE SlotWaiters \ {t}
BY DEF TypeOK, Goto, SlotWaiters

\* A thread that moves without entering or leaving either group.
LEMMA Within ==
    ASSUME GateInv, NEW t \in Threads, NEW l \in PCs, Goto(t, l),
           l # "slotwait", t \notin SlotWaiters,
           t \in Holders <=> (Gated(t) /\ l \in Inside),
           UNCHANGED <<count, waiting>>
    PROVE  /\ count' = Cardinality(Holders')
           /\ waiting' = Cardinality(SlotWaiters')
           /\ count' = 0 \/ count' <= limit
           /\ \A u \in SlotWaiters' : Gated(u)'
<1>1. Holders' = Holders
  BY HoldersMove DEF GateInv
<1>2. SlotWaiters' = SlotWaiters
  BY SlotWaitersMove DEF GateInv
<1>3. QED
  BY <1>1, <1>2 DEF GateInv, Gated

\* What the retry loop does to the attempt counters.
LEMMA RetryType ==
    ASSUME TypeOK, NEW t \in Threads, Settle(t) \/ Retry(t)
    PROVE  /\ attempt' \in [Threads -> 0 .. RETRY_ATTEMPTS - 1]
           /\ fallback' \in [Threads -> BOOLEAN]
           /\ calls' \in [Threads -> 0 .. CallsPerThread]
           /\ \E l \in {"leave", "tokens", "backoff"} : Goto(t, l)
<1>1. CASE Settle(t)
  BY <1>1 DEF Settle, local, TypeOK
<1>2. CASE Retry(t)
  <2>1. /\ calls' \in [Threads -> 0 .. CallsPerThread]
        /\ \E l \in {"leave", "tokens", "backoff"} : Goto(t, l)
    BY <1>2 DEF Retry, TypeOK
  <2>2. fallback' \in [Threads -> BOOLEAN]
    BY <1>2 DEF Retry, TypeOK
  <2>3. attempt' \in [Threads -> 0 .. RETRY_ATTEMPTS - 1]
    <3>1. attempt \in [Threads -> 0 .. RETRY_ATTEMPTS - 1] /\ RETRY_ATTEMPTS \in Nat
      BY PortGateAssumption DEF PortGateAssumption, TypeOK
    <3>2. \/ UNCHANGED attempt
          \/ /\ attempt[t] + 1 < RETRY_ATTEMPTS
             /\ attempt' = [attempt EXCEPT ![t] = @ + 1]
      BY <1>2 DEF Retry
    <3>3. attempt[t] + 1 < RETRY_ATTEMPTS => attempt[t] + 1 \in 0 .. RETRY_ATTEMPTS - 1
      BY <3>1
    <3>4. QED
      BY <3>1, <3>2, <3>3
  <2>4. QED
    BY <2>1, <2>2, <2>3
<1>3. QED
  BY <1>1, <1>2

LEMMA ReleaseTokensType ==
    ASSUME TypeOK, NEW actual \in Nat, ReleaseTokens(actual)
    PROVE  tokens_in_flight' \in Nat /\ cv' \subseteq Threads
BY LimitType DEF TypeOK, ReleaseTokens

LEMMA AccountType ==
    ASSUME TypeOK, NEW t \in Threads, NEW actual \in Nat, Account(t, actual)
    PROVE  leaked' \in Nat /\ overpaid' \in Nat
<1>1. Estimate[t] \in Nat
  BY PortGateAssumption DEF PortGateAssumption
<1>2. QED
  BY <1>1 DEF TypeOK, Account, history

LEMMA NotifyOneType ==
    ASSUME TypeOK, NotifyOne
    PROVE  cv' \subseteq Threads
BY DEF TypeOK, NotifyOne

-----------------------------------------------------------------------------
(* The inductive invariant                                                  *)

LEMMA InitInv == Init => GateInv
<1> SUFFICES ASSUME Init PROVE GateInv
  OBVIOUS
<1>1. TypeOK
  BY PortGateAssumption DEF PortGateAssumption, Init, TypeOK, PCs
<1>2. Holders = {} /\ SlotWaiters = {}
  BY DEF Init, Holders, SlotWaiters, Inside
<1>3. QED
  BY <1>1, <1>2, FS_EmptySet DEF Init, GateInv

\* Steps that leave both counters alone: one lemma for the moves that stay on
\* their side of the gate.
LEMMA QuietStep ==
    ASSUME GateInv, NEW t \in Threads,
           \/ Call(t) \/ SkipSlot(t) \/ SkipTokens(t) \/ TakeTokens(t)
           \/ SleepForTokens(t) \/ Answered(t) \/ Refused(t) \/ BodyThrows(t)
           \/ BackoffOver(t) \/ StreamEnds(t) \/ YieldOver(t)
    PROVE  /\ UNCHANGED <<count, waiting>>
           /\ t \notin SlotWaiters
           /\ \E l \in PCs \ {"slotwait"} :
                /\ Goto(t, l)
                /\ t \in Holders <=> (Gated(t) /\ l \in Inside)
<1> USE DEF gate, local, history, Holders, SlotWaiters, Inside, PCs, AfterSlot
<1>1. CASE Call(t)          BY <1>1 DEF Call
<1>2. CASE SkipSlot(t)      BY <1>2 DEF SkipSlot
<1>3. CASE SkipTokens(t)    BY <1>3 DEF SkipTokens
<1>4. CASE TakeTokens(t)    BY <1>4 DEF TakeTokens
<1>5. CASE SleepForTokens(t) BY <1>5 DEF SleepForTokens
<1>6. CASE Answered(t)
  BY <1>6, RetryType DEF Answered, GateInv
<1>7. CASE Refused(t)
  BY <1>7, RetryType DEF Refused, GateInv
<1>8. CASE BodyThrows(t)
  BY <1>8, RetryType DEF BodyThrows, GateInv
<1>9. CASE BackoffOver(t)   BY <1>9 DEF BackoffOver
<1>10. CASE StreamEnds(t)   BY <1>10 DEF StreamEnds
<1>11. CASE YieldOver(t)    BY <1>11 DEF YieldOver
<1>12. QED
  BY <1>1, <1>2, <1>3, <1>4, <1>5, <1>6, <1>7, <1>8, <1>9, <1>10, <1>11

\* The type of the variables a quiet step changes besides pc.
LEMMA QuietType ==
    ASSUME GateInv, NEW t \in Threads,
           \/ Call(t) \/ SkipSlot(t) \/ SkipTokens(t) \/ TakeTokens(t)
           \/ SleepForTokens(t) \/ Answered(t) \/ Refused(t) \/ BodyThrows(t)
           \/ BackoffOver(t) \/ StreamEnds(t) \/ YieldOver(t)
    PROVE  TypeOK'
<1> USE DEF gate, local, history
<1>0. TypeOK /\ Estimate[t] \in Nat /\ UsageTotals \subseteq Nat
  BY PortGateAssumption DEF PortGateAssumption, GateInv
<1>1. pc' \in [Threads -> PCs] /\ count' \in Nat /\ waiting' \in Nat
  BY <1>0, QuietStep DEF TypeOK, Goto
<1>2. CASE Call(t)
  BY <1>0, <1>1, <1>2, PortGateAssumption DEF PortGateAssumption, Call, TypeOK
<1>3. CASE SkipSlot(t) \/ SkipTokens(t) \/ BackoffOver(t) \/ StreamEnds(t) \/ YieldOver(t)
  BY <1>0, <1>1, <1>3
  DEF SkipSlot, SkipTokens, BackoffOver, StreamEnds, YieldOver, TypeOK
<1>4. CASE TakeTokens(t) \/ SleepForTokens(t)
  BY <1>0, <1>1, <1>4 DEF TakeTokens, SleepForTokens, TypeOK
<1>5. CASE Answered(t) \/ Refused(t)
  <2>1. tokens_in_flight' \in Nat /\ cv' \subseteq Threads
    BY <1>0, <1>5, ReleaseTokensType DEF Answered, Refused
  <2>2. leaked' \in Nat /\ overpaid' \in Nat
    BY <1>0, <1>5, AccountType DEF Answered, Refused, TypeOK
  <2>3. QED
    BY <1>0, <1>1, <1>5, <2>1, <2>2, RetryType DEF Answered, Refused, TypeOK
<1>6. CASE BodyThrows(t)
  <2>1. leaked' \in Nat /\ overpaid' \in Nat
    BY <1>0, <1>6, AccountType DEF BodyThrows
  <2>2. QED
    BY <1>0, <1>1, <1>6, <2>1, RetryType DEF BodyThrows, TypeOK
<1>7. QED
  BY <1>2, <1>3, <1>4, <1>5, <1>6

LEMMA NextInv == GateInv /\ [Next]_vars => GateInv'
<1> SUFFICES ASSUME GateInv, [Next]_vars PROVE GateInv'
  OBVIOUS
<1>0. TypeOK
  BY DEF GateInv
<1>1. CASE \E t \in Threads :
             \/ Call(t) \/ SkipSlot(t) \/ SkipTokens(t) \/ TakeTokens(t)
             \/ SleepForTokens(t) \/ Answered(t) \/ Refused(t) \/ BodyThrows(t)
             \/ BackoffOver(t) \/ StreamEnds(t) \/ YieldOver(t)
  BY <1>1, QuietStep, QuietType, Within DEF GateInv
<1>2. ASSUME NEW t \in Threads, TakeSlot(t) \/ WakeTakeSlot(t) PROVE GateInv'
  <2>1. AfterSlot(t) \in PCs \cap Inside /\ AfterSlot(t) # "slotwait"
    BY DEF AfterSlot, PCs, Inside
  <2>2. Gated(t) /\ t \notin Holders /\ Goto(t, AfterSlot(t)) /\ count < limit
    BY <1>2 DEF TakeSlot, WakeTakeSlot, Holders, Inside, SlotWaiters, GateInv
  <2>3. Holders' = Holders \cup {t} /\ SlotWaiters' = SlotWaiters \ {t}
    BY <1>0, <2>1, <2>2, HoldersMove, SlotWaitersMove
  <2>4. Cardinality(Holders') = count + 1
    BY <2>2, <2>3, FiniteGroups, FS_AddElement DEF GateInv
  <2>5. Cardinality(SlotWaiters') = IF t \in SlotWaiters THEN waiting - 1 ELSE waiting
    BY <2>3, FiniteGroups, FS_RemoveElement DEF GateInv
  <2>6. count' = Cardinality(Holders') /\ waiting' = Cardinality(SlotWaiters')
    BY <1>2, <2>4, <2>5 DEF TakeSlot, WakeTakeSlot, SlotWaiters
  <2>7. count' \in Nat /\ waiting' \in Nat
    <3>1. IsFiniteSet(SlotWaiters')
      BY <2>3, FiniteGroups, FS_RemoveElement
    <3>2. Cardinality(SlotWaiters') \in Nat /\ count \in Nat
      BY <1>0, <3>1, FS_CardinalityType DEF TypeOK
    <3>3. QED
      BY <2>4, <2>6, <3>2
  <2>8. TypeOK'
    BY <1>0, <1>2, <2>1, <2>7 DEF TakeSlot, WakeTakeSlot, TypeOK, Goto, local, history
  <2>9. count' <= limit
    BY <1>0, <1>2, <2>2, LimitType DEF TakeSlot, WakeTakeSlot, TypeOK
  <2>10. \A u \in SlotWaiters' : Gated(u)'
    BY <2>3 DEF GateInv, Gated
  <2>11. QED
    BY <2>6, <2>8, <2>9, <2>10 DEF GateInv
<1>3. ASSUME NEW t \in Threads, SleepForSlot(t) PROVE GateInv'
  <2>1. Goto(t, "slotwait") /\ Gated(t) /\ t \notin SlotWaiters /\ t \notin Holders
    BY <1>3 DEF SleepForSlot, SlotWaiters, Holders, Inside
  <2>2. Holders' = Holders /\ SlotWaiters' = SlotWaiters \cup {t}
    BY <1>0, <2>1, HoldersMove, SlotWaitersMove DEF PCs, Inside
  <2>3. count' = Cardinality(Holders') /\ waiting' = Cardinality(SlotWaiters')
    BY <1>3, <2>1, <2>2, FiniteGroups, FS_AddElement DEF SleepForSlot, GateInv
  <2>4. TypeOK'
    BY <1>0, <1>3 DEF SleepForSlot, TypeOK, Goto, PCs, local, history
  <2>5. \A u \in SlotWaiters' : Gated(u)'
    BY <2>1, <2>2 DEF GateInv, Gated
  <2>6. count' = 0 \/ count' <= limit
    BY <1>3 DEF SleepForSlot, GateInv
  <2>7. QED
    BY <2>3, <2>4, <2>5, <2>6 DEF GateInv
<1>4. ASSUME NEW t \in Threads, ReleaseSlot(t) PROVE GateInv'
  <2>1. PICK l \in {"yield", "idle"} : Goto(t, l)
    BY <1>4 DEF ReleaseSlot
  <2>2. t \notin SlotWaiters /\ (t \in Holders <=> Gated(t))
    BY <1>4 DEF ReleaseSlot, SlotWaiters, Holders, Inside
  <2>3. Holders' = Holders \ {t} /\ SlotWaiters' = SlotWaiters \ {t}
    BY <1>0, <2>1, HoldersMove, SlotWaitersMove DEF PCs, Inside
  <2>4. SlotWaiters' = SlotWaiters
    BY <2>2, <2>3
  <2>5. count' = Cardinality(Holders') /\ waiting' = Cardinality(SlotWaiters')
    BY <1>4, <2>2, <2>3, <2>4, FiniteGroups, FS_RemoveElement DEF ReleaseSlot, GateInv
  <2>6. count' \in Nat
    BY <2>3, <2>5, FiniteGroups, FS_RemoveElement, FS_CardinalityType
  <2>7. cv' \subseteq Threads
    BY <1>0, <1>4, NotifyOneType DEF ReleaseSlot, TypeOK
  <2>8. TypeOK'
    BY <1>0, <1>4, <2>1, <2>6, <2>7 DEF ReleaseSlot, TypeOK, Goto, PCs, local, history
  <2>9. count' = 0 \/ count' <= limit
    BY <1>0, <1>4, <2>6, LimitType DEF ReleaseSlot, GateInv, TypeOK
  <2>10. \A u \in SlotWaiters' : Gated(u)'
    BY <2>4 DEF GateInv, Gated
  <2>11. QED
    BY <2>5, <2>8, <2>9, <2>10 DEF GateInv
<1>5. ASSUME UNCHANGED <<pc, count, waiting, tokens_in_flight, local, history>>,
             cv' \subseteq Threads
      PROVE  GateInv'
  BY <1>0, <1>5 DEF GateInv, TypeOK, Holders, SlotWaiters, Gated, local, history
<1>6. ASSUME NEW t \in Threads, WakeSlotTaken(t) PROVE GateInv'
  BY <1>0, <1>5, <1>6 DEF WakeSlotTaken, TypeOK, local, history
<1>7. CASE SpuriousWakeup
  BY <1>0, <1>5, <1>7 DEF SpuriousWakeup, TypeOK
<1>8. CASE AllDone \/ UNCHANGED vars
  BY <1>0, <1>5, <1>8 DEF AllDone, vars, gate, history, TypeOK
<1>9. QED
  BY <1>1, <1>2, <1>3, <1>4, <1>6, <1>7, <1>8 DEF Next, Step

-----------------------------------------------------------------------------
\* The gate's variables have their types in every reachable state: a caller
\* that leaves never drives `count` or `waiting` below zero.
THEOREM TypeCorrect == Spec => []TypeOK
<1>1. GateInv => TypeOK
  BY DEF GateInv
<1>2. QED
  BY <1>1, InitInv, NextInv, PTL DEF Spec

\* The request gate counts right (PortSemaphore::acquire,
\* release_has_waiters): for every roster and any number of callers there are
\* never more callers between the two than the installed limit.
THEOREM CountsRight == Spec => []SlotsCounted
<1>1. GateInv => SlotsCounted
  BY LimitType DEF GateInv, SlotsCounted, TypeOK
<1>2. QED
  BY <1>1, InitInv, NextInv, PTL DEF Spec

-----------------------------------------------------------------------------
(* Token waiters                                                            *)

\* tokens_in_flight sinks in release_tokens only, which wakes everybody.
LEMMA SleepersStep ==
    ASSUME TypeOK, TypeOK', SleepersDoNotFit, [Next]_vars
    PROVE  SleepersDoNotFit'
<1> USE DEF gate, local, history, Goto, SleepersDoNotFit
<1>0. token_budget \in Int /\ \A t \in Threads : Estimate[t] \in Nat
  BY LimitType, PortGateAssumption DEF PortGateAssumption
<1>1. ASSUME cv' \subseteq cv, tokens_in_flight' >= tokens_in_flight,
             \A t \in cv' : pc'[t] = "tokenwait" => pc[t] = "tokenwait"
      PROVE  SleepersDoNotFit'
  BY <1>0, <1>1 DEF TypeOK, Fits
<1>2. ASSUME NEW actual \in Nat, ReleaseTokens(actual), NEW t \in Threads,
             \E l \in {"leave", "tokens", "backoff"} : Goto(t, l)
      PROVE  SleepersDoNotFit'
  <2>1. CASE UNCHANGED <<tokens_in_flight, cv>>
    BY <1>1, <1>2, <2>1 DEF TypeOK
  <2>2. CASE cv' = {}
    BY <2>2
  <2>3. QED
    BY <1>2, <2>1, <2>2 DEF ReleaseTokens
<1>3. ASSUME NEW t \in Threads, Answered(t) \/ Refused(t) PROVE SleepersDoNotFit'
  <2>1. \E l \in {"leave", "tokens", "backoff"} : Goto(t, l)
    BY <1>3, RetryType DEF Answered, Refused
  <2>2. \E actual \in Nat : ReleaseTokens(actual)
    BY <1>0, <1>3, PortGateAssumption DEF PortGateAssumption, Answered, Refused
  <2>3. QED
    BY <1>2, <2>1, <2>2
<1>4. ASSUME NEW t \in Threads, BodyThrows(t) PROVE SleepersDoNotFit'
  <2>1. \E l \in {"leave", "tokens", "backoff"} : Goto(t, l)
    BY <1>4, RetryType DEF BodyThrows
  <2>2. QED
    BY <1>1, <1>4, <2>1 DEF BodyThrows, TypeOK
<1>5. ASSUME NEW t \in Threads, SleepForTokens(t) PROVE SleepersDoNotFit'
  BY <1>0, <1>5 DEF SleepForTokens, TypeOK, Fits
<1>6. ASSUME NEW t \in Threads, SleepForSlot(t) \/ WakeSlotTaken(t) PROVE SleepersDoNotFit'
  BY <1>0, <1>6 DEF SleepForSlot, WakeSlotTaken, TypeOK, Fits
<1>7. ASSUME NEW t \in Threads, TakeTokens(t) PROVE SleepersDoNotFit'
  BY <1>0, <1>1, <1>7 DEF TakeTokens, TypeOK
<1>8. ASSUME NEW t \in Threads, Call(t) \/ SkipSlot(t) \/ SkipTokens(t) \/ BackoffOver(t)
                                 \/ StreamEnds(t) \/ YieldOver(t)
      PROVE  SleepersDoNotFit'
  BY <1>1, <1>8 DEF Call, SkipSlot, SkipTokens, BackoffOver, StreamEnds, YieldOver, AfterSlot, TypeOK
<1>9. ASSUME NEW t \in Threads, TakeSlot(t) \/ WakeTakeSlot(t) PROVE SleepersDoNotFit'
  BY <1>1, <1>9 DEF TakeSlot, WakeTakeSlot, AfterSlot, TypeOK
<1>10. ASSUME NEW t \in Threads, ReleaseSlot(t) PROVE SleepersDoNotFit'
  BY <1>1, <1>10 DEF ReleaseSlot, NotifyOne, TypeOK
<1>11. CASE SpuriousWakeup
  BY <1>1, <1>11 DEF SpuriousWakeup, TypeOK
<1>12. CASE AllDone \/ UNCHANGED vars
  BY <1>1, <1>12 DEF AllDone, vars, TypeOK
<1>13. QED
  BY <1>3, <1>4, <1>5, <1>6, <1>7, <1>8, <1>9, <1>10, <1>11, <1>12 DEF Next, Step

\* No wake-up for tokens is lost (acquire_tokens, release_tokens): whoever is
\* asleep for tokens would not be admitted if it looked.
THEOREM NoTokenWakeupLost == Spec => []SleepersDoNotFit
<1>1. Init => SleepersDoNotFit
  BY DEF Init, SleepersDoNotFit
<1>2. TypeOK /\ TypeOK' /\ SleepersDoNotFit /\ [Next]_vars => SleepersDoNotFit'
  BY SleepersStep
<1>3. QED
  BY <1>1, <1>2, TypeCorrect, PTL DEF Spec

-----------------------------------------------------------------------------
(* The gate is a counting semaphore                                         *)

Wanting == {t \in Threads : Gated(t) /\ pc[t] \in {"slot", "slotwait"}}

LEMMA SlotsStep ==
    ASSUME GateInv, [Next]_vars
    PROVE  [Slots!Next]_(Slots!svars)
<1> USE DEF gate, local, history
<1>0. TypeOK /\ count = Cardinality(Holders)
  BY DEF GateInv
<1>1. ASSUME UNCHANGED <<Wanting, Holders>> PROVE [Slots!Next]_(Slots!svars)
  BY <1>1 DEF Slots!svars, Wanting
<1>2. ASSUME NEW t \in Threads,
             Slots!Ask(t) \/ Slots!Grant(t) \/ Slots!GiveBack(t)
      PROVE  [Slots!Next]_(Slots!svars)
  BY <1>2 DEF Slots!Next
<1>3. ASSUME NEW t \in Threads, NEW l \in PCs, Goto(t, l)
      PROVE  Wanting' = IF Gated(t) /\ l \in {"slot", "slotwait"}
                          THEN Wanting \cup {t} ELSE Wanting \ {t}
  BY <1>0, <1>3 DEF Wanting, Gated, TypeOK, Goto
<1>4. ASSUME NEW t \in Threads, Call(t) PROVE [Slots!Next]_(Slots!svars)
  <2>1. pc[t] = "idle" /\ Goto(t, "slot") /\ "slot" \in PCs \ Inside
    BY <1>4 DEF Call, PCs, Inside
  <2>2. t \notin Wanting /\ t \notin Holders
    BY <2>1 DEF Wanting, Holders, Inside
  <2>3. Holders' = Holders /\ Wanting' = IF Gated(t) THEN Wanting \cup {t} ELSE Wanting
    BY <1>0, <1>3, <2>1, <2>2, HoldersMove
  <2>4. CASE Gated(t)
    <3>1. Slots!Ask(t)
      BY <2>2, <2>3, <2>4 DEF Slots!Ask, Wanting
    <3>2. QED
      BY <1>2, <3>1
  <2>5. QED
    BY <1>1, <2>3, <2>4
<1>5. ASSUME NEW t \in Threads, TakeSlot(t) \/ WakeTakeSlot(t)
      PROVE  [Slots!Next]_(Slots!svars)
  <2>1. /\ pc[t] \in {"slot", "slotwait"} /\ Goto(t, AfterSlot(t)) /\ count < limit
        /\ Gated(t)
    BY <1>5 DEF TakeSlot, WakeTakeSlot, GateInv, SlotWaiters
  <2>2. AfterSlot(t) \in PCs \cap Inside /\ AfterSlot(t) \notin {"slot", "slotwait"}
    BY DEF AfterSlot, PCs, Inside
  <2>3. t \in Wanting /\ Wanting' = Wanting \ {t} /\ Holders' = Holders \cup {t}
    BY <1>0, <1>3, <2>1, <2>2, HoldersMove DEF Wanting
  <2>4. Slots!Grant(t)
    <3>1. Slots!Cardinality(Holders) < limit
      <4>1. Slots!Cardinality(Holders) = Cardinality(Holders)
        BY Zenon DEF Slots!Cardinality, Cardinality
      <4>2. QED
        BY <1>0, <2>1, <4>1
    <3>2. QED
      BY <2>3, <3>1 DEF Slots!Grant, Wanting
  <2>5. QED
    BY <1>2, <2>4
<1>6. ASSUME NEW t \in Threads, ReleaseSlot(t) PROVE [Slots!Next]_(Slots!svars)
  <2>1. PICK l \in {"yield", "idle"} : Goto(t, l)
    BY <1>6 DEF ReleaseSlot
  <2>2. l \in PCs \ Inside /\ l \notin {"slot", "slotwait"} /\ pc[t] = "leave"
    BY <1>6 DEF PCs, Inside, ReleaseSlot
  <2>3. t \notin Wanting /\ (t \in Holders <=> Gated(t))
    BY <2>2 DEF Wanting, Holders, Inside
  <2>4. Wanting' = Wanting /\ Holders' = Holders \ {t}
    BY <1>0, <1>3, <2>1, <2>2, <2>3, HoldersMove
  <2>5. CASE Gated(t)
    <3>1. Slots!GiveBack(t)
      BY <2>3, <2>4, <2>5 DEF Slots!GiveBack, Wanting
    <3>2. QED
      BY <1>2, <3>1
  <2>6. QED
    BY <1>1, <2>3, <2>4, <2>5
<1>7. ASSUME NEW t \in Threads, SleepForSlot(t) PROVE [Slots!Next]_(Slots!svars)
  <2>1. pc[t] = "slot" /\ Gated(t) /\ Goto(t, "slotwait") /\ "slotwait" \in PCs \ Inside
    BY <1>7 DEF SleepForSlot, PCs, Inside
  <2>2. t \in Wanting /\ t \notin Holders
    BY <2>1 DEF Wanting, Holders, Inside
  <2>3. QED
    BY <1>0, <1>1, <1>3, <2>1, <2>2, HoldersMove
<1>8. ASSUME NEW t \in Threads,
             \/ SkipSlot(t) \/ SkipTokens(t) \/ TakeTokens(t)
             \/ SleepForTokens(t) \/ Answered(t) \/ Refused(t) \/ BodyThrows(t)
             \/ BackoffOver(t) \/ StreamEnds(t) \/ YieldOver(t)
      PROVE  [Slots!Next]_(Slots!svars)
  <2>1. PICK l \in PCs \ {"slotwait"} :
           Goto(t, l) /\ (t \in Holders <=> (Gated(t) /\ l \in Inside))
    BY <1>8, QuietStep
  <2>2. l # "slot"
    BY <1>0, <1>8, <2>1, RetryType DEF SkipSlot, SkipTokens, TakeTokens, SleepForTokens,
       Answered, Refused, BodyThrows, BackoffOver, StreamEnds, YieldOver, Goto, TypeOK, AfterSlot
  <2>3. t \notin Wanting
    BY <1>8 DEF Wanting, SkipSlot, SkipTokens, TakeTokens, SleepForTokens,
       Answered, Refused, BodyThrows, BackoffOver, StreamEnds, YieldOver
  <2>4. Wanting' = Wanting /\ Holders' = Holders
    BY <1>0, <1>3, <2>1, <2>2, <2>3, HoldersMove
  <2>5. QED
    BY <1>1, <2>4
<1>9. ASSUME UNCHANGED pc PROVE [Slots!Next]_(Slots!svars)
  BY <1>1, <1>9 DEF Wanting, Holders, Gated
<1>10. QED
  BY <1>4, <1>5, <1>6, <1>7, <1>8, <1>9
  DEF Next, Step, WakeSlotTaken, SpuriousWakeup, AllDone, vars

\* The gate, with its mutex, counter and condition variable, behaves towards
\* its callers as the counting semaphore SlotSemaphore: the safety part of
\* ImplementsSlots.
THEOREM GateIsSemaphore == Spec => Slots!Safety
<1>1. Init => Slots!Init
  BY DEF Init, Slots!Init, Holders, Inside
<1>2. GateInv /\ [Next]_vars => [Slots!Next]_(Slots!svars)
  BY SlotsStep
<1>3. QED
  BY <1>1, <1>2, InitInv, NextInv, PTL DEF Spec, Slots!Safety

-----------------------------------------------------------------------------
(* Sums of estimates                                                        *)

\* The sum of the estimates of the threads in S, which TokensHeld takes of the
\* requests that hold tokens.
TokenSum(S) == MapThenSumSet(LAMBDA t : Estimate[t], S)

\* As many things as the sum counts: one for each token of each thread of S.
Units(S) == {u \in Threads \X Nat : u[1] \in S /\ u[2] \in 1 .. Estimate[u[1]]}

LEMMA UnitsOfOne ==
    ASSUME NEW t \in Threads
    PROVE  IsFiniteSet(Units({t})) /\ Cardinality(Units({t})) = Estimate[t]
<1>1. Estimate[t] \in Nat
  BY PortGateAssumption DEF PortGateAssumption
<1>2. Units({t}) = {t} \X (1 .. Estimate[t])
  BY <1>1 DEF Units
<1>3. /\ IsFiniteSet({t}) /\ Cardinality({t}) = 1
      /\ IsFiniteSet(1 .. Estimate[t]) /\ Cardinality(1 .. Estimate[t]) = Estimate[t]
  <2>1. IsFiniteSet({t}) /\ Cardinality({t}) = 1
    BY FS_Singleton
  <2>2. /\ IsFiniteSet(1 .. Estimate[t])
        /\ Cardinality(1 .. Estimate[t]) =
             IF 1 > Estimate[t] THEN 0 ELSE Estimate[t] - 1 + 1
    BY <1>1, FS_Interval
  <2>3. QED
    BY <1>1, <2>1, <2>2
<1>4. /\ IsFiniteSet({t} \X (1 .. Estimate[t]))
      /\ Cardinality({t} \X (1 .. Estimate[t])) = 1 * Estimate[t]
  BY <1>3, FS_Product
<1>5. QED
  BY <1>1, <1>2, <1>4

LEMMA UnitsAdd ==
    ASSUME NEW S \in SUBSET Threads, IsFiniteSet(Units(S)), NEW t \in Threads \ S
    PROVE  /\ IsFiniteSet(Units(S \cup {t}))
           /\ Cardinality(Units(S \cup {t})) = Cardinality(Units(S)) + Estimate[t]
<1>1. Units(S \cup {t}) = Units(S) \cup Units({t})
  BY DEF Units
<1>2. Units(S) \cap Units({t}) = {}
  BY DEF Units
<1>3. IsFiniteSet(Units({t})) /\ Cardinality(Units({t})) = Estimate[t]
  BY UnitsOfOne
<1>4. /\ IsFiniteSet(Units(S) \cup Units({t}))
      /\ Cardinality(Units(S) \cup Units({t}))
           = Cardinality(Units(S)) + Cardinality(Units({t}))
             - Cardinality(Units(S) \cap Units({t}))
  BY <1>3, FS_Union
<1>5. Cardinality(Units(S) \cap Units({t})) = 0
  BY <1>2, FS_EmptySet
<1>6. Cardinality(Units(S)) \in Nat /\ Estimate[t] \in Nat
  BY FS_CardinalityType, PortGateAssumption DEF PortGateAssumption
<1>7. Cardinality(Units(S) \cup Units({t})) = Cardinality(Units(S)) + Estimate[t] - 0
  BY <1>3, <1>4, <1>5
<1>8. Cardinality(Units(S)) + Estimate[t] - 0 = Cardinality(Units(S)) + Estimate[t]
  BY <1>6
<1>9. IsFiniteSet(Units(S \cup {t}))
  BY <1>1, <1>4
<1>10. QED
  BY <1>1, <1>7, <1>8, <1>9

LEMMA UnitsOfNone == Units({}) = {}
BY DEF Units

\* A set of threads is smaller without one of them.
LEMMA Smaller ==
    ASSUME NEW S \in SUBSET Threads, NEW t \in S
    PROVE  /\ Cardinality(S) \in Nat /\ Cardinality(S \ {t}) \in Nat
           /\ Cardinality(S \ {t}) < Cardinality(S)
           /\ S \ {t} \in SUBSET Threads /\ t \in Threads \ (S \ {t})
           /\ (S \ {t}) \cup {t} = S
<1>1. IsFiniteSet(S)
  BY FS_Subset, PortGateAssumption DEF PortGateAssumption
<1>2. /\ Cardinality(S) \in Nat
      /\ IsFiniteSet(S \ {t}) /\ Cardinality(S \ {t}) = Cardinality(S) - 1
  BY <1>1, FS_CardinalityType, FS_RemoveElement
<1>3. Cardinality(S \ {t}) \in Nat
  BY <1>2, FS_CardinalityType
<1>4. QED
  BY <1>2, <1>3

LEMMA UnitsFinite ==
    ASSUME NEW S \in SUBSET Threads
    PROVE  IsFiniteSet(Units(S))
<1> DEFINE Bad == {n \in Nat : \E T \in SUBSET Threads :
                                 Cardinality(T) = n /\ ~IsFiniteSet(Units(T))}
<1>1. SUFFICES ASSUME Bad # {} PROVE FALSE
  <2>1. Cardinality(S) \in Nat
    BY FS_Subset, FS_CardinalityType, PortGateAssumption DEF PortGateAssumption
  <2>2. QED
    BY <2>1
<1>2. PICK n \in Bad : \A m \in Bad : n <= m
  <2>1. Bad \subseteq Nat
    OBVIOUS
  <2> HIDE DEF Bad
  <2>2. QED
    BY <1>1, <2>1, Least
<1>3. PICK T \in SUBSET Threads : Cardinality(T) = n /\ ~IsFiniteSet(Units(T))
  BY <1>2
<1>4. T # {}
  BY <1>3, UnitsOfNone, FS_EmptySet
<1>5. PICK t \in T : TRUE
  BY <1>4
<1>6. /\ Cardinality(T) \in Nat /\ Cardinality(T \ {t}) \in Nat
      /\ Cardinality(T \ {t}) < Cardinality(T)
      /\ T \ {t} \in SUBSET Threads /\ t \in Threads \ (T \ {t})
      /\ (T \ {t}) \cup {t} = T
  BY Smaller
<1>7. IsFiniteSet(Units(T \ {t}))
  <2>1. Cardinality(T \ {t}) \notin Bad
    BY <1>2, <1>3, <1>6
  <2>2. QED
    BY <1>6, <2>1
<1>8. IsFiniteSet(Units((T \ {t}) \cup {t}))
  BY <1>6, <1>7, UnitsAdd
<1>9. QED
  BY <1>3, <1>6, <1>8

\* The recursive function TokenSum stands for has a solution, and only one:
\* the number of units.
LEMMA TokenSumIsUnits ==
    ASSUME NEW S \in SUBSET Threads
    PROVE  TokenSum(S) = Cardinality(Units(S))
<1> DEFINE c(s) == CHOOSE x \in s : TRUE
           Solves(g) == g = [s \in SUBSET S |->
                               IF s = {} THEN 0 ELSE Estimate[c(s)] + g[s \ {c(s)}]]
           units == [s \in SUBSET S |-> Cardinality(Units(s))]
           sum == CHOOSE g : Solves(g)
<1>1. TokenSum(S) = sum[S]
  BY DEF TokenSum, MapThenSumSet, MapThenFoldSet
<1>2. ASSUME NEW s \in SUBSET S, s # {}
      PROVE  /\ c(s) \in s /\ s \ {c(s)} \in SUBSET S
             /\ Cardinality(Units(s)) = Estimate[c(s)] + Cardinality(Units(s \ {c(s)}))
  <2>1. c(s) \in s
    BY <1>2
  <2> HIDE DEF c
  <2>2. s \in SUBSET Threads
    OBVIOUS
  <2>3. /\ s \ {c(s)} \in SUBSET Threads /\ c(s) \in Threads \ (s \ {c(s)})
        /\ (s \ {c(s)}) \cup {c(s)} = s
    BY <2>1, <2>2, Smaller
  <2>4. IsFiniteSet(Units(s \ {c(s)}))
    BY <2>3, UnitsFinite
  <2>5. Cardinality(Units(s)) = Cardinality(Units(s \ {c(s)})) + Estimate[c(s)]
    BY <2>3, <2>4, UnitsAdd
  <2>6. Cardinality(Units(s \ {c(s)})) \in Nat /\ Estimate[c(s)] \in Nat
    BY <2>3, <2>4, FS_CardinalityType, PortGateAssumption DEF PortGateAssumption
  <2>7. QED
    BY <2>1, <2>5, <2>6
<1> HIDE DEF c
<1>3. Cardinality(Units({})) = 0
  BY UnitsOfNone, FS_EmptySet
<1>4. Solves(units)
  BY <1>2, <1>3
<1> HIDE DEF units
<1>5. Solves(sum)
  BY <1>4
<1> HIDE DEF sum
<1>6. /\ sum[{}] = 0
      /\ \A s \in SUBSET S : s # {} => sum[s] = Estimate[c(s)] + sum[s \ {c(s)}]
  BY <1>5
<1> HIDE DEF Solves
<1> DEFINE Bad == {n \in Nat : \E s \in SUBSET S :
                                 Cardinality(s) = n /\ sum[s] # Cardinality(Units(s))}
<1>7. SUFFICES ASSUME Bad # {} PROVE FALSE
  <2>1. Cardinality(S) \in Nat
    BY FS_Subset, FS_CardinalityType, PortGateAssumption DEF PortGateAssumption
  <2>2. QED
    BY <1>1, <2>1
<1>8. PICK n \in Bad : \A m \in Bad : n <= m
  <2>1. Bad \subseteq Nat
    OBVIOUS
  <2> HIDE DEF Bad
  <2>2. QED
    BY <1>7, <2>1, Least
<1>9. PICK s \in SUBSET S : Cardinality(s) = n /\ sum[s] # Cardinality(Units(s))
  BY <1>8
<1>10. s # {}
  BY <1>3, <1>6, <1>9
<1>11. c(s) \in s /\ s \ {c(s)} \in SUBSET S /\ s \in SUBSET Threads
  BY <1>2, <1>10
<1>12. /\ Cardinality(s \ {c(s)}) \in Nat /\ Cardinality(s) \in Nat
       /\ Cardinality(s \ {c(s)}) < Cardinality(s)
  BY <1>11, Smaller
<1>13. sum[s \ {c(s)}] = Cardinality(Units(s \ {c(s)}))
  BY <1>8, <1>9, <1>11, <1>12
<1>14. QED
  BY <1>2, <1>6, <1>9, <1>10, <1>13

\* How the sum follows a thread that starts or ends holding its tokens.
LEMMA TokenSumMoves ==
    ASSUME NEW S \in SUBSET Threads
    PROVE  /\ TokenSum(S) \in Nat
           /\ S = {} => TokenSum(S) = 0
           /\ \A t \in Threads \ S : TokenSum(S \cup {t}) = TokenSum(S) + Estimate[t]
           /\ \A t \in S : TokenSum(S) = TokenSum(S \ {t}) + Estimate[t]
<1>1. ASSUME NEW T \in SUBSET Threads
      PROVE  TokenSum(T) \in Nat /\ IsFiniteSet(Units(T))
  BY <1>1, TokenSumIsUnits, UnitsFinite, FS_CardinalityType
<1>2. S = {} => TokenSum(S) = 0
  BY TokenSumIsUnits, UnitsOfNone, FS_EmptySet
<1>3. ASSUME NEW T \in SUBSET Threads, NEW t \in Threads \ T
      PROVE  TokenSum(T \cup {t}) = TokenSum(T) + Estimate[t]
  <2>1. T \cup {t} \in SUBSET Threads
    OBVIOUS
  <2>2. QED
    BY <1>1, <2>1, TokenSumIsUnits, UnitsAdd
<1>4. ASSUME NEW t \in S PROVE TokenSum(S) = TokenSum(S \ {t}) + Estimate[t]
  BY <1>3, Smaller
<1>5. QED
  BY <1>1, <1>2, <1>3, <1>4

-----------------------------------------------------------------------------
(* The token ledger                                                         *)

\* Who sleeps is in one of the two wait loops, and who waits for tokens asked
\* for some of a budget.
SleepInv ==
    \A t \in Threads :
        /\ t \in cv => pc[t] \in {"slotwait", "tokenwait"}
        /\ pc[t] = "tokenwait" => token_budget > 0 /\ Estimate[t] > 0

LEMMA SleepStep ==
    ASSUME TypeOK, SleepInv, [Next]_vars
    PROVE  SleepInv'
<1> USE DEF gate, local, history
<1>1. ASSUME NEW t \in Threads, NEW l \in PCs \ {"tokenwait"}, Goto(t, l),
             t \notin cv, cv' \subseteq cv \cup (IF l = "slotwait" THEN {t} ELSE {})
      PROVE  SleepInv'
  BY <1>1 DEF SleepInv, TypeOK, Goto
<1>2. ASSUME NEW t \in Threads, Call(t) \/ SkipSlot(t) \/ SkipTokens(t) \/ BackoffOver(t)
                                 \/ StreamEnds(t) \/ YieldOver(t) \/ SleepForSlot(t)
      PROVE  SleepInv'
  BY <1>1, <1>2 DEF SleepInv, Call, SkipSlot, SkipTokens, BackoffOver, StreamEnds, YieldOver,
     SleepForSlot, AfterSlot, PCs
<1>3. ASSUME NEW t \in Threads, TakeSlot(t) \/ WakeTakeSlot(t) PROVE SleepInv'
  BY <1>1, <1>3 DEF SleepInv, TakeSlot, WakeTakeSlot, AfterSlot, PCs
<1>4. ASSUME NEW t \in Threads, TakeTokens(t) PROVE SleepInv'
  BY <1>1, <1>4 DEF SleepInv, TakeTokens, PCs
<1>5. ASSUME NEW t \in Threads, SleepForTokens(t) PROVE SleepInv'
  BY <1>5 DEF SleepInv, SleepForTokens, TypeOK, Goto
<1>6. ASSUME NEW t \in Threads, Answered(t) \/ Refused(t) \/ BodyThrows(t) PROVE SleepInv'
  <2>1. PICK l \in {"leave", "tokens", "backoff"} : Goto(t, l)
    BY <1>6, RetryType DEF Answered, Refused, BodyThrows
  <2>2. cv' \subseteq cv /\ t \notin cv
    BY <1>6 DEF SleepInv, Answered, Refused, BodyThrows, ReleaseTokens
  <2>3. QED
    BY <1>1, <2>1, <2>2 DEF PCs
<1>7. ASSUME NEW t \in Threads, ReleaseSlot(t) PROVE SleepInv'
  <2>1. PICK l \in {"yield", "idle"} : Goto(t, l)
    BY <1>7 DEF ReleaseSlot
  <2>2. cv' \subseteq cv /\ t \notin cv
    BY <1>7 DEF SleepInv, ReleaseSlot, NotifyOne
  <2>3. QED
    BY <1>1, <2>1, <2>2 DEF PCs
<1>8. ASSUME NEW t \in Threads, WakeSlotTaken(t) PROVE SleepInv'
  BY <1>8 DEF SleepInv, WakeSlotTaken
<1>9. CASE SpuriousWakeup
  BY <1>9 DEF SleepInv, SpuriousWakeup
<1>10. CASE AllDone \/ UNCHANGED vars
  BY <1>10 DEF SleepInv, AllDone, vars
<1>11. QED
  BY <1>2, <1>3, <1>4, <1>5, <1>6, <1>7, <1>8, <1>9, <1>10 DEF Next, Step

Spending == {t \in Threads : HoldsTokens(t)}

LEMMA HeldIsSum ==
    /\ TokensHeld = TokenSum(Spending)
    /\ TokensHeld' = TokenSum(Spending')
BY DEF TokensHeld, TokenSum, Spending, MapThenSumSet, MapThenFoldSet

LEMMA SpendingMove ==
    ASSUME TypeOK, NEW t \in Threads, NEW l \in PCs, Goto(t, l)
    PROVE  Spending' = IF l = "http" /\ token_budget > 0 /\ Estimate[t] > 0
                         THEN Spending \cup {t} ELSE Spending \ {t}
BY DEF TypeOK, Goto, Spending, HoldsTokens

\* What the end of an attempt of thread t does that gives back `actual`.
Gives(t, actual) ==
    /\ token_budget > 0 /\ Spending' = Spending \ {t}
    /\ t \in Spending \/ Estimate[t] = 0
    /\ tokens_in_flight' = IF tokens_in_flight >= actual THEN tokens_in_flight - actual ELSE 0
    /\ leaked' = leaked + (IF actual < Estimate[t] THEN Estimate[t] - actual ELSE 0)
    /\ overpaid' = overpaid + (IF actual > Estimate[t] THEN actual - Estimate[t] ELSE 0)

Takes(t) ==
    /\ t \notin Spending /\ Spending' = Spending \cup {t}
    /\ tokens_in_flight' = tokens_in_flight + Estimate[t] /\ tokens_in_flight' <= token_budget
    /\ UNCHANGED <<leaked, overpaid>>

LedgerStays == UNCHANGED <<Spending, tokens_in_flight, leaked, overpaid>>

\* The end of an attempt, however it ends.
LEMMA LedgerGives ==
    ASSUME TypeOK, NEW t \in Threads, pc[t] = "http", NEW actual \in Nat,
           \E l \in PCs \ {"http"} : Goto(t, l),
           ReleaseTokens(actual) \/ (actual = 0 /\ UNCHANGED tokens_in_flight),
           Account(t, actual)
    PROVE  LedgerStays \/ Gives(t, actual)
<1>0. token_budget \in Int /\ Estimate[t] \in Nat /\ tokens_in_flight \in Nat
  BY LimitType, PortGateAssumption DEF PortGateAssumption, TypeOK
<1>1. Spending' = Spending \ {t}
  BY SpendingMove
<1>2. CASE token_budget <= 0
  <2>1. t \notin Spending
    BY <1>0, <1>2 DEF Spending, HoldsTokens
  <2>2. UNCHANGED <<tokens_in_flight, leaked, overpaid>>
    BY <1>2 DEF ReleaseTokens, Account, history
  <2>3. QED
    BY <1>1, <2>1, <2>2 DEF LedgerStays
<1>3. CASE token_budget > 0
  <2>1. t \in Spending \/ Estimate[t] = 0
    BY <1>0, <1>3 DEF Spending, HoldsTokens
  <2>2. tokens_in_flight' = IF tokens_in_flight >= actual THEN tokens_in_flight - actual ELSE 0
    BY <1>0, <1>3 DEF ReleaseTokens
  <2>3. QED
    BY <1>0, <1>1, <1>3, <2>1, <2>2 DEF Gives, Account
<1>4. QED
  BY <1>0, <1>2, <1>3

\* What a step does to the requests that hold tokens and to the ledger.
LEMMA LedgerMoves ==
    ASSUME TypeOK, SleepInv, [Next]_vars
    PROVE  \/ LedgerStays
           \/ \E t \in Threads : Takes(t)
           \/ \E t \in Threads, actual \in Nat : Gives(t, actual)
<1> USE DEF gate, local, history
<1>0. /\ token_budget \in Int /\ \A t \in Threads : Estimate[t] \in Nat
      /\ UsageTotals \subseteq Nat
  BY LimitType, PortGateAssumption DEF PortGateAssumption
<1>1. ASSUME NEW t \in Threads, NEW l \in PCs \ {"http"}, Goto(t, l), pc[t] # "http",
             UNCHANGED <<tokens_in_flight, leaked, overpaid>>
      PROVE  LedgerStays
  <2>1. t \notin Spending
    BY <1>1 DEF Spending, HoldsTokens
  <2>2. QED
    BY <1>1, <2>1, SpendingMove DEF LedgerStays
<1>2. ASSUME NEW t \in Threads, Call(t) \/ SkipSlot(t) \/ BackoffOver(t) \/ SleepForTokens(t)
                                 \/ StreamEnds(t) \/ YieldOver(t) \/ SleepForSlot(t)
      PROVE  LedgerStays
  BY <1>1, <1>2 DEF Call, SkipSlot, BackoffOver, StreamEnds, YieldOver, SleepForTokens,
     SleepForSlot, AfterSlot, PCs
<1>3. ASSUME NEW t \in Threads, TakeSlot(t) \/ WakeTakeSlot(t) PROVE LedgerStays
  BY <1>1, <1>3 DEF TakeSlot, WakeTakeSlot, AfterSlot, PCs
<1>4. ASSUME NEW t \in Threads, ReleaseSlot(t) PROVE LedgerStays
  <2>1. \E l \in {"yield", "idle"} : Goto(t, l)
    BY <1>4 DEF ReleaseSlot
  <2>2. pc[t] # "http" /\ UNCHANGED <<tokens_in_flight, leaked, overpaid>>
    BY <1>4 DEF ReleaseSlot
  <2>3. QED
    BY <1>1, <2>1, <2>2 DEF PCs
<1>5. ASSUME NEW t \in Threads, SkipTokens(t) PROVE LedgerStays
  <2>1. /\ t \notin Spending /\ Goto(t, "http") /\ "http" \in PCs
        /\ UNCHANGED <<tokens_in_flight, leaked, overpaid>>
    BY <1>5 DEF SkipTokens, Spending, HoldsTokens, PCs
  <2>2. ~(token_budget > 0 /\ Estimate[t] > 0)
    BY <1>0, <1>5 DEF SkipTokens
  <2>3. QED
    BY <2>1, <2>2, SpendingMove DEF LedgerStays
<1>6. ASSUME NEW t \in Threads, TakeTokens(t) PROVE Takes(t)
  <2>1. /\ t \notin Spending /\ Goto(t, "http") /\ "http" \in PCs
        /\ tokens_in_flight' = tokens_in_flight + Estimate[t]
        /\ tokens_in_flight' <= token_budget /\ UNCHANGED <<leaked, overpaid>>
    BY <1>6 DEF TakeTokens, Spending, HoldsTokens, PCs, Fits
  <2>2. token_budget > 0 /\ Estimate[t] > 0
    BY <1>6 DEF TakeTokens, SleepInv
  <2>3. QED
    BY <2>1, <2>2, SpendingMove DEF Takes
<1>7. ASSUME NEW t \in Threads, Answered(t) \/ Refused(t) \/ BodyThrows(t)
      PROVE  LedgerStays \/ \E actual \in Nat : Gives(t, actual)
  <2>1. (\E l \in PCs \ {"http"} : Goto(t, l)) /\ pc[t] = "http"
    BY <1>7, RetryType DEF Answered, Refused, BodyThrows, PCs
  <2>2. CASE Answered(t)
    <3>1. PICK actual \in Nat : ReleaseTokens(actual) /\ Account(t, actual)
      BY <1>0, <2>2 DEF Answered
    <3>2. QED
      BY <2>1, <3>1, LedgerGives
  <2>3. CASE Refused(t)
    <3>1. ReleaseTokens(Estimate[t]) /\ UNCHANGED <<leaked, overpaid>> /\ Estimate[t] \in Nat
      BY <1>0, <2>3 DEF Refused
    <3>2. leaked \in Nat /\ overpaid \in Nat
      BY DEF TypeOK
    <3>3. Account(t, Estimate[t])
      BY <3>1, <3>2 DEF Account
    <3>4. QED
      BY <2>1, <3>1, <3>3, LedgerGives
  <2>4. CASE BodyThrows(t)
    <3>1. Account(t, 0) /\ UNCHANGED tokens_in_flight /\ 0 \in Nat
      BY <2>4 DEF BodyThrows
    <3>2. QED
      BY <2>1, <3>1, LedgerGives
  <2>5. QED
    BY <1>7, <2>2, <2>3, <2>4
<1>8. ASSUME UNCHANGED <<pc, tokens_in_flight, leaked, overpaid>> PROVE LedgerStays
  BY <1>8 DEF Spending, HoldsTokens, LedgerStays
<1>9. CASE \E t \in Threads : TakeTokens(t)
  BY <1>6, <1>9
<1>10. CASE \E t \in Threads : Answered(t) \/ Refused(t) \/ BodyThrows(t)
  BY <1>7, <1>10
<1>11. QED
  BY <1>2, <1>3, <1>4, <1>5, <1>8, <1>9, <1>10
  DEF Next, Step, WakeSlotTaken, SpuriousWakeup, AllDone, vars

\* LedgerAccounted, and that nothing is admitted past the budget.
LedgerInv ==
    /\ TokensHeld - overpaid <= tokens_in_flight
    /\ tokens_in_flight <= TokensHeld + leaked
    /\ tokens_in_flight = 0 \/ tokens_in_flight <= token_budget

LEMMA LedgerStep ==
    ASSUME TypeOK, SleepInv, LedgerInv, [Next]_vars
    PROVE  LedgerInv'
<1> DEFINE held == TokenSum(Spending)
           held2 == TokenSum(Spending')
<1>0. /\ Spending \in SUBSET Threads /\ TokensHeld = held /\ TokensHeld' = held2
      /\ \A t \in Threads : Estimate[t] \in Nat
      /\ {tokens_in_flight, leaked, overpaid} \subseteq Nat /\ token_budget \in Int
  BY HeldIsSum, LimitType, PortGateAssumption DEF Spending, PortGateAssumption, TypeOK
<1>1. held \in Nat
  BY <1>0, TokenSumMoves
<1>2. CASE LedgerStays
  BY <1>0, <1>2 DEF LedgerStays, LedgerInv
<1>3. ASSUME NEW t \in Threads, Takes(t) PROVE LedgerInv'
  <2>1. held2 = held + Estimate[t]
    BY <1>0, <1>3, TokenSumMoves DEF Takes
  <2> HIDE DEF held, held2
  <2>2. QED
    BY <1>0, <1>1, <1>3, <2>1 DEF Takes, LedgerInv
<1>4. ASSUME NEW t \in Threads, NEW actual \in Nat, Gives(t, actual) PROVE LedgerInv'
  <2>1. held = held2 + Estimate[t] /\ held2 \in Nat
    <3>1. CASE t \in Spending
      <4>1. Spending \ {t} \in SUBSET Threads
        BY <1>0
      <4>2. QED
        BY <1>0, <1>4, <3>1, <4>1, TokenSumMoves DEF Gives
    <3>2. CASE t \notin Spending
      <4>1. Spending' = Spending /\ Estimate[t] = 0
        BY <1>4, <3>2 DEF Gives
      <4>2. QED
        BY <1>1, <4>1
    <3>3. QED
      BY <3>1, <3>2
  <2> HIDE DEF held, held2
  <2>2. /\ tokens_in_flight' = IF tokens_in_flight >= actual THEN tokens_in_flight - actual
                                                             ELSE 0
        /\ leaked' = leaked + (IF actual < Estimate[t] THEN Estimate[t] - actual ELSE 0)
        /\ overpaid' = overpaid + (IF actual > Estimate[t] THEN actual - Estimate[t] ELSE 0)
    BY <1>4 DEF Gives
  <2>3. held2 - overpaid' <= tokens_in_flight'
    BY <1>0, <1>1, <2>1, <2>2 DEF LedgerInv
  <2>4. tokens_in_flight' <= held2 + leaked'
    BY <1>0, <1>1, <2>1, <2>2 DEF LedgerInv
  <2>5. tokens_in_flight' = 0 \/ tokens_in_flight' <= token_budget
    BY <1>0, <2>2 DEF LedgerInv
  <2>6. QED
    BY <1>0, <2>3, <2>4, <2>5 DEF LedgerInv
<1>5. QED
  BY <1>2, <1>3, <1>4, LedgerMoves

LEMMA SleepInvariant == Spec => []SleepInv
<1>1. Init => SleepInv
  BY DEF Init, SleepInv
<1>2. TypeOK /\ SleepInv /\ [Next]_vars => SleepInv'
  BY SleepStep
<1>3. QED
  BY <1>1, <1>2, TypeCorrect, PTL DEF Spec

LEMMA LedgerInvariant == Spec => []LedgerInv
<1>1. Init => LedgerInv
  <2> SUFFICES ASSUME Init PROVE LedgerInv
    OBVIOUS
  <2>1. Spending = {}
    BY DEF Init, Spending, HoldsTokens
  <2>2. TokensHeld = 0
    BY <2>1, HeldIsSum, TokenSumMoves
  <2>3. QED
    BY <2>2 DEF Init, LedgerInv
<1>2. TypeOK /\ SleepInv /\ LedgerInv /\ [Next]_vars => LedgerInv'
  BY LedgerStep
<1>3. QED
  BY <1>1, <1>2, TypeCorrect, SleepInvariant, PTL DEF Spec

\* Only requests in flight hold tokens.
LEMMA HeldBySomebody ==
    /\ TokensHeld \in Nat
    /\ TokensHeld # 0 => token_budget > 0 /\ \E u \in Threads : HoldsTokens(u)
<1>1. Spending \in SUBSET Threads
  BY DEF Spending
<1>2. TokensHeld \in Nat /\ (Spending = {} => TokensHeld = 0)
  BY <1>1, HeldIsSum, TokenSumMoves
<1>3. QED
  BY <1>2 DEF Spending, HoldsTokens

\* The ledger of a port's budget over any number of attempts, replies of any
\* usage, refusals and throwing bodies: it is off by no more than what replies
\* gave back too little or too much (release_tokens, agent_client_http.cpp:
\* 99-101), and the server is given no more than the budget and what was
\* overpaid. Where every release is of the estimate it is exact.
THEOREM LedgerBounded == Spec => []LedgerAccounted
<1>1. TypeOK /\ LedgerInv => LedgerAccounted
  <2> SUFFICES ASSUME TypeOK, LedgerInv PROVE LedgerAccounted
    OBVIOUS
  <2>1. /\ {tokens_in_flight, leaked, overpaid, TokensHeld} \subseteq Nat /\ token_budget \in Int
        /\ TokensHeld # 0 => token_budget > 0
    BY HeldBySomebody, LimitType DEF TypeOK
  <2> HIDE DEF TokensHeld
  <2>2. TokensHeld = 0 \/ TokensHeld <= token_budget + overpaid
    BY <2>1 DEF LedgerInv
  <2>3. QED
    BY <2>2 DEF LedgerInv, LedgerAccounted
<1>2. QED
  BY <1>1, TypeCorrect, LedgerInvariant, PTL DEF Spec

-----------------------------------------------------------------------------
(* Slot waiters                                                             *)

\* The threads, asleep or woken, that wait for tokens and would not get them.
TokenWaiters == {t \in Threads : pc[t] = "tokenwait" /\ ~Fits(t)}

\* That some thread is awake when a slot is free is not inductive: the thread
\* that takes one slot may leave a second one free.  There are as many awake
\* as there are free slots, or a thread that waits for tokens.
AwakeEnough ==
    SlotWaiters \cap cv # {} =>
        limit - count <= Cardinality(SlotWaiters \ cv) \/ TokenWaiters # {}

LEMMA Awake ==
    /\ IsFiniteSet(SlotWaiters \ cv) /\ Cardinality(SlotWaiters \ cv) \in Nat
    /\ IsFiniteSet((SlotWaiters \ cv)') /\ Cardinality((SlotWaiters \ cv)') \in Nat
<1>1. SlotWaiters \ cv \in SUBSET Threads /\ (SlotWaiters \ cv)' \in SUBSET Threads
  BY DEF SlotWaiters
<1>2. QED
  BY <1>1, FS_Subset, FS_CardinalityType, PortGateAssumption DEF PortGateAssumption

\* Who waits for tokens goes on waiting, unless some are given back: then
\* everybody is awake.
LEMMA TokenWaitersStay ==
    ASSUME TypeOK, TypeOK', [Next]_vars, cv' # {}
    PROVE  TokenWaiters \subseteq TokenWaiters'
<1> USE DEF gate, local, history, Goto
<1>0. token_budget \in Int /\ \A t \in Threads : Estimate[t] \in Nat
  BY LimitType, PortGateAssumption DEF PortGateAssumption
<1>1. ASSUME tokens_in_flight' >= tokens_in_flight,
             \A u \in TokenWaiters : pc'[u] = "tokenwait"
      PROVE  TokenWaiters \subseteq TokenWaiters'
  BY <1>0, <1>1 DEF TypeOK, TokenWaiters, Fits
<1>2. ASSUME NEW t \in Threads, t \notin TokenWaiters, NEW l \in PCs, Goto(t, l),
             tokens_in_flight' >= tokens_in_flight
      PROVE  TokenWaiters \subseteq TokenWaiters'
  <2>1. \A u \in TokenWaiters : pc'[u] = "tokenwait"
    BY <1>2 DEF TypeOK, TokenWaiters
  <2>2. QED
    BY <1>1, <1>2, <2>1
<1>3. tokens_in_flight \in Nat /\ tokens_in_flight' \in Nat
  BY DEF TypeOK
<1>4. ASSUME NEW t \in Threads, Call(t) \/ SkipSlot(t) \/ SkipTokens(t) \/ BackoffOver(t)
                                 \/ StreamEnds(t) \/ YieldOver(t) \/ SleepForSlot(t)
      PROVE  TokenWaiters \subseteq TokenWaiters'
  BY <1>2, <1>3, <1>4 DEF Call, SkipSlot, SkipTokens, BackoffOver, StreamEnds, YieldOver,
     SleepForSlot, AfterSlot, PCs, TokenWaiters
<1>5. ASSUME NEW t \in Threads, TakeSlot(t) \/ WakeTakeSlot(t)
      PROVE  TokenWaiters \subseteq TokenWaiters'
  BY <1>2, <1>3, <1>5 DEF TakeSlot, WakeTakeSlot, AfterSlot, PCs, TokenWaiters
<1>6. ASSUME NEW t \in Threads, TakeTokens(t) PROVE TokenWaiters \subseteq TokenWaiters'
  <2>1. t \notin TokenWaiters /\ Goto(t, "http") /\ "http" \in PCs
    BY <1>6 DEF TakeTokens, TokenWaiters, PCs
  <2>2. tokens_in_flight' >= tokens_in_flight
    BY <1>0, <1>3, <1>6 DEF TakeTokens
  <2>3. QED
    BY <1>2, <2>1, <2>2
<1>7. ASSUME NEW t \in Threads, SleepForTokens(t) PROVE TokenWaiters \subseteq TokenWaiters'
  <2>1. \A u \in TokenWaiters : pc'[u] = "tokenwait"
    BY <1>7 DEF SleepForTokens, TokenWaiters, TypeOK
  <2>2. QED
    BY <1>1, <1>3, <1>7, <2>1 DEF SleepForTokens
<1>8. ASSUME NEW t \in Threads, Answered(t) \/ Refused(t) \/ BodyThrows(t)
      PROVE  TokenWaiters \subseteq TokenWaiters'
  <2>1. PICK l \in {"leave", "tokens", "backoff"} : Goto(t, l)
    BY <1>8, RetryType DEF Answered, Refused, BodyThrows
  <2>2. l \in PCs /\ t \notin TokenWaiters
    BY <1>8 DEF PCs, TokenWaiters, Answered, Refused, BodyThrows
  <2>3. tokens_in_flight' >= tokens_in_flight
    BY <1>3, <1>8 DEF Answered, Refused, BodyThrows, ReleaseTokens
  <2>4. \A u \in TokenWaiters : pc'[u] = "tokenwait"
    BY <2>1, <2>2 DEF TypeOK, TokenWaiters
  <2>5. QED
    BY <1>1, <2>3, <2>4
<1>9. ASSUME NEW t \in Threads, ReleaseSlot(t) PROVE TokenWaiters \subseteq TokenWaiters'
  <2>1. PICK l \in {"yield", "idle"} : Goto(t, l)
    BY <1>9 DEF ReleaseSlot
  <2>2. l \in PCs /\ t \notin TokenWaiters /\ UNCHANGED tokens_in_flight
    BY <1>9 DEF PCs, TokenWaiters, ReleaseSlot
  <2>3. \A u \in TokenWaiters : pc'[u] = "tokenwait"
    BY <2>1, <2>2 DEF TypeOK, TokenWaiters
  <2>4. QED
    BY <1>1, <1>3, <2>2, <2>3
<1>10. ASSUME UNCHANGED <<pc, tokens_in_flight>> PROVE TokenWaiters \subseteq TokenWaiters'
  BY <1>10 DEF TokenWaiters, Fits
<1>11. QED
  BY <1>4, <1>5, <1>6, <1>7, <1>8, <1>9, <1>10
  DEF Next, Step, WakeSlotTaken, SpuriousWakeup, AllDone, vars

LEMMA AwakeStep ==
    ASSUME GateInv, TypeOK', SleepInv, SleepersDoNotFit, AwakeEnough, [Next]_vars
    PROVE  AwakeEnough'
<1> SUFFICES ASSUME (SlotWaiters \cap cv)' # {}, TokenWaiters' = {}
             PROVE  limit - count' <= Cardinality((SlotWaiters \ cv)')
  BY DEF AwakeEnough
<1> USE DEF gate, local, history
<1>0. TypeOK /\ limit \in Int /\ count \in Nat
  BY LimitType DEF GateInv, TypeOK
<1>s. cv' # {} /\ TokenWaiters = {}
  <2>1. cv' # {}
    OBVIOUS
  <2>2. QED
    BY <1>0, <2>1, TokenWaitersStay
<1>a. SlotWaiters \cap cv # {} => limit - count <= Cardinality(SlotWaiters \ cv)
  BY <1>s DEF AwakeEnough
\* Steps that leave the slots and the threads asleep for one alone.
<1>1. ASSUME UNCHANGED <<count, SlotWaiters>>, SlotWaiters \cap cv' = SlotWaiters \cap cv
      PROVE  limit - count' <= Cardinality((SlotWaiters \ cv)')
  <2>1. SlotWaiters \ cv' = SlotWaiters \ cv
    BY <1>1
  <2>2. QED
    BY <1>1, <1>a, <2>1
<1>2. ASSUME NEW t \in Threads,
             \/ Call(t) \/ SkipSlot(t) \/ SkipTokens(t) \/ TakeTokens(t)
             \/ SleepForTokens(t) \/ Answered(t) \/ Refused(t) \/ BodyThrows(t)
             \/ BackoffOver(t) \/ StreamEnds(t) \/ YieldOver(t)
      PROVE  limit - count' <= Cardinality((SlotWaiters \ cv)')
  <2>1. /\ UNCHANGED count /\ t \notin SlotWaiters
        /\ \E l \in PCs \ {"slotwait"} : Goto(t, l)
    BY <1>2, QuietStep
  <2>2. SlotWaiters' = SlotWaiters
    BY <1>0, <2>1, SlotWaitersMove
  <2>3. cv' \in {cv, cv \cup {t}}
    BY <1>2, <1>s DEF Call, SkipSlot, SkipTokens, TakeTokens, SleepForTokens, Answered, Refused,
       BodyThrows, BackoffOver, StreamEnds, YieldOver, ReleaseTokens
  <2>4. QED
    BY <1>1, <2>1, <2>2, <2>3
<1>3. ASSUME NEW t \in Threads, TakeSlot(t)
      PROVE  limit - count' <= Cardinality((SlotWaiters \ cv)')
  <2>1. AfterSlot(t) \in PCs /\ AfterSlot(t) # "slotwait" /\ t \notin SlotWaiters
    BY <1>3 DEF AfterSlot, PCs, TakeSlot, SlotWaiters
  <2>2. SlotWaiters' = SlotWaiters /\ cv' = cv /\ count' = count + 1
    BY <1>0, <1>3, <2>1, SlotWaitersMove DEF TakeSlot
  <2>3. limit - count <= Cardinality(SlotWaiters \ cv)
    BY <1>a, <2>2
  <2>4. QED
    BY <1>0, <2>2, <2>3, Awake
<1>4. ASSUME NEW t \in Threads, WakeTakeSlot(t)
      PROVE  limit - count' <= Cardinality((SlotWaiters \ cv)')
  <2>1. AfterSlot(t) \in PCs /\ AfterSlot(t) # "slotwait" /\ t \in SlotWaiters \ cv
    BY <1>4 DEF AfterSlot, PCs, WakeTakeSlot, SlotWaiters
  <2>2. SlotWaiters' = SlotWaiters \ {t} /\ cv' = cv /\ count' = count + 1
    BY <1>0, <1>4, <2>1, SlotWaitersMove DEF WakeTakeSlot
  <2>3. (SlotWaiters \ cv)' = (SlotWaiters \ cv) \ {t} /\ SlotWaiters \cap cv # {}
    BY <2>2
  <2>4. Cardinality((SlotWaiters \ cv) \ {t}) = Cardinality(SlotWaiters \ cv) - 1
    BY <2>1, Awake, FS_RemoveElement
  <2>5. limit - count <= Cardinality(SlotWaiters \ cv)
    BY <1>a, <2>3
  <2>6. Cardinality((SlotWaiters \ cv)') = Cardinality(SlotWaiters \ cv) - 1
    BY <2>3, <2>4, Zenon
  <2>7. QED
    BY <1>0, <2>2, <2>5, <2>6, Awake
<1>5. ASSUME NEW t \in Threads, SleepForSlot(t) \/ WakeSlotTaken(t)
      PROVE  limit - count' <= Cardinality((SlotWaiters \ cv)')
  <2>1. count >= limit /\ UNCHANGED count
    BY <1>5 DEF SleepForSlot, WakeSlotTaken
  <2>2. QED
    BY <1>0, <2>1, Awake
<1>6. ASSUME NEW t \in Threads, ReleaseSlot(t)
      PROVE  limit - count' <= Cardinality((SlotWaiters \ cv)')
  <2>1. PICK l \in {"yield", "idle"} : Goto(t, l)
    BY <1>6 DEF ReleaseSlot
  <2>2. SlotWaiters' = SlotWaiters \ {t} /\ t \notin SlotWaiters
    BY <1>0, <1>6, <2>1, SlotWaitersMove DEF ReleaseSlot, PCs, SlotWaiters
  <2>3. SlotWaiters' = SlotWaiters
    BY <2>2
  <2>4. CASE Gated(t)
    <3>1. count' = count - 1 /\ NotifyOne
      BY <1>6, <2>4 DEF ReleaseSlot
    <3>2. PICK s \in cv : cv' = cv \ {s}
      BY <1>s, <3>1 DEF NotifyOne
    <3>3. s \in SlotWaiters
      BY <1>0, <1>s DEF SleepersDoNotFit, SleepInv, SlotWaiters, TokenWaiters, TypeOK
    <3>4. (SlotWaiters \ cv)' = (SlotWaiters \ cv) \cup {s} /\ s \notin SlotWaiters \ cv
      BY <2>3, <3>2, <3>3
    <3>5. Cardinality((SlotWaiters \ cv)') = Cardinality(SlotWaiters \ cv) + 1
      BY <3>4, Awake, FS_AddElement
    <3>6. limit - count <= Cardinality(SlotWaiters \ cv)
      BY <1>a, <3>2, <3>3
    <3>7. QED
      BY <1>0, <3>1, <3>5, <3>6, Awake
  <2>5. CASE ~Gated(t)
    BY <1>1, <1>6, <2>3, <2>5 DEF ReleaseSlot
  <2>6. QED
    BY <2>4, <2>5
<1>7. CASE SpuriousWakeup
  <2>1. PICK s \in cv : cv' = cv \ {s}
    BY <1>7 DEF SpuriousWakeup
  <2>2. SlotWaiters' = SlotWaiters /\ UNCHANGED count
    BY <1>7 DEF SpuriousWakeup, SlotWaiters
  <2>3. limit - count <= Cardinality(SlotWaiters \ cv)
    BY <1>a, <2>1, <2>2
  <2>4. SlotWaiters \ cv \in SUBSET (SlotWaiters \ cv)'
    BY <2>1, <2>2
  <2>5. Cardinality(SlotWaiters \ cv) <= Cardinality((SlotWaiters \ cv)')
    BY <2>4, Awake, FS_Subset
  <2>6. QED
    BY <1>0, <2>2, <2>3, <2>5, Awake
<1>8. CASE AllDone \/ UNCHANGED vars
  BY <1>1, <1>8 DEF AllDone, vars, SlotWaiters
<1>9. QED
  BY <1>2, <1>3, <1>4, <1>5, <1>6, <1>7, <1>8 DEF Next, Step

\* Where both gates share one condition variable: notify_one may wake a thread
\* that waits for tokens and goes back to sleep, and still no wake-up for a slot
\* is lost, whatever replies report: the slot is noticed, or the thread that
\* took the notification waits for tokens that another one will give back,
\* waking everybody, unless they leaked or its request exceeds the budget.
THEOREM SlotWakeupNotLost == Spec => []FreeSlotNoticed
<1>1. Init => AwakeEnough
  BY DEF Init, AwakeEnough
<1>2. /\ GateInv /\ TypeOK' /\ SleepInv /\ SleepersDoNotFit
      /\ AwakeEnough /\ [Next]_vars
      => AwakeEnough'
  BY AwakeStep
<1>3. GateInv /\ LedgerInv /\ AwakeEnough => FreeSlotNoticed
  <2> SUFFICES ASSUME GateInv, LedgerInv, AwakeEnough, SlotWaiters \cap cv # {}, count < limit,
                      SlotWaiters \ cv = {}
               PROVE  \E t \in Threads :
                         /\ pc[t] = "tokenwait" /\ ~Fits(t)
                         /\ \/ \E u \in Threads : HoldsTokens(u)
                            \/ leaked > 0 \/ Estimate[t] > token_budget
    BY DEF FreeSlotNoticed
  <2>1. limit \in Int /\ count \in Nat /\ TypeOK
    BY LimitType DEF GateInv, TypeOK
  <2>2. Cardinality(SlotWaiters \ cv) = 0
    BY FS_EmptySet
  <2>3. PICK t \in Threads : pc[t] = "tokenwait" /\ ~Fits(t)
    BY <2>1, <2>2 DEF AwakeEnough, TokenWaiters
  <2>4. /\ token_budget \in Int /\ Estimate[t] \in Nat /\ TokensHeld \in Nat
        /\ {tokens_in_flight, leaked} \subseteq Nat
    BY <2>1, LimitType, HeldBySomebody, PortGateAssumption DEF PortGateAssumption, TypeOK
  <2>5. ~(tokens_in_flight + Estimate[t] <= token_budget)
        /\ tokens_in_flight <= TokensHeld + leaked
    BY <2>3 DEF Fits, LedgerInv
  <2>6. TokensHeld # 0 \/ leaked > 0 \/ Estimate[t] > token_budget
    <3> HIDE DEF TokensHeld
    <3>1. QED
      BY <2>4, <2>5
  <2>7. QED
    BY <2>3, <2>6, HeldBySomebody
<1>4. Spec => []GateInv
  BY InitInv, NextInv, PTL DEF Spec
<1>5. QED
  BY <1>1, <1>2, <1>3, <1>4, SleepInvariant, NoTokenWakeupLost, LedgerInvariant, TypeCorrect, PTL
  DEF Spec
=============================================================================
