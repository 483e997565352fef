---------------------------- MODULE BreakerProofs ----------------------------
(* Theorems about Breaker for any number of runs, any window, threshold,      *)
(* cooldown and life of a readiness answer, and any length of the history.    *)
EXTENDS Breaker, FiniteSetTheorems, SequenceTheorems, WellFoundedInduction, TLAPS

-----------------------------------------------------------------------------
(* Types                                                                      *)

Entries == [at : Nat, ok : BOOLEAN, probed : BOOLEAN]

\* The history and the window, with natural numbers for times.
LEMMA Typed ==
    ASSUME TypeOK
    PROVE  /\ now \in Nat /\ failure_ts \in Seq(Nat) /\ log \in Seq(Entries)
           /\ \A i \in DOMAIN log : log[i].at <= now
           /\ \A k \in DOMAIN failure_ts : failure_ts[k] <= now
<1>1. now \in Nat /\ 0 .. now \subseteq Nat
  BY BreakerAssumption DEF TypeOK
<1>2. /\ failure_ts \in Seq(0 .. now) /\ log \in Seq([at : 0 .. now, ok : BOOLEAN, probed : BOOLEAN])
  BY DEF TypeOK
<1>3. \A k \in DOMAIN failure_ts : failure_ts[k] \in 0 .. now
  <2>1. DOMAIN failure_ts = 1 .. Len(failure_ts)
    BY <1>2
  <2>2. QED
    BY <1>2, <2>1, ElementOfSeq
<1>4. \A i \in DOMAIN log : log[i] \in [at : 0 .. now, ok : BOOLEAN, probed : BOOLEAN]
  <2>1. DOMAIN log = 1 .. Len(log)
    BY <1>2
  <2>2. QED
    BY <1>2, <2>1, ElementOfSeq
<1>5. failure_ts \in Seq(Nat)
  BY <1>1, <1>2
<1>6. log \in Seq(Entries)
  <2>1. [at : 0 .. now, ok : BOOLEAN, probed : BOOLEAN] \subseteq Entries
    BY <1>1 DEF Entries
  <2> DEFINE S == [at : 0 .. now, ok : BOOLEAN, probed : BOOLEAN]
  <2>2. log \in Seq(S) /\ S \subseteq Entries
    BY <1>2, <2>1
  <2> HIDE DEF S
  <2>3. QED
    BY <2>2
<1>7. QED
  <2>1. \A k \in DOMAIN failure_ts : failure_ts[k] <= now
    BY <1>1, <1>3
  <2>2. \A i \in DOMAIN log : log[i].at <= now
    BY <1>1, <1>4
  <2>3. QED
    BY <1>1, <1>5, <1>6, <2>1, <2>2

LEMMA Smallest ==
    ASSUME NEW T, T \subseteq Nat, T # {}
    PROVE  \E x \in T : \A y \in T : x <= y
<1>1. PICK x \in T : \A y \in T : <<y, x>> \notin OpToRel(<, Nat)
  BY WFMin, NatLessThanWellFounded, Zenon
<1>2. \A y \in T : ~(y < x)
  BY <1>1, Zenon DEF OpToRel
<1>3. QED
  BY <1>2

\* prune_window drops the front of the window, up to the first failure that is
\* recent enough, and nothing else.
LEMMA PrunedIsSuffix ==
    ASSUME NEW ts \in Seq(Nat), now \in Nat
    PROVE  \E c \in 0 .. Len(ts) :
             /\ Pruned(ts) \in Seq(Nat) /\ Len(Pruned(ts)) = Len(ts) - c
             /\ \A k \in 1 .. Len(ts) - c : Pruned(ts)[k] = ts[c + k]
             /\ \A i \in 1 .. c : now - ts[i] > WINDOW
             /\ c < Len(ts) => now - ts[c + 1] <= WINDOW
<1> DEFINE m == Len(ts)
           kept == {i \in DOMAIN ts : \E j \in 1 .. i : now - ts[j] <= WINDOW}
<1>0. m \in Nat /\ DOMAIN ts = 1 .. m /\ WINDOW \in Nat /\ \A i \in 1 .. m : ts[i] \in Nat
  BY BreakerAssumption
<1>1. Pruned(ts) = SubSeq(ts, m - Cardinality(kept) + 1, m)
  BY DEF Pruned
<1>2. ASSUME NEW c \in 0 .. m, kept = (c + 1) .. m
      PROVE  /\ Pruned(ts) \in Seq(Nat) /\ Len(Pruned(ts)) = m - c
             /\ \A k \in 1 .. m - c : Pruned(ts)[k] = ts[c + k]
  <2>1. Cardinality((c + 1) .. m) = m - c
    <3>1. c + 1 \in Int /\ m \in Int
      BY <1>0
    <3>2. Cardinality((c + 1) .. m) = IF c + 1 > m THEN 0 ELSE m - (c + 1) + 1
      BY <3>1, FS_Interval
    <3>3. QED
      BY <1>0, <3>2
  <2>2. Pruned(ts) = SubSeq(ts, c + 1, m)
    <3>1. m - (m - c) + 1 = c + 1
      BY <1>0
    <3> HIDE DEF m, kept
    <3>2. QED
      BY <1>1, <1>2, <2>1, <3>1
  <2>3. c + 1 \in Int /\ m \in Int /\ \A i \in (c + 1) .. m : ts[i] \in Nat
    BY <1>0
  <2>4. /\ SubSeq(ts, c + 1, m) \in Seq(Nat)
        /\ Len(SubSeq(ts, c + 1, m)) = IF c + 1 <= m THEN m - (c + 1) + 1 ELSE 0
        /\ \A i \in 1 .. m - (c + 1) + 1 : SubSeq(ts, c + 1, m)[i] = ts[c + 1 + i - 1]
    BY <2>3, SubSeqProperties
  <2>5. \A k \in 1 .. m - c : k \in 1 .. m - (c + 1) + 1 /\ c + 1 + k - 1 = c + k
    BY <1>0
  <2>6. (IF c + 1 <= m THEN m - (c + 1) + 1 ELSE 0) = m - c
    <3>1. c \in Nat /\ m \in Nat /\ c <= m
      BY <1>0
    <3> HIDE DEF m
    <3>2. QED
      BY <3>1
  <2> HIDE DEF m, kept
  <2>7. QED
    BY <2>2, <2>4, <2>5, <2>6
<1>3. CASE kept = {}
  <2>1. \A i \in 1 .. m : now - ts[i] > WINDOW
    BY <1>0, <1>3
  <2>2. kept = (m + 1) .. m /\ m \in 0 .. m
    BY <1>0, <1>3
  <2>3. QED
    BY <1>2, <2>1, <2>2, SMTT(30)
<1>4. CASE kept # {}
  <2>1. kept \subseteq Nat
    BY <1>0
  <2> HIDE DEF kept
  <2>2. PICK x \in kept : \A y \in kept : x <= y
    BY <1>4, <2>1, Smallest
  <2> USE DEF kept
  <2>3. x \in 1 .. m /\ x - 1 \in 0 .. m /\ (x - 1) + 1 = x
    BY <1>0
  <2>4. \A i \in 1 .. x - 1 : now - ts[i] > WINDOW
    <3>1. ASSUME NEW i \in 1 .. x - 1, now - ts[i] <= WINDOW PROVE FALSE
      <4>1. i \in 1 .. m /\ i \in 1 .. i /\ i < x /\ i \in Nat /\ x \in Nat
        BY <1>0, <2>3
      <4>2. i \in kept
        BY <1>0, <3>1, <4>1
      <4> HIDE DEF kept
      <4>3. x <= i
        BY <2>2, <4>2
      <4>4. QED
        BY <4>1, <4>3
    <3>2. QED
      BY <1>0, <2>3, <3>1
  <2>5. now - ts[x] <= WINDOW
    <3>1. PICK j \in 1 .. x : now - ts[j] <= WINDOW
      OBVIOUS
    <3>2. j \notin 1 .. x - 1
      BY <1>0, <2>3, <2>4, <3>1
    <3>3. QED
      BY <2>3, <3>1, <3>2
  <2>6. kept = x .. m
    <3>1. \A i \in x .. m : i \in DOMAIN ts /\ x \in 1 .. i
      BY <1>0, <2>3
    <3>2. \A i \in kept : i \in x .. m
      BY <1>0, <2>2, <2>3, SMTT(30)
    <3>3. QED
      BY <2>5, <3>1, <3>2
  <2>7. QED
    BY <1>2, <2>3, <2>4, <2>5, <2>6
<1>5. QED
  BY <1>3, <1>4

LEMMA PrunedTyped ==
    ASSUME TypeOK
    PROVE  Pruned(failure_ts) \in Seq(0 .. now)
<1> DEFINE p == Pruned(failure_ts)
<1>1. now \in Nat /\ failure_ts \in Seq(Nat) /\ failure_ts \in Seq(0 .. now)
  BY Typed DEF TypeOK
<1>2. PICK c \in 0 .. Len(failure_ts) :
        /\ p \in Seq(Nat) /\ Len(p) = Len(failure_ts) - c
        /\ \A k \in 1 .. Len(failure_ts) - c : p[k] = failure_ts[c + k]
  BY <1>1, PrunedIsSuffix
<1> HIDE DEF p
<1>3. ASSUME NEW k \in 1 .. Len(p) PROVE p[k] \in 0 .. now
  <2>1. c + k \in 1 .. Len(failure_ts) /\ k \in 1 .. Len(failure_ts) - c
    BY <1>1, <1>2, <1>3
  <2>2. QED
    BY <1>1, <1>2, <2>1, ElementOfSeq
<1>4. p = [k \in 1 .. Len(p) |-> p[k]] /\ Len(p) \in Nat
  BY <1>2
<1>5. p \in Seq(0 .. now)
  <2> DEFINE S == 0 .. now
  <2>1. \A k \in 1 .. Len(p) : p[k] \in S
    BY <1>3
  <2> HIDE DEF S
  <2>2. p \in Seq(S)
    BY <1>4, <2>1
  <2>3. QED
    BY <2>2 DEF S
<1>6. QED
  BY <1>5 DEF p

\* What record does to the entry, with types.
LEMMA RecordTyped ==
    ASSUME TypeOK, NEW ok \in BOOLEAN, NEW probed \in BOOLEAN, Record(ok, probed)
    PROVE  /\ failure_ts' \in Seq(0 .. now) /\ tripped' \in BOOLEAN
           /\ cooldown_until' \in 0 .. now + COOLDOWN
           /\ log' \in Seq([at : 0 .. now, ok : BOOLEAN, probed : BOOLEAN])
<1>1. now \in Nat /\ now \in 0 .. now /\ COOLDOWN \in Nat
  BY BreakerAssumption DEF TypeOK
<1>2. log' \in Seq([at : 0 .. now, ok : BOOLEAN, probed : BOOLEAN])
  <2> DEFINE S == [at : 0 .. now, ok : BOOLEAN, probed : BOOLEAN]
             e == [at |-> now, ok |-> ok, probed |-> probed]
  <2>1. e \in S /\ log \in Seq(S) /\ log' = Append(log, e)
    BY <1>1 DEF TypeOK, Record
  <2> HIDE DEF S, e
  <2>2. Append(log, e) \in Seq(S)
    BY <2>1
  <2>3. QED
    BY <2>1, <2>2 DEF S
<1>3. CASE ok
  <2>1. failure_ts' = <<>> /\ tripped' = FALSE /\ cooldown_until' = 0
    BY <1>3 DEF Record, RecordSuccess
  <2>2. \A S : <<>> \in Seq(S)
    OBVIOUS
  <2>3. 0 \in 0 .. now + COOLDOWN
    BY <1>1
  <2>4. QED
    BY <1>2, <2>1, <2>2, <2>3
<1>4. CASE ~ok
  <2>1. RecordFailure
    BY <1>4 DEF Record
  <2>2. Pruned(failure_ts) \in Seq(0 .. now)
    BY PrunedTyped
  <2>3. failure_ts' \in Seq(0 .. now)
    <3> DEFINE S == 0 .. now
    <3>1. Pruned(failure_ts) \in Seq(S) /\ now \in S /\ failure_ts' = Append(Pruned(failure_ts), now)
      BY <1>1, <2>1, <2>2 DEF RecordFailure
    <3> HIDE DEF S
    <3>2. QED
      BY <3>1 DEF S
  <2>4. tripped' \in BOOLEAN
    BY <2>1 DEF RecordFailure, TypeOK
  <2>5. cooldown_until' \in 0 .. now + COOLDOWN
    BY <1>1, <2>1 DEF RecordFailure, TypeOK
  <2>6. QED
    BY <1>2, <2>3, <2>4, <2>5
<1>5. QED
  BY <1>3, <1>4

\* The state is well typed, the breaker's deadline never further than a
\* cooldown away and an answer never good for longer than TTL.
THEOREM TypeCorrect == Spec => []TypeOK
<1>1. Init => TypeOK
  <2> SUFFICES ASSUME Init PROVE TypeOK
    OBVIOUS
  <2>1. \A S : <<>> \in Seq(S)
    OBVIOUS
  <2>2. 0 \in 0 .. MaxNow /\ 0 \in 0 .. 0 + COOLDOWN /\ 0 \in 0 .. 0 + TTL /\ 0 \in 0 .. 0
    BY BreakerAssumption
  <2>3. now = 0 /\ server \in [up : BOOLEAN, since : 0 .. now]
    BY <2>2 DEF Init
  <2>4. ready \in [ok : BOOLEAN, expiry : 0 .. now + TTL]
    BY <2>2 DEF Init
  <2>5. QED
    BY <2>1, <2>2, <2>3, <2>4 DEF Init, TypeOK
<1>2. TypeOK /\ [Next]_vars => TypeOK'
  <2> SUFFICES ASSUME TypeOK, [Next]_vars PROVE TypeOK'
    OBVIOUS
  <2>0. now \in Nat /\ TTL \in Nat /\ COOLDOWN \in Nat /\ MaxNow \in Nat
    BY BreakerAssumption DEF TypeOK
  <2>1. ASSUME NEW r \in Runs, Admit(r) PROVE TypeOK'
    BY <2>1 DEF Admit, Goto, TypeOK, Looking, entry
  <2>2. ASSUME NEW r \in Runs, CallEnds(r) PROVE TypeOK'
    <3>1. PICK ok \in BOOLEAN : Record(ok, FALSE)
      BY <2>2 DEF CallEnds
    <3>2. QED
      BY <2>2, <3>1, RecordTyped DEF CallEnds, Record, TypeOK, Looking
  <2>3. ASSUME NEW r \in Runs, RunEnds(r) PROVE TypeOK'
    BY <2>3 DEF RunEnds, Goto, TypeOK, Looking, entry
  <2>4. ASSUME NEW r \in Runs, AskReady(r) PROVE TypeOK'
    BY <2>4 DEF AskReady, Goto, TypeOK, Looking, entry
  <2>5. ASSUME NEW r \in Runs, Probe(r) PROVE TypeOK'
    BY <2>5 DEF Probe, Goto, TypeOK, Looking, entry
  <2>6. ASSUME NEW r \in Runs, StoreReady(r) PROVE TypeOK'
    BY <2>0, <2>6 DEF StoreReady, Goto, TypeOK, Looking, entry
  <2>7. ASSUME NEW r \in Runs, Unreachable(r) PROVE TypeOK'
    <3>1. Record(FALSE, TRUE)
      BY <2>7 DEF Unreachable
    <3>2. QED
      BY <2>7, <3>1, RecordTyped DEF Unreachable, Record, Goto, TypeOK, Looking
  <2>8. CASE Snapshot
    BY <2>8, PrunedTyped DEF Snapshot, TypeOK, Looking
  <2>9. CASE ServerTurns
    BY <2>0, <2>9 DEF ServerTurns, TypeOK, Looking, entry
  <2>10. CASE Tick
    <3>1. now' = now + 1 /\ now' \in 0 .. MaxNow /\ now' \in Nat
      BY <2>0, <2>10 DEF Tick, TypeOK
    <3>2. /\ 0 .. now \subseteq 0 .. now' /\ 0 .. now + TTL \subseteq 0 .. now' + TTL
          /\ 0 .. now + COOLDOWN \subseteq 0 .. now' + COOLDOWN
      BY <2>0, <3>1
    <3>3. failure_ts \in Seq(0 .. now')
      <4> DEFINE S == 0 .. now
                 T == 0 .. now'
      <4>1. S \subseteq T /\ failure_ts \in Seq(S)
        BY <3>2 DEF TypeOK
      <4> HIDE DEF S, T
      <4>2. failure_ts \in Seq(T)
        BY <4>1
      <4>3. QED
        BY <4>2 DEF T
    <3>4. log \in Seq([at : 0 .. now', ok : BOOLEAN, probed : BOOLEAN])
      <4> DEFINE S == [at : 0 .. now, ok : BOOLEAN, probed : BOOLEAN]
                 T == [at : 0 .. now', ok : BOOLEAN, probed : BOOLEAN]
      <4>1. S \subseteq T /\ log \in Seq(S)
        BY <3>2 DEF TypeOK
      <4> HIDE DEF S, T
      <4>2. log \in Seq(T)
        BY <4>1
      <4>3. QED
        BY <4>2 DEF T
    <3>5. QED
      BY <2>10, <3>1, <3>2, <3>3, <3>4 DEF Tick, TypeOK, Looking, entry
  <2>11. CASE UNCHANGED vars
    BY <2>11 DEF vars, entry, TypeOK, Looking
  <2>12. QED
    BY <2>1, <2>2, <2>3, <2>4, <2>5, <2>6, <2>7, <2>8, <2>9, <2>10, <2>11 DEF Next
<1>3. QED
  BY <1>1, <1>2, PTL DEF Spec

-----------------------------------------------------------------------------
(* The breaker and its history                                                *)

\* Failures that the window has lost, because a record or a snapshot pruned
\* them or a success came.
Forgotten == Len(log) - Len(failure_ts)

\* The window is the end of the history: the failures there are the latest
\* outcomes, and those before it since the last success are too old.
WindowInv ==
    /\ \A i \in DOMAIN log : \A j \in 1 .. i : log[j].at <= log[i].at
    /\ Forgotten \in Nat
    /\ \A k \in DOMAIN failure_ts :
         /\ ~log[Forgotten + k].ok /\ log[Forgotten + k].at = failure_ts[k]
         /\ log[Len(log)].at - failure_ts[k] <= WINDOW
    /\ \A i \in CurrentFailures : i <= Forgotten => now - log[i].at > WINDOW

HistoryInv == WindowInv /\ MatchesHistory

\* The outcome that record appends is the last one, and the others stay.
LEMMA Appended ==
    ASSUME TypeOK, NEW ok \in BOOLEAN, NEW probed \in BOOLEAN, Record(ok, probed)
    PROVE  /\ Len(log) \in Nat /\ Len(log') = Len(log) + 1 /\ DOMAIN log' = 1 .. Len(log) + 1
           /\ DOMAIN log = 1 .. Len(log) /\ \A i \in 1 .. Len(log) : log'[i] = log[i]
           /\ log'[Len(log) + 1] = [at |-> now, ok |-> ok, probed |-> probed]
           /\ \A i \in 1 .. Len(log) : log[i].at \in Nat /\ log[i].at <= now
           /\ now \in Nat /\ now' = now
<1> DEFINE e == [at |-> now, ok |-> ok, probed |-> probed]
<1>1. now \in Nat /\ log \in Seq(Entries) /\ \A i \in DOMAIN log : log[i].at <= now
  BY Typed
<1>2. e \in Entries /\ log' = Append(log, e) /\ now' = now
  BY <1>1 DEF Entries, Record
<1> HIDE DEF e
<1>3. /\ Append(log, e) \in Seq(Entries)
      /\ Len(Append(log, e)) = Len(log) + 1
      /\ \A i \in 1 .. Len(log) : Append(log, e)[i] = log[i]
      /\ Append(log, e)[Len(log) + 1] = e
  BY <1>1, <1>2, AppendProperties
<1>4. \A i \in 1 .. Len(log) : log[i] \in Entries
  BY <1>1, ElementOfSeq
<1>5. Len(log) \in Nat /\ DOMAIN log = 1 .. Len(log)
  BY <1>1
<1>6. DOMAIN log' = 1 .. Len(log) + 1
  BY <1>2, <1>3
<1>7. \A i \in 1 .. Len(log) : log[i].at \in Nat
  BY <1>4 DEF Entries
<1>8. QED
  BY <1>1, <1>2, <1>3, <1>5, <1>6, <1>7 DEF e

LEMMA SuccessForgets ==
    ASSUME TypeOK, HistoryInv, NEW probed \in BOOLEAN, Record(TRUE, probed)
    PROVE  HistoryInv'
<1> DEFINE n == Len(log)
<1>1. /\ n \in Nat /\ Len(log') = n + 1 /\ DOMAIN log' = 1 .. n + 1
      /\ \A i \in 1 .. n : log'[i] = log[i] /\ log[i].at \in Nat /\ log[i].at <= now
      /\ log'[n + 1].at = now /\ log'[n + 1].ok = TRUE
      /\ DOMAIN log = 1 .. n /\ now \in Nat /\ now' = now
  <2>1. TRUE \in BOOLEAN
    OBVIOUS
  <2>2. log'[n + 1] = [at |-> now, ok |-> TRUE, probed |-> probed]
    BY <2>1, Appended
  <2>3. log'[n + 1].at = now /\ log'[n + 1].ok = TRUE
    BY <2>2
  <2>4. QED
    BY <2>1, <2>3, Appended
<1>2. failure_ts' = <<>> /\ tripped' = FALSE /\ cooldown_until' = 0
  BY DEF Record, RecordSuccess
<1> HIDE DEF n
<1>3. CurrentFailures' = {}
  <2>1. \A i \in 1 .. n + 1 : n + 1 \in i .. n + 1
    BY <1>1
  <2>2. QED
    BY <1>1, <2>1 DEF CurrentFailures
<1>4. MatchesHistory'
  BY <1>2, <1>3 DEF MatchesHistory
<1>5. Forgotten' = n + 1 /\ DOMAIN failure_ts' = {}
  <2>1. Len(<<>>) = 0 /\ DOMAIN <<>> = {}
    OBVIOUS
  <2>2. QED
    BY <1>1, <1>2, <2>1 DEF Forgotten
<1>6. \A i \in DOMAIN log' : \A j \in 1 .. i : log'[j].at <= log'[i].at
  <2>1. ASSUME NEW i \in 1 .. n + 1, NEW j \in 1 .. i PROVE log'[j].at <= log'[i].at
    <3>1. CASE i \in 1 .. n
      BY <1>1, <3>1 DEF HistoryInv, WindowInv
    <3>2. CASE i = n + 1 /\ j \in 1 .. n
      BY <1>1, <3>2
    <3>3. CASE i = n + 1 /\ j = n + 1
      BY <1>1, <3>3
    <3>4. QED
      BY <1>1, <3>1, <3>2, <3>3
  <2>2. QED
    BY <1>1, <2>1
<1>7. WindowInv'
  BY <1>1, <1>3, <1>5, <1>6 DEF WindowInv
<1>8. QED
  BY <1>4, <1>7 DEF HistoryInv

\* The window that pruning leaves: how much more it has forgotten, and that
\* the rest is recent.
LEMMA PrunedWindow ==
    ASSUME TypeOK, WindowInv
    PROVE  \E c \in 0 .. Len(failure_ts) :
             /\ Pruned(failure_ts) \in Seq(Nat)
             /\ Len(Pruned(failure_ts)) = Len(failure_ts) - c
             /\ \A k \in 1 .. Len(failure_ts) - c :
                  /\ Pruned(failure_ts)[k] = failure_ts[c + k]
                  /\ Pruned(failure_ts)[k] = log[Forgotten + c + k].at
                  /\ ~log[Forgotten + c + k].ok
                  /\ now - Pruned(failure_ts)[k] <= WINDOW
             /\ \A i \in CurrentFailures : i <= Forgotten + c => now - log[i].at > WINDOW
<1> DEFINE m == Len(failure_ts)
           p == Pruned(failure_ts)
           d == Forgotten
<1>1. /\ now \in Nat /\ failure_ts \in Seq(Nat) /\ m \in Nat /\ DOMAIN failure_ts = 1 .. m
      /\ log \in Seq(Entries) /\ Len(log) \in Nat /\ DOMAIN log = 1 .. Len(log)
      /\ d \in Nat /\ d + m = Len(log) /\ WINDOW \in Nat
  BY Typed, BreakerAssumption DEF WindowInv, Forgotten
<1>2. PICK c \in 0 .. m :
        /\ p \in Seq(Nat) /\ Len(p) = m - c
        /\ \A k \in 1 .. m - c : p[k] = failure_ts[c + k]
        /\ \A i \in 1 .. c : now - failure_ts[i] > WINDOW
        /\ c < m => now - failure_ts[c + 1] <= WINDOW
  BY <1>1, PrunedIsSuffix
<1>3. \A k \in 1 .. m : /\ ~log[d + k].ok /\ log[d + k].at = failure_ts[k]
                        /\ failure_ts[k] \in Nat /\ d + k \in DOMAIN log
  <2>1. \A k \in 1 .. m : failure_ts[k] \in Nat
    BY <1>1, ElementOfSeq
  <2>2. \A k \in 1 .. m : ~log[d + k].ok /\ log[d + k].at = failure_ts[k]
    BY <1>1 DEF WindowInv
  <2>3. \A k \in 1 .. m : d + k \in DOMAIN log
    <3> HIDE DEF m, d
    <3>1. QED
      BY <1>1
  <2>4. QED
    BY <2>1, <2>2, <2>3
<1> HIDE DEF m, p, d
<1>4. \A k \in 1 .. m - c : c + k \in 1 .. m /\ d + (c + k) = d + c + k
  BY <1>1
<1>5. ASSUME NEW k \in 1 .. m - c PROVE now - p[k] <= WINDOW
  <2>1. c < m /\ c + 1 \in 1 .. m /\ c + k \in 1 .. m /\ d + (c + 1) \in 1 .. d + (c + k)
    BY <1>1
  <2>2. log[d + (c + 1)].at <= log[d + (c + k)].at
    BY <1>1, <1>3, <2>1 DEF WindowInv
  <2>3. failure_ts[c + 1] <= failure_ts[c + k]
    BY <1>3, <2>1, <2>2
  <2>4. failure_ts[c + 1] \in Nat /\ failure_ts[c + k] \in Nat
    BY <1>3, <2>1
  <2>5. p[k] = failure_ts[c + k] /\ now - failure_ts[c + 1] <= WINDOW
    BY <1>2, <2>1
  <2>6. QED
    BY <1>1, <2>3, <2>4, <2>5
<1>6. ASSUME NEW i \in CurrentFailures, i <= d + c PROVE now - log[i].at > WINDOW
  <2>1. i \in 1 .. Len(log)
    BY <1>1 DEF CurrentFailures
  <2>2. CASE i <= d
    BY <2>2 DEF WindowInv, d
  <2>3. CASE i > d
    <3>1. i - d \in 1 .. c /\ i - d \in 1 .. m /\ d + (i - d) = i
      BY <1>1, <1>6, <2>1, <2>3
    <3>2. QED
      BY <1>2, <1>3, <3>1
  <2>4. QED
    BY <1>1, <2>1, <2>2, <2>3
<1>7. \A k \in 1 .. m - c : /\ p[k] = failure_ts[c + k] /\ p[k] = log[d + c + k].at
                            /\ ~log[d + c + k].ok /\ now - p[k] <= WINDOW
  <2>1. ASSUME NEW k \in 1 .. m - c
        PROVE  p[k] = failure_ts[c + k] /\ p[k] = log[d + c + k].at /\ ~log[d + c + k].ok
    <3>1. c + k \in 1 .. m /\ d + (c + k) = d + c + k /\ p[k] = failure_ts[c + k]
      BY <1>2, <1>4
    <3>2. ~log[d + (c + k)].ok /\ log[d + (c + k)].at = failure_ts[c + k]
      BY <1>3, <3>1
    <3>3. QED
      BY <3>1, <3>2
  <2>2. QED
    BY <1>5, <2>1
<1>8. /\ c \in 0 .. m /\ p \in Seq(Nat) /\ Len(p) = m - c
      /\ \A i \in CurrentFailures : i <= d + c => now - log[i].at > WINDOW
  BY <1>2, <1>6
<1>9. QED
  BY <1>7, <1>8 DEF m, p, d

LEMMA FailureCounts ==
    ASSUME TypeOK, HistoryInv, NEW probed \in BOOLEAN, Record(FALSE, probed)
    PROVE  HistoryInv'
<1>0. PICK n \in Nat : n = Len(log)
  BY Typed
<1> DEFINE m == Len(failure_ts)
           d == Forgotten
           p == Pruned(failure_ts)
<1>1. /\ n \in Nat /\ Len(log') = n + 1 /\ DOMAIN log' = 1 .. n + 1
      /\ \A i \in 1 .. n : log'[i] = log[i] /\ log[i].at \in Nat /\ log[i].at <= now
      /\ log'[n + 1].at = now /\ log'[n + 1].ok = FALSE
      /\ DOMAIN log = 1 .. n /\ now \in Nat /\ now' = now
  <2>1. FALSE \in BOOLEAN
    OBVIOUS
  <2>2. log'[n + 1] = [at |-> now, ok |-> FALSE, probed |-> probed]
    BY <1>0, <2>1, Appended
  <2>3. log'[n + 1].at = now /\ log'[n + 1].ok = FALSE
    BY <2>2
  <2>4. QED
    BY <1>0, <2>1, <2>3, Appended
<1>2. /\ failure_ts' = Append(p, now)
      /\ tripped' = (tripped \/ Len(failure_ts') >= THRESHOLD)
      /\ cooldown_until' = IF tripped' THEN now + COOLDOWN ELSE cooldown_until
  BY DEF Record, RecordFailure
<1>3. m \in Nat /\ d \in Nat /\ d + m = n /\ WINDOW \in Nat
  BY <1>0, Typed, BreakerAssumption DEF HistoryInv, WindowInv, Forgotten
<1>4. PICK c \in 0 .. m :
        /\ p \in Seq(Nat) /\ Len(p) = m - c
        /\ \A k \in 1 .. m - c : /\ p[k] = log[d + c + k].at
                                 /\ ~log[d + c + k].ok
                                 /\ now - p[k] <= WINDOW
        /\ \A i \in CurrentFailures : i <= d + c => now - log[i].at > WINDOW
  BY PrunedWindow DEF HistoryInv
<1> HIDE DEF m, d, p
<1>5. /\ Len(failure_ts') = m - c + 1 /\ DOMAIN failure_ts' = 1 .. m - c + 1
      /\ failure_ts'[m - c + 1] = now
      /\ \A k \in 1 .. m - c : failure_ts'[k] = p[k]
  <2>1. /\ Append(p, now) \in Seq(Nat) /\ Len(Append(p, now)) = Len(p) + 1
        /\ \A k \in 1 .. Len(p) : Append(p, now)[k] = p[k]
        /\ Append(p, now)[Len(p) + 1] = now
    BY <1>1, <1>4, AppendProperties
  <2>2. DOMAIN Append(p, now) = 1 .. Len(p) + 1
    BY <2>1
  <2>3. QED
    BY <1>2, <1>4, <2>1, <2>2
<1>6. Forgotten' = d + c
  <2>1. Forgotten' = (n + 1) - (m - c + 1)
    BY <1>0, <1>1, <1>5 DEF Forgotten
  <2>2. QED
    BY <1>1, <1>3, <2>1
<1>7. CurrentFailures' = CurrentFailures \cup {n + 1} /\ CurrentFailures \subseteq 1 .. n
  <2>1. CurrentFailures \subseteq 1 .. n
    BY <1>1 DEF CurrentFailures
  <2>2. CurrentFailures = {i \in 1 .. n : \A j \in i .. n : ~log[j].ok}
    BY <1>0, <1>1 DEF CurrentFailures
  <2>3. CurrentFailures' = {i \in 1 .. n + 1 : \A j \in i .. n + 1 : ~log'[j].ok}
    BY <1>1 DEF CurrentFailures
  <2>4. ASSUME NEW i \in 1 .. n
        PROVE  (\A j \in i .. n : ~log[j].ok) <=> (\A j \in i .. n + 1 : ~log'[j].ok)
    <3>1. \A j \in i .. n : j \in i .. n + 1 /\ j \in 1 .. n
      BY <1>1
    <3>2. \A j \in i .. n + 1 : j \in i .. n \/ j = n + 1
      BY <1>1
    <3>3. QED
      BY <1>1, <3>1, <3>2
  <2>5. \A j \in n + 1 .. n + 1 : ~log'[j].ok
    BY <1>1
  <2>6. \A i : i \in 1 .. n + 1 <=> i \in 1 .. n \/ i = n + 1
    BY <1>1
  <2>7. QED
    BY <2>1, <2>2, <2>3, <2>4, <2>5, <2>6
<1>8. ASSUME NEW i \in CurrentFailures', i <= d + c PROVE now - log'[i].at > WINDOW
  <2>1. i # n + 1 /\ n + 1 \in Nat
    BY <1>1, <1>3, <1>4, <1>8
  <2>2. i \in CurrentFailures /\ i \in 1 .. n
    BY <1>7, <2>1
  <2>3. QED
    BY <1>1, <1>4, <1>8, <2>2
<1>9. ASSUME NEW k \in 1 .. m - c + 1
      PROVE  /\ ~log'[d + c + k].ok /\ log'[d + c + k].at = failure_ts'[k]
             /\ now - failure_ts'[k] <= WINDOW
  <2>1. CASE k \in 1 .. m - c
    <3>1. d + c + k \in 1 .. n
      BY <1>3, <1>4, <2>1
    <3>2. QED
      BY <1>1, <1>4, <1>5, <2>1, <3>1
  <2>2. CASE k = m - c + 1
    <3>1. d + c + k = n + 1 /\ now - now <= WINDOW
      BY <1>1, <1>3, <1>4, <2>2
    <3>2. QED
      BY <1>1, <1>5, <2>2, <3>1
  <2>3. QED
    BY <1>3, <1>4, <2>1, <2>2
<1>10. \A i \in DOMAIN log' : \A j \in 1 .. i : log'[j].at <= log'[i].at
  <2>1. ASSUME NEW i \in 1 .. n + 1, NEW j \in 1 .. i PROVE log'[j].at <= log'[i].at
    <3>1. CASE i \in 1 .. n
      <4>1. j \in 1 .. n /\ i \in DOMAIN log
        BY <1>1, <3>1
      <4>2. log[j].at <= log[i].at
        BY <4>1 DEF HistoryInv, WindowInv
      <4>3. QED
        BY <1>1, <3>1, <4>1, <4>2
    <3>2. CASE i = n + 1 /\ j \in 1 .. n
      BY <1>1, <3>2
    <3>3. CASE i = n + 1 /\ j = n + 1
      BY <1>1, <3>3
    <3>4. QED
      BY <1>1, <3>1, <3>2, <3>3
  <2>2. QED
    BY <1>1, <2>1
<1>11. WindowInv'
  BY <1>1, <1>3, <1>4, <1>5, <1>6, <1>8, <1>9, <1>10, SMTT(30) DEF WindowInv
\* The failures in the window that ends with the new one are those of the entry.
<1>12. Trips(n + 1)' <=> Len(failure_ts') >= THRESHOLD
  <2> DEFINE X == {j \in CurrentFailures' : j <= n + 1 /\ log'[n + 1].at - log'[j].at <= WINDOW}
  <2>1. X = d + c + 1 .. n + 1
    <3>1. ASSUME NEW j \in d + c + 1 .. n + 1 PROVE j \in X
      <4>1. j \in 1 .. n + 1 /\ j - (d + c) \in 1 .. m - c + 1 /\ d + c + (j - (d + c)) = j
        BY <1>1, <1>3, <1>4
      <4>2. now - log'[j].at <= WINDOW
        BY <1>9, <4>1
      <4>3. \A i \in j .. n + 1 : /\ i - (d + c) \in 1 .. m - c + 1
                                  /\ d + c + (i - (d + c)) = i
        BY <1>1, <1>3, <1>4
      <4>4. \A i \in j .. n + 1 : ~log'[i].ok
        BY <1>9, <4>3
      <4>5. j \in CurrentFailures'
        BY <1>1, <4>1, <4>4 DEF CurrentFailures
      <4>6. QED
        BY <1>1, <4>1, <4>2, <4>5
    <3>2. ASSUME NEW j \in X PROVE j \in d + c + 1 .. n + 1
      <4>1. j \in 1 .. n + 1 /\ now - log'[j].at <= WINDOW /\ j \in CurrentFailures'
        BY <1>1, <1>7
      <4>2. log'[j].at \in Nat
        BY <1>1, <4>1
      <4>3. ~(j <= d + c)
        BY <1>1, <1>3, <1>8, <4>1, <4>2
      <4>4. QED
        BY <1>1, <1>3, <1>4, <4>1, <4>3
    <3>3. QED
      BY <3>1, <3>2
  <2>2. Cardinality(d + c + 1 .. n + 1) = m - c + 1
    <3>1. d + c + 1 \in Int /\ n + 1 \in Int /\ d + c + 1 <= n + 1
      BY <1>1, <1>3, <1>4
    <3>2. Cardinality(d + c + 1 .. n + 1)
            = IF d + c + 1 > n + 1 THEN 0 ELSE (n + 1) - (d + c + 1) + 1
      BY <3>1, FS_Interval
    <3>3. QED
      BY <1>1, <1>3, <1>4, <3>1, <3>2
  <2>3. Trips(n + 1)' <=> Cardinality(X) >= THRESHOLD
    BY <1>1 DEF Trips
  <2> HIDE DEF X
  <2>4. QED
    BY <1>5, <2>1, <2>2, <2>3
<1>13. ASSUME NEW i \in CurrentFailures PROVE Trips(i)' <=> Trips(i)
  <2> DEFINE X == {j \in CurrentFailures : j <= i /\ log[i].at - log[j].at <= WINDOW}
             Y == {j \in CurrentFailures' : j <= i /\ log'[i].at - log'[j].at <= WINDOW}
  <2>1. i \in 1 .. n /\ n + 1 \in Nat /\ ~(n + 1 <= i)
    BY <1>1, <1>7
  <2>2. \A j : j \in X <=> j \in Y
    BY <1>1, <1>7, <2>1
  <2>3. X = Y
    BY <2>2
  <2>4. (Trips(i) <=> Cardinality(X) >= THRESHOLD) /\ (Trips(i)' <=> Cardinality(Y) >= THRESHOLD)
    BY DEF Trips
  <2> HIDE DEF X, Y
  <2>5. QED
    BY <2>3, <2>4
<1>14. tripped' <=> \E i \in CurrentFailures' : Trips(i)'
  <2>1. (\E i \in CurrentFailures' : Trips(i)')
          <=> Trips(n + 1)' \/ \E i \in CurrentFailures : Trips(i)'
    BY <1>7
  <2>2. tripped <=> \E i \in CurrentFailures : Trips(i)
    BY DEF HistoryInv, MatchesHistory
  <2>3. tripped' <=> tripped \/ Len(failure_ts') >= THRESHOLD
    BY <1>2
  <2>4. QED
    BY <1>12, <1>13, <2>1, <2>2, <2>3
<1>15. cooldown_until' = IF tripped' THEN Last(log)'.at + COOLDOWN ELSE 0
  <2>1. Last(log)' = log'[n + 1]
    BY <1>1 DEF Last
  <2>2. ~tripped' => ~tripped
    BY <1>2
  <2>3. QED
    BY <1>1, <1>2, <2>1, <2>2 DEF HistoryInv, MatchesHistory
<1>16. MatchesHistory'
  BY <1>14, <1>15 DEF MatchesHistory
<1>17. QED
  BY <1>11, <1>16 DEF HistoryInv

\* Steps that record nothing.
LEMMA Unrecorded ==
    ASSUME TypeOK, HistoryInv, UNCHANGED <<entry, log>>, now' \in {now, now + 1}
    PROVE  HistoryInv'
<1>1. UNCHANGED <<failure_ts, tripped, cooldown_until, log>> /\ now \in Nat /\ now' >= now
  BY Typed DEF entry
<1>2. CurrentFailures' = CurrentFailures /\ Forgotten' = Forgotten
  BY <1>1 DEF CurrentFailures, Forgotten
<1>3. \A i \in CurrentFailures : log[i].at \in Nat
  <2>1. log \in Seq(Entries)
    BY Typed
  <2>2. \A i \in 1 .. Len(log) : log[i] \in Entries
    BY <2>1, ElementOfSeq
  <2>3. DOMAIN log = 1 .. Len(log)
    BY <2>1
  <2>4. QED
    BY <2>2, <2>3 DEF CurrentFailures, Entries
<1>4. \A i \in CurrentFailures : i <= Forgotten => now' - log[i].at > WINDOW
  <2>1. \A i \in CurrentFailures : i <= Forgotten => now - log[i].at > WINDOW
    BY DEF HistoryInv, WindowInv
  <2>2. WINDOW \in Nat /\ now' \in Nat
    BY <1>1, BreakerAssumption
  <2>3. QED
    BY <1>1, <1>3, <2>1, <2>2
<1>5. WindowInv'
  BY <1>1, <1>2, <1>4 DEF HistoryInv, WindowInv
<1>6. \A i : Trips(i)' <=> Trips(i)
  BY <1>1, <1>2 DEF Trips
<1>7. MatchesHistory'
  BY <1>1, <1>2, <1>6 DEF HistoryInv, MatchesHistory
<1>8. QED
  BY <1>5, <1>7 DEF HistoryInv

LEMMA SnapshotKeeps ==
    ASSUME TypeOK, HistoryInv, Snapshot
    PROVE  HistoryInv'
<1> DEFINE n == Len(log)
           m == Len(failure_ts)
           d == Forgotten
           p == Pruned(failure_ts)
<1>1. /\ failure_ts' = p /\ UNCHANGED <<now, tripped, cooldown_until, log>>
      /\ CurrentFailures' = CurrentFailures
  BY DEF Snapshot, CurrentFailures
<1>2. m \in Nat /\ d \in Nat /\ d + m = n /\ n \in Nat
  BY Typed DEF HistoryInv, WindowInv, Forgotten
<1>3. PICK c \in 0 .. m :
        /\ p \in Seq(Nat) /\ Len(p) = m - c
        /\ \A k \in 1 .. m - c : /\ p[k] = failure_ts[c + k]
                                 /\ p[k] = log[d + c + k].at
                                 /\ ~log[d + c + k].ok
        /\ \A i \in CurrentFailures : i <= d + c => now - log[i].at > WINDOW
  BY PrunedWindow DEF HistoryInv
<1>4. \A k \in 1 .. m - c : log[n].at - p[k] <= WINDOW
  <2>1. \A k \in 1 .. m - c : c + k \in 1 .. m
    BY <1>2
  <2>2. \A k \in 1 .. m : log[n].at - failure_ts[k] <= WINDOW
    BY Typed DEF HistoryInv, WindowInv
  <2>3. QED
    BY <1>3, <2>1, <2>2
<1> HIDE DEF n, m, d, p
<1>5. Forgotten' = d + c
  <2>1. Forgotten' = n - (m - c)
    BY <1>1, <1>3 DEF Forgotten, n
  <2>2. QED
    BY <1>2, <2>1
<1>6. DOMAIN failure_ts' = 1 .. m - c
  BY <1>1, <1>3
<1>7. WindowInv'
  BY <1>1, <1>2, <1>3, <1>4, <1>5, <1>6, SMTT(30) DEF HistoryInv, WindowInv, n
<1>8. \A i : Trips(i)' <=> Trips(i)
  BY <1>1 DEF Trips
<1>9. MatchesHistory'
  BY <1>1, <1>8 DEF HistoryInv, MatchesHistory
<1>10. QED
  BY <1>7, <1>9 DEF HistoryInv

LEMMA HistoryKept == Spec => []HistoryInv
<1>1. Init => HistoryInv
  <2> SUFFICES ASSUME Init PROVE HistoryInv
    OBVIOUS
  <2>1. Len(<<>>) = 0 /\ DOMAIN <<>> = {}
    OBVIOUS
  <2>2. CurrentFailures = {}
    BY <2>1 DEF Init, CurrentFailures
  <2>3. QED
    BY <2>1, <2>2 DEF Init, HistoryInv, WindowInv, MatchesHistory, Forgotten
<1>2. TypeOK /\ HistoryInv /\ [Next]_vars => HistoryInv'
  <2> SUFFICES ASSUME TypeOK, HistoryInv, [Next]_vars PROVE HistoryInv'
    OBVIOUS
  <2>1. ASSUME NEW r \in Runs,
               Admit(r) \/ RunEnds(r) \/ AskReady(r) \/ Probe(r) \/ StoreReady(r)
        PROVE  HistoryInv'
    BY <2>1, Unrecorded DEF Admit, RunEnds, AskReady, Probe, StoreReady
  <2>2. ASSUME NEW r \in Runs, CallEnds(r) \/ Unreachable(r) PROVE HistoryInv'
    <3>1. PICK ok \in BOOLEAN, probed \in BOOLEAN : Record(ok, probed)
      BY <2>2 DEF CallEnds, Unreachable
    <3>2. CASE ok = TRUE
      BY <3>1, <3>2, SuccessForgets
    <3>3. CASE ok = FALSE
      BY <3>1, <3>3, FailureCounts
    <3>4. QED
      BY <3>2, <3>3
  <2>3. CASE Snapshot
    BY <2>3, SnapshotKeeps
  <2>4. CASE ServerTurns
    BY <2>4, Unrecorded DEF ServerTurns
  <2>5. CASE Tick
    BY <2>5, Unrecorded DEF Tick
  <2>6. CASE UNCHANGED vars
    BY <2>6, Unrecorded DEF vars
  <2>7. QED
    BY <2>1, <2>2, <2>3, <2>4, <2>5, <2>6 DEF Next
<1>3. QED
  BY <1>1, <1>2, TypeCorrect, PTL DEF Spec

\* The breaker is tripped exactly when THRESHOLD failures fell into one window
\* since the last success, and its cooldown runs from the latest: for any
\* overlap of runs, and whenever records and snapshots prune.
THEOREM BreakerMatchesHistory == Spec => []MatchesHistory
<1>1. HistoryInv => MatchesHistory
  BY DEF HistoryInv
<1>2. QED
  BY <1>1, HistoryKept, PTL

\* What a health report shows of the window happened since the last success and
\* within the window before the latest outcome.
THEOREM WindowRight == Spec => []WindowMatchesHistory
<1>1. TypeOK /\ HistoryInv => WindowMatchesHistory
  <2> SUFFICES ASSUME TypeOK, HistoryInv, NEW k \in DOMAIN failure_ts
               PROVE  /\ \E i \in CurrentFailures : log[i].at = failure_ts[k]
                      /\ Last(log).at - failure_ts[k] <= WINDOW
    BY DEF WindowMatchesHistory
  <2> DEFINE n == Len(log)
             m == Len(failure_ts)
             d == Forgotten
  <2>1. /\ n \in Nat /\ m \in Nat /\ DOMAIN log = 1 .. n /\ DOMAIN failure_ts = 1 .. m
        /\ d \in Nat /\ d + m = n
    BY Typed DEF HistoryInv, WindowInv, Forgotten
  <2>2. \A j \in 1 .. m : ~log[d + j].ok /\ log[d + j].at = failure_ts[j]
    BY <2>1 DEF HistoryInv, WindowInv
  <2>3. Last(log).at - failure_ts[k] <= WINDOW
    BY DEF HistoryInv, WindowInv, Last
  <2> HIDE DEF n, m, d
  <2>4. d + k \in 1 .. n /\ k \in 1 .. m
    BY <2>1
  <2>5. \A j \in d + k .. n : j - d \in 1 .. m /\ d + (j - d) = j
    BY <2>1, <2>4
  <2>6. \A j \in d + k .. n : ~log[j].ok
    BY <2>2, <2>5
  <2>7. d + k \in CurrentFailures
    BY <2>1, <2>4, <2>6 DEF CurrentFailures, n
  <2>8. QED
    BY <2>2, <2>3, <2>4, <2>7
<1>2. QED
  BY <1>1, TypeCorrect, HistoryKept, PTL

-----------------------------------------------------------------------------
(* The breaker and the server                                                 *)

\* What is left of the time before the server came back, and until when: probes
\* it did not answer, the answer they stored, runs that read it, their reports.
\* A run that a tick has made late has one unit of time more than the others.
Grace(r) == IF r \in late THEN 1 ELSE 0

ServiceInv ==
    server.up =>
        /\ \A r \in Runs :
             /\ at[r] = "missed" => now <= server.since + Grace(r)
             /\ at[r] = "unreachable" => now <= server.since + 1 + TTL + Grace(r)
        /\ ~ready.ok => ready.expiry <= server.since + 1 + TTL
        /\ \A i \in DOMAIN log :
             ~log[i].ok /\ log[i].probed => log[i].at <= server.since + 2 + TTL

LEMMA ServiceKept == Spec => []ServiceInv
<1>1. Init => ServiceInv
  <2>1. DOMAIN <<>> = {}
    OBVIOUS
  <2>2. Init => server.since = 0
    BY DEF Init
  <2>3. QED
    BY <2>1, <2>2, BreakerAssumption DEF Init, ServiceInv
<1>2. TypeOK /\ ServiceInv /\ [Next]_vars => ServiceInv'
  <2> SUFFICES ASSUME TypeOK, ServiceInv, [Next]_vars PROVE ServiceInv'
    OBVIOUS
  <2>0. /\ now \in Nat /\ TTL \in Nat /\ server.since \in Nat /\ server.since <= now
        /\ ready.expiry \in Nat /\ ready.expiry <= now + TTL
        /\ at = [r \in Runs |-> at[r]] /\ late \subseteq Looking
        /\ \A r \in Runs : Grace(r) \in 0 .. 1
    BY Typed, BreakerAssumption DEF TypeOK, Grace
  \* Steps of one run that leave server, clock and history alone.
  <2>a. ASSUME NEW r \in Runs, NEW step, at' = [at EXCEPT ![r] = step],
               UNCHANGED <<now, server, ready, log>>, late' \subseteq late,
               \A x \in Runs : x # r => (x \in late <=> x \in late'),
               server.up => /\ step = "missed" => now <= server.since + Grace(r)'
                            /\ step = "unreachable" => now <= server.since + 1 + TTL + Grace(r)'
        PROVE  ServiceInv'
    <3>1. \A x \in Runs : at'[x] = IF x = r THEN step ELSE at[x]
      BY <2>0, <2>a
    <3>2. \A x \in Runs : x # r => Grace(x)' = Grace(x)
      BY <2>a DEF Grace
    <3> HIDE DEF Grace
    <3>3. QED
      BY <2>a, <3>1, <3>2 DEF ServiceInv
  \* A step that appends an outcome.
  <2>b. ASSUME NEW ok \in BOOLEAN, NEW probed \in BOOLEAN, Record(ok, probed),
               server.up /\ probed => now <= server.since + 2 + TTL,
               server.up =>
                 /\ \A r \in Runs :
                      /\ at'[r] = "missed" => now <= server.since + Grace(r)'
                      /\ at'[r] = "unreachable" => now <= server.since + 1 + TTL + Grace(r)',
               UNCHANGED <<server, ready>>
        PROVE  ServiceInv'
    <3>1. /\ Len(log) \in Nat /\ DOMAIN log' = 1 .. Len(log) + 1 /\ DOMAIN log = 1 .. Len(log)
          /\ \A i \in 1 .. Len(log) : log'[i] = log[i]
          /\ log'[Len(log) + 1] = [at |-> now, ok |-> ok, probed |-> probed]
          /\ now' = now
      BY <2>b, Appended
    <3>2. ASSUME server.up, NEW i \in DOMAIN log', ~log'[i].ok, log'[i].probed
          PROVE  log'[i].at <= server.since + 2 + TTL
      <4>1. CASE i \in 1 .. Len(log)
        BY <3>1, <3>2, <4>1 DEF ServiceInv
      <4>2. CASE i = Len(log) + 1
        BY <2>b, <3>1, <3>2, <4>2
      <4>3. QED
        BY <3>1, <4>1, <4>2
    <3> HIDE DEF Grace
    <3>3. QED
      BY <2>b, <3>1, <3>2 DEF ServiceInv
  <2>1. ASSUME NEW r \in Runs, Admit(r) PROVE ServiceInv'
    BY <2>1, <2>a DEF Admit, Goto
  <2>2. ASSUME NEW r \in Runs, CallEnds(r) PROVE ServiceInv'
    <3>1. PICK ok \in BOOLEAN : Record(ok, FALSE)
      BY <2>2 DEF CallEnds
    <3>2. UNCHANGED <<at, late, ready, server>>
      BY <2>2, <3>1 DEF CallEnds, Record
    <3>3. QED
      BY <2>b, <3>1, <3>2 DEF ServiceInv, Grace
  <2>3. ASSUME NEW r \in Runs, RunEnds(r) PROVE ServiceInv'
    BY <2>3, <2>a DEF RunEnds, Goto
  <2>4. ASSUME NEW r \in Runs, AskReady(r) PROVE ServiceInv'
    <3>1. PICK step : /\ at' = [at EXCEPT ![r] = step]
                      /\ step \in {"probing", "calling", "unreachable"}
                      /\ step = "unreachable" => Remembered /\ ~ready.ok
      <4> DEFINE next == IF ~Remembered THEN "probing"
                         ELSE IF ready.ok THEN "calling" ELSE "unreachable"
      <4>1. at' = [at EXCEPT ![r] = next]
        BY <2>4 DEF AskReady, Goto
      <4>2. /\ next \in {"probing", "calling", "unreachable"}
            /\ next = "unreachable" => Remembered /\ ~ready.ok
        OBVIOUS
      <4> HIDE DEF next
      <4>3. QED
        BY <4>1, <4>2
    <3>2. UNCHANGED <<now, server, ready, late, log>>
      BY <2>4 DEF AskReady
    <3>3. server.up /\ step = "unreachable" => now <= server.since + 1 + TTL + Grace(r)'
      <4>1. Grace(r)' \in 0 .. 1
        BY DEF Grace
      <4>2. QED
        BY <2>0, <3>1, <4>1 DEF ServiceInv, Remembered
    <3>4. QED
      BY <2>a, <3>1, <3>2, <3>3
  <2>5. ASSUME NEW r \in Runs, Probe(r) PROVE ServiceInv'
    <3>1. PICK step : /\ at' = [at EXCEPT ![r] = step]
                      /\ step = "found" \/ (step = "missed" /\ ~server.up)
      <4> DEFINE next == IF server.up THEN "found" ELSE "missed"
      <4>1. at' = [at EXCEPT ![r] = next]
        BY <2>5 DEF Probe, Goto
      <4>2. next = "found" \/ (next = "missed" /\ ~server.up)
        OBVIOUS
      <4> HIDE DEF next
      <4>3. QED
        BY <4>1, <4>2
    <3>2. UNCHANGED <<now, server, ready, late, log>>
      BY <2>5 DEF Probe
    <3>3. QED
      BY <2>a, <3>1, <3>2
  <2>6. ASSUME NEW r \in Runs, StoreReady(r) PROVE ServiceInv'
    <3>1. at[r] \in {"found", "missed"} /\ UNCHANGED <<now, server, log>>
          /\ ready' = [ok |-> at[r] = "found", expiry |-> now + TTL]
          /\ at' = [at EXCEPT ![r] = IF at[r] = "found" THEN "calling" ELSE "unreachable"]
          /\ late' = IF at[r] = "found" THEN late \ {r} ELSE late
      BY <2>6 DEF StoreReady, Goto
    <3>2. \A x \in Runs : x # r => at'[x] = at[x] /\ Grace(x)' = Grace(x)
      BY <2>0, <3>1 DEF Grace
    <3>3. CASE at[r] = "found"
      <4>1. at'[r] = "calling" /\ ready'.ok = TRUE
        BY <2>0, <3>1, <3>3
      <4> HIDE DEF Grace
      <4>2. QED
        BY <3>1, <3>2, <4>1 DEF ServiceInv
    <3>4. CASE at[r] = "missed"
      <4>1. at'[r] = "unreachable" /\ ready'.expiry = now + TTL /\ Grace(r)' = Grace(r)
        BY <2>0, <3>1, <3>4 DEF Grace
      <4>2. server.up => now <= server.since + 1 /\ now <= server.since + Grace(r)
        BY <2>0, <3>4 DEF ServiceInv
      <4> HIDE DEF Grace
      <4>3. server.up => now <= server.since + 1 + TTL + Grace(r)
                         /\ now + TTL <= server.since + 1 + TTL
        BY <2>0, <4>2
      <4>4. QED
        BY <3>1, <3>2, <4>1, <4>3 DEF ServiceInv
    <3>5. QED
      BY <3>1, <3>3, <3>4
  <2>7. ASSUME NEW r \in Runs, Unreachable(r) PROVE ServiceInv'
    <3>1. Record(FALSE, TRUE) /\ UNCHANGED <<server, ready>> /\ at[r] = "unreachable"
          /\ at' = [at EXCEPT ![r] = "away"] /\ late' = late \ {r}
      BY <2>7 DEF Unreachable, Record, Goto
    <3>2. \A x \in Runs : /\ at'[x] = IF x = r THEN "away" ELSE at[x]
                          /\ x # r => Grace(x)' = Grace(x)
      BY <2>0, <3>1 DEF Grace
    <3>3. server.up => now <= server.since + 2 + TTL
      BY <2>0, <3>1 DEF ServiceInv
    <3>4. server.up => \A x \in Runs :
            /\ at'[x] = "missed" => now <= server.since + Grace(x)'
            /\ at'[x] = "unreachable" => now <= server.since + 1 + TTL + Grace(x)'
      BY <3>2 DEF ServiceInv
    <3>5. QED
      BY <2>b, <3>1, <3>3, <3>4
  <2>8. CASE Snapshot
    BY <2>8 DEF Snapshot, ServiceInv, Grace
  <2>9. CASE ServerTurns
    <3>1. UNCHANGED <<now, ready, at, late, log>>
          /\ server' = [up |-> ~server.up, since |-> IF server.up THEN 0 ELSE now]
      BY <2>9 DEF ServerTurns
    <3>2. CASE server.up
      BY <3>1, <3>2 DEF ServiceInv
    <3>3. CASE ~server.up
      <4>1. server'.since = now /\ now' = now
        BY <3>1, <3>3
      <4>2. \A r \in Runs : Grace(r)' \in 0 .. 1
        BY DEF Grace
      <4>3. \A i \in DOMAIN log : log[i].at \in Nat /\ log[i].at <= now
        <5>1. log \in Seq(Entries) /\ \A i \in DOMAIN log : log[i].at <= now
          BY Typed
        <5>2. DOMAIN log = 1 .. Len(log) /\ \A i \in 1 .. Len(log) : log[i] \in Entries
          BY <5>1, ElementOfSeq
        <5>3. QED
          BY <5>1, <5>2 DEF Entries
      <4>4. now <= now + 2 + TTL /\ \A i \in DOMAIN log : log[i].at <= now + 2 + TTL
        BY <2>0, <4>3
      <4>5. \A r \in Runs : now <= now + Grace(r)' /\ now <= now + 1 + TTL + Grace(r)'
        BY <2>0, <4>2
      <4>6. ready.expiry <= now + 1 + TTL
        BY <2>0
      <4>7. QED
        BY <3>1, <4>1, <4>4, <4>5, <4>6 DEF ServiceInv
    <3>4. QED
      BY <3>2, <3>3
  <2>10. CASE Tick
    <3>1. now' = now + 1 /\ late = {} /\ late' = Looking /\ UNCHANGED <<server, ready, at, log>>
      BY <2>10 DEF Tick
    <3>2. \A r \in Runs : at[r] \in {"missed", "unreachable"} =>
                            Grace(r) = 0 /\ Grace(r)' = 1
      BY <3>1 DEF Grace, Looking
    <3>3. server.up => \A r \in Runs :
            /\ at[r] = "missed" => now + 1 <= server.since + 1
            /\ at[r] = "unreachable" => now + 1 <= server.since + 1 + TTL + 1
      BY <2>0, <3>2 DEF ServiceInv
    <3>4. QED
      BY <3>1, <3>2, <3>3 DEF ServiceInv
  <2>11. CASE UNCHANGED vars
    BY <2>11 DEF vars, ServiceInv, Grace
  <2>12. QED
    BY <2>1, <2>2, <2>3, <2>4, <2>5, <2>6, <2>7, <2>8, <2>9, <2>10, <2>11 DEF Next
<1>3. QED
  BY <1>1, <1>2, TypeCorrect, PTL DEF Spec

\* An agent whose server came back is in service again after the life of an
\* answer, a cooldown and two probes, unless calls failed: whatever number of
\* runs reported it on the strength of one probe.
THEOREM ServerReturns == Spec => []BackInService
<1>1. TypeOK /\ HistoryInv /\ ServiceInv => BackInService
  <2> SUFFICES ASSUME TypeOK, HistoryInv, ServiceInv, server.up,
                      now >= server.since + TTL + COOLDOWN + 2,
                      \A i \in DOMAIN log :
                        ~log[i].ok /\ ~log[i].probed => log[i].at + COOLDOWN <= now
               PROVE  ~is_open /\ ~(Remembered /\ ~ready.ok)
    BY DEF BackInService
  <2>0. /\ now \in Nat /\ TTL \in Nat /\ COOLDOWN \in Nat /\ server.since \in Nat
        /\ ready.expiry \in Nat /\ log \in Seq(Entries)
    <3>1. TTL \in Nat /\ COOLDOWN \in Nat
      BY BreakerAssumption
    <3>2. now \in Nat /\ log \in Seq(Entries)
      BY Typed
    <3>3. server.since \in 0 .. now /\ ready.expiry \in 0 .. now + TTL
      BY DEF TypeOK
    <3>4. QED
      BY <3>1, <3>2, <3>3
  <2>1. ASSUME is_open PROVE FALSE
    <3>1. tripped /\ now < Last(log).at + COOLDOWN
      BY <2>1 DEF is_open, HistoryInv, MatchesHistory
    <3>2. PICK i \in CurrentFailures : Trips(i)
      BY <3>1 DEF HistoryInv, MatchesHistory
    <3>3. /\ Len(log) \in DOMAIN log /\ Len(log) \in 1 .. Len(log)
          /\ ~log[Len(log)].ok /\ Last(log) = log[Len(log)]
      <4>1. i \in DOMAIN log /\ \A j \in i .. Len(log) : ~log[j].ok
        BY <3>2 DEF CurrentFailures
      <4>2. Len(log) \in Nat /\ DOMAIN log = 1 .. Len(log)
        BY <2>0
      <4>3. Len(log) \in i .. Len(log) /\ Len(log) \in 1 .. Len(log)
        BY <4>1, <4>2
      <4>4. QED
        BY <4>1, <4>2, <4>3 DEF Last
    <3>4. log[Len(log)].at \in Nat
      <4>1. log[Len(log)] \in Entries
        BY <2>0, <3>3, ElementOfSeq
      <4>2. QED
        BY <4>1 DEF Entries
    <3>5. CASE log[Len(log)].probed
      <4>1. log[Len(log)].at <= server.since + 2 + TTL
        BY <3>3, <3>5 DEF ServiceInv
      <4>2. QED
        BY <2>0, <3>1, <3>3, <3>4, <4>1
    <3>6. CASE ~log[Len(log)].probed
      <4>1. log[Len(log)].at + COOLDOWN <= now
        BY <3>3, <3>6
      <4>2. QED
        BY <2>0, <3>1, <3>3, <3>4, <4>1
    <3>7. QED
      BY <3>5, <3>6
  <2>2. ASSUME Remembered, ~ready.ok PROVE FALSE
    BY <2>0, <2>2 DEF Remembered, ServiceInv
  <2>3. QED
    BY <2>1, <2>2
<1>2. QED
  BY <1>1, TypeCorrect, HistoryKept, ServiceKept, PTL

=============================================================================
