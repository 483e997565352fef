------------------------ MODULE ModelRegistryProofs ------------------------
(* Theorems about ModelRegistry for any number of threads, agents, models,    *)
(* sessions and prompts.                                                      *)
EXTENDS ModelRegistry, FiniteSetTheorems, SequenceTheorems, WellFoundedInduction, TLAPS

-----------------------------------------------------------------------------
(* Lemmas about sequences of tokens and of KV slots                           *)

\* kv stands for prompt p, token by token.
Holds(kv, p) ==
    /\ kv \in Seq(Slots) /\ Len(kv) = Len(p)
    /\ \A i \in 1 .. Len(p) : kv[i].token = p[i]

LEMMA KVHolds ==
    ASSUME NEW m \in Range(Model), NEW q \in Seq(Tokens \cup {Generated})
    PROVE  Holds(KV(m, q), q)
<1>1. DOMAIN q = 1 .. Len(q) /\ \A i \in 1 .. Len(q) : q[i] \in Tokens \cup {Generated}
  OBVIOUS
<1>2. \A i \in 1 .. Len(q) : KV(m, q)[i] \in Slots /\ KV(m, q)[i].token = q[i]
  BY <1>1 DEF KV, Slots
<1>3. KV(m, q) = [i \in 1 .. Len(q) |-> KV(m, q)[i]] /\ Len(q) \in Nat
  BY <1>1 DEF KV
<1>4. KV(m, q) \in Seq(Slots) /\ Len(KV(m, q)) = Len(q)
  BY <1>2, <1>3
<1>5. QED
  BY <1>2, <1>4 DEF Holds

LEMMA HeldTokens ==
    ASSUME NEW p \in Seq(Tokens), NEW kv, Holds(kv, p)
    PROVE  TokensOf(kv) = p
<1>1. DOMAIN kv = 1 .. Len(p) /\ DOMAIN p = 1 .. Len(p)
  BY DEF Holds
<1>2. TokensOf(kv) = [i \in 1 .. Len(p) |-> p[i]]
  BY <1>1 DEF TokensOf, Holds
<1>3. QED
  BY <1>1, <1>2

LEMMA Trimmed ==
    ASSUME NEW S, NEW s \in Seq(S), NEW n \in Nat
    PROVE  /\ TrimTail(s, n) \in Seq(S)
           /\ Len(TrimTail(s, n)) = IF n <= Len(s) THEN Len(s) - n ELSE 0
           /\ \A i \in 1 .. Len(TrimTail(s, n)) : TrimTail(s, n)[i] = s[i]
<1>1. Len(s) - n \in Int /\ \A i \in 1 .. Len(s) - n : s[i] \in S
  OBVIOUS
<1>2. QED
  BY <1>1, SubSeqProperties DEF TrimTail

LEMMA Greatest ==
    ASSUME NEW n \in Nat, NEW S, S \subseteq 0 .. n, S # {}
    PROVE  \E i \in S : \A j \in S : j <= i
<1> DEFINE T == {n - i : i \in S}
<1>1. T \subseteq Nat /\ T # {}
  <2>1. \A i \in S : n - i \in Nat
    OBVIOUS
  <2>2. QED
    BY <2>1
<1>2. PICK k \in T : \A j \in T : <<j, k>> \notin OpToRel(<, Nat)
  BY <1>1, WFMin, NatLessThanWellFounded, Zenon
<1>3. \A j \in T : ~(j < k)
  BY <1>1, <1>2, Zenon DEF OpToRel
<1>4. PICK i \in S : k = n - i
  OBVIOUS
<1>5. ASSUME NEW j \in S PROVE j <= i
  <2>1. n - j \in T /\ i \in Int /\ j \in Int
    OBVIOUS
  <2>2. ~(n - j < n - i)
    BY <1>3, <1>4, <2>1
  <2>3. QED
    BY <2>1, <2>2
<1>6. QED
  BY <1>5

\* The common prefix is one: the two sequences agree as far as it goes.
LEMMA CommonPrefixAgrees ==
    ASSUME NEW s \in Seq(Tokens), NEW u \in Seq(Tokens)
    PROVE  /\ CommonPrefix(s, u) \in 0 .. Len(s)
           /\ CommonPrefix(s, u) <= Len(u)
           /\ \A i \in 1 .. CommonPrefix(s, u) : s[i] = u[i]
<1> DEFINE agree == {n \in 0 .. Len(s) : n <= Len(u) /\ SubSeq(s, 1, n) = SubSeq(u, 1, n)}
           c == CommonPrefix(s, u)
<1>1. SubSeq(s, 1, 0) = <<>> /\ SubSeq(u, 1, 0) = <<>>
  BY SubSeqEmpty
<1>2. 0 \in agree
  BY <1>1
<1>3. \E i \in agree : \A j \in agree : j <= i
  <2>1. agree \subseteq 0 .. Len(s) /\ agree # {} /\ Len(s) \in Nat
    BY <1>2
  <2> HIDE DEF agree
  <2>2. QED
    BY <2>1, Greatest
<1>4. c \in agree
  BY <1>3 DEF CommonPrefix
<1>5. ASSUME NEW i \in 1 .. c PROVE s[i] = u[i]
  <2>1. c \in Nat /\ c <= Len(s) /\ c <= Len(u) /\ SubSeq(s, 1, c) = SubSeq(u, 1, c)
    BY <1>4
  <2>2. SubSeq(s, 1, c)[i] = s[i]
    <3>1. \A k \in 1 .. c : s[k] \in Tokens
      BY <2>1
    <3>2. QED
      BY <2>1, <3>1, SubSeqProperties
  <2>3. SubSeq(u, 1, c)[i] = u[i]
    <3>1. \A k \in 1 .. c : u[k] \in Tokens
      BY <2>1
    <3>2. QED
      BY <2>1, <3>1, SubSeqProperties
  <2>4. QED
    BY <2>1, <2>2, <2>3
<1>6. QED
  BY <1>4, <1>5

\* Whatever a cache holds, what it lends are slots and what is fed are tokens.
LEMMA ReusedType ==
    ASSUME NEW s, NEW p \in Seq(Tokens), Len(p) >= 1,
           caches[s].prompt \in Seq(Tokens), caches[s].kv \in Seq(Slots)
    PROVE  Reused(s, p) \in Seq(Slots) /\ Fed(s, p) \in Seq(Tokens)
<1> DEFINE q == caches[s].prompt
           lcp == CommonPrefix(q, p)
           kv == TrimTail(caches[s].kv, Len(q) - lcp)
<1>1. lcp \in 0 .. Len(q) /\ lcp <= Len(p)
  BY CommonPrefixAgrees
<1>2. Len(q) - lcp \in Nat /\ lcp \in Nat
  BY <1>1
<1> HIDE DEF lcp
<1>3. kv \in Seq(Slots)
  BY <1>2, Trimmed
<1> HIDE DEF kv
<1>4. TrimTail(kv, 1) \in Seq(Slots)
  BY <1>3, Trimmed
<1>5. Reused(s, p) \in {kv, TrimTail(kv, 1)}
  BY DEF Reused, kv, lcp
<1>6. ASSUME NEW i \in Nat \ {0} PROVE SubSeq(p, i, Len(p)) \in Seq(Tokens)
  <2>1. \A k \in i .. Len(p) : p[k] \in Tokens
    OBVIOUS
  <2>2. QED
    BY <2>1, SubSeqProperties
<1>7. (IF lcp = Len(p) THEN lcp ELSE lcp + 1) \in Nat \ {0}
  BY <1>2
<1>8. Fed(s, p) \in Seq(Tokens)
  BY <1>6, <1>7 DEF Fed, lcp
<1>9. QED
  BY <1>3, <1>4, <1>5, <1>8

\* What a cache that holds its own prompt lends to another prompt is the
\* beginning of that prompt, and the rest of it is fed.
LEMMA ReusedAgrees ==
    ASSUME NEW s, NEW p \in Seq(Tokens), caches[s].prompt \in Seq(Tokens),
           Holds(caches[s].kv, caches[s].prompt)
    PROVE  /\ Reused(s, p) \in Seq(Slots) /\ Len(Reused(s, p)) <= Len(p)
           /\ \A i \in 1 .. Len(Reused(s, p)) : Reused(s, p)[i].token = p[i]
           /\ Len(p) >= 1 => Fed(s, p) = SubSeq(p, Len(Reused(s, p)) + 1, Len(p))
<1> DEFINE q == caches[s].prompt
           lcp == CommonPrefix(q, p)
           kv == TrimTail(caches[s].kv, Len(q) - lcp)
<1>1. /\ lcp \in 0 .. Len(q) /\ lcp <= Len(p)
      /\ \A i \in 1 .. lcp : q[i] = p[i]
  BY CommonPrefixAgrees
<1>2. Len(q) - lcp \in Nat /\ Len(q) - (Len(q) - lcp) = lcp /\ Len(q) \in Nat /\ lcp \in Nat
  BY <1>1
<1> HIDE DEF lcp
<1>3. /\ kv \in Seq(Slots) /\ Len(kv) = lcp
      /\ \A i \in 1 .. Len(kv) : kv[i] = caches[s].kv[i]
  <2>1. caches[s].kv \in Seq(Slots) /\ Len(caches[s].kv) = Len(q)
    BY DEF Holds
  <2>2. QED
    BY <1>1, <1>2, <2>1, Trimmed
<1>4. \A i \in 1 .. Len(kv) : kv[i].token = p[i]
  BY <1>1, <1>3 DEF Holds
<1> HIDE DEF kv
<1>5. /\ TrimTail(kv, 1) \in Seq(Slots) /\ Len(TrimTail(kv, 1)) <= Len(kv)
      /\ Len(kv) >= 1 => Len(TrimTail(kv, 1)) = Len(kv) - 1
      /\ \A i \in 1 .. Len(TrimTail(kv, 1)) : TrimTail(kv, 1)[i] = kv[i]
  BY <1>3, Trimmed
<1>6. Reused(s, p) = IF lcp = Len(p) THEN TrimTail(kv, 1) ELSE kv
  BY DEF Reused, kv, lcp
<1>7. Len(TrimTail(kv, 1)) \in Nat
  BY <1>5
<1>8. Fed(s, p) = SubSeq(p, IF lcp = Len(p) THEN lcp ELSE lcp + 1, Len(p))
  BY DEF Fed, lcp
<1>9. Len(p) >= 1 => Fed(s, p) = SubSeq(p, Len(Reused(s, p)) + 1, Len(p))
  <2>1. CASE lcp = Len(p)
    <3>0. Reused(s, p) = TrimTail(kv, 1) /\ Len(kv) = lcp
      BY <1>3, <1>6, <2>1
    <3> HIDE DEF q
    <3>1. Len(p) >= 1 => Len(TrimTail(kv, 1)) = lcp - 1
      BY <1>5, <2>1, <3>0
    <3>2. Len(p) >= 1 => Len(Reused(s, p)) + 1 = lcp
      BY <1>2, <3>0, <3>1
    <3>3. QED
      BY <1>8, <2>1, <3>2
  <2>2. CASE lcp # Len(p)
    BY <1>3, <1>6, <1>8, <2>2
  <2>3. QED
    BY <2>1, <2>2
<1>10. CASE lcp = Len(p)
  <2>1. Reused(s, p) = TrimTail(kv, 1)
    BY <1>6, <1>10
  <2> DEFINE old == Reused(s, p)
  <2>2. /\ old \in Seq(Slots) /\ Len(old) <= Len(kv)
        /\ \A i \in 1 .. Len(old) : old[i] = kv[i]
    BY <1>5, <2>1
  <2> HIDE DEF old
  <2>3. \A i \in 1 .. Len(old) : i \in 1 .. Len(kv) /\ old[i].token = p[i]
    BY <1>3, <1>4, <2>2
  <2>4. Len(old) <= Len(p)
    BY <1>1, <1>2, <1>3, <2>2
  <2>5. QED
    BY <1>9, <2>2, <2>3, <2>4 DEF old
<1>11. CASE lcp # Len(p)
  <2>1. Reused(s, p) = kv
    BY <1>6, <1>11
  <2>2. QED
    BY <1>1, <1>2, <1>3, <1>4, <1>9, <2>1
<1>12. QED
  BY <1>10, <1>11

\* Feeding the rest of the prompt completes it.
LEMMA FedHolds ==
    ASSUME NEW m \in Range(Model), NEW p \in Seq(Tokens), NEW old \in Seq(Slots),
           Len(old) <= Len(p), \A i \in 1 .. Len(old) : old[i].token = p[i]
    PROVE  Holds(old \o KV(m, SubSeq(p, Len(old) + 1, Len(p))), p)
<1> DEFINE rest == SubSeq(p, Len(old) + 1, Len(p))
           new == KV(m, rest)
<1>1. /\ rest \in Seq(Tokens) /\ Len(rest) = Len(p) - Len(old)
      /\ \A i \in 1 .. Len(rest) : rest[i] = p[Len(old) + i]
  <2>1. \A i \in Len(old) + 1 .. Len(p) : p[i] \in Tokens
    OBVIOUS
  <2>2. QED
    BY <2>1, SubSeqProperties
<1> HIDE DEF rest
<1>2. rest \in Seq(Tokens \cup {Generated})
  BY <1>1
<1>3. Holds(new, rest)
  BY <1>2, KVHolds
<1> HIDE DEF new
<1>4. /\ old \o new \in Seq(Slots) /\ Len(old \o new) = Len(p)
      /\ \A i \in 1 .. Len(p) : (old \o new)[i] = IF i <= Len(old) THEN old[i] ELSE new[i - Len(old)]
  <2>1. new \in Seq(Slots) /\ Len(new) = Len(p) - Len(old) /\ Len(old) \in Nat /\ Len(p) \in Nat
    BY <1>1, <1>3 DEF Holds
  <2>2. Len(old) + Len(new) = Len(p)
    BY <2>1
  <2>3. QED
    BY <2>1, <2>2, ConcatProperties
<1>5. ASSUME NEW i \in 1 .. Len(p) PROVE (old \o new)[i].token = p[i]
  <2>1. CASE i <= Len(old)
    BY <1>4, <2>1
  <2>2. CASE ~(i <= Len(old))
    <3>1. i - Len(old) \in 1 .. Len(rest) /\ Len(old) + (i - Len(old)) = i
      BY <1>1, <2>2
    <3>2. new[i - Len(old)].token = p[i]
      BY <1>1, <1>3, <3>1 DEF Holds
    <3>3. QED
      BY <1>4, <2>2, <3>2
  <2>3. QED
    BY <2>1, <2>2
<1>6. QED
  BY <1>4, <1>5 DEF Holds, new, rest

\* The generated tokens come off again.
LEMMA TrimmedHolds ==
    ASSUME NEW m \in Range(Model), NEW p, NEW kv, Holds(kv, p), Len(p) \in Nat, NEW n \in Nat
    PROVE  Holds(TrimTail(kv \o KV(m, [i \in 1 .. n |-> Generated]), n), p)
<1> DEFINE g == [i \in 1 .. n |-> Generated]
           k == KV(m, g)
<1>1. g \in Seq(Tokens \cup {Generated}) /\ Len(g) = n
  OBVIOUS
<1> HIDE DEF g
<1>2. k \in Seq(Slots) /\ Len(k) = n
  BY <1>1, KVHolds DEF Holds
<1> HIDE DEF k
<1>3. /\ kv \o k \in Seq(Slots) /\ Len(kv \o k) = Len(p) + n
      /\ \A i \in 1 .. Len(p) + n : (kv \o k)[i] = IF i <= Len(p) THEN kv[i] ELSE k[i - Len(p)]
  <2>1. kv \in Seq(Slots) /\ Len(kv) = Len(p)
    BY DEF Holds
  <2>2. /\ kv \o k \in Seq(Slots) /\ Len(kv \o k) = Len(kv) + Len(k)
        /\ \A i \in 1 .. Len(kv) + Len(k) : (kv \o k)[i] = IF i <= Len(kv) THEN kv[i] ELSE k[i - Len(kv)]
    BY <1>2, <2>1, ConcatProperties
  <2>3. QED
    BY <1>2, <2>1, <2>2
<1>4. /\ TrimTail(kv \o k, n) \in Seq(Slots) /\ Len(TrimTail(kv \o k, n)) = Len(p)
      /\ \A i \in 1 .. Len(p) : TrimTail(kv \o k, n)[i] = (kv \o k)[i]
  <2>1. Len(p) + n \in Nat /\ n <= Len(p) + n /\ (Len(p) + n) - n = Len(p)
    OBVIOUS
  <2>2. ASSUME NEW w \in Seq(Slots), Len(w) = Len(p) + n
        PROVE  /\ TrimTail(w, n) \in Seq(Slots) /\ Len(TrimTail(w, n)) = Len(p)
               /\ \A i \in 1 .. Len(p) : TrimTail(w, n)[i] = w[i]
    BY <2>1, <2>2, Trimmed
  <2>3. QED
    BY <1>3, <2>2
<1>5. \A i \in 1 .. Len(p) : i \in 1 .. Len(p) + n /\ i <= Len(p)
  OBVIOUS
<1>6. Holds(TrimTail(kv \o k, n), p)
  BY <1>3, <1>4, <1>5 DEF Holds
<1>7. QED
  BY <1>6 DEF k, g

-----------------------------------------------------------------------------
(* The inductive invariant                                                    *)

\* One holder of the lane. A thread that only waits for it is not in it.
LaneInv == \A t \in Threads : InLane(t) => lane = t

\* ModelStays and ResidentReclaimable in the middle of a call: a path that is
\* being erased is out of memory already, and a model without an entry is the
\* one of the call that is about to account for it.
ResidentInv ==
    /\ \A t \in Threads : pc[t] = "running" => ModelOf(t) \in resident
    /\ \A t \in Threads : pc[t] = "erase" => \A k \in stale[t] : k[1] \notin resident
    /\ \A p \in resident \ orphans :
          \/ \E k \in DOMAIN entries : k[1] = p
          \/ \E t \in Threads : pc[t] \in {"running", "account"} /\ ModelOf(t) = p

\* SessionCountRight at all times.
CountInv ==
    /\ sess_count >= Cardinality(DOMAIN caches)
    /\ ~cut => sess_count = Cardinality(DOMAIN caches)

\* ContextIsPrompt needs it of the caches too: every one of them holds the
\* tokens of the prompt it is filed with, which is the running stream's own
\* when the stream is in its session; but for those that a raise cut short.
CacheInv ==
    /\ \A s \in DOMAIN caches \ partial : Holds(caches[s].kv, caches[s].prompt)
    /\ \A t \in Threads : pc[t] = "running" =>
          /\ job[t].session \notin partial => Holds(job[t].kv, job[t].prompt)
          /\ job[t].session \in DOMAIN caches => caches[job[t].session].prompt = job[t].prompt
    /\ \A t \in Threads : pc[t] = "generate" => job[t].session = NoSession

RegistryInv == TypeOK /\ LaneInv /\ ResidentInv /\ CountInv /\ CacheInv

-----------------------------------------------------------------------------
LEMMA SomeSessions ==
    ASSUME NEW S, S \subseteq Sessions
    PROVE  /\ IsFiniteSet(S) /\ Cardinality(S) \in 0 .. Cardinality(Sessions)
           /\ \A U \in SUBSET S : Cardinality(U) <= Cardinality(S)
<1>1. IsFiniteSet(Sessions) /\ Cardinality(Sessions) \in Nat
  BY ModelRegistryAssumption, FS_CardinalityType DEF ModelRegistryAssumption
<1>2. IsFiniteSet(S) /\ Cardinality(S) \in Nat /\ Cardinality(S) <= Cardinality(Sessions)
  BY <1>1, FS_Subset, FS_CardinalityType
<1>3. QED
  BY <1>1, <1>2, FS_Subset

\* Dropping caches leaves the others as they are.
LEMMA Kept ==
    ASSUME TypeOK, NEW S, S \subseteq DOMAIN caches, KeepCaches(S)
    PROVE  /\ DOMAIN caches' = S /\ S \subseteq Sessions /\ Range(caches') \subseteq Caches
           /\ \A s \in S : caches'[s] = caches[s]
           /\ partial' = partial \cap S
BY DEF TypeOK, KeepCaches, Restrict, Range

LEMMA CacheType ==
    ASSUME TypeOK, NEW s \in DOMAIN caches
    PROVE  caches[s] \in Caches /\ caches[s].prompt \in Seq(Tokens) /\ caches[s].kv \in Seq(Slots)
BY ModelRegistryAssumption DEF ModelRegistryAssumption, TypeOK, Range, Caches

LEMMA JobType ==
    ASSUME TypeOK, NEW t \in Threads, pc[t] \in Asked
    PROVE  /\ job[t] \in Jobs /\ job[t].prompt \in Prompts /\ job[t].prompt \in Seq(Tokens)
           /\ job[t].agent \in Agents /\ ModelOf(t) \in Range(Model) /\ Key(job[t].agent) \in Keys
BY ModelRegistryAssumption DEF ModelRegistryAssumption, TypeOK, ModelOf, Range, Keys

\* A job that gets its context is otherwise the same.
SameJob(t) ==
    /\ job' \in [Threads -> Jobs]
    /\ \A u \in Threads \ {t} : job'[u] = job[u]
    /\ job'[t].agent = job[t].agent /\ job'[t].session = job[t].session
    /\ job'[t].prompt = job[t].prompt

LEMMA JobKept ==
    ASSUME TypeOK, NEW t \in Threads, NEW kv \in Seq(Slots), NEW n \in Nat,
           \/ job' = [job EXCEPT ![t].kv = kv]
           \/ job' = [job EXCEPT ![t].kv = kv, ![t].lent = n]
    PROVE  SameJob(t) /\ job'[t].kv = kv
<1>1. job[t] \in Jobs /\ job'[t] \in {[job[t] EXCEPT !.kv = kv], [job[t] EXCEPT !.kv = kv, !.lent = n]}
  BY DEF TypeOK
<1>2. /\ job'[t] \in Jobs /\ job'[t].kv = kv
      /\ job'[t].agent = job[t].agent /\ job'[t].session = job[t].session
      /\ job'[t].prompt = job[t].prompt
  BY <1>1 DEF Jobs
<1>3. DOMAIN job' = Threads /\ \A u \in Threads \ {t} : job'[u] = job[u] /\ job'[u] \in Jobs
  BY DEF TypeOK
<1>4. job' = [u \in DOMAIN job' |-> job'[u]]
  BY DEF TypeOK
<1>5. QED
  BY <1>2, <1>3, <1>4 DEF SameJob

\* A stream in a session: its context is the prompt, and the session's cache
\* is filed with it, if the cache it started from had not been cut short.
LEMMA StreamedCache ==
    ASSUME TypeOK, CacheInv, NEW t \in Threads, Stream(t)
    PROVE  /\ SameJob(t)
           /\ job[t].session \notin partial' => Holds(job'[t].kv, job[t].prompt)
           /\ DOMAIN caches' \subseteq Sessions /\ Range(caches') \subseteq Caches
           /\ partial' \subseteq DOMAIN caches'
           /\ \A s \in DOMAIN caches' \ partial' : Holds(caches'[s].kv, caches'[s].prompt)
           /\ job[t].session \in DOMAIN caches' => caches'[job[t].session].prompt = job[t].prompt
<1> DEFINE s == job[t].session
           prompt == job[t].prompt
           old == IF s \in Live THEN Reused(s, prompt) ELSE <<>>
           fed == IF s \in Live THEN Fed(s, prompt) ELSE prompt
           new == old \o KV(ModelOf(t), fed)
<1>1. /\ pc[t] \in Asked /\ prompt \in Prompts /\ prompt \in Seq(Tokens)
      /\ s \in Sessions \cup {NoSession} /\ ModelOf(t) \in Range(Model)
  BY JobType DEF Stream, Asked, Jobs
<1>2. Holds(KV(ModelOf(t), prompt), prompt)
  BY <1>1, KVHolds
<1>3. Live \subseteq DOMAIN caches
  BY DEF Live
<1>4. ASSUME Len(prompt) >= 1
      PROVE  new \in Seq(Slots) /\ Len(old) \in Nat /\ ((s \in Live /\ s \in partial) \/ Holds(new, prompt))
  <2>1. old \in Seq(Slots) /\ fed \in Seq(Tokens)
    <3>1. CASE s \in Live
      BY <1>1, <1>3, <1>4, <3>1, CacheType, ReusedType
    <3>2. CASE s \notin Live
      BY <1>1, <3>2
    <3>3. QED
      BY <3>1, <3>2
  <2>2. ASSUME ~(s \in Live /\ s \in partial) PROVE Holds(new, prompt)
    <3>1. /\ Len(old) <= Len(prompt) /\ fed = SubSeq(prompt, Len(old) + 1, Len(prompt))
          /\ \A i \in 1 .. Len(old) : old[i].token = prompt[i]
      <4>1. CASE s \in Live
        <5>1. Holds(caches[s].kv, caches[s].prompt)
          BY <1>3, <2>2, <4>1 DEF CacheInv
        <5>2. QED
          BY <1>1, <1>3, <1>4, <4>1, <5>1, CacheType, ReusedAgrees
      <4>2. CASE s \notin Live
        BY <1>1, <4>2
      <4>3. QED
        BY <4>1, <4>2
    <3> HIDE DEF old, fed
    <3>2. QED
      BY <1>1, <2>1, <3>1, FedHolds
  <2> HIDE DEF old, fed
  <2>3. fed \in Seq(Tokens \cup {Generated})
    BY <2>1
  <2>4. KV(ModelOf(t), fed) \in Seq(Slots)
    BY <1>1, <2>3, KVHolds DEF Holds
  <2>5. new \in Seq(Slots) /\ Len(old) \in Nat
    BY <2>1, <2>4, ConcatProperties
  <2>6. QED
    BY <2>2, <2>5
<1> HIDE DEF old, new
<1>5. CASE /\ s = NoSession /\ UNCHANGED promptCaches
           /\ job' = [job EXCEPT ![t].kv = KV(ModelOf(t), prompt)]
  <2>1. s \notin DOMAIN caches
    BY <1>5, ModelRegistryAssumption DEF ModelRegistryAssumption, TypeOK
  <2>2. KV(ModelOf(t), prompt) \in Seq(Slots)
    BY <1>2 DEF Holds
  <2>3. SameJob(t) /\ job'[t].kv = KV(ModelOf(t), prompt)
    BY <1>5, <2>2, JobKept
  <2>4. QED
    BY <1>2, <1>5, <2>1, <2>3 DEF promptCaches, TypeOK, CacheInv
<1>6. CASE /\ KeepCaches(Live \ {s})
           /\ job' = [job EXCEPT ![t].kv = KV(ModelOf(t), prompt)]
  <2>1. /\ DOMAIN caches' = Live \ {s} /\ DOMAIN caches' \subseteq Sessions
        /\ Range(caches') \subseteq Caches /\ partial' = partial \cap (Live \ {s})
        /\ \A x \in Live \ {s} : caches'[x] = caches[x]
    BY <1>3, <1>6, Kept
  <2>2. \A x \in DOMAIN caches' \ partial' : Holds(caches'[x].kv, caches'[x].prompt)
    BY <1>3, <2>1 DEF CacheInv
  <2>3. KV(ModelOf(t), prompt) \in Seq(Slots)
    BY <1>2 DEF Holds
  <2>4. SameJob(t) /\ job'[t].kv = KV(ModelOf(t), prompt)
    BY <1>6, <2>3, JobKept
  <2>5. QED
    BY <1>2, <2>1, <2>2, <2>4
<1>7. CASE /\ s # NoSession /\ Len(prompt) >= MIN_CTX
           /\ job' = [job EXCEPT ![t].kv = new, ![t].lent = Len(old)]
           /\ caches' = [x \in Live \cup {s} |->
                            IF x = s THEN [prompt |-> prompt, kv |-> new, idle |-> FALSE] ELSE caches[x]]
           /\ partial' = partial \cap Live
  <2>0. Len(prompt) >= 1
    BY <1>1, <1>7, ModelRegistryAssumption DEF ModelRegistryAssumption
  <2>1. DOMAIN caches' = Live \cup {s} /\ s \in Sessions /\ new \in Seq(Slots) /\ Len(old) \in Nat
    BY <1>1, <1>4, <1>7, <2>0
  <2>2. caches'[s].prompt = prompt /\ caches'[s].kv = new /\ caches'[s] \in Caches
    BY <1>1, <1>7, <2>1 DEF Caches
  <2>3. \A x \in Live \ {s} : caches'[x] = caches[x] /\ caches'[x] \in Caches
    BY <1>3, <1>7, CacheType
  <2>4. Range(caches') \subseteq Caches
    BY <2>1, <2>2, <2>3 DEF Range
  <2>5. \A x \in Live \ {s} : x \notin partial' => Holds(caches'[x].kv, caches'[x].prompt)
    BY <1>3, <1>7, <2>3 DEF CacheInv
  <2>6. s \notin partial' => Holds(new, prompt)
    BY <1>4, <1>7, <2>0
  <2>7. SameJob(t) /\ job'[t].kv = new
    BY <1>7, <2>1, JobKept
  <2>8. DOMAIN caches' \subseteq Sessions
    BY <1>3, <2>1 DEF TypeOK
  <2>9. QED
    BY <1>7, <2>1, <2>2, <2>4, <2>5, <2>6, <2>7, <2>8
<1>8. QED
  BY <1>5, <1>6, <1>7 DEF Stream, old, new

\* What a run leaves in its session's cache, whole unless it raised.
LEMMA FiledCache ==
    ASSUME TypeOK, CacheInv, NEW s \in DOMAIN caches, NEW kv \in Seq(Slots),
           caches' = [caches EXCEPT ![s].kv = kv],
           partial \subseteq partial', partial' \subseteq partial \cup {s},
           s \notin partial' => Holds(kv, caches[s].prompt)
    PROVE  /\ DOMAIN caches' = DOMAIN caches /\ Range(caches') \subseteq Caches
           /\ partial' \subseteq DOMAIN caches
           /\ \A x \in DOMAIN caches : /\ x \notin partial' => Holds(caches'[x].kv, caches'[x].prompt)
                                       /\ caches'[x].prompt = caches[x].prompt
<1>1. caches[s] \in Caches
  BY CacheType
<1>2. caches'[s] \in Caches /\ caches'[s].kv = kv /\ caches'[s].prompt = caches[s].prompt
  BY <1>1 DEF Caches
<1>3. DOMAIN caches' = DOMAIN caches /\ \A x \in DOMAIN caches \ {s} : caches'[x] = caches[x]
  OBVIOUS
<1>4. \A x \in DOMAIN caches : caches'[x] \in Caches
  BY <1>2, <1>3, CacheType
<1>5. QED
  BY <1>2, <1>3, <1>4 DEF Range, CacheInv, TypeOK

\* The end of a run leaves every cache with the tokens of its prompt, and a
\* raise every cache but its session's.
LEMMA EndedCache ==
    ASSUME TypeOK, CacheInv, NEW t \in Threads, RunEnds(t) \/ RunRaises(t)
    PROVE  /\ DOMAIN caches' = DOMAIN caches /\ Range(caches') \subseteq Caches
           /\ partial' \subseteq DOMAIN caches
           /\ \A x \in DOMAIN caches : /\ x \notin partial' => Holds(caches'[x].kv, caches'[x].prompt)
                                       /\ caches'[x].prompt = caches[x].prompt
<1> DEFINE s == job[t].session
           ctx == job[t].kv
           more(n) == KV(ModelOf(t), [i \in 1 .. n |-> Generated])
<1>1. /\ pc[t] = "running" /\ job[t] \in Jobs
      /\ job[t].prompt \in Seq(Tokens) /\ ModelOf(t) \in Range(Model)
  BY JobType DEF RunEnds, RunRaises, Asked
<1>2. ctx \in Seq(Slots) /\ job[t].lent \in Nat
  BY <1>1 DEF Jobs
<1>3. ASSUME NEW n \in Nat PROVE more(n) \in Seq(Slots) /\ ctx \o more(n) \in Seq(Slots)
  <2>1. [i \in 1 .. n |-> Generated] \in Seq(Tokens \cup {Generated})
    OBVIOUS
  <2>2. more(n) \in Seq(Slots)
    BY <1>1, <2>1, KVHolds DEF Holds
  <2>3. QED
    BY <1>2, <2>2, ConcatProperties
<1>4. ASSUME s \in DOMAIN caches, s \notin partial
      PROVE  Holds(ctx, job[t].prompt) /\ caches[s].prompt = job[t].prompt
  BY <1>1, <1>4 DEF CacheInv
<1>5. CASE UNCHANGED <<caches, partial>>
  BY <1>5 DEF TypeOK, CacheInv
<1>6. CASE s \in DOMAIN caches /\ RunEnds(t)
  <2>1. PICK n \in 0 .. 1 : caches' = [caches EXCEPT ![s].kv = TrimTail(ctx \o more(n), n)]
    BY <1>6 DEF RunEnds
  <2>2. TrimTail(ctx \o more(n), n) \in Seq(Slots)
    <3>1. n \in Nat /\ ctx \o more(n) \in Seq(Slots)
      BY <1>3
    <3> DEFINE w == ctx \o more(n)
    <3> HIDE DEF w
    <3>2. TrimTail(w, n) \in Seq(Slots)
      BY <3>1, Trimmed DEF w
    <3>3. QED
      BY <3>2 DEF w
  <2>3. s \notin partial => Holds(TrimTail(ctx \o more(n), n), caches[s].prompt)
    <3>1. Len(job[t].prompt) \in Nat
      BY <1>1
    <3>2. QED
      BY <1>1, <1>4, <1>6, <3>1, TrimmedHolds
  <2>4. partial' = partial
    BY <1>6 DEF RunEnds
  <2> HIDE DEF s
  <2>5. QED
    BY <1>6, <2>1, <2>2, <2>3, <2>4, FiledCache
<1>7. CASE s \in DOMAIN caches /\ RunRaises(t)
  <2> DEFINE grown == ctx \o KV(ModelOf(t), <<Generated>>)
  <2>1. grown \in Seq(Slots) /\ Len(grown) = Len(ctx) + 1
        /\ \A i \in 1 .. Len(ctx) : grown[i] = ctx[i]
    <3>1. <<Generated>> \in Seq(Tokens \cup {Generated}) /\ Len(<<Generated>>) = 1
      OBVIOUS
    <3>2. KV(ModelOf(t), <<Generated>>) \in Seq(Slots) /\ Len(KV(ModelOf(t), <<Generated>>)) = 1
      BY <1>1, <3>1, KVHolds DEF Holds
    <3> DEFINE k == KV(ModelOf(t), <<Generated>>)
               c == ctx
    <3>3. k \in Seq(Slots) /\ Len(k) = 1 /\ c \in Seq(Slots)
      BY <1>2, <3>2
    <3> HIDE DEF k, c
    <3>4. /\ c \o k \in Seq(Slots) /\ Len(c \o k) = Len(c) + 1
          /\ \A i \in 1 .. Len(c) : (c \o k)[i] = c[i]
      <4>1. /\ c \o k \in Seq(Slots) /\ Len(c \o k) = Len(c) + Len(k)
            /\ \A i \in 1 .. Len(c) + Len(k) :
                  (c \o k)[i] = IF i <= Len(c) THEN c[i] ELSE k[i - Len(c)]
        BY <3>3, ConcatProperties
      <4>2. Len(c) \in Nat /\ Len(k) = 1
        BY <3>3
      <4>3. \A i \in 1 .. Len(c) : i \in 1 .. Len(c) + Len(k) /\ i <= Len(c)
        BY <4>2
      <4>4. QED
        BY <4>1, <4>2, <4>3
    <3>5. QED
      BY <3>4 DEF k, c
  <2> HIDE DEF grown
  <2>2. PICK n \in job[t].lent .. Len(grown) :
           /\ caches' = [caches EXCEPT ![s].kv = SubSeq(grown, 1, n)]
           /\ partial' = IF n = Len(ctx) THEN partial ELSE partial \cup {s}
    BY <1>7 DEF RunRaises, grown
  <2>3. n \in Nat /\ n <= Len(grown) /\ Len(grown) \in Nat /\ Len(ctx) \in Nat
    BY <1>2, <2>1
  <2>4. /\ SubSeq(grown, 1, n) \in Seq(Slots) /\ Len(SubSeq(grown, 1, n)) = n
        /\ \A i \in 1 .. n : SubSeq(grown, 1, n)[i] = grown[i]
    <3>1. \A i \in 1 .. n : grown[i] \in Slots
      BY <2>1, <2>3
    <3>2. QED
      BY <2>3, <3>1, SubSeqProperties
  <2>5. s \notin partial' => Holds(SubSeq(grown, 1, n), caches[s].prompt)
    <3>1. SUFFICES ASSUME n = Len(ctx), s \notin partial
                   PROVE  Holds(SubSeq(grown, 1, n), caches[s].prompt)
      BY <2>2
    <3>2. Len(ctx) = Len(caches[s].prompt) /\ \A i \in 1 .. n : ctx[i].token = caches[s].prompt[i]
      BY <1>4, <1>7, <3>1 DEF Holds
    <3>3. QED
      BY <2>1, <2>4, <3>1, <3>2 DEF Holds
  <2> DEFINE kv == SubSeq(grown, 1, n)
  <2>6. partial \subseteq partial' /\ partial' \subseteq partial \cup {s}
    BY <2>2
  <2> HIDE DEF s
  <2>7. kv \in Seq(Slots) /\ caches' = [caches EXCEPT ![s].kv = kv]
        /\ (s \notin partial' => Holds(kv, caches[s].prompt))
    BY <2>2, <2>4, <2>5 DEF s
  <2> HIDE DEF kv
  <2>8. QED
    BY <1>7, <2>6, <2>7, FiledCache
<1>8. QED
  BY <1>5, <1>6, <1>7 DEF RunEnds, RunRaises

-----------------------------------------------------------------------------
LEMMA InitInv == Init => RegistryInv
<1> SUFFICES ASSUME Init PROVE RegistryInv
  OBVIOUS
<1>1. DOMAIN entries = {} /\ DOMAIN caches = {} /\ Range(entries) = {} /\ Range(caches) = {}
  BY DEF Init, Range
<1>2. Cardinality(DOMAIN caches) = 0 /\ 0 \in 0 .. Cardinality(Sessions)
  BY <1>1, FS_EmptySet, SomeSessions
<1>3. NoJob \in Jobs
  <2>1. <<>> \in Seq(Slots)
    OBVIOUS
  <2>2. QED
    BY <2>1 DEF NoJob, NewJob, Jobs
<1>4. TypeOK
  <2>1. pc \in [Threads -> Asked \cup {"ready", "evict", "erase"}] /\ \A t \in Threads : pc[t] \notin Asked
    BY DEF Init, Asked
  <2>2. calls \in 0 .. MaxCalls
    BY ModelRegistryAssumption DEF ModelRegistryAssumption, Init
  <2>3. job \in [Threads -> Jobs] /\ stale \in [Threads -> SUBSET Keys]
    BY <1>3 DEF Init
  <2>4. QED
    BY <1>1, <1>2, <2>1, <2>2, <2>3 DEF Init, TypeOK
<1>5. QED
  BY <1>1, <1>2, <1>4
  DEF Init, RegistryInv, LaneInv, InLane, ResidentInv, CountInv, CacheInv

LEMMA TypeStep ==
    ASSUME TypeOK, CacheInv, [Next]_vars
    PROVE  TypeOK'
<1> USE DEF registry, promptCaches, Goto, Asked
<1>1. ASSUME NEW t \in Threads, ChooseStale(t) PROVE TypeOK'
  BY <1>1, ModelRegistryAssumption DEF ModelRegistryAssumption, ChooseStale, TypeOK
<1>2. ASSUME NEW t \in Threads, DropModels(t) PROVE TypeOK'
  <2>1. Live \subseteq DOMAIN caches /\ Live \subseteq Sessions
    BY DEF Live, TypeOK
  <2>2. DOMAIN caches' \subseteq Sessions /\ Range(caches') \subseteq Caches /\ partial' \subseteq DOMAIN caches'
    BY <1>2, <2>1, Kept DEF DropModels
  <2>3. sess_count' \in 0 .. Cardinality(Sessions) /\ cut' \in BOOLEAN
    BY <1>2, <2>1, SomeSessions DEF DropModels, Count
  <2>4. QED
    BY <1>2, <2>2, <2>3 DEF DropModels, TakeLane, TypeOK
<1>3. ASSUME NEW t \in Threads, EraseEntries(t) PROVE TypeOK'
  <2>1. DOMAIN entries' \subseteq Keys /\ Range(entries') \subseteq Ages
    BY <1>3 DEF EraseEntries, Restrict, Range, TypeOK
  <2>2. QED
    BY <1>3, <2>1 DEF EraseEntries, TypeOK
<1>4. ASSUME NEW t \in Threads, Ask(t) PROVE TypeOK'
  <2>1. PICK a \in Agents, s \in Sessions \cup {NoSession}, p \in Prompts, route \in {"generate", "stream"} :
          /\ job' = [job EXCEPT ![t] = NewJob(a, s, p)]
          /\ pc' = [pc EXCEPT ![t] = route]
    BY <1>4 DEF Ask
  <2>2. NewJob(a, s, p) \in Jobs /\ NewJob(a, s, p).agent \in Agents /\ NewJob(a, s, p).prompt \in Prompts
    <3>1. <<>> \in Seq(Slots)
      OBVIOUS
    <3>2. QED
      BY <3>1 DEF NewJob, Jobs
  <2>3. calls' \in 0 .. MaxCalls
    BY <1>4, ModelRegistryAssumption DEF ModelRegistryAssumption, Ask, TypeOK
  <2>4. QED
    BY <1>4, <2>1, <2>2, <2>3 DEF Ask, TypeOK
\* What the steps of a call have in common.
<1>5. ASSUME NEW t \in Threads, Return(t) PROVE
         /\ pc' \in [Threads -> Asked \cup {"ready", "evict", "erase"}]
         /\ job' \in [Threads -> Jobs]
         /\ \A u \in Threads : pc'[u] \in Asked => job'[u].agent \in Agents /\ job'[u].prompt \in Prompts
  <2>1. NoJob \in Jobs
    <3>1. <<>> \in Seq(Slots)
      OBVIOUS
    <3>2. QED
      BY <3>1 DEF NoJob, NewJob, Jobs
  <2>2. QED
    BY <1>5, <2>1 DEF Return, TypeOK
<1>6. ASSUME NEW t \in Threads, SameJob(t),
             pc[t] \in Asked, pc' \in {[pc EXCEPT ![t] = "running"], [pc EXCEPT ![t] = "account"]}
      PROVE
         /\ pc' \in [Threads -> Asked \cup {"ready", "evict", "erase"}]
         /\ job' \in [Threads -> Jobs]
         /\ \A u \in Threads : pc'[u] \in Asked => job'[u].agent \in Agents /\ job'[u].prompt \in Prompts
  BY <1>6 DEF SameJob, TypeOK
<1>7. ASSUME NEW t \in Threads, pc[t] \in Asked
      PROVE  resident \cup {ModelOf(t)} \subseteq Range(Model)
  BY <1>7, JobType DEF TypeOK
<1>8. ASSUME NEW t \in Threads, Generate(t) PROVE TypeOK'
  <2>0. KV(ModelOf(t), job[t].prompt) \in Seq(Slots) /\ pc[t] \in Asked
    BY <1>8, JobType, KVHolds DEF Generate, Holds
  <2>1. SameJob(t) /\ pc[t] \in Asked
    BY <1>8, <2>0, JobKept DEF Generate
  <2>2. resident' \subseteq Range(Model)
    BY <1>7, <1>8, <2>1 DEF Generate, TypeOK
  <2>3. lane' \in Threads \cup {Nobody}
    BY <1>8 DEF Generate, TakeLane
  <2>4. QED
    BY <1>6, <1>8, <2>1, <2>2, <2>3 DEF Generate, TypeOK
<1>9. ASSUME NEW t \in Threads, StreamNoModel(t) PROVE TypeOK'
  BY <1>5, <1>9 DEF StreamNoModel, TypeOK
<1>10. ASSUME NEW t \in Threads, StreamSetupFails(t) PROVE TypeOK'
  <2>1. Live \subseteq DOMAIN caches
    BY DEF Live
  <2>2. DOMAIN caches' \subseteq Sessions /\ Range(caches') \subseteq Caches /\ partial' \subseteq DOMAIN caches'
    BY <1>10, <2>1, Kept DEF StreamSetupFails
  <2>3. resident' \cup orphans' \subseteq Range(Model)
    BY <1>7, <1>10 DEF StreamSetupFails, TypeOK
  <2>4. QED
    BY <1>5, <1>10, <2>2, <2>3 DEF StreamSetupFails, TypeOK
<1>11. ASSUME NEW t \in Threads, Stream(t) PROVE TypeOK'
  <2>1. SameJob(t)
    BY <1>11, StreamedCache
  <2>2. DOMAIN caches' \subseteq Sessions /\ Range(caches') \subseteq Caches /\ partial' \subseteq DOMAIN caches'
    BY <1>11, StreamedCache
  <2>3. sess_count' \in 0 .. Cardinality(Sessions) /\ cut' \in BOOLEAN
    <3>1. Live \subseteq Sessions /\ job[t].session \in Sessions \cup {NoSession}
      BY DEF Live, TypeOK, Jobs
    <3>2. CASE UNCHANGED promptCaches
      BY <3>2 DEF TypeOK
    <3>3. CASE job[t].session # NoSession /\ Count(Live \ {job[t].session})
      BY <3>1, <3>3, SomeSessions DEF Count
    <3>4. CASE job[t].session # NoSession /\ Count(Live \cup {job[t].session})
      BY <3>1, <3>4, SomeSessions DEF Count
    <3>5. QED
      BY <1>11, <3>2, <3>3, <3>4 DEF Stream
  <2>4. resident' \subseteq Range(Model) /\ pc[t] \in Asked
    BY <1>7, <1>11 DEF Stream
  <2>5. /\ lane' \in Threads \cup {Nobody} /\ pc' = [pc EXCEPT ![t] = "running"]
        /\ UNCHANGED <<entries, calls, stale, orphans>>
    BY <1>11 DEF Stream, TakeLane
  <2>6. QED
    BY <1>6, <2>1, <2>2, <2>3, <2>4, <2>5 DEF TypeOK
<1>12. ASSUME NEW t \in Threads, RunEnds(t) \/ RunRaises(t) PROVE TypeOK'
  <2>1. DOMAIN caches' = DOMAIN caches /\ Range(caches') \subseteq Caches /\ partial' \subseteq DOMAIN caches
    BY <1>12, EndedCache
  <2>2. /\ pc[t] = "running" /\ pc' = [pc EXCEPT ![t] = "account"]
        /\ UNCHANGED <<registry, sess_count, cut, lane, calls, job, stale, orphans>>
    BY <1>12 DEF RunEnds, RunRaises
  <2>3. QED
    BY <2>1, <2>2 DEF TypeOK
<1>13. ASSUME NEW t \in Threads, Account(t) PROVE TypeOK'
  <2>1. DOMAIN entries' \subseteq Keys /\ Range(entries') \subseteq Ages
    BY <1>13, JobType DEF Account, TypeOK, Range, Ages
  <2>2. QED
    BY <1>5, <1>13, <2>1 DEF Account, TypeOK
<1>14. ASSUME NEW k \in DOMAIN entries, Unused(k) PROVE TypeOK'
  <2>1. DOMAIN entries' = DOMAIN entries /\ Range(entries') \subseteq Ages
    BY <1>14 DEF Unused, TypeOK, Range, Ages
  <2>2. QED
    BY <1>14, <2>1 DEF Unused, TypeOK
<1>15. ASSUME NEW s \in DOMAIN caches, Expire(s) PROVE TypeOK'
  <2>1. DOMAIN caches' = DOMAIN caches /\ \A x \in DOMAIN caches \ {s} : caches'[x] = caches[x]
    BY <1>15 DEF Expire
  <2>2. caches[s] \in Caches /\ caches'[s] = [caches[s] EXCEPT !.idle = TRUE]
    BY <1>15, CacheType DEF Expire
  <2>3. caches'[s] \in Caches
    BY <2>2 DEF Caches
  <2>4. Range(caches') \subseteq Caches
    BY <2>1, <2>3, CacheType DEF Range
  <2>5. QED
    BY <1>15, <2>1, <2>4 DEF Expire, TypeOK
<1>16. CASE UNCHANGED vars
  BY <1>16 DEF vars, TypeOK
<1>17. QED
  BY <1>1, <1>2, <1>3, <1>4, <1>8, <1>9, <1>10, <1>11, <1>12, <1>13, <1>14, <1>15, <1>16 DEF Next, Step

LEMMA LaneStep ==
    ASSUME TypeOK, LaneInv, [Next]_vars
    PROVE  LaneInv'
<1> USE DEF registry, promptCaches, Goto, InLane, LaneInv, TypeOK, Asked
<1>0. Nobody \notin Threads
  BY ModelRegistryAssumption DEF ModelRegistryAssumption
<1>1. ASSUME NEW t \in Threads, ChooseStale(t) \/ Ask(t) PROVE LaneInv'
  BY <1>1 DEF ChooseStale, Ask
<1>2. ASSUME NEW t \in Threads, DropModels(t) \/ Generate(t) \/ Stream(t) PROVE LaneInv'
  BY <1>0, <1>2 DEF DropModels, Generate, Stream, TakeLane
<1>3. ASSUME NEW t \in Threads, EraseEntries(t) \/ Account(t) PROVE LaneInv'
  BY <1>0, <1>3 DEF EraseEntries, Account, Return
<1>4. ASSUME NEW t \in Threads, StreamNoModel(t) \/ StreamSetupFails(t) PROVE LaneInv'
  BY <1>4 DEF StreamNoModel, StreamSetupFails, Return
<1>5. ASSUME NEW t \in Threads, RunEnds(t) \/ RunRaises(t) PROVE LaneInv'
  BY <1>5 DEF RunEnds, RunRaises
<1>6. ASSUME UNCHANGED <<pc, lane>> PROVE LaneInv'
  BY <1>6
<1>7. QED
  BY <1>1, <1>2, <1>3, <1>4, <1>5, <1>6 DEF Next, Step, Unused, Expire, vars

LEMMA CountStep ==
    ASSUME TypeOK, CacheInv, CountInv, [Next]_vars
    PROVE  CountInv'
<1> USE DEF registry, promptCaches
<1>0. DOMAIN caches \subseteq Sessions /\ Live \subseteq DOMAIN caches /\ sess_count \in Nat
  BY DEF TypeOK, Live
<1>1. ASSUME NEW S, S \subseteq Sessions, Count(S), DOMAIN caches' = S PROVE CountInv'
  BY <1>1, SomeSessions DEF Count, CountInv
<1>2. ASSUME NEW t \in Threads, DropModels(t) PROVE CountInv'
  BY <1>0, <1>1, <1>2, Kept DEF DropModels
<1>3. ASSUME NEW t \in Threads, StreamSetupFails(t) PROVE CountInv'
  <2>1. DOMAIN caches' = Live /\ sess_count' = sess_count /\ cut' = TRUE
    BY <1>0, <1>3, Kept DEF StreamSetupFails
  <2>2. Cardinality(Live) <= Cardinality(DOMAIN caches) /\ Cardinality(Live) \in Nat
        /\ Cardinality(DOMAIN caches) \in Nat
    BY <1>0, SomeSessions
  <2>3. QED
    BY <1>0, <2>1, <2>2 DEF CountInv
<1>4. ASSUME NEW t \in Threads, Stream(t) PROVE CountInv'
  <2> DEFINE s == job[t].session
  <2>1. s \in Sessions \cup {NoSession}
    BY JobType, <1>4 DEF Stream, Asked, Jobs
  <2>2. CASE UNCHANGED promptCaches
    BY <2>2 DEF CountInv
  <2>3. CASE KeepCaches(Live \ {s}) /\ Count(Live \ {s})
    BY <1>0, <1>1, <2>3, Kept
  <2>4. CASE s # NoSession /\ DOMAIN caches' = Live \cup {s} /\ Count(Live \cup {s})
    BY <1>0, <1>1, <2>1, <2>4
  <2>5. QED
    BY <1>4, <2>2, <2>3, <2>4 DEF Stream
<1>5. ASSUME UNCHANGED <<sess_count, cut>>, DOMAIN caches' = DOMAIN caches PROVE CountInv'
  BY <1>5 DEF CountInv
<1>6. ASSUME NEW t \in Threads, RunEnds(t) \/ RunRaises(t) PROVE CountInv'
  BY <1>5, <1>6, EndedCache DEF RunEnds, RunRaises
<1>7. ASSUME NEW s \in DOMAIN caches, Expire(s) PROVE CountInv'
  BY <1>5, <1>7 DEF Expire
<1>8. ASSUME UNCHANGED promptCaches PROVE CountInv'
  BY <1>5, <1>8
<1>9. QED
  BY <1>2, <1>3, <1>4, <1>6, <1>7, <1>8
  DEF Next, Step, ChooseStale, EraseEntries, Ask, Generate, StreamNoModel, Account, Unused, vars

\* Whoever changes a cache or a model's context is in the lane, alone.
LEMMA CacheStep ==
    ASSUME TypeOK, LaneInv, CacheInv, [Next]_vars
    PROVE  CacheInv'
<1> USE DEF registry, promptCaches
<1>0. Nobody \notin Threads /\ Live \subseteq DOMAIN caches
  BY ModelRegistryAssumption DEF ModelRegistryAssumption, Live
<1>1. ASSUME lane = Nobody PROVE \A u \in Threads : pc[u] # "running"
  BY <1>0, <1>1 DEF LaneInv, InLane
<1>2. ASSUME NEW t \in Threads, ChooseStale(t) \/ EraseEntries(t) \/ StreamNoModel(t) \/ Account(t)
      PROVE  CacheInv'
  <2>1. /\ \E l \in {"evict", "ready"} : pc' = [pc EXCEPT ![t] = l]
        /\ UNCHANGED <<caches, partial>> /\ \A u \in Threads \ {t} : job'[u] = job[u]
    BY <1>2 DEF ChooseStale, EraseEntries, StreamNoModel, Account, Return, Goto, TypeOK
  <2>2. \A u \in Threads : pc'[u] \in {"running", "generate"} => u # t /\ pc'[u] = pc[u]
    BY <2>1 DEF TypeOK
  <2>3. QED
    BY <2>1, <2>2 DEF CacheInv
<1>3. ASSUME NEW t \in Threads, Ask(t) PROVE CacheInv'
  <2>1. PICK a \in Agents, s \in Sessions \cup {NoSession}, p \in Prompts, route \in {"generate", "stream"} :
          /\ route = "generate" => s = NoSession
          /\ job' = [job EXCEPT ![t] = NewJob(a, s, p)]
          /\ pc' = [pc EXCEPT ![t] = route]
    BY <1>3 DEF Ask, Goto
  <2>2. UNCHANGED <<caches, partial>> /\ \A u \in Threads \ {t} : job'[u] = job[u] /\ pc'[u] = pc[u]
    BY <1>3, <2>1 DEF Ask, TypeOK
  <2>3. pc'[t] = route /\ job'[t].session = s
    BY <2>1 DEF TypeOK, NewJob
  <2>4. QED
    BY <2>1, <2>2, <2>3 DEF CacheInv
<1>4. ASSUME NEW t \in Threads, DropModels(t) \/ StreamSetupFails(t) PROVE CacheInv'
  <2>1. lane = Nobody /\ KeepCaches(Live)
    BY <1>4 DEF DropModels, StreamSetupFails, TakeLane
  <2>2. DOMAIN caches' = Live /\ partial' = partial \cap Live /\ \A s \in Live : caches'[s] = caches[s]
    BY <1>0, <2>1, Kept
  <2>3. \A u \in Threads : /\ pc'[u] # "running"
                           /\ pc'[u] = "generate" => pc[u] = "generate" /\ job'[u] = job[u]
    BY <1>1, <1>4, <2>1 DEF DropModels, StreamSetupFails, Return, Goto, TypeOK
  <2>4. QED
    BY <1>0, <2>2, <2>3 DEF CacheInv
<1>5. ASSUME NEW t \in Threads, Generate(t) PROVE CacheInv'
  <2> DEFINE kv == KV(ModelOf(t), job[t].prompt)
  <2>1. lane = Nobody /\ pc[t] = "generate" /\ UNCHANGED <<caches, partial>>
    BY <1>5 DEF Generate, TakeLane
  <2>2. Holds(kv, job[t].prompt) /\ job[t].session = NoSession
    BY <2>1, JobType, KVHolds DEF Asked, CacheInv
  <2>3. SameJob(t) /\ job'[t].kv = kv
    BY <1>5, <2>2, JobKept DEF Generate, Holds
  <2>4. job'[t].kv = kv /\ job'[t].prompt = job[t].prompt /\ job'[t].session = NoSession
    BY <2>2, <2>3 DEF SameJob
  <2>5. \A u \in Threads \ {t} : job'[u] = job[u] /\ pc'[u] = pc[u] /\ pc[u] # "running"
    BY <1>1, <1>5, <2>1 DEF Generate, Goto, TypeOK
  <2>6. pc'[t] # "generate" /\ NoSession \notin DOMAIN caches
    BY <1>5, ModelRegistryAssumption DEF ModelRegistryAssumption, Generate, Goto, TypeOK
  <2>7. QED
    BY <2>1, <2>2, <2>4, <2>5, <2>6 DEF CacheInv
<1>6. ASSUME NEW t \in Threads, Stream(t) PROVE CacheInv'
  <2>1. SameJob(t) /\ (job[t].session \notin partial' => Holds(job'[t].kv, job[t].prompt))
    BY <1>6, StreamedCache
  <2>2. /\ \A s \in DOMAIN caches' \ partial' : Holds(caches'[s].kv, caches'[s].prompt)
        /\ job[t].session \in DOMAIN caches' => caches'[job[t].session].prompt = job[t].prompt
    BY <1>6, StreamedCache
  <2>4. job'[t].prompt = job[t].prompt /\ job'[t].session = job[t].session
    BY <2>1 DEF SameJob
  <2>5. \A u \in Threads \ {t} : job'[u] = job[u] /\ pc'[u] = pc[u] /\ pc[u] # "running"
    BY <1>1, <1>6, <2>1 DEF SameJob, Stream, TakeLane, Goto, TypeOK
  <2>6. pc'[t] = "running"
    BY <1>6 DEF Stream, Goto, TypeOK
  <2>7. QED
    BY <2>1, <2>2, <2>4, <2>5, <2>6 DEF CacheInv
<1>7. ASSUME NEW t \in Threads, RunEnds(t) \/ RunRaises(t) PROVE CacheInv'
  <2>1. /\ DOMAIN caches' = DOMAIN caches
        /\ \A s \in DOMAIN caches : /\ s \notin partial' => Holds(caches'[s].kv, caches'[s].prompt)
                                    /\ caches'[s].prompt = caches[s].prompt
    BY <1>7, EndedCache
  <2>2. /\ UNCHANGED job /\ partial \subseteq partial'
        /\ \A u \in Threads : pc'[u] \in {"running", "generate"} => pc'[u] = pc[u]
    BY <1>7 DEF RunEnds, RunRaises, Goto, TypeOK
  <2>3. QED
    BY <2>1, <2>2 DEF CacheInv
<1>8. ASSUME NEW s \in DOMAIN caches, Expire(s) PROVE CacheInv'
  <2>1. caches[s] \in Caches /\ caches'[s] = [caches[s] EXCEPT !.idle = TRUE]
    BY <1>8, CacheType DEF Expire
  <2>2. caches'[s].kv = caches[s].kv /\ caches'[s].prompt = caches[s].prompt
    BY <2>1 DEF Caches
  <2>3. DOMAIN caches' = DOMAIN caches /\ \A x \in DOMAIN caches \ {s} : caches'[x] = caches[x]
    BY <1>8 DEF Expire
  <2>4. UNCHANGED <<pc, job, partial>>
    BY <1>8 DEF Expire
  <2>5. QED
    BY <2>2, <2>3, <2>4 DEF CacheInv
<1>9. ASSUME UNCHANGED <<pc, job, caches, partial>> PROVE CacheInv'
  BY <1>9 DEF CacheInv
<1>10. QED
  BY <1>2, <1>3, <1>4, <1>5, <1>6, <1>7, <1>8, <1>9 DEF Next, Step, Unused, vars

\* A thread's own call is the only one that can be loading, accounting for or
\* erasing a model while it is in the lane.
LEMMA ResidentStep ==
    ASSUME TypeOK, LaneInv, ResidentInv, [Next]_vars
    PROVE  ResidentInv'
<1> USE DEF registry, promptCaches
<1> DEFINE Accounted(p) == \E k \in DOMAIN entries : k[1] = p
           Pending(p) == \E t \in Threads : pc[t] \in {"running", "account"} /\ ModelOf(t) = p
<1>0. Nobody \notin Threads
  BY ModelRegistryAssumption DEF ModelRegistryAssumption
<1>1. ASSUME lane = Nobody PROVE \A u \in Threads : pc[u] \notin {"running", "account", "erase"}
  BY <1>0, <1>1 DEF LaneInv, InLane
<1>2. ASSUME NEW t \in Threads, pc[t] \in {"running", "account", "erase"}
      PROVE  \A u \in Threads \ {t} : pc[u] \notin {"running", "account", "erase"}
  BY <1>2 DEF LaneInv, InLane
<1>3. ASSUME NEW t \in Threads, ChooseStale(t) \/ Ask(t) \/ StreamNoModel(t)
      PROVE  ResidentInv'
  <2>1. /\ pc[t] \in {"ready", "stream"}
        /\ \E l \in {"evict", "generate", "stream", "ready"} : pc' = [pc EXCEPT ![t] = l]
        /\ UNCHANGED <<resident, entries, orphans>>
        /\ \A u \in Threads \ {t} : job'[u] = job[u] /\ stale'[u] = stale[u]
    BY <1>3 DEF ChooseStale, Ask, StreamNoModel, Return, Goto, TypeOK
  <2>2. \A u \in Threads : \/ pc'[u] = pc[u] /\ u # t
                           \/ u = t /\ {pc[u], pc'[u]} \cap {"running", "account", "erase"} = {}
    BY <2>1 DEF TypeOK
  <2>3. QED
    BY <2>1, <2>2 DEF ResidentInv, ModelOf
<1>4. ASSUME NEW t \in Threads, DropModels(t) PROVE ResidentInv'
  <2>1. lane = Nobody /\ pc' = [pc EXCEPT ![t] = "erase"] /\ UNCHANGED <<entries, job, stale>>
    BY <1>4 DEF DropModels, TakeLane, Goto
  <2>2. \A u \in Threads : /\ pc'[u] \notin {"running", "account"}
                           /\ pc'[u] = "erase" => u = t
    BY <1>1, <2>1 DEF TypeOK
  <2>3. \A p \in resident' \ orphans' : p \in resident \ orphans
    BY <1>4 DEF DropModels
  <2>4. \A k \in stale[t] : k[1] \notin resident'
    BY <1>4 DEF DropModels
  <2>5. \A p \in resident \ orphans : Accounted(p)
    BY <1>1, <2>1 DEF ResidentInv
  <2>6. QED
    BY <2>1, <2>2, <2>3, <2>4, <2>5 DEF ResidentInv
<1>5. ASSUME NEW t \in Threads, EraseEntries(t) PROVE ResidentInv'
  <2>1. /\ pc[t] = "erase" /\ pc' = [pc EXCEPT ![t] = "ready"]
        /\ UNCHANGED <<resident, orphans, job>>
        /\ DOMAIN entries' = DOMAIN entries \ stale[t]
    BY <1>5 DEF EraseEntries, Restrict, Goto
  <2>2. \A u \in Threads : pc'[u] \notin {"running", "account", "erase"}
    BY <1>2, <2>1 DEF TypeOK
  <2>3. ASSUME NEW p \in resident \ orphans PROVE \E k \in DOMAIN entries' : k[1] = p
    <3>1. PICK k \in DOMAIN entries : k[1] = p
      BY <1>2, <2>1 DEF ResidentInv
    <3>2. k \notin stale[t]
      BY <2>1, <3>1 DEF ResidentInv
    <3>3. QED
      BY <2>1, <3>1, <3>2
  <2>4. QED
    BY <2>1, <2>2, <2>3 DEF ResidentInv
<1>6. ASSUME NEW t \in Threads, Generate(t) \/ Stream(t) PROVE ResidentInv'
  <2>1. /\ lane = Nobody /\ UNCHANGED <<entries, orphans, stale>>
        /\ pc[t] \in Asked
        /\ \/ resident' = resident \cup {ModelOf(t)} /\ pc' = [pc EXCEPT ![t] = "running"]
           \/ resident' = resident /\ pc' = [pc EXCEPT ![t] = "account"]
    BY <1>6 DEF Generate, Stream, TakeLane, Goto, Asked
  <2>2. \E kv, n : \/ job' = [job EXCEPT ![t].kv = kv]
                   \/ job' = [job EXCEPT ![t].kv = kv, ![t].lent = n]
    BY <1>6 DEF Generate, Stream
  <2>3. job'[t].agent = job[t].agent /\ \A u \in Threads \ {t} : job'[u] = job[u]
    <3>1. PICK kv, n : \/ job' = [job EXCEPT ![t].kv = kv]
                       \/ job' = [job EXCEPT ![t].kv = kv, ![t].lent = n]
      BY <2>2
    <3>2. /\ job[t] \in Jobs
          /\ job'[t] \in {[job[t] EXCEPT !.kv = kv], [job[t] EXCEPT !.kv = kv, !.lent = n]}
      BY <3>1 DEF TypeOK
    <3>3. job'[t].agent = job[t].agent
      BY <3>2 DEF Jobs
    <3>4. QED
      BY <3>1, <3>3 DEF TypeOK
  <2>4. \A u \in Threads \ {t} : pc'[u] \notin {"running", "account", "erase"}
    BY <1>1, <2>1 DEF TypeOK
  <2>5. pc'[t] \in {"running", "account"} /\ (pc'[t] = "running" => ModelOf(t) \in resident')
    BY <2>1 DEF TypeOK
  <2>6. ModelOf(t)' = ModelOf(t)
    BY <2>3 DEF ModelOf
  <2>7. \A p \in resident \ orphans : Accounted(p)
    BY <1>1, <2>1 DEF ResidentInv
  <2>8. \A p \in resident' \ orphans' : p = ModelOf(t) \/ Accounted(p)
    BY <2>1, <2>7
  <2>9. QED
    BY <2>1, <2>4, <2>5, <2>6, <2>8 DEF ResidentInv
<1>7. ASSUME NEW t \in Threads, StreamSetupFails(t) PROVE ResidentInv'
  <2>1. /\ lane = Nobody /\ pc' = [pc EXCEPT ![t] = "ready"] /\ UNCHANGED <<entries, stale>>
        /\ resident' \ orphans' \subseteq resident \ orphans
    BY <1>7 DEF StreamSetupFails, Return, Goto
  <2>2. \A u \in Threads : pc'[u] \notin {"running", "account", "erase"}
    BY <1>1, <2>1 DEF TypeOK
  <2>3. \A p \in resident \ orphans : Accounted(p)
    BY <1>1, <2>1 DEF ResidentInv
  <2>4. QED
    BY <2>1, <2>2, <2>3 DEF ResidentInv
<1>8. ASSUME NEW t \in Threads, RunEnds(t) \/ RunRaises(t) PROVE ResidentInv'
  <2>1. /\ pc[t] = "running" /\ pc' = [pc EXCEPT ![t] = "account"]
        /\ UNCHANGED <<resident, entries, orphans, job, stale>>
    BY <1>8 DEF RunEnds, RunRaises, Goto
  <2>2. \A u \in Threads : /\ pc'[u] \notin {"running", "erase"}
                           /\ pc[u] \in {"running", "account"} <=> pc'[u] \in {"running", "account"}
    BY <1>2, <2>1 DEF TypeOK
  <2>3. QED
    BY <2>1, <2>2 DEF ResidentInv, ModelOf
<1>9. ASSUME NEW t \in Threads, Account(t) PROVE ResidentInv'
  <2>1. /\ pc[t] = "account" /\ pc' = [pc EXCEPT ![t] = "ready"]
        /\ UNCHANGED <<resident, stale>> /\ orphans' \subseteq orphans
        /\ orphans \subseteq orphans' \cup {ModelOf(t)}
        /\ DOMAIN entries' = DOMAIN entries \cup {Key(job[t].agent)}
    BY <1>9 DEF Account, Return, Goto
  <2>2. \A u \in Threads : pc'[u] \notin {"running", "account", "erase"}
    BY <1>2, <2>1 DEF TypeOK
  <2>3. Key(job[t].agent)[1] = ModelOf(t)
    BY DEF Key, ModelOf
  <2>4. ASSUME NEW p \in resident' \ orphans' PROVE \E k \in DOMAIN entries' : k[1] = p
    <3>1. CASE p = ModelOf(t)
      BY <2>1, <2>3, <3>1
    <3>2. CASE p # ModelOf(t)
      <4>1. p \in resident \ orphans
        BY <2>1, <3>2
      <4>2. Accounted(p)
        BY <1>2, <2>1, <3>2, <4>1 DEF ResidentInv
      <4>3. QED
        BY <2>1, <4>2
    <3>3. QED
      BY <3>1, <3>2
  <2>5. QED
    BY <2>2, <2>4 DEF ResidentInv
<1>10. ASSUME UNCHANGED <<pc, resident, orphans, job, stale>>, DOMAIN entries' = DOMAIN entries
       PROVE  ResidentInv'
  BY <1>10 DEF ResidentInv, ModelOf
<1>11. ASSUME NEW k \in DOMAIN entries, Unused(k) PROVE ResidentInv'
  BY <1>10, <1>11 DEF Unused
<1>12. ASSUME NEW s \in DOMAIN caches, Expire(s) PROVE ResidentInv'
  BY <1>10, <1>12 DEF Expire
<1>13. CASE UNCHANGED vars
  BY <1>10, <1>13 DEF vars
<1>14. QED
  BY <1>3, <1>4, <1>5, <1>6, <1>7, <1>8, <1>9, <1>11, <1>12, <1>13 DEF Next, Step

LEMMA NextInv == RegistryInv /\ [Next]_vars => RegistryInv'
BY TypeStep, LaneStep, ResidentStep, CountStep, CacheStep DEF RegistryInv

LEMMA Invariant == Spec => []RegistryInv
BY InitInv, NextInv, PTL DEF Spec

-----------------------------------------------------------------------------
\* The types of ModelRegistry.
THEOREM TypeCorrect == Spec => []TypeOK
<1>1. RegistryInv => TypeOK
  BY DEF RegistryInv
<1>2. QED
  BY <1>1, Invariant, PTL

\* One generation or eviction at a time, and no model is taken from under a
\* generation by an eviction that chose it before (g_lane_mu).
THEOREM ModelsStay == Spec => []ModelStays
<1>1. RegistryInv => ModelStays
  BY DEF RegistryInv, LaneInv, ResidentInv, ModelStays
<1>2. QED
  BY <1>1, Invariant, PTL

\* evict_idle finds every model in memory, but for those of failed setups.
THEOREM ResidentsReclaimable == Spec => []ResidentReclaimable
<1>1. RegistryInv => ResidentReclaimable
  <2>1. RegistryInv /\ lane = Nobody => \A t \in Threads : pc[t] \notin {"running", "account"}
    BY ModelRegistryAssumption DEF ModelRegistryAssumption, RegistryInv, LaneInv, InLane
  <2>2. QED
    BY <2>1 DEF RegistryInv, ResidentInv, ResidentReclaimable
<1>2. QED
  BY <1>1, Invariant, PTL

\* The session count of the pressure report does not drift (set_session_count).
THEOREM CountRight == Spec => []SessionCountRight
<1>1. RegistryInv => SessionCountRight
  BY DEF RegistryInv, CountInv, SessionCountRight
<1>2. QED
  BY <1>1, Invariant, PTL

\* A model reads exactly the prompt it is asked, whatever its session's cache
\* has been used for, unless a run that raised has cut that cache short
\* (build_stream_setup, generate_stream).
THEOREM ContextRight == Spec => []ContextIsPrompt
<1>1. RegistryInv => ContextIsPrompt
  BY JobType, HeldTokens DEF RegistryInv, CacheInv, ContextIsPrompt, Asked
<1>2. QED
  BY <1>1, Invariant, PTL
=============================================================================
