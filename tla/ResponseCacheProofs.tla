------------------------- MODULE ResponseCacheProofs -------------------------
(* What each operation of ResponseCache keeps true and promises, for every    *)
(* set of lifetimes and sizes. RequestsProofs carries it over to behaviours.  *)
(*                                                                            *)
(* CacheShape alone is too weak to be kept: that the eviction, which counts   *)
(* the map and consumes the list, removes the same keys from both needs the   *)
(* list to be a listing of the map's keys.                                    *)
EXTENDS ResponseCache, FiniteSetTheorems, SequenceTheorems, TLAPS

-----------------------------------------------------------------------------
(* Listings: every element of a set, once.                                    *)

Listed(list, keys) ==
    /\ list \in Seq(keys)
    /\ \A i, j \in 1 .. Len(list) : list[i] = list[j] => i = j
    /\ \A k \in keys : \E i \in 1 .. Len(list) : list[i] = k

LEMMA ListedSet ==
    ASSUME NEW keys, NEW list, Listed(list, keys)
    PROVE  /\ ToSet(list) = keys
           /\ IsFiniteSet(keys) /\ Cardinality(keys) = Len(list) /\ Len(list) \in Nat
<1>1. Len(list) \in Nat /\ DOMAIN list = 1 .. Len(list) /\ list \in [1 .. Len(list) -> keys]
  BY DEF Listed
<1>2. list \in Bijection(1 .. Len(list), keys)
  BY <1>1 DEF Listed, Bijection, Injection, Surjection, IsInjective
<1>3. /\ IsFiniteSet(1 .. Len(list))
      /\ Cardinality(1 .. Len(list)) = IF 1 > Len(list) THEN 0 ELSE Len(list) - 1 + 1
  BY <1>1, FS_Interval
<1>4. Cardinality(1 .. Len(list)) = Len(list)
  BY <1>1, <1>3
<1>5. IsFiniteSet(keys) /\ Cardinality(keys) = Cardinality(1 .. Len(list))
  <2>1. ExistsBijection(1 .. Len(list), keys)
    BY <1>2 DEF ExistsBijection
  <2>2. QED
    BY <1>3, <2>1, FS_Bijection
<1>6. ToSet(list) = keys
  BY <1>1 DEF Listed, ToSet
<1>7. QED
  BY <1>1, <1>4, <1>5, <1>6

\* The first n of a listing, and the rest.
LEMMA ListedCut ==
    ASSUME NEW keys, NEW list, Listed(list, keys), NEW n \in 0 .. Len(list),
           NEW rest, rest = ToSet(SubSeq(list, n + 1, Len(list)))
    PROVE  /\ Listed(SubSeq(list, 1, n), keys \ rest)
           /\ Len(SubSeq(list, 1, n)) = n
           /\ rest \subseteq keys
           /\ Cardinality(rest) = Len(list) - n
           /\ n > 0 => list[1] \notin rest
           /\ n = Len(list) => rest = {}
<1> DEFINE m == Len(list)
           tail == SubSeq(list, n + 1, m)
           head == SubSeq(list, 1, n)
<1>1. m \in Nat /\ n \in Nat /\ n <= m /\ \A i \in 1 .. m : list[i] \in keys
  BY DEF Listed
<1>2. /\ tail \in Seq(keys) /\ Len(tail) = m - n
      /\ \A i \in 1 .. m - n : tail[i] = list[n + i]
  <2>1. \A i \in n + 1 .. m : list[i] \in keys
    BY <1>1
  <2>2. /\ SubSeq(list, n + 1, m) \in Seq(keys)
        /\ Len(SubSeq(list, n + 1, m)) = IF n + 1 <= m THEN m - (n + 1) + 1 ELSE 0
        /\ \A i \in 1 .. m - (n + 1) + 1 : SubSeq(list, n + 1, m)[i] = list[n + 1 + i - 1]
    BY <1>1, <2>1, SubSeqProperties
  <2>3. QED
    BY <1>1, <2>2
<1>3. /\ Len(head) = n
      /\ \A i \in 1 .. n : head[i] = list[i]
  BY <1>1, SubSeqProperties
<1> HIDE DEF m, tail, head
<1>4. rest = {list[i] : i \in n + 1 .. m}
  <2>1. rest = {tail[i] : i \in 1 .. m - n}
    BY <1>1, <1>2 DEF ToSet, tail, m
  <2>2. ASSUME NEW i \in n + 1 .. m PROVE i - n \in 1 .. m - n /\ tail[i - n] = list[i]
    BY <1>1, <1>2
  <2>3. ASSUME NEW i \in 1 .. m - n PROVE n + i \in n + 1 .. m
    BY <1>1
  <2>4. QED
    BY <1>2, <2>1, <2>2, <2>3
<1>5. \A i, j \in 1 .. m : list[i] = list[j] => i = j
  BY DEF Listed, m
<1>6. \A i \in 1 .. n : list[i] \notin rest
  BY <1>1, <1>4, <1>5
<1>7. Listed(head, keys \ rest)
  <2>1. \A i \in 1 .. n : head[i] \in keys \ rest
    BY <1>1, <1>3, <1>6
  <2>2. head \in Seq(keys \ rest)
    <3>1. \A i \in 1 .. n : list[i] \in keys \ rest
      BY <1>1, <1>6
    <3>2. QED
      BY <1>1, <3>1, SubSeqProperties DEF head
  <2>3. \A i, j \in 1 .. n : head[i] = head[j] => i = j
    BY <1>1, <1>3, <1>5
  <2>4. ASSUME NEW k \in keys \ rest PROVE \E i \in 1 .. n : head[i] = k
    <3>1. PICK i \in 1 .. m : list[i] = k
      BY DEF Listed, m
    <3>2. i \in 1 .. n
      BY <1>1, <1>4, <3>1
    <3>3. QED
      BY <1>3, <3>1, <3>2
  <2>5. QED
    BY <1>3, <2>2, <2>3, <2>4 DEF Listed
<1>8. Listed(tail, rest)
  <2>1. \A i \in 1 .. m - n : n + i \in n + 1 .. m /\ n + i \in 1 .. m
    BY <1>1
  <2>2. \A i \in 1 .. Len(tail) : tail[i] \in rest
    BY <1>2, <1>4, <2>1
  <2>3. tail \in Seq(rest)
    BY <1>2, <2>2
  <2>4. \A i, j \in 1 .. Len(tail) : tail[i] = tail[j] => i = j
    BY <1>1, <1>2, <1>5, <2>1
  <2>5. ASSUME NEW k \in rest PROVE \E i \in 1 .. Len(tail) : tail[i] = k
    <3>1. PICK i \in n + 1 .. m : list[i] = k
      BY <1>4
    <3>2. i - n \in 1 .. m - n /\ n + (i - n) = i
      BY <1>1
    <3>3. QED
      BY <1>2, <3>1, <3>2
  <2>6. QED
    BY <2>3, <2>4, <2>5 DEF Listed
<1>9. Cardinality(rest) = m - n
  BY <1>2, <1>8, ListedSet
<1>10. rest \subseteq keys /\ (n = m => rest = {})
  BY <1>1, <1>4
<1>11. n > 0 => list[1] \notin rest
  BY <1>1, <1>6
<1>12. QED
  BY <1>3, <1>7, <1>9, <1>10, <1>11 DEF m, head

LEMMA ListedWithout ==
    ASSUME NEW keys, NEW list, Listed(list, keys), NEW k \in keys,
           NEW i \in 1 .. Len(list), list[i] = k
    PROVE  /\ Listed(RemoveAt(list, i), keys \ {k})
           /\ Len(RemoveAt(list, i)) = Len(list) - 1
<1> DEFINE m == Len(list)
           a == SubSeq(list, 1, i - 1)
           b == SubSeq(list, i + 1, m)
           out == a \o b
           at(j) == IF j < i THEN j ELSE j + 1
<1>1. /\ m \in Nat /\ i \in Nat /\ 1 <= i /\ i <= m
      /\ \A j \in 1 .. m : list[j] \in keys
      /\ \A p, q \in 1 .. m : list[p] = list[q] => p = q
  BY DEF Listed
<1>2. \A j \in 1 .. m : j # i => list[j] \in keys \ {k}
  BY <1>1
<1>3. /\ a \in Seq(keys \ {k}) /\ Len(a) = i - 1
      /\ \A j \in 1 .. i - 1 : a[j] = list[j]
  <2>1. i - 1 \in Int /\ \A j \in 1 .. i - 1 : list[j] \in keys \ {k}
    BY <1>1, <1>2
  <2>2. QED
    BY <1>1, <2>1, SubSeqProperties
<1>4. /\ b \in Seq(keys \ {k}) /\ Len(b) = m - i
      /\ \A j \in 1 .. m - i : b[j] = list[i + j]
  <2>1. i + 1 \in Int /\ \A j \in i + 1 .. m : list[j] \in keys \ {k}
    BY <1>1, <1>2
  <2>2. /\ SubSeq(list, i + 1, m) \in Seq(keys \ {k})
        /\ Len(SubSeq(list, i + 1, m)) = IF i + 1 <= m THEN m - (i + 1) + 1 ELSE 0
        /\ \A j \in 1 .. m - (i + 1) + 1 : SubSeq(list, i + 1, m)[j] = list[i + 1 + j - 1]
    BY <1>1, <2>1, SubSeqProperties
  <2>3. QED
    BY <1>1, <2>2
<1>5. RemoveAt(list, i) = out
  BY DEF RemoveAt
<1> HIDE DEF m, a, b
<1>6. /\ out \in Seq(keys \ {k}) /\ Len(out) = m - 1
      /\ \A j \in 1 .. m - 1 : out[j] = list[at(j)]
  <2>1. out \in Seq(keys \ {k}) /\ Len(out) = m - 1
    BY <1>1, <1>3, <1>4
  <2>2. ASSUME NEW j \in 1 .. m - 1 PROVE out[j] = list[at(j)]
    <3>1. CASE j < i
      BY <1>1, <1>3, <1>4, <3>1
    <3>2. CASE ~(j < i)
      <4>1. j - (i - 1) \in 1 .. m - i /\ i + (j - (i - 1)) = j + 1
        BY <1>1, <3>2
      <4>2. out[j] = b[j - Len(a)]
        BY <1>1, <1>3, <1>4, <3>2, <2>1
      <4>3. QED
        BY <1>1, <1>3, <1>4, <3>2, <4>1, <4>2
    <3>3. QED
      BY <3>1, <3>2
  <2>3. QED
    BY <2>1, <2>2
<1>7. \A p \in 1 .. m - 1 : at(p) \in 1 .. m
  BY <1>1
<1>8. \A p, q \in 1 .. m - 1 : at(p) = at(q) => p = q
  BY <1>1
<1> HIDE DEF out
<1>9. \A p, q \in 1 .. m - 1 : out[p] = out[q] => p = q
  <2> SUFFICES ASSUME NEW p \in 1 .. m - 1, NEW q \in 1 .. m - 1, out[p] = out[q]
               PROVE  p = q
    OBVIOUS
  <2>1. list[at(p)] = list[at(q)] /\ at(p) \in 1 .. m /\ at(q) \in 1 .. m
    BY <1>6, <1>7
  <2> HIDE DEF at
  <2>2. at(p) = at(q)
    BY <1>1, <2>1
  <2>3. QED
    BY <1>8, <2>2
<1>10. ASSUME NEW x \in keys \ {k} PROVE \E p \in 1 .. m - 1 : out[p] = x
  <2>1. PICK j \in 1 .. m : list[j] = x
    BY DEF Listed, m
  <2>2. j # i
    BY <2>1
  <2>3. CASE j < i
    BY <1>1, <1>6, <2>1, <2>3
  <2>4. CASE j > i
    <3>1. j - 1 \in 1 .. m - 1 /\ at(j - 1) = j
      BY <1>1, <2>4
    <3>2. QED
      BY <1>6, <2>1, <3>1
  <2>5. QED
    BY <1>1, <2>2, <2>3, <2>4
<1>11. Listed(out, keys \ {k})
  BY <1>6, <1>9, <1>10 DEF Listed
<1>12. QED
  BY <1>5, <1>6, <1>11 DEF m

LEMMA ListedWith ==
    ASSUME NEW keys, NEW list, Listed(list, keys), NEW k, k \notin keys
    PROVE  /\ Listed(<<k>> \o list, keys \cup {k})
           /\ (<<k>> \o list)[1] = k
           /\ Len(<<k>> \o list) = Len(list) + 1
<1> DEFINE out == <<k>> \o list
           m == Len(list)
<1>1. /\ m \in Nat /\ \A j \in 1 .. m : list[j] \in keys
      /\ list \in Seq(keys \cup {k}) /\ <<k>> \in Seq(keys \cup {k})
      /\ \A p, q \in 1 .. m : list[p] = list[q] => p = q
  BY DEF Listed
<1>2. /\ out \in Seq(keys \cup {k}) /\ Len(out) = m + 1 /\ out[1] = k
      /\ \A j \in 2 .. m + 1 : out[j] = list[j - 1]
  BY <1>1
<1>3. \A j \in 2 .. m + 1 : out[j] \in keys /\ j - 1 \in 1 .. m
  BY <1>1, <1>2
<1> HIDE DEF out, m
<1>4. \A p, q \in 1 .. m + 1 : out[p] = out[q] => p = q
  <2> SUFFICES ASSUME NEW p \in 1 .. m + 1, NEW q \in 1 .. m + 1, out[p] = out[q]
               PROVE  p = q
    OBVIOUS
  <2>1. p # 1 => p \in 2 .. m + 1
    BY <1>1
  <2>2. q # 1 => q \in 2 .. m + 1
    BY <1>1
  <2>3. CASE p # 1 /\ q # 1
    BY <1>1, <1>2, <1>3, <2>1, <2>2, <2>3
  <2>4. CASE p = 1 \/ q = 1
    BY <1>2, <1>3, <2>1, <2>2, <2>4
  <2>5. QED
    BY <2>3, <2>4
<1>5. ASSUME NEW x \in keys \cup {k} PROVE \E p \in 1 .. m + 1 : out[p] = x
  <2>1. CASE x = k
    BY <1>1, <1>2, <2>1
  <2>2. CASE x \in keys
    <3>1. PICK j \in 1 .. m : list[j] = x
      BY <2>2 DEF Listed, m
    <3>2. j + 1 \in 2 .. m + 1 /\ j + 1 \in 1 .. m + 1 /\ j + 1 - 1 = j
      BY <1>1
    <3>3. QED
      BY <1>2, <3>1, <3>2
  <2>3. QED
    BY <2>1, <2>2
<1>6. Listed(out, keys \cup {k})
  BY <1>2, <1>4, <1>5 DEF Listed
<1>7. QED
  BY <1>2, <1>6 DEF out, m

-----------------------------------------------------------------------------
(* The invariant of the cache, and its operations.                            *)

Entry(e) == e = [response |-> e.response, left |-> e.left] /\ e.left \in Nat

CacheInv ==
    /\ cache_enabled \in BOOLEAN /\ ttl_secs \in Ttls /\ max_entries \in CacheSizes
    /\ map = [k \in DOMAIN map |-> map[k]] /\ \A k \in DOMAIN map : Entry(map[k])
    /\ Listed(lru, DOMAIN map)
    /\ Len(lru) <= max_entries

\* Any of the operations, by anyone.
CacheStep ==
    \/ \E k : LookupHit(k) \/ LookupMiss(k)
    \/ \E k, response : Store(k, response)
    \/ ClearCache
    \/ \E on \in BOOLEAN : SetEnabled(on)
    \/ \E ttl \in Ttls \cup {0}, size \in CacheSizes \cup {0} : Configure(ttl, size)
    \/ Age

LEMMA ShapeFollows == CacheInv => CacheShape
<1> SUFFICES ASSUME CacheInv PROVE CacheShape
  OBVIOUS
<1>1. DOMAIN lru = 1 .. Len(lru)
  BY DEF CacheInv, Listed
<1>2. QED
  BY <1>1, ListedSet DEF CacheInv, CacheShape, Listed

\* Of the entries, the map keeps as many as fit, the first of the list among them.
CutFrom(list, entries, size) ==
    \E drop \in SUBSET DOMAIN entries :
        /\ map' = [k \in DOMAIN entries \ drop |-> entries[k]]
        /\ DOMAIN map' = DOMAIN entries \ drop
        /\ IF Cardinality(DOMAIN entries) > size
             THEN Cardinality(drop) = Cardinality(DOMAIN entries) - size
             ELSE drop = {}
        /\ list # <<>> => list[1] \notin drop

\* The loop drops as many keys as there are too many, never the first one, from
\* list and map alike.
LEMMA EvictKeeps ==
    ASSUME NEW list, NEW entries, NEW size \in Nat \ {0},
           Listed(list, DOMAIN entries), Evict(list, entries, size)
    PROVE  /\ Listed(lru', DOMAIN map') /\ Len(lru') <= size
           /\ CutFrom(list, entries, size)
<1> DEFINE n == Cardinality(DOMAIN entries)
           excess == IF n > size THEN n - size ELSE 0
           keep == Len(list) - excess
           drop == ToSet(SubSeq(list, keep + 1, Len(list)))
<1>1. n = Len(list) /\ n \in Nat
  BY ListedSet
<1>2. keep \in 0 .. Len(list) /\ keep <= size /\ (n > 0 => keep > 0)
      /\ (n <= size => keep = Len(list)) /\ (n > size => Len(list) - keep = n - size)
  BY <1>1
<1>3. /\ lru' = SubSeq(list, 1, keep)
      /\ map' = [k \in DOMAIN entries \ drop |-> entries[k]]
  BY DEF Evict, Restrict
<1> HIDE DEF n, excess, keep
<1>4. /\ Listed(SubSeq(list, 1, keep), DOMAIN entries \ drop)
      /\ Len(SubSeq(list, 1, keep)) = keep
      /\ drop \subseteq DOMAIN entries
      /\ Cardinality(drop) = Len(list) - keep
      /\ keep > 0 => list[1] \notin drop
      /\ keep = Len(list) => drop = {}
  BY <1>2, ListedCut
<1> HIDE DEF drop
<1>5. DOMAIN map' = DOMAIN entries \ drop
  BY <1>3
<1>6. list # <<>> => n > 0
  BY <1>1 DEF Listed
<1>7. IF n > size THEN Cardinality(drop) = n - size ELSE drop = {}
  BY <1>1, <1>2, <1>4
<1>8. list # <<>> => list[1] \notin drop
  BY <1>2, <1>4, <1>6
<1>9. CutFrom(list, entries, size)
  BY <1>3, <1>4, <1>5, <1>7, <1>8 DEF n, CutFrom
<1>10. QED
  BY <1>2, <1>3, <1>4, <1>5, <1>9

LEMMA WhereListed ==
    ASSUME CacheInv, NEW k \in DOMAIN map
    PROVE  At(k) \in 1 .. Len(lru) /\ lru[At(k)] = k
<1>1. DOMAIN lru = 1 .. Len(lru) /\ \E i \in 1 .. Len(lru) : lru[i] = k
  BY DEF CacheInv, Listed
<1>2. QED
  BY <1>1 DEF At

\* A key that is used moves to the front of the listing.
LEMMA TouchKeeps ==
    ASSUME CacheInv, NEW k \in DOMAIN map
    PROVE  Listed(Touched(k), DOMAIN map) /\ Len(Touched(k)) = Len(lru)
<1> DEFINE rest == RemoveAt(lru, At(k))
<1>1. Listed(lru, DOMAIN map) /\ Len(lru) \in Nat
  BY DEF CacheInv, Listed
<1>2. At(k) \in 1 .. Len(lru) /\ lru[At(k)] = k
  BY WhereListed
<1>3. Listed(rest, DOMAIN map \ {k}) /\ Len(rest) = Len(lru) - 1
  BY <1>1, <1>2, ListedWithout
<1>4. /\ Listed(<<k>> \o rest, (DOMAIN map \ {k}) \cup {k})
      /\ Len(<<k>> \o rest) = Len(rest) + 1
  BY <1>3, ListedWith
<1>5. (DOMAIN map \ {k}) \cup {k} = DOMAIN map
  OBVIOUS
<1>6. QED
  BY <1>1, <1>3, <1>4, <1>5 DEF Touched

\* What callers see of the cache.
Held == [k \in DOMAIN map |-> map[k].response]

\* The steps of the abstract cache, written out.
Drops(f, n, mustKeep) ==
    \E drop \in SUBSET (DOMAIN f \ mustKeep) :
        /\ IF Cardinality(DOMAIN f) > n
             THEN Cardinality(drop) = Cardinality(DOMAIN f) - n
             ELSE drop = {}
        /\ Held' = [k \in DOMAIN f \ drop |-> f[k]]

Added(k, r) == [x \in {k} \cup DOMAIN map |-> IF x = k THEN r ELSE map[x].response]

LEMMA SameCount == \A S : Promised!Cardinality(S) = Cardinality(S)
BY DEF Promised!Cardinality, Cardinality, Promised!IsFiniteSet, IsFiniteSet

LEMMA PutIsAllowed ==
    ASSUME NEW k, NEW r, Drops(Added(k, r), max_entries, {k}), UNCHANGED max_entries
    PROVE  Promised!Next
<1>1. DOMAIN Added(k, r) = {k} \cup DOMAIN map /\ Added(k, r)[k] = r
  BY DEF Added
<1>2. PICK drop \in SUBSET (DOMAIN Added(k, r) \ {k}) :
        /\ IF Cardinality(DOMAIN Added(k, r)) > max_entries
             THEN Cardinality(drop) = Cardinality(DOMAIN Added(k, r)) - max_entries
             ELSE drop = {}
        /\ Held' = [x \in DOMAIN Added(k, r) \ drop |-> Added(k, r)[x]]
  BY DEF Drops
<1>3. k \in DOMAIN Held' /\ Held'[k] = r
  BY <1>1, <1>2
<1>4. Added(k, r) = [x \in {k} \cup DOMAIN Held |-> IF x = k THEN Held'[k] ELSE Held[x]]
  BY <1>3 DEF Added, Held
<1>5. Promised!Put(k)
  <2> DEFINE f == [x \in {k} \cup DOMAIN Held |-> IF x = k THEN Held'[k] ELSE Held[x]]
  <2>1. /\ drop \in SUBSET (DOMAIN f \ {k})
        /\ IF Cardinality(DOMAIN f) > max_entries
             THEN Cardinality(drop) = Cardinality(DOMAIN f) - max_entries
             ELSE drop = {}
        /\ Held' = [x \in DOMAIN f \ drop |-> f[x]]
    BY <1>2, <1>4
  <2>2. Promised!KeepOf(f, max_entries, {k})
    BY <2>1, SameCount DEF Promised!KeepOf, Promised!Restrict, Held
  <2>3. QED
    BY <2>2, Zenon DEF Promised!Put, Held
<1>6. QED
  BY <1>3, <1>5, Zenon DEF Promised!Next, Held

LEMMA ForgetIsAllowed ==
    ASSUME NEW k \in DOMAIN map, Held' = [x \in DOMAIN map \ {k} |-> Held[x]],
           UNCHANGED max_entries
    PROVE  Promised!Next
<1>1. DOMAIN Held = DOMAIN map
  BY DEF Held
<1>2. Promised!Forget(k)
  BY <1>1 DEF Promised!Forget, Promised!Restrict, Held
<1>3. QED
  BY <1>1, <1>2, Zenon DEF Promised!Next, Held

LEMMA ResizeIsAllowed ==
    ASSUME Drops(Held, max_entries', {}), max_entries' \in Nat \ {0}
    PROVE  Promised!Next
<1>1. Promised!KeepOf(Held, max_entries', {})
  BY SameCount DEF Promised!KeepOf, Promised!Restrict, Drops, Held
<1>2. Promised!Resize(max_entries')
  BY <1>1, Zenon DEF Promised!Resize, Held
<1>3. QED
  BY <1>2, Zenon DEF Promised!Next

Seen == <<Held, max_entries>>

\* Every operation keeps the invariant, and is a step of the abstract cache or
\* none.
LEMMA LookupKeeps ==
    ASSUME CacheInv, NEW k, LookupHit(k) \/ LookupMiss(k)
    PROVE  CacheInv' /\ (Promised!Next \/ UNCHANGED Seen)
<1>1. CASE LookupHit(k)
  <2>1. k \in DOMAIN map /\ lru' = Touched(k)
        /\ UNCHANGED <<cache_enabled, ttl_secs, max_entries, map>>
    BY <1>1 DEF LookupHit, Fresh, Cached
  <2>2. Listed(lru', DOMAIN map) /\ Len(lru') = Len(lru)
    BY <2>1, TouchKeeps
  <2>3. QED
    BY <2>1, <2>2 DEF CacheInv, Seen, Held
<1>2. CASE LookupMiss(k) /\ ~Cached(k)
  BY <1>2 DEF LookupMiss, CacheInv, Seen, Held
<1>3. CASE LookupMiss(k) /\ Cached(k)
  <2>1. /\ k \in DOMAIN map
        /\ lru' = RemoveAt(lru, At(k)) /\ map' = [x \in DOMAIN map \ {k} |-> map[x]]
        /\ UNCHANGED <<cache_enabled, ttl_secs, max_entries>>
    BY <1>3 DEF LookupMiss, Cached, Restrict
  <2>2. At(k) \in 1 .. Len(lru) /\ lru[At(k)] = k
    BY <2>1, WhereListed
  <2>3. Listed(lru', DOMAIN map \ {k}) /\ Len(lru') = Len(lru) - 1
    BY <2>1, <2>2, ListedWithout DEF CacheInv
  <2>4. DOMAIN map' = DOMAIN map \ {k} /\ \A x \in DOMAIN map' : map'[x] = map[x]
    BY <2>1
  <2>5. Len(lru') <= max_entries
    BY <2>3, ResponseCacheAssumption DEF CacheInv, ResponseCacheAssumption, Listed
  <2>6. CacheInv'
    BY <2>1, <2>3, <2>4, <2>5 DEF CacheInv
  <2>7. Held' = [x \in DOMAIN map \ {k} |-> Held[x]]
    BY <2>4 DEF Held
  <2>8. QED
    BY <2>1, <2>6, <2>7, ForgetIsAllowed
<1>4. QED
  BY <1>1, <1>2, <1>3

LEMMA StoreKeeps ==
    ASSUME CacheInv, NEW k, NEW response, Store(k, response)
    PROVE  CacheInv' /\ (Promised!Next \/ UNCHANGED Seen)
<1> DEFINE new == [response |-> response, left |-> ttl_secs]
           filled == [x \in DOMAIN map \cup {k} |-> IF x = k THEN new ELSE map[x]]
<1>1. /\ UNCHANGED <<cache_enabled, ttl_secs, max_entries>>
      /\ ttl_secs \in Nat /\ max_entries \in Nat \ {0}
  BY ResponseCacheAssumption DEF Store, CacheInv, ResponseCacheAssumption
<1>2. CASE ~cache_enabled
  BY <1>2 DEF Store, CacheInv, Seen, Held
<1>3. /\ DOMAIN filled = DOMAIN map \cup {k}
      /\ \A x \in DOMAIN filled : Entry(filled[x])
  BY <1>1 DEF CacheInv, Entry
<1>4. Added(k, response) = [x \in DOMAIN filled |-> filled[x].response]
      /\ DOMAIN Added(k, response) = DOMAIN filled
  BY DEF Added
<1>5. CASE cache_enabled /\ k \in DOMAIN map
  <2>1. lru' = Touched(k) /\ map' = filled
    BY <1>5 DEF Store
  <2>2. Listed(lru', DOMAIN map) /\ Len(lru') = Len(lru)
    BY <1>5, <2>1, TouchKeeps
  <2>3. DOMAIN map' = DOMAIN map
    BY <1>3, <1>5, <2>1
  <2>4. CacheInv'
    BY <1>1, <1>3, <2>1, <2>2, <2>3 DEF CacheInv
  <2>5. Cardinality(DOMAIN filled) <= max_entries
    <3>1. Cardinality(DOMAIN map) = Len(lru) /\ DOMAIN filled = DOMAIN map
      BY <1>3, <1>5, ListedSet DEF CacheInv
    <3>2. QED
      BY <3>1 DEF CacheInv
  <2>6. Cardinality(DOMAIN filled) \in Nat
    BY <2>3, <2>1, ListedSet DEF CacheInv
  <2>7. Held' = Added(k, response)
    BY <1>4, <2>1 DEF Held
  <2>8. Drops(Added(k, response), max_entries, {k})
    <3>1. {} \in SUBSET (DOMAIN Added(k, response) \ {k})
      OBVIOUS
    <3>2. ~(Cardinality(DOMAIN Added(k, response)) > max_entries)
      BY <1>1, <1>4, <2>5, <2>6
    <3>3. Held' = [x \in DOMAIN Added(k, response) \ {} |-> Added(k, response)[x]]
      BY <2>7 DEF Added
    <3>4. QED
      BY <3>1, <3>2, <3>3 DEF Drops
  <2>9. QED
    BY <1>1, <2>4, <2>8, PutIsAllowed
<1>6. CASE cache_enabled /\ k \notin DOMAIN map
  <2> DEFINE list == <<k>> \o lru
  <2>1. Evict(list, filled, max_entries)
    BY <1>6 DEF Store
  <2> HIDE DEF filled
  <2>2. Listed(list, DOMAIN filled) /\ list[1] = k /\ Len(list) = Len(lru) + 1
    BY <1>3, <1>6, ListedWith DEF CacheInv
  <2>3. Len(lru) \in Nat /\ list # <<>>
    BY <2>2, ListedSet DEF CacheInv
  <2> HIDE DEF list
  <2>4. PICK drop \in SUBSET DOMAIN filled :
          /\ map' = [x \in DOMAIN filled \ drop |-> filled[x]]
          /\ DOMAIN map' = DOMAIN filled \ drop
          /\ IF Cardinality(DOMAIN filled) > max_entries
               THEN Cardinality(drop) = Cardinality(DOMAIN filled) - max_entries
               ELSE drop = {}
          /\ k \notin drop
    <3>1. CutFrom(list, filled, max_entries)
      BY <1>1, <2>1, <2>2, EvictKeeps
    <3>2. QED
      BY <2>2, <2>3, <3>1 DEF CutFrom
  <2>5. Listed(lru', DOMAIN map') /\ Len(lru') <= max_entries
    BY <1>1, <2>1, <2>2, EvictKeeps
  <2>6. CacheInv'
    BY <1>1, <1>3, <2>4, <2>5 DEF CacheInv
  <2>7. Held' = [x \in DOMAIN Added(k, response) \ drop |-> Added(k, response)[x]]
    BY <1>4, <2>4 DEF Held
  <2>8. Drops(Added(k, response), max_entries, {k})
    BY <1>4, <2>4, <2>7 DEF Drops
  <2>9. QED
    BY <1>1, <2>6, <2>8, PutIsAllowed
<1>7. QED
  BY <1>2, <1>5, <1>6 DEF CacheInv

LEMMA ConfigureKeeps ==
    ASSUME CacheInv, NEW ttl \in Ttls \cup {0}, NEW size \in CacheSizes \cup {0},
           Configure(ttl, size)
    PROVE  CacheInv' /\ (Promised!Next \/ UNCHANGED Seen)
<1>1. /\ ttl_secs' \in Ttls /\ max_entries' \in CacheSizes
      /\ max_entries' \in Nat \ {0} /\ UNCHANGED cache_enabled
  BY ResponseCacheAssumption DEF Configure, CacheInv, ResponseCacheAssumption
<1>2. Evict(lru, map, max_entries') /\ Listed(lru, DOMAIN map)
  BY DEF Configure, CacheInv
<1> DEFINE size1 == max_entries'
<1>3. size1 \in Nat \ {0} /\ Evict(lru, map, size1)
  BY <1>1, <1>2
<1> HIDE DEF size1
<1>4. Listed(lru', DOMAIN map') /\ Len(lru') <= size1 /\ CutFrom(lru, map, size1)
  BY <1>2, <1>3, EvictKeeps
<1>5. PICK drop \in SUBSET DOMAIN map :
        /\ map' = [k \in DOMAIN map \ drop |-> map[k]]
        /\ DOMAIN map' = DOMAIN map \ drop
        /\ IF Cardinality(DOMAIN map) > size1
             THEN Cardinality(drop) = Cardinality(DOMAIN map) - size1
             ELSE drop = {}
  BY <1>4 DEF CutFrom
<1>6. CacheInv'
  BY <1>1, <1>4, <1>5 DEF CacheInv, size1
<1>7. DOMAIN Held = DOMAIN map /\ Held' = [k \in DOMAIN map \ drop |-> Held[k]]
  BY <1>5 DEF Held
<1>8. Drops(Held, max_entries', {})
  BY <1>5, <1>7 DEF Drops, size1
<1>9. QED
  BY <1>1, <1>6, <1>8, ResizeIsAllowed

LEMMA ClearKeeps ==
    ASSUME CacheInv, ClearCache
    PROVE  CacheInv' /\ Promised!Next
<1>1. lru' = <<>> /\ map' = <<>> /\ UNCHANGED <<cache_enabled, ttl_secs, max_entries>>
  BY DEF ClearCache
<1>2. DOMAIN map' = {} /\ Len(lru') = 0 /\ lru' \in Seq({}) /\ map' = [k \in {} |-> map'[k]]
  BY <1>1
<1>3. Listed(lru', DOMAIN map')
  BY <1>2 DEF Listed
<1>4. CacheInv'
  BY <1>1, <1>2, <1>3, ResponseCacheAssumption DEF CacheInv, ResponseCacheAssumption
<1>5. Held' = <<>>
  BY <1>2 DEF Held
<1>6. Promised!ForgetAll
  BY <1>1, <1>5 DEF Promised!ForgetAll, Held
<1>7. QED
  BY <1>4, <1>6, Zenon DEF Promised!Next

LEMMA SetEnabledKeeps ==
    ASSUME CacheInv, NEW on \in BOOLEAN, SetEnabled(on)
    PROVE  CacheInv' /\ UNCHANGED Seen
BY DEF CacheInv, SetEnabled, Seen, Held

LEMMA AgeKeeps ==
    ASSUME CacheInv, Age
    PROVE  CacheInv' /\ UNCHANGED Seen
<1>1. /\ map' = [k \in DOMAIN map |-> [map[k] EXCEPT !.left = IF @ > 0 THEN @ - 1 ELSE 0]]
      /\ UNCHANGED <<cache_enabled, ttl_secs, max_entries, lru>>
  BY DEF Age
<1>2. DOMAIN map' = DOMAIN map
  BY <1>1
<1>3. ASSUME NEW k \in DOMAIN map
      PROVE  map'[k] = [response |-> map[k].response,
                        left |-> IF map[k].left > 0 THEN map[k].left - 1 ELSE 0]
  BY <1>1 DEF CacheInv, Entry
<1>4. \A k \in DOMAIN map' : Entry(map'[k])
  BY <1>2, <1>3 DEF CacheInv, Entry
<1>5. map' = [k \in DOMAIN map' |-> map'[k]]
  BY <1>1, <1>2
<1>6. CacheInv'
  BY <1>1, <1>2, <1>4, <1>5 DEF CacheInv
<1>7. UNCHANGED Seen
  BY <1>1, <1>2, <1>3 DEF Seen, Held
<1>8. QED
  BY <1>6, <1>7

LEMMA CacheStepKeeps ==
    ASSUME CacheInv, CacheStep
    PROVE  CacheInv' /\ (Promised!Next \/ UNCHANGED Seen)
<1>1. CASE \E k : LookupHit(k) \/ LookupMiss(k)
  BY <1>1, LookupKeeps
<1>2. CASE \E k, response : Store(k, response)
  BY <1>2, StoreKeeps
<1>3. CASE ClearCache
  BY <1>3, ClearKeeps
<1>4. CASE \E on \in BOOLEAN : SetEnabled(on)
  BY <1>4, SetEnabledKeeps
<1>5. CASE \E ttl \in Ttls \cup {0}, size \in CacheSizes \cup {0} : Configure(ttl, size)
  BY <1>5, ConfigureKeeps
<1>6. CASE Age
  BY <1>6, AgeKeeps
<1>7. QED
  BY <1>1, <1>2, <1>3, <1>4, <1>5, <1>6, Zenon DEF CacheStep

LEMMA CacheStarts ==
    ASSUME NEW on \in BOOLEAN, NEW ttl \in Ttls, NEW size \in CacheSizes,
           InitCache(on, ttl, size)
    PROVE  CacheInv /\ Promised!Init
<1>1. lru = <<>> /\ map = <<>> /\ DOMAIN map = {} /\ Len(lru) = 0 /\ lru \in Seq({})
      /\ map = [k \in {} |-> map[k]]
  BY DEF InitCache
<1>2. Listed(lru, DOMAIN map)
  BY <1>1 DEF Listed
<1>3. max_entries \in Nat \ {0} /\ ttl_secs \in Nat
  BY ResponseCacheAssumption DEF InitCache, ResponseCacheAssumption
<1>4. CacheInv
  BY <1>1, <1>2, <1>3 DEF CacheInv, InitCache
<1>5. [k \in DOMAIN map |-> map[k].response] = <<>>
  BY <1>1
<1>6. Promised!Init
  BY <1>3, <1>5 DEF Promised!Init
<1>7. QED
  BY <1>4, <1>6

LEMMA CacheStutters == ASSUME CacheInv, UNCHANGED cache PROVE CacheInv' /\ UNCHANGED Seen
BY DEF CacheInv, cache, Seen, Held

\* Only a store puts an answer into the cache, the one it is given.
LEMMA StoredOnly ==
    ASSUME CacheInv, NEW k, NEW response, Store(k, response)
    PROVE  \A x \in DOMAIN map' :
             \/ x = k /\ map'[x].response = response
             \/ x \in DOMAIN map /\ map'[x].response = map[x].response
<1> DEFINE new == [response |-> response, left |-> ttl_secs]
           filled == [x \in DOMAIN map \cup {k} |-> IF x = k THEN new ELSE map[x]]
<1>1. CASE ~cache_enabled
  BY <1>1 DEF Store
<1>2. CASE cache_enabled
  <2>1. PICK D \in SUBSET (DOMAIN map \cup {k}) : map' = [x \in D |-> filled[x]]
    <3>1. CASE map' = filled
      BY <3>1
    <3>2. CASE \E dropped : map' = [x \in DOMAIN filled \ dropped |-> filled[x]]
      BY <3>2
    <3>3. QED
      BY <1>2, <3>1, <3>2 DEF Store, Evict, Restrict
  <2>2. QED
    BY <2>1
<1>3. QED
  BY <1>1, <1>2

LEMMA NothingNew ==
    ASSUME CacheInv,
           \/ \E k : LookupHit(k) \/ LookupMiss(k)
           \/ ClearCache
           \/ \E on \in BOOLEAN : SetEnabled(on)
           \/ \E ttl \in Ttls \cup {0}, size \in CacheSizes \cup {0} : Configure(ttl, size)
           \/ Age
    PROVE  \A x \in DOMAIN map' : x \in DOMAIN map /\ map'[x].response = map[x].response
<1>1. CASE \E k : LookupHit(k) \/ LookupMiss(k)
  BY <1>1 DEF LookupHit, LookupMiss, Restrict
<1>2. CASE ClearCache
  BY <1>2 DEF ClearCache
<1>3. CASE \E on \in BOOLEAN : SetEnabled(on)
  BY <1>3 DEF SetEnabled
<1>4. CASE \E ttl \in Ttls \cup {0}, size \in CacheSizes \cup {0} : Configure(ttl, size)
  <2>1. \E dropped : map' = [x \in DOMAIN map \ dropped |-> map[x]]
    BY <1>4 DEF Configure, Evict, Restrict
  <2>2. QED
    BY <2>1
<1>5. CASE Age
  <2>1. DOMAIN map' = DOMAIN map
    BY <1>5 DEF Age
  <2>2. ASSUME NEW x \in DOMAIN map PROVE map'[x].response = map[x].response
    BY <1>5 DEF Age, CacheInv, Entry
  <2>3. QED
    BY <2>1, <2>2
<1>6. QED
  BY <1>1, <1>2, <1>3, <1>4, <1>5
=============================================================================
