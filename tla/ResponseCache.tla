---------------------------- MODULE ResponseCache ----------------------------
(* The cache of agent answers (cpp_core/src/response_cache.cpp): a list of    *)
(* keys, most recently used first, and a map from keys to answers that points *)
(* back into the list, both under one mutex, so an operation is one step. The *)
(* operations say what becomes of the cache's variables; the module that uses *)
(* the cache says when they are called. Time is what an entry has left of its *)
(* lifetime (expires_at - now). The counters of the report are left out.      *)
EXTENDS Naturals, Sequences, FiniteSets, Functions, SequencesExt

CONSTANTS
    Ttls,       \* lifetimes the configuration may ask for, in ticks
    CacheSizes  \* sizes it may ask for

ASSUME ResponseCacheAssumption == Ttls \subseteq Nat \ {0} /\ CacheSizes \subseteq Nat \ {0}

VARIABLES
    cache_enabled, ttl_secs, max_entries, \* State: the configuration
    lru,  \* list of keys, the most recently used at its head
    map   \* [key -> [response, left]]

cache == <<cache_enabled, ttl_secs, max_entries, lru, map>>

InitCache(enabled, ttl, size) ==
    /\ cache_enabled = enabled /\ ttl_secs = ttl /\ max_entries = size
    /\ lru = <<>> /\ map = <<>>

-----------------------------------------------------------------------------
(* The list                                                                   *)

\* Where the iterator stored with k points to.
At(k) == CHOOSE i \in DOMAIN lru : lru[i] = k

\* touch_locked.
Touched(k) == <<k>> \o RemoveAt(lru, At(k))

\* Mutant: the loop runs until there is room for one more.
EvictEarly(list, entries, size) ==
    LET n == Cardinality(DOMAIN entries)
        excess == IF n >= size THEN n - size + 1 ELSE 0
        dropped == ToSet(SubSeq(list, Len(list) - excess + 1, Len(list)))
    IN  /\ lru' = SubSeq(list, 1, Len(list) - excess)
        /\ map' = Restrict(entries, DOMAIN entries \ dropped)

\* The loop of evict_lru_locked: the map decides how often it runs, the list
\* which entries go.
Evict(list, entries, size) ==
    LET n == Cardinality(DOMAIN entries)
        excess == IF n > size THEN n - size ELSE 0
        dropped == ToSet(SubSeq(list, Len(list) - excess + 1, Len(list)))
    IN  /\ lru' = SubSeq(list, 1, Len(list) - excess)
        /\ map' = Restrict(entries, DOMAIN entries \ dropped)

-----------------------------------------------------------------------------
(* Operations                                                                 *)

Cached(k) == cache_enabled /\ k \in DOMAIN map
Fresh(k) == Cached(k) /\ map[k].left > 0

\* lookup, found: the entry becomes the most recently used.
LookupHit(k) ==
    /\ Fresh(k)
    /\ lru' = Touched(k)
    /\ UNCHANGED <<cache_enabled, ttl_secs, max_entries, map>>

\* Mutant: an entry that is found expired leaves the map and stays in the list.
LookupForgets(k) ==
    /\ ~Fresh(k)
    /\ IF Cached(k)
         THEN map' = Restrict(map, DOMAIN map \ {k}) /\ UNCHANGED lru
         ELSE UNCHANGED <<lru, map>>
    /\ UNCHANGED <<cache_enabled, ttl_secs, max_entries>>

\* lookup, not found; an entry past its time is erased.
LookupMiss(k) ==
    /\ ~Fresh(k)
    /\ IF Cached(k)
         THEN lru' = RemoveAt(lru, At(k)) /\ map' = Restrict(map, DOMAIN map \ {k})
         ELSE UNCHANGED <<lru, map>>
    /\ UNCHANGED <<cache_enabled, ttl_secs, max_entries>>

\* store: an answer replaces the one of its key, or makes room for itself.
Store(k, response) ==
    /\ IF cache_enabled
         THEN LET filled == [x \in DOMAIN map \cup {k} |->
                               IF x = k THEN [response |-> response, left |-> ttl_secs]
                                        ELSE map[x]]
              IN IF k \in DOMAIN map
                   THEN lru' = Touched(k) /\ map' = filled
                   ELSE Evict(<<k>> \o lru, filled, max_entries)
         ELSE UNCHANGED <<lru, map>>
    /\ UNCHANGED <<cache_enabled, ttl_secs, max_entries>>

ClearCache ==
    /\ lru' = <<>> /\ map' = <<>>
    /\ UNCHANGED <<cache_enabled, ttl_secs, max_entries>>

\* Switching the cache off keeps what it holds.
SetEnabled(on) ==
    /\ cache_enabled' = on
    /\ UNCHANGED <<ttl_secs, max_entries, lru, map>>

\* Mutant: a size of zero is taken as given.
ConfigureZero(ttl, size) ==
    /\ ttl_secs' = IF ttl > 0 THEN ttl ELSE ttl_secs
    /\ max_entries' = size
    /\ Evict(lru, map, max_entries')
    /\ UNCHANGED cache_enabled

\* Zero leaves a setting as it is; a smaller size evicts at once.
Configure(ttl, size) ==
    /\ ttl_secs' = IF ttl > 0 THEN ttl ELSE ttl_secs
    /\ max_entries' = IF size > 0 THEN size ELSE max_entries
    /\ Evict(lru, map, max_entries')
    /\ UNCHANGED cache_enabled

\* Time passes.
Age ==
    /\ \E k \in DOMAIN map : map[k].left > 0
    /\ map' = [k \in DOMAIN map |->
                 [map[k] EXCEPT !.left = IF @ > 0 THEN @ - 1 ELSE 0]]
    /\ UNCHANGED <<cache_enabled, ttl_secs, max_entries, lru>>

-----------------------------------------------------------------------------
(* What is promised                                                           *)

\* The list and the map hold the same keys, each once, and no more of them than
\* the size: every iterator in the map points at its key, and the eviction
\* loop, which the map drives and the list feeds, never runs dry.
CacheShape ==
    /\ \A i, j \in DOMAIN lru : lru[i] = lru[j] => i = j
    /\ ToSet(lru) = DOMAIN map
    /\ Len(lru) <= max_entries

\* The cache is a bounded map of answers: what callers may rely on.
Promised == INSTANCE BoundedCache WITH
    held <- [k \in DOMAIN map |-> map[k].response],
    limit <- max_entries

ImplementsBoundedCache == Promised!Spec
=============================================================================
