---------------------------- MODULE ModelRegistry ----------------------------
(* The in-process MLX models of the coordinator (cpp_core/src/model_registry* *)
(* of an embed build): the loaded models, the entries that account for them   *)
(* and say when they were used, and the prompt caches of sessions. One lane   *)
(* (g_lane_mu) serializes generation and eviction; the mutex of the entries   *)
(* (mu_) is held for single steps only.                                       *)
(*                                                                            *)
(* Time is the age of an entry: used lately, unused for the short window that *)
(* memory pressure evicts by, or unused for the window model_idle_secs.       *)
EXTENDS Naturals, Sequences, FiniteSets, Functions, SequencesExt

CONSTANTS
    Threads,         \* threads of the MLX routes
    Agents,          \* agents dispatched in-process
    Model, Quant,    \* [Agents -> model path], [Agents -> quantization]
    Sessions,        \* session ids
    NoSession,       \* a call without one
    Prompts,         \* prompts, as sequences of tokens
    MIN_CTX,         \* g_pc_min_ctx: shorter prompts get no session cache
    Nobody,
    MaxCalls         \* bound: calls made by all threads

Tokens == UNION {ToSet(p) : p \in Prompts}

ASSUME ModelRegistryAssumption ==
    /\ DOMAIN Model = Agents /\ DOMAIN Quant = Agents
    /\ Prompts \subseteq Seq(Tokens)
    /\ IsFiniteSet(Sessions)
    /\ NoSession \notin Sessions /\ Nobody \notin Threads
    /\ MIN_CTX \in Nat \ {0} /\ MaxCalls \in Nat

VARIABLES
    resident,   \* keys of __mlx_reg__: the models in memory
    entries,    \* entries_: [key |-> age since last_used]
    caches,     \* __mlx_sess__: [session |-> its cache and the prompt it stands for]
    sess_count, \* g_sess_count, what the pressure report shows
    lane,       \* holder of g_lane_mu
    calls,      \* bound: the calls made
    pc,         \* per thread: where it is
    job,        \* per thread: the generation it is asked for
    stale,      \* per thread: the keys its evict_idle has chosen
    orphans,    \* history: models loaded by calls that returned without accounting
    cut,        \* history: a setup failed after it had evicted caches
    partial     \* history: sessions whose cache a run that raised has left cut short

registry == <<resident, entries>>
promptCaches == <<caches, sess_count, cut, partial>>
vars == <<registry, promptCaches, lane, pc, calls, job, stale, orphans>>

Key(a) == <<Model[a], Quant[a]>>
Keys == {Key(a) : a \in Agents}
Ages == {"used", "short", "idle"}

\* What model m computes for tokens: one KV slot each.
KV(m, tokens) == [i \in DOMAIN tokens |-> [model |-> m, token |-> tokens[i]]]
TokensOf(kv) == [i \in DOMAIN kv |-> kv[i].token]

\* A generation: kv is the context its model reads, the first `lent` slots of it
\* from the session's cache.
NewJob(a, s, p) == [agent |-> a, session |-> s, prompt |-> p, kv |-> <<>>, lent |-> 0]
NoJob == NewJob(Nobody, NoSession, <<>>)

Init ==
    /\ resident = {} /\ entries = <<>>
    /\ caches = <<>> /\ sess_count = 0
    /\ lane = Nobody
    /\ pc = [t \in Threads |-> "ready"] /\ calls = 0
    /\ job = [t \in Threads |-> NoJob]
    /\ stale = [t \in Threads |-> {}]
    /\ orphans = {} /\ cut = FALSE /\ partial = {}

Goto(t, label) == pc' = [pc EXCEPT ![t] = label]

\* Mutant: no lane.
PassLane(t) == lane' = t

TakeLane(t) == lane = Nobody /\ lane' = t

-----------------------------------------------------------------------------
(* evict_idle, called by the MLX routes before they dispatch                  *)

\* The keys unused for the window are chosen under mu_ alone. The prompt caches
\* are on, so the lane is taken even for none.
ChooseStale(t) ==
    /\ pc[t] = "ready" /\ calls < MaxCalls
    /\ calls' = calls + 1
    /\ \E window \in {{"short", "idle"}, {"idle"}} :
          stale' = [stale EXCEPT ![t] = {k \in DOMAIN entries : entries[k] \in window}]
    /\ Goto(t, "evict")
    /\ UNCHANGED <<registry, promptCaches, lane, job, orphans>>

\* Mutant: the count is kept by adding what is new.
CountDelta(S) == sess_count' = sess_count + Cardinality(S \ DOMAIN caches) /\ cut' = FALSE

\* set_session_count
Count(S) == sess_count' = Cardinality(S) /\ cut' = FALSE

KeepCaches(S) == caches' = Restrict(caches, S) /\ partial' = partial \cap S
Live == {s \in DOMAIN caches : ~caches[s].idle}

\* In the lane: the models of the chosen keys are dropped by path, whatever
\* happened to their entries since, and the idle prompt caches with them.
DropModels(t) ==
    /\ pc[t] = "evict" /\ TakeLane(t)
    /\ resident' = resident \ {k[1] : k \in stale[t]}
    /\ orphans' = orphans \ {k[1] : k \in stale[t]}
    /\ KeepCaches(Live) /\ Count(Live)
    /\ Goto(t, "erase")
    /\ UNCHANGED <<entries, calls, job, stale>>

EraseEntries(t) ==
    /\ pc[t] = "erase"
    /\ entries' = Restrict(entries, DOMAIN entries \ stale[t])
    /\ stale' = [stale EXCEPT ![t] = {}]
    /\ lane' = Nobody
    /\ Goto(t, "ready")
    /\ UNCHANGED <<resident, promptCaches, calls, job, orphans>>

-----------------------------------------------------------------------------
(* generate and generate_stream                                               *)

\* POST /api/mlx/submit generates without a session, the stream route with one
\* (its synthesizer without).
Ask(t) ==
    /\ pc[t] = "ready" /\ calls < MaxCalls
    /\ calls' = calls + 1
    /\ \E a \in Agents, s \in Sessions \cup {NoSession}, p \in Prompts, route \in {"generate", "stream"} :
          /\ route = "generate" => s = NoSession
          /\ job' = [job EXCEPT ![t] = NewJob(a, s, p)]
          /\ Goto(t, route)
    /\ UNCHANGED <<registry, promptCaches, lane, stale, orphans>>

ModelOf(t) == Model[job[t].agent]

Return(t) == Goto(t, "ready") /\ job' = [job EXCEPT ![t] = NoJob]

\* The model is loaded unless it is resident; generate accounts for the call
\* even when loading fails.
Generate(t) ==
    /\ pc[t] = "generate" /\ TakeLane(t)
    /\ \/ resident' = resident \cup {ModelOf(t)} /\ Goto(t, "running")
       \/ ModelOf(t) \notin resident /\ UNCHANGED resident /\ Goto(t, "account")
    /\ job' = [job EXCEPT ![t].kv = KV(ModelOf(t), job[t].prompt)]
    /\ UNCHANGED <<entries, promptCaches, calls, stale, orphans>>

\* A stream whose model does not load returns without accounting.
StreamNoModel(t) ==
    /\ pc[t] = "stream" /\ lane = Nobody
    /\ ModelOf(t) \notin resident
    /\ Return(t)
    /\ UNCHANGED <<registry, promptCaches, lane, calls, stale, orphans>>

\* The setup evicts idle caches and fails afterwards (it encodes the prompt and
\* makes or trims a cache): the loaded model has no entry yet.
StreamSetupFails(t) ==
    /\ pc[t] = "stream" /\ lane = Nobody
    /\ job[t].session # NoSession
    /\ resident' = resident \cup {ModelOf(t)}
    /\ orphans' = IF ModelOf(t) \in resident THEN orphans ELSE orphans \cup {ModelOf(t)}
    /\ KeepCaches(Live) /\ cut' = TRUE
    /\ Return(t)
    /\ UNCHANGED <<entries, sess_count, lane, calls, stale>>

CommonPrefix(s, u) ==
    LET agree == {n \in 0 .. Len(s) : n <= Len(u) /\ SubSeq(s, 1, n) = SubSeq(u, 1, n)}
    IN  CHOOSE n \in agree : \A k \in agree : k <= n

TrimTail(s, n) == SubSeq(s, 1, Len(s) - n)

\* What session s's cache lends to a prompt: it is trimmed by what the prompt it
\* stands for has beyond the common prefix, and by one more token when nothing
\* is left to feed.
Reused(s, prompt) ==
    LET lcp == CommonPrefix(caches[s].prompt, prompt)
        kv  == TrimTail(caches[s].kv, Len(caches[s].prompt) - lcp)
    IN  IF lcp = Len(prompt) THEN TrimTail(kv, 1) ELSE kv

\* The tokens fed on top of it go by the common prefix, not by the cache.
Fed(s, prompt) ==
    LET lcp == CommonPrefix(caches[s].prompt, prompt)
    IN  SubSeq(prompt, IF lcp = Len(prompt) THEN lcp ELSE lcp + 1, Len(prompt))

\* The stream starts: from the session's cache, a new one, or, for a short
\* prompt, one of its own; the session's cache is then dropped.
Stream(t) ==
    /\ pc[t] = "stream" /\ TakeLane(t)
    /\ resident' = resident \cup {ModelOf(t)}
    /\ LET s == job[t].session
           prompt == job[t].prompt
           old == IF s \in Live THEN Reused(s, prompt) ELSE <<>>
           new == old \o KV(ModelOf(t), IF s \in Live THEN Fed(s, prompt) ELSE prompt)
       IN  \/ /\ s = NoSession
              /\ job' = [job EXCEPT ![t].kv = KV(ModelOf(t), prompt)]
              /\ UNCHANGED promptCaches
           \/ /\ s # NoSession /\ Len(prompt) < MIN_CTX
              /\ job' = [job EXCEPT ![t].kv = KV(ModelOf(t), prompt)]
              /\ KeepCaches(Live \ {s}) /\ Count(Live \ {s})
           \/ /\ s # NoSession /\ Len(prompt) >= MIN_CTX
              /\ job' = [job EXCEPT ![t].kv = new, ![t].lent = Len(old)]
              /\ caches' = [x \in Live \cup {s} |->
                               IF x = s THEN [prompt |-> prompt, kv |-> new, idle |-> FALSE] ELSE caches[x]]
              /\ partial' = partial \cap Live
              /\ Count(Live \cup {s})
    /\ Goto(t, "running")
    /\ UNCHANGED <<entries, calls, stale, orphans>>

-----------------------------------------------------------------------------
\* A generated token: the cache object of the session grows with it.
Generated == "generated"

\* Mutant: the generated tokens stay in the cache.
RunEndsUntrimmed(t) ==
    /\ pc[t] = "running"
    /\ LET s == job[t].session IN
       IF s \in DOMAIN caches
       THEN \E n \in 0 .. 1 :
               caches' = [caches EXCEPT ![s].kv = job[t].kv \o KV(ModelOf(t), [i \in 1 .. n |-> Generated])]
       ELSE UNCHANGED caches
    /\ Goto(t, "account")
    /\ UNCHANGED <<registry, sess_count, cut, partial, lane, calls, job, stale, orphans>>

\* The run is over, with some tokens or none; they are trimmed off the cache.
RunEnds(t) ==
    /\ pc[t] = "running"
    /\ LET s == job[t].session IN
       IF s \in DOMAIN caches
       THEN \E n \in 0 .. 1 :
               caches' = [caches EXCEPT ![s].kv =
                             TrimTail(job[t].kv \o KV(ModelOf(t), [i \in 1 .. n |-> Generated]), n)]
       ELSE UNCHANGED caches
    /\ Goto(t, "account")
    /\ UNCHANGED <<registry, sess_count, cut, partial, lane, calls, job, stale, orphans>>

\* The generator raises: while it reads the prompt, with any part of it in the
\* cache and no token to trim off, or at a later token, which is in the cache
\* without having been counted, or counted without being there. The cache stays
\* filed with the whole prompt, and the call goes on as if the run had ended.
RunRaises(t) ==
    /\ pc[t] = "running"
    /\ LET s == job[t].session
           grown == job[t].kv \o KV(ModelOf(t), <<Generated>>)
       IN  IF s \in DOMAIN caches
           THEN \E n \in job[t].lent .. Len(grown) :
                   /\ caches' = [caches EXCEPT ![s].kv = SubSeq(grown, 1, n)]
                   /\ partial' = IF n = Len(job[t].kv) THEN partial ELSE partial \cup {s}
           ELSE UNCHANGED <<caches, partial>>
    /\ Goto(t, "account")
    /\ UNCHANGED <<registry, sess_count, cut, lane, calls, job, stale, orphans>>

\* note_generation, and the lane is left.
Account(t) ==
    /\ pc[t] = "account"
    /\ entries' = [k \in DOMAIN entries \cup {Key(job[t].agent)} |->
                      IF k = Key(job[t].agent) THEN "used" ELSE entries[k]]
    /\ orphans' = orphans \ {ModelOf(t)}
    /\ lane' = Nobody
    /\ Return(t)
    /\ UNCHANGED <<resident, promptCaches, calls, stale>>

-----------------------------------------------------------------------------
Unused(k) ==
    /\ entries[k] # "idle"
    /\ entries' = [entries EXCEPT ![k] = IF @ = "used" THEN "short" ELSE "idle"]
    /\ UNCHANGED <<resident, promptCaches, lane, pc, calls, job, stale, orphans>>

Expire(s) ==
    /\ ~caches[s].idle
    /\ caches' = [caches EXCEPT ![s].idle = TRUE]
    /\ UNCHANGED <<registry, sess_count, cut, partial, lane, pc, calls, job, stale, orphans>>

Step(t) ==
    \/ ChooseStale(t) \/ DropModels(t) \/ EraseEntries(t)
    \/ Ask(t) \/ Generate(t) \/ StreamNoModel(t) \/ StreamSetupFails(t) \/ Stream(t)
    \/ RunEnds(t) \/ RunRaises(t) \/ Account(t)

Next ==
    \/ \E t \in Threads : Step(t)
    \/ \E k \in DOMAIN entries : Unused(k)
    \/ \E s \in DOMAIN caches : Expire(s)

Spec == Init /\ [][Next]_vars

-----------------------------------------------------------------------------
Slots == [model : Range(Model), token : Tokens \cup {Generated}]
Caches == [prompt : Prompts, kv : Seq(Slots), idle : BOOLEAN]
Jobs == [agent : Agents \cup {Nobody}, session : Sessions \cup {NoSession},
         prompt : Prompts \cup {<<>>}, kv : Seq(Slots), lent : Nat]
Asked == {"generate", "stream", "running", "account"}

TypeOK ==
    /\ resident \cup orphans \subseteq Range(Model)
    /\ DOMAIN entries \subseteq Keys /\ Range(entries) \subseteq Ages
    /\ DOMAIN caches \subseteq Sessions /\ Range(caches) \subseteq Caches
    /\ sess_count \in 0 .. Cardinality(Sessions) /\ cut \in BOOLEAN
    /\ partial \subseteq DOMAIN caches
    /\ lane \in Threads \cup {Nobody}
    /\ pc \in [Threads -> Asked \cup {"ready", "evict", "erase"}]
    /\ calls \in 0 .. MaxCalls
    /\ job \in [Threads -> Jobs]
    /\ \A t \in Threads : pc[t] \in Asked => job[t].agent \in Agents /\ job[t].prompt \in Prompts
    /\ stale \in [Threads -> SUBSET Keys]

InLane(t) == pc[t] \in {"running", "account", "erase"}

\* One generation or eviction at a time, and a model is in memory for as long
\* as it generates, although it may have been chosen for eviction while it
\* looked idle (the lane, model_registry_embed.cpp:23,122,174,275).
ModelStays ==
    /\ \A t, u \in Threads : InLane(t) /\ InLane(u) => t = u
    /\ \A t \in Threads : pc[t] = "running" => ModelOf(t) \in resident

\* No model is left in memory that evict_idle would never find: between calls
\* every loaded model has an entry of its path, through evictions that were
\* decided before the model was used again and quantizations that share it.
\* Streams whose setup failed after the load are the exception
\* (model_registry_embed.cpp:96-115,185,196,261-300).
ResidentReclaimable ==
    lane = Nobody => \A p \in resident \ orphans : \E k \in DOMAIN entries : k[1] = p

\* The prompt-cache count of the pressure report does not drift: between calls
\* it is the number of caches, and too high at most after a setup that failed
\* (model_registry_embed.cpp:188-193, model_registry_prompt_cache.cpp:45).
SessionCountRight ==
    lane = Nobody => /\ sess_count >= Cardinality(DOMAIN caches)
                     /\ ~cut => sess_count = Cardinality(DOMAIN caches)

\* A model reads exactly the prompt it is asked, whatever prompts the session's
\* cache has served before, grown, shortened or edited, with tokens generated in
\* between; unless a run that raised has left the session's cache cut short
\* (model_registry_prompt_cache_codegen.cpp:66-84, model_registry_embed.cpp:222-231).
ContextIsPrompt ==
    \A t \in Threads :
        pc[t] = "running" /\ job[t].session \notin partial => TokensOf(job[t].kv) = job[t].prompt

\* model_registry_embed.cpp:222 of the cache between calls: it "holds exactly
\* the prompt KV", the prompt's as one model computes it. The cache a run
\* left when it raised is another matter: ContextIsPrompt names it.
CacheHoldsPrompt ==
    lane = Nobody => \A s \in DOMAIN caches \ partial :
                         \E p \in Range(Model) : caches[s].kv = KV(p, caches[s].prompt)
=============================================================================
