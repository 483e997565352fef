--------------------------- MODULE RequestsProofs ---------------------------
(* Theorems about Requests for any number of threads, sessions, agents,       *)
(* requests and configurations. The invariants proved are not inductive as    *)
(* they stand; each is a conjunct or a consequence of one of                  *)
(*   CacheInv    the list of the cache is a listing of the keys of its map    *)
(*   AnswerInv   what the cache holds for a question was said about it        *)
(*   LedgerInv   a thread works for the session of its request, or for none   *)
(*   ContextInv  what set the context and recorded decisions still runs       *)
(*   HistoryInv  a request that runs has its turn in its session              *)
(*   AloneInv    a request alone meets its own context, and no other one      *)
(* over ShapeInv: requests and calls are records, and only a request at its   *)
(* gate or in its phases has calls.                                           *)
EXTENDS Requests, ResponseCacheProofs

-----------------------------------------------------------------------------
(* The shape of requests and calls                                            *)

JobFields == {"id", "route", "mode", "session", "prompt", "versions", "roster", "at", "phase",
              "alone"}
CallFields == {"pc", "stream", "worker", "hears", "ask", "routed", "backend", "text", "heard"}

IsJob(j) == j = [f \in JobFields |-> j[f]]
IsCall(c) == c = [f \in CallFields |-> c[f]]

ShapeInv ==
    /\ setup \in Setups
    /\ job = [t \in Threads |-> job[t]]
    /\ \A t \in Threads :
         IsJob(job[t]) /\ (job[t].at # "idle" => job[t].session \in Sessions)
    /\ call = [t \in Threads |-> [a \in Agents |-> call[t][a]]]
    /\ \A t \in Threads, a \in Agents :
         /\ IsCall(call[t][a])
         /\ call[t][a].pc # "off" => job[t].at \in {"gated", "run"}

\* How a step may change a call: it ends it or begins it, or goes on with it.
\* What the answer is then, if there is one.
Replied(t, a) ==
    LET c == call[t][a]
        d == call'[t][a]
    IN  /\ c.pc \notin {"off", "done"} /\ d.ask = c.ask /\ d.hears = c.hears
        /\ \/ d.pc \notin {"off", "store", "turn", "done"}
           \/ d.pc \in {"store", "turn", "done"} /\ d.text = Said(c.ask)
           \/ d.pc = "done" /\ d.text = Failed
           \/ d.pc = "done" /\ c.pc \in {"store", "turn"} /\ d.text = c.text
           \/ d.pc = "done" /\ c.ask \in DOMAIN map /\ d.text = map[c.ask].response

CallRule ==
    \A t \in Threads, a \in Agents :
        \/ call'[t][a] = call[t][a]
        \/ call'[t][a].pc = "off" /\ call'[t][a].heard = "nothing"
        \/ call'[t][a].pc = "start" /\ call'[t][a].heard = "nothing"
        \/ Replied(t, a) 

\* A call that changes, and nothing else of requests and calls.
LEMMA OneCall ==
    ASSUME ShapeInv, NEW t \in Threads, NEW a \in Agents, NEW c, IsCall(c),
           call' = [call EXCEPT ![t][a] = c], UNCHANGED <<job, setup>>,
           call[t][a].pc # "off"
    PROVE  /\ ShapeInv' /\ call'[t][a] = c
           /\ \A u \in Threads, b \in Agents : <<u, b>> # <<t, a>> => call'[u][b] = call[u][b]
<1>1. /\ call' = [u \in Threads |-> [b \in Agents |-> IF u = t /\ b = a THEN c ELSE call[u][b]]]
  BY DEF ShapeInv
<1>2. \A u \in Threads, b \in Agents :
        call'[u][b] = IF u = t /\ b = a THEN c ELSE call[u][b]
  BY <1>1
<1>3. call' = [u \in Threads |-> [b \in Agents |-> call'[u][b]]]
  BY <1>1, <1>2
<1>4. QED
  BY <1>2, <1>3 DEF ShapeInv

LEMMA CallMoves ==
    ASSUME ShapeInv, NEW t \in Threads, NEW a \in Agents, CallStep(t, a)
    PROVE  ShapeInv' /\ CallRule
<1> DEFINE c == call[t][a]
<1>0. IsCall(c) /\ a \in DOMAIN call[t] /\ t \in DOMAIN call
  BY DEF ShapeInv
<1>a. ASSUME NEW d, call' = [call EXCEPT ![t][a] = d], IsCall(d), UNCHANGED <<job, setup>>,
             c.pc \notin {"off", "done"}, d.ask = c.ask, d.hears = c.hears,
             \/ d.pc \notin {"off", "store", "turn", "done"}
             \/ d.pc \in {"store", "turn", "done"} /\ d.text = Said(c.ask)
             \/ d.pc = "done" /\ d.text = Failed
             \/ d.pc = "done" /\ c.pc \in {"store", "turn"} /\ d.text = c.text
             \/ d.pc = "done" /\ c.ask \in DOMAIN map /\ d.text = map[c.ask].response
      PROVE  ShapeInv' /\ CallRule
  <2>1. /\ ShapeInv' /\ call'[t][a] = d
        /\ \A u \in Threads, b \in Agents : <<u, b>> # <<t, a>> => call'[u][b] = call[u][b]
    BY <1>a, OneCall
  <2>2. Replied(t, a)
    BY <1>a, <2>1 DEF Replied
  <2>3. QED
    BY <2>1, <2>2 DEF CallRule
<1>b. ASSUME UNCHANGED <<call, job, setup>> PROVE ShapeInv' /\ CallRule
  BY <1>b DEF ShapeInv, CallRule
\* Only the place of the call changes.
<1>c. ASSUME NEW l, Step(t, a, l), UNCHANGED <<job, setup>>, c.pc \notin {"off", "done"},
             \/ l \notin {"off", "store", "turn", "done"}
             \/ l = "done" /\ c.pc \in {"store", "turn"}
      PROVE  ShapeInv' /\ CallRule
  <2> DEFINE d == [c EXCEPT !.pc = l]
  <2>1. IsCall(d) /\ d.ask = c.ask /\ d.hears = c.hears /\ d.pc = l /\ d.text = c.text
    BY <1>0 DEF IsCall, CallFields
  <2>2. call' = [call EXCEPT ![t][a] = d]
    BY <1>0, <1>c DEF Step
  <2> HIDE DEF d
  <2>3. QED
    BY <1>a, <1>c, <2>1, <2>2
<1>1. CASE Lookup(t, a)
  <2>1. UNCHANGED <<job, setup>> /\ c.pc = "start"
    BY <1>1 DEF Lookup, unseen, CallAt
  <2>2. CASE /\ LookupHit(Key(c.ask))
             /\ call' = [call EXCEPT ![t][a].pc = "done", ![t][a].text = map[Key(c.ask)].response]
    <3> DEFINE d == [c EXCEPT !.pc = "done", !.text = map[Key(c.ask)].response]
    <3>1. /\ IsCall(d) /\ d.ask = c.ask /\ d.hears = c.hears /\ d.pc = "done"
          /\ d.text = map[c.ask].response
      BY <1>0 DEF IsCall, CallFields, Key
    <3>2. call' = [call EXCEPT ![t][a] = d]
      BY <1>0, <2>2
    <3>3. c.ask \in DOMAIN map
      BY <2>2 DEF LookupHit, Fresh, Cached, Key
    <3> HIDE DEF d
    <3>4. QED
      BY <1>a, <2>1, <3>1, <3>2, <3>3
  <2>3. CASE Step(t, a, "route")
    BY <1>c, <2>1, <2>3
  <2>4. QED
    BY <1>1, <2>2, <2>3 DEF Lookup
<1>2. CASE Route(t, a)
  <2>1. UNCHANGED <<job, setup>> /\ c.pc \in {"start", "route"}
    BY <1>2 DEF Route, unseen, CallAt
  <2>2. CASE Step(t, a, "resolve")
    BY <1>c, <2>1, <2>2
  <2>3. CASE call' = [call EXCEPT ![t][a].backend = Engine[a],
                         ![t][a].pc = IF routing THEN "note" ELSE Onwards(call[t][a], Engine[a])]
    <3> DEFINE l == IF routing THEN "note" ELSE Onwards(call[t][a], Engine[a])
               d == [c EXCEPT !.backend = Engine[a], !.pc = l]
    <3>0. l \in {"note", "hear", "serve"}
      BY DEF Onwards
    <3> HIDE DEF l
    <3>1. IsCall(d) /\ d.ask = c.ask /\ d.hears = c.hears /\ d.pc = l
      BY <1>0 DEF IsCall, CallFields
    <3>2. call' = [call EXCEPT ![t][a] = d]
      BY <1>0, <2>3 DEF l
    <3> HIDE DEF d
    <3>3. QED
      BY <1>a, <2>1, <3>0, <3>1, <3>2
  <2>4. QED
    BY <1>2, <2>2, <2>3 DEF Route
<1>3. CASE Resolve(t, a)
  <2>1. UNCHANGED <<job, setup>> /\ c.pc = "resolve"
    BY <1>3 DEF Resolve, CallAt
  <2>2. CASE ctx.set
    <3>1. PICK b \in Supports[a] : call' = [call EXCEPT ![t][a].pc = "note",
                                      ![t][a].backend = b, ![t][a].routed = TRUE]
      BY <1>3, <2>2 DEF Resolve
    <3> DEFINE d == [c EXCEPT !.pc = "note", !.backend = b, !.routed = TRUE]
    <3>2. IsCall(d) /\ d.ask = c.ask /\ d.hears = c.hears /\ d.pc = "note"
      BY <1>0 DEF IsCall, CallFields
    <3>3. call' = [call EXCEPT ![t][a] = d]
      BY <1>0, <3>1
    <3> HIDE DEF d
    <3>4. QED
      BY <1>a, <2>1, <3>2, <3>3
  <2>3. CASE ~ctx.set
    BY <1>3, <1>b, <2>1, <2>3 DEF Resolve
  <2>4. QED
    BY <2>2, <2>3
<1>4. CASE Note(t, a)
  <2>1. PICK l \in {"record", "hear", "serve"} : Step(t, a, l)
    BY <1>4 DEF Note, Onwards
  <2>2. QED
    BY <1>4, <1>c, <2>1 DEF Note, unseen, CallAt
<1>5. CASE Record(t, a)
  <2>1. PICK l \in {"hear", "serve"} : Step(t, a, l)
    BY <1>5 DEF Record, Onwards
  <2>2. QED
    BY <1>5, <1>c, <2>1 DEF Record, unseen, CallAt
<1>6. CASE Hear(t, a)
  <2> DEFINE d == [c EXCEPT !.pc = "serve", !.heard = Heard(job[t].session, job[t].id)]
  <2>1. IsCall(d) /\ d.ask = c.ask /\ d.hears = c.hears /\ d.pc = "serve"
    BY <1>0 DEF IsCall, CallFields
  <2>2. call' = [call EXCEPT ![t][a] = d] /\ UNCHANGED <<job, setup>> /\ c.pc = "hear"
    BY <1>0, <1>6 DEF Hear, unseen, CallAt
  <2> HIDE DEF d
  <2>3. QED
    BY <1>a, <2>1, <2>2
<1>7. CASE Answered(t, a)
  <2> DEFINE l == Kept(c)
             d == [c EXCEPT !.pc = l, !.text = Said(c.ask)]
  <2>0. l \in {"store", "turn", "done"}
    BY DEF Kept
  <2>1. call' = [call EXCEPT ![t][a] = d] /\ UNCHANGED <<job, setup>> /\ c.pc = "serve"
    BY <1>0, <1>7 DEF Answered, CallAt
  <2> HIDE DEF l
  <2>2. /\ IsCall(d) /\ d.ask = c.ask /\ d.hears = c.hears /\ d.pc = l
        /\ d.text = Said(c.ask)
    BY <1>0 DEF IsCall, CallFields
  <2> HIDE DEF d
  <2>3. QED
    BY <1>a, <2>0, <2>1, <2>2
<1>8. CASE Unanswered(t, a)
  <2>1. UNCHANGED <<job, setup>> /\ c.pc = "serve"
    BY <1>8 DEF Unanswered, unseen, CallAt
  <2>2. CASE call' = [call EXCEPT ![t][a].pc = "done", ![t][a].text = Failed]
    <3> DEFINE d == [c EXCEPT !.pc = "done", !.text = Failed]
    <3>1. IsCall(d) /\ d.ask = c.ask /\ d.hears = c.hears /\ d.pc = "done" /\ d.text = Failed
      BY <1>0 DEF IsCall, CallFields
    <3>2. call' = [call EXCEPT ![t][a] = d]
      BY <1>0, <2>2
    <3> HIDE DEF d
    <3>3. QED
      BY <1>a, <2>1, <3>1, <3>2
  <2>3. CASE Step(t, a, "other")
    BY <1>c, <2>1, <2>3
  <2>4. QED
    BY <1>8, <2>2, <2>3 DEF Unanswered
<1>9. CASE OtherAnswered(t, a)
  <2> DEFINE d == [c EXCEPT !.pc = "store", !.text = Said(c.ask)]
  <2>1. call' = [call EXCEPT ![t][a] = d] /\ UNCHANGED <<job, setup>> /\ c.pc = "other"
    BY <1>0, <1>9 DEF OtherAnswered, CallAt
  <2>2. /\ IsCall(d) /\ d.ask = c.ask /\ d.hears = c.hears /\ d.pc = "store"
        /\ d.text = Said(c.ask)
    BY <1>0 DEF IsCall, CallFields
  <2> HIDE DEF d
  <2>3. QED
    BY <1>a, <2>1, <2>2
<1>10. CASE OtherUnanswered(t, a)
  <2>1. UNCHANGED <<job, setup>> /\ c.pc = "other"
    BY <1>10 DEF OtherUnanswered, unseen, CallAt
  <2>2. CASE call' = [call EXCEPT ![t][a].pc = "done", ![t][a].text = Failed]
    <3> DEFINE d == [c EXCEPT !.pc = "done", !.text = Failed]
    <3>1. IsCall(d) /\ d.ask = c.ask /\ d.hears = c.hears /\ d.pc = "done" /\ d.text = Failed
      BY <1>0 DEF IsCall, CallFields
    <3>2. call' = [call EXCEPT ![t][a] = d]
      BY <1>0, <2>2
    <3> HIDE DEF d
    <3>3. QED
      BY <1>a, <2>1, <3>1, <3>2
  <2>3. CASE Step(t, a, "serve")
    BY <1>c, <2>1, <2>3
  <2>4. QED
    BY <1>10, <2>2, <2>3 DEF OtherUnanswered
<1>11. CASE StoreAnswer(t, a)
  BY <1>11, <1>c DEF StoreAnswer, unseen, CallAt
<1>12. CASE RecordTurn(t, a)
  BY <1>12, <1>c DEF RecordTurn, CallAt
<1>13. QED
  BY <1>1, <1>2, <1>3, <1>4, <1>5, <1>6, <1>7, <1>8, <1>9, <1>10, <1>11, <1>12 DEF CallStep

\* The calls of a request are begun and collected together.
LEMMA CallsAreMade ==
    ASSUME ShapeInv, NEW t \in Threads, NEW S, NEW p, NEW quoted, CallThem(t, S, p, quoted)
    PROVE  /\ call' = [u \in Threads |-> [a \in Agents |-> call'[u][a]]]
           /\ \A u \in Threads, a \in Agents : u # t => call'[u][a] = call[u][a]
           /\ \A a \in Agents :
                /\ IsCall(call'[t][a])
                /\ call'[t][a] = IF a \in S THEN NewCall(t, a, p, quoted)
                                 ELSE IF call[t][a].pc = "done" THEN NoCall ELSE call[t][a]
           /\ CallRule
<1> DEFINE new(a) == IF a \in S THEN NewCall(t, a, p, quoted)
                     ELSE IF call[t][a].pc = "done" THEN NoCall ELSE call[t][a]
<1>1. t \in DOMAIN call /\ call' = [call EXCEPT ![t] = [a \in Agents |-> new(a)]]
  BY DEF ShapeInv, CallThem
<1>2. \A a \in Agents : IsCall(NewCall(t, a, p, quoted)) /\ IsCall(NoCall)
  BY DEF NewCall, NoCall, IsCall, CallFields
<1>3. \A a \in Agents : IsCall(new(a))
  BY <1>2 DEF ShapeInv
<1>4. \A a \in Agents : /\ NewCall(t, a, p, quoted).pc = "start"
                        /\ NewCall(t, a, p, quoted).heard = "nothing"
                        /\ NoCall.pc = "off" /\ NoCall.heard = "nothing"
  BY DEF NewCall, NoCall
<1> HIDE DEF new
<1>5. \A u \in Threads, a \in Agents : call'[u][a] = IF u = t THEN new(a) ELSE call[u][a]
  BY <1>1 DEF ShapeInv
<1>6. call' = [u \in Threads |-> [a \in Agents |-> call'[u][a]]]
  BY <1>1, <1>5 DEF ShapeInv
<1>7. CallRule
  BY <1>4, <1>5 DEF CallRule, new
<1>8. QED
  BY <1>3, <1>5, <1>6, <1>7 DEF new

LEMMA JobIsDropped ==
    ASSUME ShapeInv, NEW t \in Threads, Dropped(t), UNCHANGED setup
    PROVE  /\ ShapeInv' /\ CallRule
           /\ job'[t] = NoJob /\ \A u \in Threads : u # t => job'[u] = job[u]
<1>1. t \in DOMAIN call /\ t \in DOMAIN job
      /\ job' = [job EXCEPT ![t] = NoJob]
      /\ call' = [call EXCEPT ![t] = [a \in Agents |-> NoCall]]
  BY DEF ShapeInv, Dropped
<1>2. IsCall(NoCall) /\ NoCall.pc = "off" /\ NoCall.heard = "nothing"
  BY DEF NoCall, IsCall, CallFields
<1>3. IsJob(NoJob) /\ NoJob.at = "idle"
  BY DEF NoJob, IsJob, JobFields
<1>4. \A u \in Threads, a \in Agents : call'[u][a] = IF u = t THEN NoCall ELSE call[u][a]
  BY <1>1 DEF ShapeInv
<1>5. \A u \in Threads : job'[u] = IF u = t THEN NoJob ELSE job[u]
  BY <1>1 DEF ShapeInv
<1>6. call' = [u \in Threads |-> [a \in Agents |-> call'[u][a]]]
  BY <1>1, <1>4 DEF ShapeInv
<1>7. job' = [u \in Threads |-> job'[u]]
  BY <1>1, <1>5 DEF ShapeInv
<1>8. CallRule
  BY <1>2, <1>4 DEF CallRule
<1>9. ShapeInv'
  BY <1>2, <1>3, <1>4, <1>5, <1>6, <1>7 DEF ShapeInv
<1>10. QED
  BY <1>5, <1>8, <1>9

\* A job that changes, of a thread whose calls need not be looked at.
LEMMA OneJob ==
    ASSUME ShapeInv, NEW t \in Threads, NEW j, IsJob(j), job' = [job EXCEPT ![t] = j]
    PROVE  /\ job' = [u \in Threads |-> job'[u]]
           /\ \A u \in Threads : job'[u] = (IF u = t THEN j ELSE job[u]) /\ IsJob(job'[u])
<1>1. \A u \in Threads : job'[u] = IF u = t THEN j ELSE job[u]
  BY DEF ShapeInv
<1>2. QED
  BY <1>1 DEF ShapeInv

\* A request that goes from one step to another, with no calls.
LEMMA JobGoes ==
    ASSUME ShapeInv, NEW t \in Threads, NEW j, IsJob(j), job' = [job EXCEPT ![t] = j],
           UNCHANGED <<call, setup>>, job[t].at \notin {"idle", "gated", "run"},
           j.session = job[t].session
    PROVE  ShapeInv' /\ CallRule
<1>1. /\ job' = [u \in Threads |-> job'[u]]
      /\ \A u \in Threads : job'[u] = (IF u = t THEN j ELSE job[u]) /\ IsJob(job'[u])
  BY OneJob
<1>2. QED
  BY <1>1 DEF ShapeInv, CallRule

LEMMA NewJobShape ==
    ASSUME NEW t, NEW route, NEW mode, NEW s, NEW user
    PROVE  LET j == NewJob(t, route, mode, s, user)
           IN  /\ IsJob(j) /\ j.id = arrivals + 1 /\ j.route = route /\ j.mode = mode
               /\ j.session = s /\ j.at = IF route \in MlxRoutes THEN "sweep" ELSE "parsed"
BY DEF NewJob, NoJob, IsJob, JobFields

\* Where a request is once it is admitted, and when it has no turn of its own.
LEMMA EnterMoves ==
    ASSUME ShapeInv, NEW t \in Threads, Enter(t)
    PROVE  /\ job' = [job EXCEPT ![t] = job'[t]] /\ IsJob(job'[t])
           /\ job'[t].id = job[t].id /\ job'[t].route = job[t].route
           /\ job'[t].mode = job[t].mode /\ job'[t].session = job[t].session
           /\ job'[t].phase = job[t].phase /\ job'[t].alone = job[t].alone
           /\ job'[t].prompt = job[t].prompt /\ job'[t].roster \subseteq setup.agents
           /\ \A u \in Threads : u # t => job'[u] = job[u]
           /\ UNCHANGED <<call, setup>> /\ job[t].at \in {"parsed", "admit"}
           /\ \/ job'[t].at = "run" /\ job[t].route = "architect" /\ UNCHANGED silent
              \/ /\ job'[t].at = "run" /\ job[t].route = "stream"
                 /\ silent' = silent \cup {job[t].id}
              \/ job'[t].at = "sweep" /\ job[t].route = "stream" /\ UNCHANGED silent
<1>0. IsJob(job[t]) /\ job = [u \in Threads |-> job[u]]
  BY DEF ShapeInv
<1>1. UNCHANGED <<call, setup>> /\ job[t].at \in {"parsed", "admit"}
  BY DEF Enter, Admission
<1>2. PICK S \in SUBSET setup.agents :
        \/ /\ job[t].route = "architect" /\ UNCHANGED silent
           /\ job' = [job EXCEPT ![t].at = "run", ![t].versions = prompts, ![t].roster = S]
        \/ /\ job[t].route = "stream"
           /\ \/ EnterAt(t, "sweep", S) /\ UNCHANGED silent
              \/ EnterAt(t, "run", S) /\ silent' = silent \cup {job[t].id}
  BY DEF Enter
<1>3. CASE job[t].route = "architect"
  <2> DEFINE j == [job[t] EXCEPT !.at = "run", !.versions = prompts, !.roster = S]
  <2>1. /\ IsJob(j) /\ j.at = "run" /\ j.roster = S
        /\ j.id = job[t].id /\ j.route = job[t].route /\ j.mode = job[t].mode
        /\ j.session = job[t].session /\ j.phase = job[t].phase
        /\ j.alone = job[t].alone /\ j.prompt = job[t].prompt
    BY <1>0 DEF IsJob, JobFields
  <2>2. job' = [job EXCEPT ![t] = j] /\ UNCHANGED silent
    BY <1>2, <1>3
  <2> HIDE DEF j
  <2>3. job'[t] = j /\ \A u \in Threads : u # t => job'[u] = job[u]
    BY <1>0, <2>2
  <2>4. QED
    BY <1>1, <1>3, <2>1, <2>2, <2>3
<1>4. CASE job[t].route = "stream"
  <2>1. PICK l \in {"sweep", "run"} :
          /\ EnterAt(t, l, S)
          /\ \/ l = "sweep" /\ UNCHANGED silent
             \/ l = "run" /\ silent' = silent \cup {job[t].id}
    BY <1>2, <1>4
  <2> DEFINE j == [job[t] EXCEPT !.at = l, !.roster = S]
  <2>2. /\ IsJob(j) /\ j.at = l /\ j.roster = S
        /\ j.id = job[t].id /\ j.route = job[t].route /\ j.mode = job[t].mode
        /\ j.session = job[t].session /\ j.phase = job[t].phase
        /\ j.alone = job[t].alone /\ j.prompt = job[t].prompt
    BY <1>0 DEF IsJob, JobFields
  <2>3. job' = [job EXCEPT ![t] = j]
    BY <2>1 DEF EnterAt
  <2> HIDE DEF j
  <2>4. job'[t] = j /\ \A u \in Threads : u # t => job'[u] = job[u]
    BY <1>0, <2>3
  <2>5. QED
    BY <1>1, <1>4, <2>1, <2>2, <2>3, <2>4
<1>5. QED
  BY <1>2, <1>3, <1>4

LEMMA JobMoves ==
    ASSUME ShapeInv, NEW t \in Threads, HandlerStep(t)
    PROVE  ShapeInv' /\ CallRule
<1>0. IsJob(job[t]) /\ t \in DOMAIN job
  BY DEF ShapeInv
<1>1. CASE Arrive(t)
  <2>1. PICK route \in setup.routes, mode \in setup.modes,
             s \in setup.sessions, user \in setup.users :
          job' = [x \in Threads |-> IF x = t THEN NewJob(t, route, mode, s, user)
                                   ELSE IF Running(x) THEN Accompanied(x) ELSE job[x]]
    BY <1>1 DEF Arrive
  <2>2. UNCHANGED <<call, setup>> /\ job[t].at = "idle" /\ s \in Sessions
    BY <1>1, RequestsAssumption DEF Arrive, AtStep, ShapeInv, RequestsAssumption, TypeOfSetup
  <2>3. \A u \in Threads : /\ IsJob(job'[u]) /\ (u # t => job'[u].at = job[u].at)
                           /\ job'[u].at # "idle" => job'[u].session \in Sessions
    <3>1. IsJob(NewJob(t, route, mode, s, user)) /\ NewJob(t, route, mode, s, user).session = s
      BY NewJobShape
    <3>2. \A u \in Threads : /\ IsJob(Accompanied(u)) /\ Accompanied(u).at = job[u].at
                             /\ Accompanied(u).session = job[u].session
      BY DEF ShapeInv, IsJob, JobFields, Accompanied
    <3>3. ASSUME NEW u \in Threads
          PROVE  /\ IsJob(job'[u]) /\ (u # t => job'[u].at = job[u].at)
                 /\ job'[u].at # "idle" => job'[u].session \in Sessions
      <4>1. CASE u = t
        BY <2>1, <2>2, <3>1, <4>1
      <4>2. CASE u # t /\ Running(u)
        BY <2>1, <3>2, <4>2 DEF ShapeInv, Running
      <4>3. CASE u # t /\ ~Running(u)
        BY <2>1, <4>3 DEF ShapeInv
      <4>4. QED
        BY <4>1, <4>2, <4>3
    <3>4. QED
      BY <3>3
  <2>4. job' = [u \in Threads |-> job'[u]]
    BY <2>1
  <2>5. QED
    BY <2>2, <2>3, <2>4 DEF ShapeInv, CallRule
<1>2. CASE Gate(t)
  <2>1. PICK a \in setup.agents : CallThem(t, {a}, Summarise, {})
    BY <1>2 DEF Gate
  <2>2. UNCHANGED setup /\ Goto(t, "gated") /\ job[t].at = "parsed"
    BY <1>2 DEF Gate, AtStep
  <2> DEFINE j == [job[t] EXCEPT !.at = "gated"]
  <2>3. IsJob(j) /\ j.at = "gated" /\ j.session = job[t].session /\ job' = [job EXCEPT ![t] = j]
    BY <1>0, <2>2 DEF IsJob, JobFields, Goto
  <2> HIDE DEF j
  <2>4. /\ job' = [u \in Threads |-> job'[u]]
        /\ \A u \in Threads : job'[u] = (IF u = t THEN j ELSE job[u]) /\ IsJob(job'[u])
    BY <2>3, OneJob
  <2>5. /\ call' = [u \in Threads |-> [b \in Agents |-> call'[u][b]]]
        /\ \A u \in Threads, b \in Agents : u # t => call'[u][b] = call[u][b]
        /\ \A b \in Agents : IsCall(call'[t][b])
        /\ CallRule
    BY <2>1, CallsAreMade
  <2>6. QED
    BY <2>2, <2>3, <2>4, <2>5 DEF ShapeInv
<1>3. CASE Gated(t)
  <2>1. PICK a \in Agents :
          job' = [job EXCEPT ![t].at = "admit", ![t].prompt = call[t][a].text]
    BY <1>3 DEF Gated
  <2>2. UNCHANGED setup /\ CallThem(t, {}, Summarise, {}) /\ Joined(t) /\ job[t].at = "gated"
    BY <1>3 DEF Gated, AtStep
  <2> DEFINE j == [job[t] EXCEPT !.at = "admit", !.prompt = call[t][a].text]
  <2>3. IsJob(j) /\ j.session = job[t].session /\ job' = [job EXCEPT ![t] = j]
    BY <1>0, <2>1 DEF IsJob, JobFields
  <2> HIDE DEF j
  <2>4. /\ job' = [u \in Threads |-> job'[u]]
        /\ \A u \in Threads : job'[u] = (IF u = t THEN j ELSE job[u]) /\ IsJob(job'[u])
    BY <2>3, OneJob
  <2>5. /\ call' = [u \in Threads |-> [b \in Agents |-> call'[u][b]]]
        /\ \A u \in Threads, b \in Agents : u # t => call'[u][b] = call[u][b]
        /\ \A b \in Agents :
             /\ IsCall(call'[t][b])
             /\ call'[t][b] = IF b \in {} THEN NewCall(t, b, Summarise, {})
                               ELSE IF call[t][b].pc = "done" THEN NoCall ELSE call[t][b]
        /\ CallRule
    BY <2>2, CallsAreMade
  <2>6. \A b \in Agents : call'[t][b].pc = "off"
    BY <2>2, <2>5 DEF Joined, NoCall
  <2>7. QED
    BY <2>2, <2>3, <2>4, <2>5, <2>6 DEF ShapeInv
<1>4. CASE Reject(t) \/ Leave(t) \/ LeaveMlx(t)
  BY <1>4, JobIsDropped DEF Reject, Leave, LeaveMlx
<1>5. CASE Enter(t)
  BY <1>5, EnterMoves, JobGoes
<1>6. CASE Sweep(t) \/ Seed(t)
  <2>1. PICK l \in {"seed", "run"} : Goto(t, l)
    BY <1>6 DEF Sweep, Seed
  <2>2. UNCHANGED <<call, setup>> /\ job[t].at \in {"sweep", "seed"}
    BY <1>6 DEF Sweep, Seed, AtStep
  <2> DEFINE j == [job[t] EXCEPT !.at = l]
  <2>3. IsJob(j) /\ j.session = job[t].session /\ job' = [job EXCEPT ![t] = j]
    BY <1>0, <2>1 DEF IsJob, JobFields, Goto
  <2> HIDE DEF j
  <2>4. QED
    BY <2>2, <2>3, JobGoes
<1>7. CASE Launch(t)
  <2>1. PICK S, p, quoted : CallThem(t, S, p, quoted)
    BY <1>7 DEF Launch
  <2>2. UNCHANGED setup /\ job[t].at = "run" /\ job' = [job EXCEPT ![t].phase = @ + 1]
    BY <1>7 DEF Launch, AtStep
  <2> DEFINE j == [job[t] EXCEPT !.phase = @ + 1]
  <2>3. IsJob(j) /\ j.at = "run" /\ j.session = job[t].session /\ job' = [job EXCEPT ![t] = j]
    BY <1>0, <2>2 DEF IsJob, JobFields
  <2> HIDE DEF j
  <2>4. /\ job' = [u \in Threads |-> job'[u]]
        /\ \A u \in Threads : job'[u] = (IF u = t THEN j ELSE job[u]) /\ IsJob(job'[u])
    BY <2>3, OneJob
  <2>5. /\ call' = [u \in Threads |-> [b \in Agents |-> call'[u][b]]]
        /\ \A u \in Threads, b \in Agents : u # t => call'[u][b] = call[u][b]
        /\ \A b \in Agents : IsCall(call'[t][b])
        /\ CallRule
    BY <2>1, CallsAreMade
  <2>6. \A u \in Threads :
          IsJob(job'[u]) /\ (job'[u].at # "idle" => job'[u].session \in Sessions)
    BY <2>2, <2>3, <2>4 DEF ShapeInv
  <2>7. \A u \in Threads, b \in Agents :
          /\ IsCall(call'[u][b])
          /\ call'[u][b].pc # "off" => job'[u].at \in {"gated", "run"}
    BY <2>2, <2>3, <2>4, <2>5 DEF ShapeInv
  <2>8. QED
    BY <2>2, <2>4, <2>5, <2>6, <2>7 DEF ShapeInv
<1>8. QED
  BY <1>1, <1>2, <1>3, <1>4, <1>5, <1>6, <1>7 DEF HandlerStep

LEMMA ShapeStarts == Init => ShapeInv
<1> SUFFICES ASSUME Init PROVE ShapeInv
  OBVIOUS
<1>1. IsJob(NoJob) /\ NoJob.at = "idle" /\ IsCall(NoCall) /\ NoCall.pc = "off"
  BY DEF NoJob, NoCall, IsJob, IsCall, JobFields, CallFields
<1>2. /\ job = [t \in Threads |-> NoJob] /\ setup \in Setups
      /\ call = [t \in Threads |-> [a \in Agents |-> NoCall]]
  BY DEF Init
<1>3. QED
  BY <1>1, <1>2 DEF ShapeInv

LEMMA AdminChangesNoCall == AdminStep => UNCHANGED <<setup, up, arrivals, job, call, spent>>
BY DEF AdminStep, EditPrompt, ClearAfterEdit, CacheRequest, ResetBudget, WipeSessions,
       SessionGoesIdle, unasked

LEMMA ShapeStep == ShapeInv /\ [Next]_vars => ShapeInv' /\ CallRule
<1> SUFFICES ASSUME ShapeInv, [Next]_vars PROVE ShapeInv' /\ CallRule
  OBVIOUS
<1>1. CASE \E t \in Threads : HandlerStep(t)
  BY <1>1, JobMoves
<1>2. CASE \E t \in Threads, a \in Agents : CallStep(t, a)
  BY <1>2, CallMoves
<1>3. CASE UNCHANGED <<setup, job, call>>
  BY <1>3 DEF ShapeInv, CallRule
<1>4. QED
  BY <1>1, <1>2, <1>3, AdminChangesNoCall DEF Next, vars, handlers

\* Every reachable state has that shape; the invariants below build on it.
LEMMA ShapeAlways == Spec => []ShapeInv
<1>1. ShapeInv /\ [Next]_vars => ShapeInv'
  BY ShapeStep
<1>2. QED
  BY <1>1, ShapeStarts, PTL DEF Spec

-----------------------------------------------------------------------------
(* The response cache                                                         *)

LEMMA HandlersLeaveTheCache ==
    ASSUME NEW t \in Threads, HandlerStep(t) PROVE UNCHANGED cache
BY DEF HandlerStep, Arrive, Gate, Gated, Reject, Enter, Sweep, Seed, Launch, Leave, LeaveMlx

\* The calls and the administration use the cache through its operations only.
LEMMA NextStepsTheCache ==
    ASSUME Next
    PROVE  \/ UNCHANGED cache
           \/ \E k : LookupHit(k) \/ LookupMiss(k)
           \/ \E t \in Threads, a \in Agents :
                call[t][a].pc = "store" /\ Store(call[t][a].ask, call[t][a].text)
           \/ ClearCache
           \/ \E on \in BOOLEAN : SetEnabled(on)
           \/ \E ttl \in Ttls \cup {0}, size \in CacheSizes \cup {0} : Configure(ttl, size)
           \/ Age
<1>1. CASE \E t \in Threads : HandlerStep(t)
  BY <1>1, HandlersLeaveTheCache
<1>2. CASE \E t \in Threads, a \in Agents : CallStep(t, a)
  <2>1. PICK t \in Threads, a \in Agents : CallStep(t, a)
    BY <1>2
  <2>2. CASE Lookup(t, a)
    BY <2>2 DEF Lookup
  <2>3. CASE StoreAnswer(t, a)
    BY <2>3 DEF StoreAnswer, CallAt, Key
  <2>4. CASE ~Lookup(t, a) /\ ~StoreAnswer(t, a)
    <3>1. UNCHANGED cache
      BY <2>1, <2>4 DEF CallStep, Route, Resolve, Note, Record, Hear, Answered, Unanswered,
         OtherAnswered, OtherUnanswered, RecordTurn
    <3>2. QED
      BY <3>1
  <2>5. QED
    BY <2>2, <2>3, <2>4
<1>3. CASE AdminStep
  <2>1. CASE ClearAfterEdit
    BY <2>1 DEF ClearAfterEdit
  <2>2. CASE CacheRequest
    BY <2>2 DEF CacheRequest
  <2>3. CASE ~ClearAfterEdit /\ ~CacheRequest
    BY <1>3, <2>3 DEF AdminStep, EditPrompt, ResetBudget, SessionGoesIdle, WipeSessions
  <2>4. QED
    BY <2>1, <2>2, <2>3
<1>4. QED
  BY <1>1, <1>2, <1>3 DEF Next

LEMMA NextIsCacheStep == Next => CacheStep \/ UNCHANGED cache
<1> SUFFICES ASSUME Next PROVE CacheStep \/ UNCHANGED cache
  OBVIOUS
<1>1. QED
  BY NextStepsTheCache, Zenon DEF CacheStep

LEMMA CacheStartsWell == Init => CacheInv /\ Promised!Init
<1> SUFFICES ASSUME Init PROVE CacheInv /\ Promised!Init
  OBVIOUS
<1>1. setup \in TypeOfSetup /\ InitCache(setup.cached, setup.ttl, setup.size)
  BY RequestsAssumption DEF Init, RequestsAssumption
<1>2. setup.cached \in BOOLEAN /\ setup.ttl \in Ttls /\ setup.size \in CacheSizes
  BY <1>1 DEF TypeOfSetup
<1>3. QED
  BY <1>1, <1>2, CacheStarts

LEMMA CacheStepInv ==
    CacheInv /\ [Next]_vars => CacheInv' /\ (Promised!Next \/ UNCHANGED Seen)
<1> SUFFICES ASSUME CacheInv, [Next]_vars
             PROVE  CacheInv' /\ (Promised!Next \/ UNCHANGED Seen)
  OBVIOUS
<1>1. CASE CacheStep
  BY <1>1, CacheStepKeeps
<1>2. CASE UNCHANGED cache
  BY <1>2, CacheStutters
<1>3. QED
  BY <1>1, <1>2, NextIsCacheStep DEF vars

\* The list and the map of the cache agree, and hold no more than configured.
THEOREM CacheStaysWhole == Spec => []CacheShape
<1>1. CacheInv /\ [Next]_vars => CacheInv'
  BY CacheStepInv
<1>2. QED
  BY <1>1, CacheStartsWell, ShapeFollows, PTL DEF Spec

\* The cache with its list implements the bounded cache without one.
THEOREM CacheIsBounded == Spec => ImplementsBoundedCache
<1>1. CacheInv /\ [Next]_vars => CacheInv'
  BY CacheStepInv
<1>2. CacheInv /\ [Next]_vars =>
        [Promised!Next]_<<[k \in DOMAIN map |-> map[k].response], max_entries>>
  BY CacheStepInv DEF Seen, Held
<1>3. QED
  BY <1>1, <1>2, CacheStartsWell, PTL DEF Spec, ImplementsBoundedCache, Promised!Spec

-----------------------------------------------------------------------------
(* Answers                                                                    *)

AnswerInv ==
    /\ \A k \in DOMAIN map : map[k].response = Said(k)
    /\ \A t \in Threads, a \in Agents :
         call[t][a].pc = "store" => call[t][a].text = Said(call[t][a].ask)
    /\ AnswerIsForThePrompt

LEMMA AnswerStarts == Init => AnswerInv
BY DEF Init, InitCache, AnswerInv, AnswerIsForThePrompt, NoCall

LEMMA AnswerStep == ShapeInv /\ CacheInv /\ AnswerInv /\ [Next]_vars => AnswerInv'
<1> SUFFICES ASSUME ShapeInv, CacheInv, AnswerInv, [Next]_vars PROVE AnswerInv'
  OBVIOUS
<1>1. \A k \in DOMAIN map' : map'[k].response = Said(k)
  <2>1. CASE UNCHANGED cache
    BY <2>1 DEF cache, AnswerInv
  <2>2. CASE \E t \in Threads, a \in Agents :
               call[t][a].pc = "store" /\ Store(call[t][a].ask, call[t][a].text)
    <3>1. PICK t \in Threads, a \in Agents :
            call[t][a].pc = "store" /\ Store(call[t][a].ask, call[t][a].text)
      BY <2>2
    <3>2. call[t][a].text = Said(call[t][a].ask)
      BY <3>1 DEF AnswerInv
    <3>3. \A x \in DOMAIN map' :
            \/ x = call[t][a].ask /\ map'[x].response = call[t][a].text
            \/ x \in DOMAIN map /\ map'[x].response = map[x].response
      BY <3>1, StoredOnly
    <3>4. QED
      BY <3>2, <3>3 DEF AnswerInv
  <2>3. CASE \/ \E k : LookupHit(k) \/ LookupMiss(k)
             \/ ClearCache
             \/ \E on \in BOOLEAN : SetEnabled(on)
             \/ \E ttl \in Ttls \cup {0}, size \in CacheSizes \cup {0} : Configure(ttl, size)
             \/ Age
    <3>1. \A x \in DOMAIN map' : x \in DOMAIN map /\ map'[x].response = map[x].response
      BY <2>3, NothingNew
    <3>2. QED
      BY <3>1 DEF AnswerInv
  <2>4. QED
    BY <2>1, <2>2, <2>3, NextStepsTheCache DEF vars
<1>2. CallRule
  BY ShapeStep
<1>3. ASSUME NEW t \in Threads, NEW a \in Agents
      PROVE  /\ call'[t][a].pc = "store" => call'[t][a].text = Said(call'[t][a].ask)
             /\ call'[t][a].pc \in {"store", "turn", "done"} =>
                  call'[t][a].text \in {Said(call'[t][a].ask), Failed}
  <2>1. CASE call'[t][a] = call[t][a]
    BY <2>1 DEF AnswerInv, AnswerIsForThePrompt
  <2>2. CASE call'[t][a].pc \in {"off", "start"}
    BY <2>2
  <2>3. CASE Replied(t, a)
    BY <2>3 DEF AnswerInv, AnswerIsForThePrompt, Replied
  <2>4. QED
    BY <1>2, <2>1, <2>2, <2>3 DEF CallRule
<1>4. QED
  BY <1>1, <1>3 DEF AnswerInv, AnswerIsForThePrompt

\* Whatever edits, clears and calls under way do to the cache, an answer is that
\* to the prompt asked, under the system prompt the request has.
THEOREM AnswersFit == Spec => []AnswerIsForThePrompt
<1>1. ShapeInv /\ CacheInv /\ AnswerInv /\ [Next]_vars => (ShapeInv /\ CacheInv /\ AnswerInv)'
  BY AnswerStep, CacheStepInv, ShapeStep
<1>2. Init => ShapeInv /\ CacheInv /\ AnswerInv
  BY AnswerStarts, CacheStartsWell, ShapeStarts
<1>3. ShapeInv /\ CacheInv /\ AnswerInv => AnswerIsForThePrompt
  BY DEF AnswerInv
<1>4. QED
  BY <1>1, <1>2, <1>3, PTL DEF Spec

-----------------------------------------------------------------------------
(* The ledger                                                                 *)

\* Which session a thread is working for.
LedgerInv ==
    /\ ledger \in [Sessions -> [budget : Nat, consumed : Nat]]
    /\ spent \in [Sessions -> Nat]
    /\ tl \in [Threads -> Sessions \cup {NoSession}]
    /\ \A t \in Threads :
         /\ tl[t] # NoSession => tl[t] = job[t].session
         /\ job[t].at = "idle" \/ job[t].route \in MlxRoutes => tl[t] = NoSession
         /\ job[t].at \in {"parsed", "gated", "admit"} =>
              /\ job[t].route \notin MlxRoutes
              /\ job[t].route # "architect" => tl[t] = NoSession
    /\ LedgerNotOver

LEMMA LedgerStarts == Init => LedgerInv
BY RequestBaseAssumption
DEF Init, InitDispatchState, LedgerInv, LedgerNotOver, NoJob, MlxRoutes, RequestBaseAssumption

\* A budget that is set leaves what was consumed as it is.
LEMMA BudgetKeepsConsumed ==
    ASSUME LedgerInv, NEW s, SetBudget(s, setup.budget), ShapeInv
    PROVE  /\ ledger' \in [Sessions -> [budget : Nat, consumed : Nat]]
           /\ \A x \in Sessions : ledger'[x].consumed = ledger[x].consumed
<1>1. setup.budget \in Nat
  BY RequestsAssumption DEF ShapeInv, RequestsAssumption, TypeOfSetup
<1>2. QED
  BY <1>1 DEF SetBudget, LedgerInv

\* The rules about the threads, for a step that leaves the books alone.
LEMMA BooksUntouched ==
    ASSUME LedgerInv, UNCHANGED spent,
           ledger' \in [Sessions -> [budget : Nat, consumed : Nat]],
           \A x \in Sessions : ledger'[x].consumed = ledger[x].consumed,
           tl' \in [Threads -> Sessions \cup {NoSession}],
           \A t \in Threads :
             /\ tl'[t] # NoSession => tl'[t] = job'[t].session
             /\ job'[t].at = "idle" \/ job'[t].route \in MlxRoutes => tl'[t] = NoSession
             /\ job'[t].at \in {"parsed", "gated", "admit"} =>
                  /\ job'[t].route \notin MlxRoutes
                  /\ job'[t].route # "architect" => tl'[t] = NoSession
    PROVE  LedgerInv'
BY DEF LedgerInv, LedgerNotOver

LEMMA LedgerHandlers ==
    ASSUME ShapeInv, LedgerInv, NEW t \in Threads, HandlerStep(t)
    PROVE  LedgerInv'
<1> USE DEF LedgerInv
<1>0. /\ tl \in [Threads -> Sessions \cup {NoSession}]
      /\ ledger \in [Sessions -> [budget : Nat, consumed : Nat]]
      /\ t \in DOMAIN job /\ IsJob(job[t])
  BY DEF ShapeInv
<1>1. CASE Arrive(t)
  <2>1. PICK route \in setup.routes, mode \in setup.modes,
             s \in setup.sessions, user \in setup.users :
          /\ job' = [x \in Threads |-> IF x = t THEN NewJob(t, route, mode, s, user)
                                      ELSE IF Running(x) THEN Accompanied(x) ELSE job[x]]
          /\ IF route = "architect" THEN SetSession(t, s) ELSE UNCHANGED tl
    BY <1>1 DEF Arrive
  <2>2. UNCHANGED <<ledger, spent>> /\ job[t].at = "idle" /\ s \in Sessions
    BY <1>1, RequestsAssumption DEF Arrive, AtStep, ShapeInv, RequestsAssumption, TypeOfSetup
  <2> DEFINE j == NewJob(t, route, mode, s, user)
  <2>3. /\ j.route = route /\ j.session = s
        /\ j.at = IF route \in MlxRoutes THEN "sweep" ELSE "parsed"
    BY NewJobShape
  <2>4. \A u \in Threads : /\ Accompanied(u).at = job[u].at
                           /\ Accompanied(u).route = job[u].route
                           /\ Accompanied(u).session = job[u].session
    BY DEF ShapeInv, IsJob, JobFields, Accompanied
  <2> HIDE DEF j
  <2>5. job'[t] = j /\ \A u \in Threads : u # t =>
          job'[u].at = job[u].at /\ job'[u].route = job[u].route
            /\ job'[u].session = job[u].session
    BY <2>1, <2>4 DEF j
  <2>6. /\ tl' \in [Threads -> Sessions \cup {NoSession}]
        /\ tl'[t] = (IF route = "architect" THEN s ELSE NoSession)
        /\ \A u \in Threads : u # t => tl'[u] = tl[u]
    BY <1>0, <2>1, <2>2 DEF SetSession
  <2>7. \A u \in Threads :
             /\ tl'[u] # NoSession => tl'[u] = job'[u].session
             /\ job'[u].at = "idle" \/ job'[u].route \in MlxRoutes => tl'[u] = NoSession
             /\ job'[u].at \in {"parsed", "gated", "admit"} =>
                  /\ job'[u].route \notin MlxRoutes
                  /\ job'[u].route # "architect" => tl'[u] = NoSession
    BY <2>3, <2>5, <2>6 DEF MlxRoutes
  <2>8. QED
    BY <1>0, <2>2, <2>6, <2>7, BooksUntouched
<1>2. CASE Gate(t) \/ Gated(t) \/ Sweep(t) \/ Seed(t) \/ Launch(t)
  <2>1. UNCHANGED <<tl, ledger, spent>>
    BY <1>2 DEF Gate, Gated, Sweep, Seed, Launch, dispatchState
  <2>2. \A u \in Threads :
          /\ job'[u].route = job[u].route /\ job'[u].session = job[u].session
          /\ job'[u].at # "idle" \/ job'[u].at = job[u].at
          /\ job'[u].at \in {"parsed", "gated", "admit"} =>
               job[u].at \in {"parsed", "gated", "admit"}
    <3>1. CASE \E l \in {"gated", "seed", "run"} :
                 Goto(t, l) /\ (l = "gated" => job[t].at = "parsed")
      BY <1>0, <3>1 DEF Goto, ShapeInv, IsJob, JobFields
    <3>2. CASE Gated(t)
      BY <1>0, <3>2 DEF Gated, AtStep, ShapeInv, IsJob, JobFields
    <3>3. CASE Launch(t)
      BY <1>0, <3>3 DEF Launch, AtStep, ShapeInv, IsJob, JobFields
    <3>4. QED
      BY <1>2, <3>1, <3>2, <3>3 DEF Gate, Sweep, Seed, AtStep
  <2>3. \A u \in Threads :
             /\ tl'[u] # NoSession => tl'[u] = job'[u].session
             /\ job'[u].at = "idle" \/ job'[u].route \in MlxRoutes => tl'[u] = NoSession
             /\ job'[u].at \in {"parsed", "gated", "admit"} =>
                  /\ job'[u].route \notin MlxRoutes
                  /\ job'[u].route # "architect" => tl'[u] = NoSession
    BY <2>1, <2>2
  <2>4. QED
    BY <1>0, <2>1, <2>3, BooksUntouched
<1>3. CASE Reject(t) \/ Leave(t) \/ LeaveMlx(t)
  <2>1. Dropped(t) /\ UNCHANGED <<setup, spent>>
    BY <1>3 DEF Reject, Leave, LeaveMlx
  <2>2. /\ ledger' \in [Sessions -> [budget : Nat, consumed : Nat]]
        /\ \A x \in Sessions : ledger'[x].consumed = ledger[x].consumed
    <3>1. CASE Reject(t)
      BY <3>1, BudgetKeepsConsumed DEF Reject
    <3>2. CASE Leave(t) \/ LeaveMlx(t)
      BY <1>0, <3>2 DEF Leave, LeaveMlx, dispatchState
    <3>3. QED
      BY <1>3, <3>1, <3>2
  <2>3. job'[t] = NoJob /\ \A u \in Threads : u # t => job'[u] = job[u]
    BY <2>1, JobIsDropped
  <2>4. NoJob.at = "idle" /\ NoJob.route = "architect"
    BY DEF NoJob
  <2>5. /\ tl' \in [Threads -> Sessions \cup {NoSession}]
        /\ tl'[t] = NoSession /\ \A u \in Threads : u # t => tl'[u] = tl[u]
    <3>1. CASE ClearSession(t)
      BY <1>0, <3>1 DEF ClearSession
    <3>2. CASE UNCHANGED tl /\ tl[t] = NoSession
      BY <1>0, <3>2
    <3>3. QED
      BY <1>3, <3>1, <3>2 DEF Reject, Leave, LeaveMlx, Admission, dispatchState, AtStep
  <2>6. \A u \in Threads :
             /\ tl'[u] # NoSession => tl'[u] = job'[u].session
             /\ job'[u].at = "idle" \/ job'[u].route \in MlxRoutes => tl'[u] = NoSession
             /\ job'[u].at \in {"parsed", "gated", "admit"} =>
                  /\ job'[u].route \notin MlxRoutes
                  /\ job'[u].route # "architect" => tl'[u] = NoSession
    BY <2>3, <2>4, <2>5
  <2>7. QED
    BY <2>1, <2>2, <2>5, <2>6, BooksUntouched
<1>4. CASE Enter(t)
  <2>1. /\ ledger' \in [Sessions -> [budget : Nat, consumed : Nat]]
        /\ \A x \in Sessions : ledger'[x].consumed = ledger[x].consumed
    BY <1>4, BudgetKeepsConsumed DEF Enter
  <2>2. /\ UNCHANGED spent /\ job[t].at \in {"parsed", "admit"}
        /\ job[t].route \notin MlxRoutes /\ job[t].session \in Sessions
    BY <1>4 DEF Enter, Admission, ShapeInv
  <2>3. \A u \in Threads :
          /\ job'[u].route = job[u].route /\ job'[u].session = job[u].session
          /\ u # t => job'[u] = job[u]
          /\ u = t => job'[u].at \in {"sweep", "run"}
    BY <1>4, EnterMoves
  <2>4. UNCHANGED tl \/ SetSession(t, job[t].session)
    BY <1>4 DEF Enter
  <2>5. QED
    BY <1>0, <2>1, <2>2, <2>3, <2>4, BooksUntouched DEF SetSession
<1>5. QED
  BY <1>1, <1>2, <1>3, <1>4 DEF HandlerStep

LEMMA LedgerCalls ==
    ASSUME ShapeInv, LedgerInv, NEW t \in Threads, NEW a \in Agents, CallStep(t, a)
    PROVE  LedgerInv'
<1>1. CASE Answered(t, a) \/ OtherAnswered(t, a)
  <2>1. /\ UNCHANGED <<tl, job>> /\ Charged(t, a)
        /\ call[t][a].pc \in {"serve", "other"}
    BY <1>1 DEF Answered, OtherAnswered, CallAt
  <2> DEFINE s == job[t].session
             payer == IF call[t][a].worker THEN NoSession ELSE tl[t]
  <2>2. s \in Sessions
    BY <2>1 DEF ShapeInv
  <2>3. payer \in {s, NoSession} /\ NoSession \notin Sessions
    BY RequestBaseAssumption DEF LedgerInv, RequestBaseAssumption
  <2>4. Charge(payer) /\ spent' = [spent EXCEPT ![s] = @ + 1]
    BY <2>1 DEF Charged
  <2> HIDE DEF s, payer
  <2>5. /\ spent' \in [Sessions -> Nat]
        /\ \A x \in Sessions : spent'[x] = IF x = s THEN spent[x] + 1 ELSE spent[x]
    BY <2>2, <2>4 DEF LedgerInv
  <2>6. CASE payer = NoSession
    <3>1. ledger' = ledger
      BY <2>4, <2>6 DEF Charge
    <3>2. \A x \in Sessions : ledger'[x].consumed <= spent'[x]
      BY <2>5, <3>1 DEF LedgerInv, LedgerNotOver
    <3>3. QED
      BY <2>1, <2>5, <3>1, <3>2 DEF LedgerInv, LedgerNotOver
  <2>7. CASE payer = s
    <3>1. /\ ledger' \in [Sessions -> [budget : Nat, consumed : Nat]]
          /\ \A x \in Sessions : ledger'[x].consumed =
               IF x = s THEN ledger[x].consumed + 1 ELSE ledger[x].consumed
      BY <2>2, <2>3, <2>4, <2>7 DEF Charge, LedgerInv
    <3>2. \A x \in Sessions : ledger'[x].consumed <= spent'[x]
      BY <2>5, <3>1 DEF LedgerInv, LedgerNotOver
    <3>3. QED
      BY <2>1, <2>5, <3>1, <3>2 DEF LedgerInv, LedgerNotOver
  <2>8. QED
    BY <2>3, <2>6, <2>7
<1>2. CASE ~Answered(t, a) /\ ~OtherAnswered(t, a)
  <2>1. UNCHANGED <<ledger, tl, job, spent>>
    BY <1>2 DEF CallStep, Lookup, Route, Resolve, Note, Record, Hear, Unanswered,
       OtherUnanswered, StoreAnswer, RecordTurn, unseen, dispatchState
  <2>2. QED
    BY <2>1 DEF LedgerInv, LedgerNotOver
<1>3. QED
  BY <1>1, <1>2

LEMMA LedgerAdmin == ASSUME LedgerInv, AdminStep PROVE LedgerInv'
<1>1. UNCHANGED <<tl, job, spent>>
  BY DEF AdminStep, EditPrompt, ClearAfterEdit, CacheRequest, ResetBudget, WipeSessions,
     SessionGoesIdle, unasked, dispatchState
<1>2. CASE \E s \in setup.sessions : ResetBudget(s)
  <2>1. PICK s : ledger' = [ledger EXCEPT ![s] = [budget |-> 0, consumed |-> 0]]
    BY <1>2 DEF ResetBudget, ResetLedger
  <2> DEFINE zero == [budget |-> 0, consumed |-> 0]
  <2>2. zero \in [budget : Nat, consumed : Nat] /\ zero.consumed = 0
    OBVIOUS
  <2>3. ledger' = [ledger EXCEPT ![s] = zero]
    BY <2>1
  <2> HIDE DEF zero
  <2>4. ledger' \in [Sessions -> [budget : Nat, consumed : Nat]]
    BY <2>2, <2>3 DEF LedgerInv
  <2>5. ASSUME NEW x \in Sessions PROVE ledger'[x].consumed <= spent[x]
    <3>1. ledger'[x] \in {zero, ledger[x]}
      BY <2>3 DEF LedgerInv
    <3>2. ledger[x].consumed <= spent[x] /\ spent[x] \in Nat
      BY DEF LedgerInv, LedgerNotOver
    <3>3. QED
      BY <2>2, <3>1, <3>2
  <2>6. QED
    BY <1>1, <2>4, <2>5 DEF LedgerInv, LedgerNotOver
<1>3. CASE ledger' = ledger
  BY <1>1, <1>3 DEF LedgerInv, LedgerNotOver
<1>4. QED
  BY <1>2, <1>3 DEF AdminStep, EditPrompt, ClearAfterEdit, CacheRequest, WipeSessions,
     SessionGoesIdle, dispatchState

LEMMA LedgerStep == ShapeInv /\ LedgerInv /\ [Next]_vars => LedgerInv'
<1> SUFFICES ASSUME ShapeInv, LedgerInv, [Next]_vars PROVE LedgerInv'
  OBVIOUS
<1>1. CASE UNCHANGED vars
  BY <1>1 DEF vars, handlers, dispatchState, LedgerInv, LedgerNotOver
<1>2. QED
  BY <1>1, LedgerHandlers, LedgerCalls, LedgerAdmin DEF Next

\* A session never pays for the calls of another one.
THEOREM NobodyOverpays == Spec => []LedgerNotOver
<1>1. ShapeInv /\ LedgerInv /\ [Next]_vars => (ShapeInv /\ LedgerInv)'
  BY LedgerStep, ShapeStep
<1>2. Init => ShapeInv /\ LedgerInv
  BY LedgerStarts, ShapeStarts
<1>3. ShapeInv /\ LedgerInv => LedgerNotOver
  BY DEF LedgerInv
<1>4. QED
  BY <1>1, <1>2, <1>3, PTL DEF Spec

-----------------------------------------------------------------------------
(* The dispatch context                                                       *)

\* A dispatch of one of the routes that set the context, after it has.
Dispatching(t) == job[t].at \in {"sweep", "seed", "run"} /\ job[t].route \notin MlxRoutes

ContextInv ==
    /\ ctx.set => \E t \in Threads :
                    Dispatching(t) /\ job[t].id = ctx.by /\ job[t].mode = ctx.mode
    /\ \A d \in decisions :
         \/ d.from \in MlxRoutes \cup {"gate"}
         \/ \E t \in Threads : Dispatching(t) /\ job[t].id = d.by

LEMMA ContextFollows == ContextInv => ContextIsLive
BY DEF ContextInv, ContextIsLive, Dispatching, Running

LEMMA ContextStarts == Init => ContextInv
BY DEF Init, InitDispatchState, NoContext, ContextInv

\* A dispatch stays one until it leaves.
LEMMA StillDispatching ==
    ASSUME ShapeInv, NEW t \in Threads, HandlerStep(t), ~Leave(t),
           NEW u \in Threads, Dispatching(u)
    PROVE  Dispatching(u)' /\ job'[u].id = job[u].id /\ job'[u].mode = job[u].mode
<1>0. t \in DOMAIN job /\ IsJob(job[t]) /\ IsJob(job[u])
  BY DEF ShapeInv
<1>1. CASE Arrive(t)
  <2>1. job[t].at = "idle" /\ u # t
    BY <1>1 DEF Arrive, AtStep, Dispatching
  <2>2. PICK j : job' = [x \in Threads |-> IF x = t THEN j
                                ELSE IF Running(x) THEN Accompanied(x) ELSE job[x]]
    BY <1>1 DEF Arrive
  <2>3. job'[u] \in {Accompanied(u), job[u]}
    BY <2>1, <2>2
  <2>4. QED
    BY <1>0, <2>3 DEF Dispatching, Accompanied, IsJob, JobFields
<1>2. CASE Gate(t) \/ Gated(t) \/ Enter(t)
  <2>1. u # t
    BY <1>2 DEF Gate, Gated, Enter, Admission, AtStep, Dispatching
  <2>2. job'[u] = job[u]
    BY <1>2, <2>1, EnterMoves DEF Gate, Gated, Goto, ShapeInv
  <2>3. QED
    BY <2>2 DEF Dispatching
<1>3. CASE Reject(t) \/ LeaveMlx(t)
  <2>1. u # t
    BY <1>3 DEF Reject, LeaveMlx, Admission, AtStep, Dispatching
  <2>2. job'[u] = job[u]
    BY <1>3, <2>1, JobIsDropped DEF Reject, LeaveMlx
  <2>3. QED
    BY <2>2 DEF Dispatching
<1>4. CASE Sweep(t) \/ Seed(t)
  <2>1. PICK l \in {"seed", "run"} : job' = [job EXCEPT ![t].at = l]
    BY <1>4 DEF Sweep, Seed, Goto
  <2>2. QED
    BY <1>0, <2>1 DEF Dispatching, ShapeInv, IsJob, JobFields
<1>5. CASE Launch(t)
  <2>1. job' = [job EXCEPT ![t].phase = @ + 1]
    BY <1>5 DEF Launch
  <2>2. QED
    BY <1>0, <2>1 DEF Dispatching, ShapeInv, IsJob, JobFields
<1>6. QED
  BY <1>1, <1>2, <1>3, <1>4, <1>5 DEF HandlerStep

LEMMA ContextStep == ShapeInv /\ LedgerInv /\ ContextInv /\ [Next]_vars => ContextInv'
<1> SUFFICES ASSUME ShapeInv, LedgerInv, ContextInv, [Next]_vars PROVE ContextInv'
  OBVIOUS
<1>1. ASSUME NEW t \in Threads, HandlerStep(t) PROVE ContextInv'
  <2>1. CASE Leave(t)
    BY <2>1 DEF Leave, ClearContext, NoContext, ContextInv
  <2>2. CASE Enter(t)
    <3>1. /\ ctx' = [set |-> TRUE, mode |-> job[t].mode, by |-> job[t].id]
          /\ UNCHANGED decisions /\ job[t].at \in {"parsed", "admit"}
      BY <2>2 DEF Enter, SetContext, Admission
    <3>2. \E l \in {"sweep", "run"} :
            /\ job'[t].at = l /\ job'[t].id = job[t].id /\ job'[t].mode = job[t].mode
            /\ job'[t].route = job[t].route
      BY <2>2, EnterMoves
    <3>3. job[t].route \notin MlxRoutes
      BY <3>1 DEF LedgerInv
    <3>4. ~Leave(t)
      BY <3>1 DEF Leave, AtStep
    <3>5. \A d \in decisions' :
            \/ d.from \in MlxRoutes \cup {"gate"}
            \/ \E u \in Threads : Dispatching(u)' /\ job'[u].id = d.by
      BY <1>1, <3>1, <3>4, StillDispatching DEF ContextInv
    <3>6. QED
      BY <3>1, <3>2, <3>3, <3>5 DEF ContextInv, Dispatching
  <2>3. CASE ~Leave(t) /\ ~Enter(t)
    <3>1. UNCHANGED <<ctx, decisions>>
      BY <1>1, <2>3 DEF HandlerStep, Arrive, Gate, Gated, Reject, Sweep, Seed, Launch, LeaveMlx,
         dispatchState
    <3>2. QED
      BY <1>1, <2>3, <3>1, StillDispatching DEF ContextInv
  <2>4. QED
    BY <2>1, <2>2, <2>3
<1>2. ASSUME NEW t \in Threads, NEW a \in Agents, CallStep(t, a) PROVE ContextInv'
  <2>1. UNCHANGED <<ctx, job>>
    BY <1>2 DEF CallStep, Lookup, Route, Resolve, Note, Record, Hear, Answered, Unanswered,
       OtherAnswered, OtherUnanswered, StoreAnswer, RecordTurn, unseen, dispatchState
  <2>2. CASE UNCHANGED decisions
    BY <2>1, <2>2 DEF ContextInv, Dispatching
  <2>3. CASE RecordDecision(a, job[t].id, Origin(t)) /\ call[t][a].pc \in {"record", "other"}
    <3>1. job[t].at \in {"gated", "run"}
      BY <2>3 DEF ShapeInv
    <3>2. \/ Origin(t) \in MlxRoutes \cup {"gate"}
          \/ Dispatching(t)
      BY <3>1 DEF Origin, Dispatching
    <3>3. \A d \in decisions' :
            \/ d \in decisions
            \/ d.from = Origin(t) /\ d.by = job[t].id
      <4> DEFINE new == [agent |-> a, by |-> job[t].id, from |-> Origin(t)]
      <4>1. new.from = Origin(t) /\ new.by = job[t].id
        OBVIOUS
      <4>2. decisions' = {d \in decisions : d.agent # a} \cup {new}
        BY <2>3 DEF RecordDecision
      <4> HIDE DEF new
      <4>3. TAKE d \in decisions'
      <4>4. d \in decisions \/ d = new
        BY <4>2
      <4>5. QED
        BY <4>1, <4>4
    <3>4. QED
      BY <2>1, <3>2, <3>3 DEF ContextInv, Dispatching
  <2>4. QED
    BY <1>2, <2>2, <2>3 DEF CallStep, Lookup, Route, Resolve, Note, Record, Hear, Answered,
       Unanswered, OtherAnswered, OtherUnanswered, StoreAnswer, RecordTurn, dispatchState, CallAt
<1>3. CASE AdminStep \/ UNCHANGED vars
  <2>1. UNCHANGED <<ctx, decisions, job>>
    BY <1>3 DEF AdminStep, EditPrompt, ClearAfterEdit, CacheRequest, ResetBudget, WipeSessions,
       SessionGoesIdle, unasked, dispatchState, vars, handlers
  <2>2. QED
    BY <2>1 DEF ContextInv, Dispatching
<1>4. QED
  BY <1>1, <1>2, <1>3 DEF Next

\* Context and decisions are those of dispatches still running.
THEOREM ContextsEnd == Spec => []ContextIsLive
<1>1. ShapeInv /\ LedgerInv /\ ContextInv /\ [Next]_vars
        => (ShapeInv /\ LedgerInv /\ ContextInv)'
  BY ContextStep, LedgerStep, ShapeStep
<1>2. Init => ShapeInv /\ LedgerInv /\ ContextInv
  BY ContextStarts, LedgerStarts, ShapeStarts
<1>3. QED
  BY <1>1, <1>2, ContextFollows, PTL DEF Spec

-----------------------------------------------------------------------------
(* The histories of MLX sessions                                              *)

Seeds(t) == job[t].at = "run" /\ job[t].route # "architect"

\* Who reads or writes a history from a call: streams of the routes that record
\* the user's turn before they run.
HearsOf(t) ==
    /\ job[t].id \in Nat /\ job[t].phase \in Nat /\ job[t].mode \in Modes
    /\ \A a \in Agents :
         /\ call[t][a].pc = "off" => call[t][a].heard = "nothing"
         /\ call[t][a].pc # "off" /\ call[t][a].hears => Seeds(t)
         /\ call[t][a].pc \in {"hear", "turn"} => call[t][a].hears

HearsInv == arrivals \in Nat /\ \A t \in Threads : HearsOf(t)

LEMMA ArchitectsDoNotHear ==
    ASSUME NEW mode \in Modes, NEW i \in 1 .. Len(ArchitectPhases(mode))
    PROVE  ArchitectPhases(mode)[i].hears = FALSE
<1>1. /\ CallAll.hears = FALSE /\ CallNext.hears = FALSE /\ Classify.hears = FALSE
  BY DEF CallAll, CallNext, Classify, Phase
<1>2. CASE mode = "flat"
  <2>1. ArchitectPhases(mode) = <<CallAll>>
    BY <1>2 DEF ArchitectPhases
  <2>2. QED
    BY <1>1, <2>1
<1>3. CASE mode = "cascade"
  <2>1. ArchitectPhases(mode) = <<CallAll, CallNext>>
    BY <1>3 DEF ArchitectPhases
  <2>2. QED
    BY <1>1, <2>1
<1>4. CASE mode = "pipeline"
  <2>1. ArchitectPhases(mode) = <<CallNext, CallNext>>
    BY <1>4 DEF ArchitectPhases
  <2>2. QED
    BY <1>1, <2>1
<1>5. CASE mode = "router"
  <2>1. ArchitectPhases(mode) = <<Classify, CallAll>>
    BY <1>5 DEF ArchitectPhases
  <2>2. QED
    BY <1>1, <2>1
<1>6. QED
  BY <1>2, <1>3, <1>4, <1>5 DEF Modes

\* One call's step, as far as histories are concerned.
LEMMA CallHears ==
    ASSUME ShapeInv, NEW t \in Threads, NEW a \in Agents, CallStep(t, a)
    PROVE  /\ UNCHANGED job /\ call[t][a].pc # "off"
           /\ \A u \in Threads, b \in Agents : <<u, b>> # <<t, a>> => call'[u][b] = call[u][b]
           /\ call'[t][a].pc # "off" /\ call'[t][a].hears = call[t][a].hears
           /\ \/ call'[t][a].heard = call[t][a].heard
              \/ Hear(t, a) /\ call'[t][a].heard = Heard(job[t].session, job[t].id)
           /\ \/ call'[t][a].pc \in {"hear", "turn"} => call[t][a].hears
              \/ call'[t][a].pc = call[t][a].pc
<1>0. /\ call = [u \in Threads |-> [b \in Agents |-> call[u][b]]]
      /\ \A u \in Threads, b \in Agents : IsCall(call[u][b])
  BY DEF ShapeInv
<1> DEFINE c == call[t][a]
<1>a. ASSUME NEW d, call' = [call EXCEPT ![t][a] = d]
      PROVE  /\ call'[t][a] = d
             /\ \A u \in Threads, b \in Agents : <<u, b>> # <<t, a>> => call'[u][b] = call[u][b]
  BY <1>0, <1>a
<1>b. ASSUME NEW l, Step(t, a, l), UNCHANGED job, c.pc # "off", l # "off",
             l \in {"hear", "turn"} => c.hears
      PROVE  /\ UNCHANGED job /\ c.pc # "off"
             /\ \A u \in Threads, b \in Agents : <<u, b>> # <<t, a>> => call'[u][b] = call[u][b]
             /\ call'[t][a].pc # "off" /\ call'[t][a].hears = c.hears
             /\ call'[t][a].heard = c.heard
             /\ call'[t][a].pc \in {"hear", "turn"} => c.hears
  <2> DEFINE d == [c EXCEPT !.pc = l]
  <2>1. d.hears = c.hears /\ d.heard = c.heard /\ d.pc = l
    BY <1>0 DEF IsCall, CallFields
  <2>2. call' = [call EXCEPT ![t][a] = d]
    BY <1>0, <1>b DEF Step
  <2> HIDE DEF d
  <2>3. QED
    BY <1>a, <1>b, <2>1, <2>2
<1>c. \A backend : /\ Onwards(c, backend) \in {"hear", "serve"}
                   /\ Onwards(c, backend) = "hear" => c.hears
  BY DEF Onwards
<1>d. Kept(c) \in {"store", "turn", "done"} /\ (Kept(c) = "turn" => c.hears)
  BY DEF Kept
<1> DEFINE Goal ==
           /\ UNCHANGED job /\ call[t][a].pc # "off"
           /\ \A u \in Threads, b \in Agents : <<u, b>> # <<t, a>> => call'[u][b] = call[u][b]
           /\ call'[t][a].pc # "off" /\ call'[t][a].hears = call[t][a].hears
           /\ \/ call'[t][a].heard = call[t][a].heard
              \/ Hear(t, a) /\ call'[t][a].heard = Heard(job[t].session, job[t].id)
           /\ \/ call'[t][a].pc \in {"hear", "turn"} => call[t][a].hears
              \/ call'[t][a].pc = call[t][a].pc
<1>e. ASSUME NEW d, call' = [call EXCEPT ![t][a] = d], UNCHANGED job, c.pc # "off",
             d.pc # "off", d.hears = c.hears, d.heard = c.heard,
             d.pc \in {"hear", "turn"} => c.hears
      PROVE  Goal
  BY <1>a, <1>e
<1>1. CASE Lookup(t, a)
  <2>1. UNCHANGED job /\ c.pc = "start"
    BY <1>1 DEF Lookup, unseen, CallAt
  <2>2. CASE call' = [call EXCEPT ![t][a].pc = "done", ![t][a].text = map[Key(c.ask)].response]
    <3> DEFINE d == [c EXCEPT !.pc = "done", !.text = map[Key(c.ask)].response]
    <3>1. d.hears = c.hears /\ d.heard = c.heard /\ d.pc = "done"
      BY <1>0 DEF IsCall, CallFields
    <3>2. call' = [call EXCEPT ![t][a] = d]
      BY <1>0, <2>2
    <3> HIDE DEF d, Goal
    <3>3. QED
      BY <1>e, <2>1, <3>1, <3>2 DEF Goal
  <2>3. CASE Step(t, a, "route")
    BY <1>b, <2>1, <2>3
  <2>4. QED
    BY <1>1, <2>2, <2>3 DEF Lookup
<1>2. CASE Route(t, a)
  <2>1. UNCHANGED job /\ c.pc \in {"start", "route"}
    BY <1>2 DEF Route, unseen, CallAt
  <2>2. CASE Step(t, a, "resolve")
    BY <1>b, <2>1, <2>2
  <2>3. CASE call' = [call EXCEPT ![t][a].backend = Engine[a],
                         ![t][a].pc = IF routing THEN "note" ELSE Onwards(call[t][a], Engine[a])]
    <3> DEFINE l == IF routing THEN "note" ELSE Onwards(call[t][a], Engine[a])
               d == [c EXCEPT !.backend = Engine[a], !.pc = l]
    <3>0. l # "off" /\ (l \in {"hear", "turn"} => c.hears)
      BY <1>c
    <3>1. d.hears = c.hears /\ d.heard = c.heard /\ d.pc = l
      BY <1>0 DEF IsCall, CallFields
    <3>2. call' = [call EXCEPT ![t][a] = d]
      BY <1>0, <2>3
    <3> HIDE DEF d, l, Goal
    <3>3. QED
      BY <1>e, <2>1, <3>0, <3>1, <3>2 DEF Goal
  <2>4. QED
    BY <1>2, <2>2, <2>3 DEF Route
<1>3. CASE Resolve(t, a)
  <2>1. UNCHANGED job /\ c.pc = "resolve"
    BY <1>3 DEF Resolve, CallAt
  <2>2. CASE ctx.set
    <3>1. PICK b \in Supports[a] : call' = [call EXCEPT ![t][a].pc = "note",
                                      ![t][a].backend = b, ![t][a].routed = TRUE]
      BY <1>3, <2>2 DEF Resolve
    <3> DEFINE d == [c EXCEPT !.pc = "note", !.backend = b, !.routed = TRUE]
    <3>2. d.hears = c.hears /\ d.heard = c.heard /\ d.pc = "note"
      BY <1>0 DEF IsCall, CallFields
    <3>3. call' = [call EXCEPT ![t][a] = d]
      BY <1>0, <3>1
    <3> HIDE DEF d, Goal
    <3>4. QED
      BY <1>e, <2>1, <3>2, <3>3 DEF Goal
  <2>3. CASE ~ctx.set
    BY <1>3, <2>1, <2>3 DEF Resolve
  <2>4. QED
    BY <2>2, <2>3
<1>4. CASE Note(t, a)
  <2>1. UNCHANGED job /\ c.pc = "note"
    BY <1>4 DEF Note, unseen, CallAt
  <2>2. CASE Step(t, a, "record")
    BY <1>b, <2>1, <2>2
  <2>3. CASE Step(t, a, Onwards(c, c.backend))
    BY <1>b, <1>c, <2>1, <2>3
  <2>4. QED
    BY <1>4, <2>2, <2>3 DEF Note
<1>5. CASE Record(t, a)
  <2>1. UNCHANGED job /\ c.pc = "record" /\ Step(t, a, Onwards(c, c.backend))
    BY <1>5 DEF Record, unseen, CallAt
  <2>2. QED
    BY <1>b, <1>c, <2>1
<1>6. CASE Hear(t, a)
  <2> DEFINE d == [c EXCEPT !.pc = "serve", !.heard = Heard(job[t].session, job[t].id)]
  <2>1. d.hears = c.hears /\ d.heard = Heard(job[t].session, job[t].id) /\ d.pc = "serve"
    BY <1>0 DEF IsCall, CallFields
  <2>2. call' = [call EXCEPT ![t][a] = d] /\ UNCHANGED job /\ c.pc = "hear"
    BY <1>0, <1>6 DEF Hear, unseen, CallAt
  <2> HIDE DEF d
  <2>3. QED
    BY <1>a, <1>6, <2>1, <2>2
<1>7. CASE Answered(t, a)
  <2> DEFINE d == [c EXCEPT !.pc = Kept(c), !.text = Said(c.ask)]
  <2>1. d.hears = c.hears /\ d.heard = c.heard /\ d.pc = Kept(c)
    BY <1>0 DEF IsCall, CallFields
  <2>2. call' = [call EXCEPT ![t][a] = d] /\ UNCHANGED job /\ c.pc = "serve"
    BY <1>0, <1>7 DEF Answered, CallAt
  <2> HIDE DEF d, Goal
  <2>3. QED
    BY <1>d, <1>e, <2>1, <2>2 DEF Goal
<1>8. ASSUME Unanswered(t, a) \/ OtherAnswered(t, a) \/ OtherUnanswered(t, a) PROVE Goal
  <2>1. UNCHANGED job /\ c.pc \in {"serve", "other"}
    BY <1>8 DEF Unanswered, OtherAnswered, OtherUnanswered, unseen, CallAt
  <2>2. ASSUME NEW l \in {"done", "store"}, NEW text,
               call' = [call EXCEPT ![t][a].pc = l, ![t][a].text = text]
        PROVE  Goal
    <3> DEFINE d == [c EXCEPT !.pc = l, !.text = text]
    <3>1. d.hears = c.hears /\ d.heard = c.heard /\ d.pc = l
      BY <1>0 DEF IsCall, CallFields
    <3>2. call' = [call EXCEPT ![t][a] = d]
      BY <1>0, <2>2
    <3> HIDE DEF d, Goal
    <3>3. QED
      BY <1>e, <2>1, <2>2, <3>1, <3>2 DEF Goal
  <2>3. ASSUME NEW l \in {"serve", "other"}, Step(t, a, l) PROVE Goal
    BY <1>b, <2>1, <2>3
  <2> HIDE DEF Goal
  <2>4. ASSUME Unanswered(t, a) PROVE Goal
    BY <2>2, <2>3, <2>4 DEF Unanswered
  <2>5. ASSUME OtherAnswered(t, a) PROVE Goal
    BY <2>2, <2>5 DEF OtherAnswered
  <2>6. ASSUME OtherUnanswered(t, a) PROVE Goal
    BY <2>2, <2>3, <2>6 DEF OtherUnanswered
  <2>7. QED
    BY <1>8, <2>4, <2>5, <2>6
<1>9. CASE StoreAnswer(t, a) \/ RecordTurn(t, a)
  BY <1>9, <1>b DEF StoreAnswer, RecordTurn, unseen, CallAt
<1>10. QED
  BY <1>1, <1>2, <1>3, <1>4, <1>5, <1>6, <1>7, <1>8, <1>9 DEF CallStep

LEMMA OthersStay ==
    ASSUME ShapeInv, NEW t \in Threads, HandlerStep(t)
    PROVE  /\ UNCHANGED setup
           /\ \A u \in Threads \ {t} :
                /\ \A a \in Agents : call'[u][a] = call[u][a]
                /\ job'[u].id = job[u].id /\ job'[u].at = job[u].at
                /\ job'[u].route = job[u].route /\ job'[u].mode = job[u].mode
                /\ job'[u].session = job[u].session /\ job'[u].phase = job[u].phase
<1>1. CASE Arrive(t)
  <2>1. PICK j : job' = [x \in Threads |-> IF x = t THEN j
                                ELSE IF Running(x) THEN Accompanied(x) ELSE job[x]]
    BY <1>1 DEF Arrive
  <2>2. \A u \in Threads \ {t} : job'[u] \in {Accompanied(u), job[u]}
    BY <2>1
  <2>3. \A u \in Threads :
          /\ Accompanied(u).id = job[u].id /\ Accompanied(u).at = job[u].at
          /\ Accompanied(u).route = job[u].route /\ Accompanied(u).mode = job[u].mode
          /\ Accompanied(u).session = job[u].session /\ Accompanied(u).phase = job[u].phase
    BY DEF ShapeInv, IsJob, JobFields, Accompanied
  <2>4. UNCHANGED <<call, setup>>
    BY <1>1 DEF Arrive
  <2>5. QED
    BY <2>2, <2>3, <2>4
<1>2. CASE Gate(t) \/ Gated(t) \/ Enter(t) \/ Sweep(t) \/ Seed(t) \/ Launch(t)
  <2>1. UNCHANGED setup
    BY <1>2 DEF Gate, Gated, Enter, Sweep, Seed, Launch
  <2>2. \A u \in Threads \ {t} : job'[u] = job[u]
    BY <1>2, EnterMoves DEF Gate, Gated, Sweep, Seed, Launch, Goto, ShapeInv
  <2>3. \A u \in Threads \ {t} : \A a \in Agents : call'[u][a] = call[u][a]
    <3>1. UNCHANGED call \/ \E S, p, quoted : CallThem(t, S, p, quoted)
      BY <1>2 DEF Gate, Gated, Enter, Sweep, Seed, Launch
    <3>2. QED
      BY <3>1, CallsAreMade
  <2>4. QED
    BY <2>1, <2>2, <2>3
<1>3. CASE Reject(t) \/ Leave(t) \/ LeaveMlx(t)
  <2>1. Dropped(t) /\ UNCHANGED setup
    BY <1>3 DEF Reject, Leave, LeaveMlx
  <2>2. QED
    BY <2>1 DEF Dropped, ShapeInv
<1>4. QED
  BY <1>1, <1>2, <1>3 DEF HandlerStep

\* What a handler's step does to its own request.
LEMMA HandlerHears ==
    ASSUME ShapeInv, HearsInv, NEW t \in Threads, HandlerStep(t)
    PROVE  /\ arrivals' \in Nat /\ HearsOf(t)'
           /\ Seeds(t)' => /\ job'[t].id = job[t].id /\ job'[t].session = job[t].session
                           /\ Seeds(t) \/ Seed(t) \/ job[t].id \in silent'
           /\ \A a \in Agents : call'[t][a].heard = "foreign" =>
                call[t][a].heard = "foreign" /\ job'[t].id = job[t].id
<1>0. /\ t \in DOMAIN job /\ t \in DOMAIN call /\ IsJob(job[t]) /\ HearsOf(t)
      /\ arrivals \in Nat
      /\ job[t].at \notin {"gated", "run"} => \A a \in Agents : call[t][a].pc = "off"
  BY DEF ShapeInv, HearsInv
<1>a. NoCall.pc = "off" /\ NoCall.heard = "nothing" /\ NoJob.id \in Nat
      /\ NoJob.phase \in Nat /\ NoJob.mode \in Modes /\ NoJob.at = "idle"
  BY DEF NoCall, NoJob, Modes
<1>1. CASE Arrive(t)
  <2>1. PICK route \in setup.routes, mode \in setup.modes,
             s \in setup.sessions, user \in setup.users :
          job' = [x \in Threads |-> IF x = t THEN NewJob(t, route, mode, s, user)
                                   ELSE IF Running(x) THEN Accompanied(x) ELSE job[x]]
    BY <1>1 DEF Arrive
  <2>2. UNCHANGED call /\ job[t].at = "idle" /\ arrivals' = arrivals + 1 /\ mode \in Modes
    BY <1>1, RequestsAssumption DEF Arrive, AtStep, ShapeInv, RequestsAssumption, TypeOfSetup
  <2> DEFINE j == NewJob(t, route, mode, s, user)
  <2>3. /\ j.id = arrivals + 1 /\ j.mode = mode /\ j.at \in {"sweep", "parsed"} /\ j.phase = 0
    BY DEF NewJob, NoJob
  <2> HIDE DEF j
  <2>4. job'[t] = j
    BY <2>1 DEF j
  <2>5. QED
    BY <1>0, <2>2, <2>3, <2>4 DEF HearsOf, Seeds
<1>2. CASE Gate(t) \/ Gated(t)
  <2>1. PICK S : CallThem(t, S, Summarise, {})
    BY <1>2 DEF Gate, Gated
  <2>2. \A a \in Agents :
          call'[t][a] \in {NewCall(t, a, Summarise, {}), NoCall, call[t][a]}
    BY <2>1, CallsAreMade
  <2>3. \A a \in Agents : LET c == NewCall(t, a, Summarise, {})
                          IN  c.pc = "start" /\ c.hears = FALSE /\ c.heard = "nothing"
    BY DEF NewCall, NoCall, Summarise, Phase
  <2>4. /\ job'[t].at \in {"gated", "admit"} /\ job'[t].id = job[t].id
        /\ job'[t].phase = job[t].phase /\ job'[t].mode = job[t].mode
        /\ UNCHANGED arrivals /\ job[t].at \in {"parsed", "gated"}
    <3>1. CASE Gate(t)
      BY <1>0, <3>1 DEF Gate, Goto, AtStep, IsJob, JobFields
    <3>2. CASE Gated(t)
      <4>1. PICK text : job' = [job EXCEPT ![t].at = "admit", ![t].prompt = text]
        BY <3>2 DEF Gated
      <4>2. UNCHANGED arrivals /\ job[t].at = "gated"
        BY <3>2 DEF Gated, AtStep
      <4>3. QED
        BY <1>0, <4>1, <4>2 DEF IsJob, JobFields
    <3>3. QED
      BY <1>2, <3>1, <3>2
  <2>5. QED
    BY <1>0, <1>a, <2>2, <2>3, <2>4 DEF HearsOf, Seeds
<1>3. CASE Reject(t) \/ Leave(t) \/ LeaveMlx(t)
  <2>1. Dropped(t) /\ UNCHANGED <<arrivals, setup>>
    BY <1>3 DEF Reject, Leave, LeaveMlx
  <2>2. job'[t] = NoJob /\ \A a \in Agents : call'[t][a] = NoCall
    BY <1>0, <2>1 DEF Dropped
  <2>3. QED
    BY <1>0, <1>a, <2>1, <2>2 DEF HearsOf, Seeds
<1>4. CASE Enter(t) \/ Sweep(t) \/ Seed(t)
  <2>1. UNCHANGED <<call, arrivals>> /\ job[t].at \notin {"gated", "run"}
    BY <1>4 DEF Enter, Sweep, Seed, Admission, AtStep
  <2>2. /\ job'[t].id = job[t].id /\ job'[t].session = job[t].session
        /\ job'[t].route = job[t].route
        /\ job'[t].phase = job[t].phase /\ job'[t].mode = job[t].mode
    BY <1>0, <1>4, EnterMoves DEF Sweep, Seed, Goto, IsJob, JobFields
  <2>3. Sweep(t) => job'[t].at = "seed"
    BY <1>0 DEF Sweep, Goto, IsJob, JobFields
  <2>4. Seeds(t)' => Seed(t) \/ job[t].id \in silent'
    BY <1>4, <2>2, <2>3, EnterMoves DEF Seeds
  <2>5. QED
    BY <1>0, <2>1, <2>2, <2>4 DEF HearsOf
<1>5. CASE Launch(t)
  <2>1. /\ job[t].at = "run" /\ job[t].phase < Len(PhasesOf(t)) /\ UNCHANGED arrivals
        /\ job' = [job EXCEPT ![t].phase = @ + 1]
    BY <1>5 DEF Launch, AtStep
  <2> DEFINE p == PhasesOf(t)[job[t].phase + 1]
  <2>2. PICK S, quoted : CallThem(t, S, p, quoted)
    BY <1>5 DEF Launch
  <2>3. p.hears = FALSE \/ job[t].route # "architect"
    <3>1. CASE job[t].route = "architect"
      <4>1. PhasesOf(t) = ArchitectPhases(job[t].mode)
        BY <3>1 DEF PhasesOf
      <4>2. Len(ArchitectPhases(job[t].mode)) \in Nat
        BY <1>0 DEF HearsOf, ArchitectPhases, Modes
      <4>3. job[t].phase + 1 \in 1 .. Len(ArchitectPhases(job[t].mode)) /\ job[t].mode \in Modes
        BY <1>0, <2>1, <4>1, <4>2 DEF HearsOf
      <4>4. QED
        BY <4>1, <4>3, ArchitectsDoNotHear
    <3>2. QED
      BY <3>1
  <2> HIDE DEF p
  <2>4. \A a \in Agents : call'[t][a] \in {NewCall(t, a, p, quoted), NoCall, call[t][a]}
    BY <2>2, CallsAreMade
  <2>5. \A a \in Agents : LET c == NewCall(t, a, p, quoted)
                          IN  c.pc = "start" /\ c.hears = p.hears /\ c.heard = "nothing"
    BY DEF NewCall, NoCall
  <2>6. /\ job'[t].at = "run" /\ job'[t].id = job[t].id /\ job'[t].route = job[t].route
        /\ job'[t].session = job[t].session
        /\ job'[t].phase = job[t].phase + 1 /\ job'[t].mode = job[t].mode
    BY <1>0, <2>1 DEF IsJob, JobFields
  <2>7. Seeds(t)' <=> Seeds(t)
    BY <2>1, <2>6 DEF Seeds
  <2>8. ASSUME NEW a \in Agents
        PROVE  /\ call'[t][a].pc = "off" => call'[t][a].heard = "nothing"
               /\ call'[t][a].pc # "off" /\ call'[t][a].hears => Seeds(t)
               /\ call'[t][a].pc \in {"hear", "turn"} => call'[t][a].hears
               /\ call'[t][a].heard = "foreign" => call[t][a].heard = "foreign"
    <3>1. CASE call'[t][a] = NewCall(t, a, p, quoted)
      BY <2>1, <2>3, <2>5, <3>1 DEF Seeds
    <3>2. CASE call'[t][a] = NoCall
      BY <1>a, <3>2
    <3>3. CASE call'[t][a] = call[t][a]
      BY <1>0, <3>3 DEF HearsOf
    <3>4. QED
      BY <2>4, <3>1, <3>2, <3>3
  <2>9. HearsOf(t)'
    BY <1>0, <2>6, <2>7, <2>8 DEF HearsOf
  <2>10. QED
    BY <1>0, <2>1, <2>6, <2>7, <2>8, <2>9
<1>6. QED
  BY <1>1, <1>2, <1>3, <1>4, <1>5 DEF HandlerStep

LEMMA HearsStarts == Init => HearsInv
BY DEF Init, HearsInv, HearsOf, NoJob, NoCall, Modes

LEMMA HearsStep == ShapeInv /\ HearsInv /\ [Next]_vars => HearsInv'
<1> SUFFICES ASSUME ShapeInv, HearsInv, [Next]_vars PROVE HearsInv'
  OBVIOUS
<1>1. ASSUME NEW t \in Threads, HandlerStep(t) PROVE HearsInv'
  <2>1. arrivals' \in Nat /\ HearsOf(t)'
    BY <1>1, HandlerHears
  <2>2. ASSUME NEW u \in Threads, u # t PROVE HearsOf(u)'
    BY <1>1, <2>2, OthersStay DEF HearsInv, HearsOf, Seeds
  <2>3. QED
    BY <2>1, <2>2 DEF HearsInv
<1>2. ASSUME NEW t \in Threads, NEW a \in Agents, CallStep(t, a) PROVE HearsInv'
  <2>1. UNCHANGED <<arrivals, job>>
    BY <1>2 DEF CallStep, Lookup, Route, Resolve, Note, Record, Hear, Answered, Unanswered,
       OtherAnswered, OtherUnanswered, StoreAnswer, RecordTurn, unseen
  <2>2. ASSUME NEW u \in Threads, NEW b \in Agents
        PROVE  /\ call'[u][b].pc = "off" => call'[u][b].heard = "nothing"
               /\ call'[u][b].pc # "off" /\ call'[u][b].hears => Seeds(u)
               /\ call'[u][b].pc \in {"hear", "turn"} => call'[u][b].hears
    <3>1. CASE u = t /\ b = a
      BY <1>2, <3>1, CallHears DEF HearsInv, HearsOf
    <3>2. CASE ~(u = t /\ b = a)
      <4>1. call'[u][b] = call[u][b]
        BY <1>2, <3>2, CallHears
      <4>2. QED
        BY <4>1 DEF HearsInv, HearsOf
    <3>3. QED
      BY <3>1, <3>2
  <2>3. QED
    BY <2>1, <2>2 DEF HearsInv, HearsOf, Seeds
<1>3. CASE AdminStep \/ UNCHANGED vars
  <2>1. UNCHANGED <<arrivals, job, call>>
    BY <1>3, AdminChangesNoCall DEF vars, handlers
  <2>2. QED
    BY <2>1 DEF HearsInv, HearsOf, Seeds
<1>4. QED
  BY <1>1, <1>2, <1>3 DEF Next

\* A user's turn of request r in session s, and the turns of a session in order,
\* of the sessions T with the requests W wiped.
TurnSet == [role : {"user", "assistant"}, by : Nat]
HasTurn(T, W, s, r) == r \in W \/ \E j \in DOMAIN T[s] : T[s][j] = Turn("user", r)
Ordered(T, W, s) ==
    \A i \in DOMAIN T[s] : T[s][i].role = "assistant" =>
        \/ T[s][i].by \in W
        \/ \E j \in 1 .. i - 1 : T[s][j] = Turn("user", T[s][i].by)

Extended(T, s, e) == [T EXCEPT ![s] = Append(@, e)]

LEMMA TurnsExtended ==
    ASSUME NEW T \in [Sessions -> Seq(TurnSet)], NEW W, NEW s \in Sessions,
           NEW role \in {"user", "assistant"}, NEW r \in Nat,
           role = "assistant" => HasTurn(T, W, s, r),
           NEW U, U = Extended(T, s, Turn(role, r))
    PROVE  /\ U \in [Sessions -> Seq(TurnSet)]
           /\ \A q : \A x \in Sessions : HasTurn(T, W, x, q) => HasTurn(U, W, x, q)
           /\ role = "user" => HasTurn(U, W, s, r)
           /\ (\A x \in Sessions : Ordered(T, W, x)) => \A x \in Sessions : Ordered(U, W, x)
<1> DEFINE e == Turn(role, r)
<1>1. e \in TurnSet /\ e.role = role /\ e.by = r
  BY DEF Turn, TurnSet
<1>2. role = "user" => e = Turn("user", r)
  OBVIOUS
<1>3. U = [T EXCEPT ![s] = Append(@, e)]
  BY DEF Extended
<1> HIDE DEF e
<1>4. /\ T[s] \in Seq(TurnSet) /\ U[s] = Append(T[s], e) /\ Append(T[s], e) \in Seq(TurnSet)
      /\ U = [x \in Sessions |-> IF x = s THEN U[s] ELSE T[x]]
  <2>1. U = [x \in Sessions |-> IF x = s THEN Append(T[s], e) ELSE T[x]]
    BY <1>3
  <2>2. T[s] \in Seq(TurnSet) /\ U[s] = Append(T[s], e)
    BY <2>1
  <2>3. Append(T[s], e) \in Seq(TurnSet)
    BY <1>1, <2>2
  <2>4. QED
    BY <2>1, <2>2, <2>3
<1>5. /\ Len(T[s]) \in Nat /\ DOMAIN T[s] = 1 .. Len(T[s])
      /\ DOMAIN U[s] = 1 .. Len(T[s]) + 1 /\ U[s][Len(T[s]) + 1] = e
      /\ \A i \in DOMAIN T[s] : U[s][i] = T[s][i]
  BY <1>1, <1>4
<1>6. \A x \in Sessions : x # s => U[x] = T[x]
  BY <1>4
<1>7. U \in [Sessions -> Seq(TurnSet)]
  BY <1>4
<1>8. ASSUME NEW x \in Sessions, NEW q, HasTurn(T, W, x, q) PROVE HasTurn(U, W, x, q)
  <2>1. CASE x = s
    BY <1>5, <1>8, <2>1 DEF HasTurn
  <2>2. CASE x # s
    BY <1>6, <1>8, <2>2 DEF HasTurn
  <2>3. QED
    BY <2>1, <2>2
<1>9. role = "user" => HasTurn(U, W, s, r)
  <2>1. Len(T[s]) + 1 \in DOMAIN U[s]
    BY <1>5
  <2>2. QED
    BY <1>2, <1>5, <2>1 DEF HasTurn
<1>10. ASSUME \A x \in Sessions : Ordered(T, W, x), NEW x \in Sessions PROVE Ordered(U, W, x)
  <2>1. CASE x # s
    BY <1>6, <1>10, <2>1 DEF Ordered
  <2>2. ASSUME NEW i \in DOMAIN U[s], U[s][i].role = "assistant"
        PROVE  \/ U[s][i].by \in W
               \/ \E j \in 1 .. i - 1 : U[s][j] = Turn("user", U[s][i].by)
    <3>1. CASE i \in DOMAIN T[s]
      <4>0. i \in Nat /\ i <= Len(T[s]) /\ \A j \in 1 .. i - 1 : j \in DOMAIN T[s]
        BY <1>5, <3>1
      <4>1. U[s][i] = T[s][i] /\ \A j \in 1 .. i - 1 : U[s][j] = T[s][j]
        BY <1>5, <3>1, <4>0
      <4>2. \/ T[s][i].by \in W
            \/ \E j \in 1 .. i - 1 : T[s][j] = Turn("user", T[s][i].by)
        BY <1>10, <2>2, <3>1, <4>1 DEF Ordered
      <4>3. QED
        BY <4>1, <4>2
    <3>2. CASE i = Len(T[s]) + 1
      <4>1. U[s][i].by = r /\ HasTurn(T, W, s, r)
        BY <1>1, <1>5, <2>2, <3>2
      <4>2. \A j \in DOMAIN T[s] : j \in 1 .. i - 1 /\ U[s][j] = T[s][j]
        BY <1>5, <3>2
      <4>3. QED
        BY <4>1, <4>2 DEF HasTurn
    <3>3. QED
      BY <1>5, <3>1, <3>2
  <2>3. QED
    BY <2>1, <2>2 DEF Ordered
<1>11. QED
  BY <1>7, <1>8, <1>9, <1>10

\* The histories U keep what T had, and are in order if T was.
Grown(T, W, U) ==
    /\ U \in [Sessions -> Seq(TurnSet)]
    /\ \A q : \A x \in Sessions : HasTurn(T, W, x, q) => HasTurn(U, W, x, q)
    /\ (\A x \in Sessions : Ordered(T, W, x)) => \A x \in Sessions : Ordered(U, W, x)

LEMMA UserTurnExtends ==
    ASSUME NEW T \in [Sessions -> Seq(TurnSet)], NEW W, NEW s \in Sessions, NEW r \in Nat,
           NEW U, U = Extended(T, s, Turn("user", r))
    PROVE  Grown(T, W, U) /\ HasTurn(U, W, s, r)
<1> DEFINE role == "user"
<1>1. role \in {"user", "assistant"} /\ role = "user" /\ role # "assistant"
  OBVIOUS
<1>2. U = Extended(T, s, Turn(role, r))
  OBVIOUS
<1> HIDE DEF role
<1>3. QED
  BY <1>1, <1>2, TurnsExtended DEF Grown

LEMMA AnswerTurnExtends ==
    ASSUME NEW T \in [Sessions -> Seq(TurnSet)], NEW W, NEW s \in Sessions, NEW r \in Nat,
           HasTurn(T, W, s, r), NEW U, U = Extended(T, s, Turn("assistant", r))
    PROVE  Grown(T, W, U)
<1> DEFINE role == "assistant"
<1>1. role \in {"user", "assistant"}
  OBVIOUS
<1>2. U = Extended(T, s, Turn(role, r))
  OBVIOUS
<1> HIDE DEF role
<1>3. QED
  BY <1>1, <1>2, TurnsExtended DEF Grown

LEMMA TurnsErased ==
    ASSUME NEW T \in [Sessions -> Seq(TurnSet)], NEW W, NEW V, W \subseteq V, NEW S,
           NEW U, U = [s \in Sessions |-> IF s \in S THEN <<>> ELSE T[s]]
    PROVE  /\ U \in [Sessions -> Seq(TurnSet)]
           /\ \A q : \A x \in Sessions \ S : HasTurn(T, W, x, q) => HasTurn(U, V, x, q)
           /\ (\A x \in Sessions : Ordered(T, W, x)) => \A x \in Sessions : Ordered(U, V, x)
<1>1. \A x \in Sessions : U[x] = IF x \in S THEN <<>> ELSE T[x]
  OBVIOUS
<1>2. U \in [Sessions -> Seq(TurnSet)]
  OBVIOUS
<1>3. \A q : \A x \in Sessions \ S : HasTurn(T, W, x, q) => HasTurn(U, V, x, q)
  BY <1>1 DEF HasTurn
<1>4. ASSUME \A x \in Sessions : Ordered(T, W, x), NEW x \in Sessions PROVE Ordered(U, V, x)
  <2>1. CASE x \in S
    <3>1. DOMAIN U[x] = {}
      BY <1>1, <2>1
    <3>2. QED
      BY <3>1 DEF Ordered
  <2>2. CASE x \notin S
    BY <1>1, <1>4, <2>2 DEF Ordered
  <2>3. QED
    BY <2>1, <2>2
<1>5. QED
  BY <1>2, <1>3, <1>4

\* The requests that need not find their turn.
Excused == wiped \cup silent

HistoryInv ==
    /\ turns \in [Sessions -> Seq(TurnSet)]
    /\ \A t \in Threads : Seeds(t) => HasTurn(turns, Excused, job[t].session, job[t].id)
    /\ \A t \in Threads, a \in Agents :
         call[t][a].heard = "foreign" => job[t].id \in Excused
    /\ \A s \in Sessions : Ordered(turns, Excused, s)

\* Requests go on, and histories keep what they need.
LEMMA HistoryFrame ==
    ASSUME HistoryInv,
           turns' \in [Sessions -> Seq(TurnSet)], Excused \subseteq Excused',
           (\A s \in Sessions : Ordered(turns, Excused, s))
             => \A s \in Sessions : Ordered(turns', Excused', s),
           \A t \in Threads :
             Seeds(t)' => \/ /\ Seeds(t) /\ job'[t].session = job[t].session
                             /\ job'[t].id = job[t].id
                          \/ job'[t].id \in Excused',
           \A t \in Threads :
             Seeds(t) /\ HasTurn(turns, Excused, job[t].session, job[t].id)
               => HasTurn(turns', Excused', job[t].session, job[t].id),
           \A t \in Threads, a \in Agents : call'[t][a].heard = "foreign" =>
             job'[t].id \in Excused \/ (call[t][a].heard = "foreign" /\ job'[t].id = job[t].id)
    PROVE  HistoryInv'
<1>1. ASSUME NEW t \in Threads, Seeds(t)'
      PROVE  HasTurn(turns', Excused', job'[t].session, job'[t].id)
  <2>1. CASE job'[t].id \in Excused'
    BY <2>1 DEF HasTurn
  <2>2. CASE Seeds(t) /\ job'[t].session = job[t].session /\ job'[t].id = job[t].id
    BY <2>2 DEF HistoryInv
  <2>3. QED
    BY <1>1, <2>1, <2>2
<1>2. ASSUME NEW t \in Threads, NEW a \in Agents, call'[t][a].heard = "foreign"
      PROVE  job'[t].id \in Excused'
  BY <1>2 DEF HistoryInv
<1>3. \A s \in Sessions : Ordered(turns', Excused', s)
  BY DEF HistoryInv
<1>4. QED
  BY <1>1, <1>2, <1>3 DEF HistoryInv

\* Histories that stay as they are keep what they have when more is excused.
LEMMA MoreExcused ==
    ASSUME NEW W, NEW V, W \subseteq V
    PROVE  /\ \A s, r : HasTurn(turns, W, s, r) => HasTurn(turns, V, s, r)
           /\ (\A s \in Sessions : Ordered(turns, W, s)) => \A s \in Sessions : Ordered(turns, V, s)
BY DEF HasTurn, Ordered

\* The answer of a request that has its turn is recorded.
LEMMA AnswerRecorded ==
    ASSUME ShapeInv, HistoryInv, NEW t \in Threads, job[t].id \in Nat, Seeds(t),
           turns' = [turns EXCEPT ![job[t].session] = Append(@, Turn("assistant", job[t].id))]
    PROVE  Grown(turns, Excused, turns')
<1> DEFINE sn == job[t].session
           rn == job[t].id
           W == Excused
<1>1. sn \in Sessions /\ rn \in Nat /\ turns \in [Sessions -> Seq(TurnSet)]
  BY DEF Seeds, ShapeInv, HistoryInv
<1>2. turns' = Extended(turns, sn, Turn("assistant", rn))
  BY DEF Extended
<1>3. HasTurn(turns, W, sn, rn)
  BY DEF HistoryInv
<1> HIDE DEF sn, rn, W
<1>4. Grown(turns, W, turns')
  BY <1>1, <1>2, <1>3, AnswerTurnExtends
<1>5. QED
  BY <1>4 DEF W

LEMMA GrownHistories ==
    ASSUME ShapeInv, HistoryInv, Excused' = Excused, Grown(turns, Excused, turns'),
           \A t \in Threads :
             Seeds(t)' => \/ /\ Seeds(t) /\ job'[t].session = job[t].session
                             /\ job'[t].id = job[t].id
                          \/ job'[t].id \in Excused',
           \A t \in Threads, a \in Agents : call'[t][a].heard = "foreign" =>
             job'[t].id \in Excused \/ (call[t][a].heard = "foreign" /\ job'[t].id = job[t].id)
    PROVE  HistoryInv'
<1>1. \A t \in Threads : Seeds(t) => job[t].session \in Sessions
  BY DEF Seeds, ShapeInv
<1>2. QED
  BY <1>1, HistoryFrame DEF Grown

LEMMA HistoryHandlers ==
    ASSUME ShapeInv, HearsInv, HistoryInv, NEW t \in Threads, HandlerStep(t)
    PROVE  HistoryInv'
<1>0. /\ t \in DOMAIN job /\ IsJob(job[t]) /\ job[t].id \in Nat
      /\ job[t].at # "idle" => job[t].session \in Sessions
      /\ turns \in [Sessions -> Seq(TurnSet)]
  BY DEF ShapeInv, HearsInv, HearsOf, HistoryInv
<1>1. \A u \in Threads \ {t} :
        Seeds(u)' => Seeds(u) /\ job'[u].session = job[u].session /\ job'[u].id = job[u].id
  BY OthersStay DEF Seeds
<1>2. ASSUME ~Seed(t), NEW u \in Threads, Seeds(u)'
      PROVE  \/ Seeds(u) /\ job'[u].session = job[u].session /\ job'[u].id = job[u].id
             \/ job'[u].id \in Excused'
  BY <1>1, <1>2, HandlerHears DEF Excused
<1>3. \A u \in Threads, a \in Agents : call'[u][a].heard = "foreign" =>
        call[u][a].heard = "foreign" /\ job'[u].id = job[u].id
  BY OthersStay, HandlerHears
<1>4. CASE Sweep(t)
  <2>1. /\ turns' = [s \in Sessions |-> IF s \in idle THEN <<>> ELSE turns[s]]
        /\ wiped' = wiped \cup Seeded(idle) /\ UNCHANGED silent /\ ~Seed(t)
    BY <1>4 DEF Sweep, Erase, Seed, AtStep
  <2>2. Excused' = Excused \cup Seeded(idle)
    BY <2>1 DEF Excused
  <2>3. /\ turns' \in [Sessions -> Seq(TurnSet)]
        /\ \A q : \A x \in Sessions \ idle :
             HasTurn(turns, Excused, x, q) => HasTurn(turns', Excused', x, q)
        /\ (\A x \in Sessions : Ordered(turns, Excused, x))
             => \A x \in Sessions : Ordered(turns', Excused', x)
    <3> DEFINE W == Excused
               V == Excused'
               U == turns'
    <3>1. W \subseteq V /\ U = [s \in Sessions |-> IF s \in idle THEN <<>> ELSE turns[s]]
      BY <2>1, <2>2
    <3> HIDE DEF W, V, U
    <3>2. /\ U \in [Sessions -> Seq(TurnSet)]
          /\ \A q : \A x \in Sessions \ idle : HasTurn(turns, W, x, q) => HasTurn(U, V, x, q)
          /\ (\A x \in Sessions : Ordered(turns, W, x)) => \A x \in Sessions : Ordered(U, V, x)
      BY <1>0, <3>1, TurnsErased
    <3>3. QED
      BY <3>2 DEF W, V, U
  <2>4. ASSUME NEW u \in Threads, Seeds(u),
               HasTurn(turns, Excused, job[u].session, job[u].id)
        PROVE  HasTurn(turns', Excused', job[u].session, job[u].id)
    <3>1. CASE job[u].session \in idle
      BY <2>2, <2>4, <3>1 DEF Seeds, Seeded, HasTurn
    <3>2. CASE job[u].session \notin idle
      BY <2>3, <2>4, <3>2 DEF Seeds, ShapeInv
    <3>3. QED
      BY <3>1, <3>2
  <2>5. QED
    BY <1>2, <1>3, <2>1, <2>2, <2>3, <2>4, HistoryFrame
<1>5. CASE Seed(t)
  <2>1. /\ turns' = [turns EXCEPT ![job[t].session] = Append(@, Turn("user", job[t].id))]
        /\ Excused' = Excused /\ job[t].at = "seed"
    BY <1>5 DEF Seed, AppendTurn, AtStep, Excused
  <2> DEFINE sn == job[t].session
             rn == job[t].id
             W == Excused
  <2>2. sn \in Sessions /\ rn \in Nat /\ turns' = Extended(turns, sn, Turn("user", rn))
    BY <1>0, <2>1 DEF Extended
  <2>3. job'[t].session = sn /\ job'[t].id = rn
    BY <1>0, <1>5 DEF Seed, Goto, IsJob, JobFields
  <2>4. Excused' = W
    BY <2>1
  <2>h. /\ \A u \in Threads : Seeds(u) => HasTurn(turns, W, job[u].session, job[u].id)
        /\ \A u \in Threads, a \in Agents : call[u][a].heard = "foreign" => job[u].id \in W
        /\ \A s \in Sessions : Ordered(turns, W, s)
    BY DEF HistoryInv
  <2> HIDE DEF sn, rn, W
  <2>5. Grown(turns, W, turns') /\ HasTurn(turns', W, sn, rn)
    BY <1>0, <2>2, UserTurnExtends
  <2>6. ASSUME NEW u \in Threads, Seeds(u)'
        PROVE  HasTurn(turns', Excused', job'[u].session, job'[u].id)
    <3>1. CASE u = t
      BY <2>3, <2>4, <2>5, <3>1
    <3>2. CASE u # t
      <4>1. Seeds(u) /\ job'[u].session = job[u].session /\ job'[u].id = job[u].id
        BY <1>1, <2>6, <3>2
      <4>2. job[u].session \in Sessions
        BY <4>1 DEF Seeds, ShapeInv
      <4>3. HasTurn(turns', W, job[u].session, job[u].id)
        BY <2>5, <2>h, <4>1, <4>2 DEF Grown
      <4>4. QED
        BY <2>4, <4>1, <4>3
    <3>3. QED
      BY <3>1, <3>2
  <2>7. QED
    BY <1>3, <2>4, <2>5, <2>6, <2>h DEF HistoryInv, Grown
<1>6. CASE LeaveMlx(t)
  <2>1. /\ UNCHANGED <<wiped, silent>> /\ ~Seed(t)
        /\ \/ UNCHANGED turns
           \/ /\ turns' = [turns EXCEPT ![job[t].session] = Append(@, Turn("assistant", job[t].id))]
              /\ Seeds(t)
    BY <1>6 DEF LeaveMlx, AppendTurn, AtStep, Seed, Seeds, mlxSessions
  <2>2. Excused' = Excused
    BY <2>1 DEF Excused
  <2>3. CASE UNCHANGED turns
    BY <1>0, <1>2, <1>3, <2>1, <2>2, <2>3, HistoryFrame
  <2>4. CASE /\ turns' = [turns EXCEPT ![job[t].session] = Append(@, Turn("assistant", job[t].id))]
             /\ Seeds(t)
    <3>1. Grown(turns, Excused, turns')
      BY <1>0, <2>4, AnswerRecorded
    <3>2. QED
      BY <1>2, <1>3, <2>1, <2>2, <3>1, GrownHistories
  <2>5. QED
    BY <2>1, <2>3, <2>4
<1>7. CASE Arrive(t) \/ Gate(t) \/ Gated(t) \/ Reject(t) \/ Enter(t) \/ Launch(t) \/ Leave(t)
  <2>1. UNCHANGED <<turns, wiped>>
    BY <1>7 DEF Arrive, Gate, Gated, Reject, Enter, Launch, Leave, mlxSessions
  <2>2. silent \subseteq silent'
    BY <1>7, EnterMoves DEF Arrive, Gate, Gated, Reject, Launch, Leave
  <2>3. Excused \subseteq Excused' /\ turns' \in [Sessions -> Seq(TurnSet)]
    BY <1>0, <2>1, <2>2 DEF Excused
  <2>4. /\ \A s, r : HasTurn(turns, Excused, s, r) => HasTurn(turns', Excused', s, r)
        /\ (\A s \in Sessions : Ordered(turns, Excused, s))
             => \A s \in Sessions : Ordered(turns', Excused', s)
    <3> DEFINE W == Excused
               V == Excused'
    <3>1. W \subseteq V
      BY <2>3
    <3> HIDE DEF W, V
    <3>2. /\ \A s, r : HasTurn(turns, W, s, r) => HasTurn(turns, V, s, r)
          /\ (\A s \in Sessions : Ordered(turns, W, s))
               => \A s \in Sessions : Ordered(turns, V, s)
      BY <3>1, MoreExcused
    <3>3. QED
      BY <2>1, <3>2 DEF W, V
  <2>5. ~Seed(t)
    BY <1>7 DEF Arrive, Gate, Gated, Reject, Enter, Launch, Leave, Seed, AtStep, Admission
  <2>6. QED
    BY <1>2, <1>3, <2>3, <2>4, <2>5, HistoryFrame
<1>8. QED
  BY <1>4, <1>5, <1>6, <1>7 DEF HandlerStep

LEMMA HistoryCalls ==
    ASSUME ShapeInv, HearsInv, HistoryInv, NEW t \in Threads, NEW a \in Agents, CallStep(t, a)
    PROVE  HistoryInv'
<1>0. UNCHANGED <<job, wiped, silent>> /\ turns \in [Sessions -> Seq(TurnSet)]
  BY DEF CallStep, Lookup, Route, Resolve, Note, Record, Hear, Answered, Unanswered,
     OtherAnswered, OtherUnanswered, StoreAnswer, RecordTurn, unseen, HistoryInv
<1>1. Excused' = Excused /\ \A u \in Threads : Seeds(u)' <=> Seeds(u)
  BY <1>0 DEF Seeds, Excused
<1>2. ASSUME NEW u \in Threads, NEW b \in Agents, call'[u][b].heard = "foreign",
             ~(u = t /\ b = a /\ Hear(t, a))
      PROVE  call[u][b].heard = "foreign"
  BY <1>2, CallHears
<1>3. \A q : \A s \in Sessions : HasTurn(turns, Excused, s, q) =>
        q \in Excused \/ Turn("user", q) \in ToSet(turns[s])
  BY DEF HasTurn, ToSet
<1>4. ASSUME Hear(t, a), call'[t][a].heard = "foreign"
      PROVE  call[t][a].heard = "foreign" \/ job[t].id \in Excused
  <2>1. call[t][a].pc = "hear"
    BY <1>4 DEF Hear, CallAt
  <2>2. Seeds(t)
    BY <2>1 DEF HearsInv, HearsOf
  <2>3. HasTurn(turns, Excused, job[t].session, job[t].id) /\ job[t].session \in Sessions
    BY <2>2 DEF HistoryInv, Seeds, ShapeInv
  <2>4. CASE Turn("user", job[t].id) \in ToSet(turns[job[t].session])
    <3>1. Heard(job[t].session, job[t].id) \in {"nothing", "own"}
      BY <2>4 DEF Heard
    <3>2. QED
      BY <1>4, <3>1, CallHears
  <2>5. QED
    BY <1>3, <2>3, <2>4
<1>5. \A u \in Threads, b \in Agents : call'[u][b].heard = "foreign" =>
        job'[u].id \in Excused \/ (call[u][b].heard = "foreign" /\ job'[u].id = job[u].id)
  BY <1>0, <1>2, <1>4
<1>6. CASE UNCHANGED turns
  BY <1>0, <1>1, <1>5, <1>6, HistoryFrame
<1>7. CASE RecordTurn(t, a)
  <2>1. /\ call[t][a].pc = "turn"
        /\ turns' = [turns EXCEPT ![job[t].session] = Append(@, Turn("assistant", job[t].id))]
    BY <1>7 DEF RecordTurn, CallAt, AppendTurn
  <2>2. Seeds(t) /\ job[t].id \in Nat
    BY <2>1 DEF HearsInv, HearsOf
  <2>3. Grown(turns, Excused, turns')
    BY <2>1, <2>2, AnswerRecorded
  <2>4. QED
    BY <1>0, <1>1, <1>5, <2>3, GrownHistories
<1>8. QED
  BY <1>6, <1>7 DEF CallStep, Lookup, Route, Resolve, Note, Record, Hear, Answered, Unanswered,
     OtherAnswered, OtherUnanswered, StoreAnswer, unseen, mlxSessions

LEMMA HistoryAdmin == ASSUME ShapeInv, HistoryInv, AdminStep PROVE HistoryInv'
<1>0. UNCHANGED <<job, call>> /\ turns \in [Sessions -> Seq(TurnSet)]
  BY AdminChangesNoCall DEF HistoryInv
<1>1. \A u \in Threads : Seeds(u)' <=> Seeds(u)
  BY <1>0 DEF Seeds
<1>2. CASE UNCHANGED <<turns, wiped, silent>>
  <2>1. Excused' = Excused
    BY <1>2 DEF Excused
  <2>2. QED
    BY <1>0, <1>1, <1>2, <2>1, HistoryFrame
<1>3. CASE WipeSessions
  <2>1. PICK S : /\ turns' = [s \in Sessions |-> IF s \in S THEN <<>> ELSE turns[s]]
                 /\ wiped' = wiped \cup Seeded(S) /\ UNCHANGED silent
    BY <1>3 DEF WipeSessions, Erase
  <2>2. Excused' = Excused \cup Seeded(S)
    BY <2>1 DEF Excused
  <2>3. /\ turns' \in [Sessions -> Seq(TurnSet)]
        /\ \A q : \A x \in Sessions \ S :
             HasTurn(turns, Excused, x, q) => HasTurn(turns', Excused', x, q)
        /\ (\A x \in Sessions : Ordered(turns, Excused, x))
             => \A x \in Sessions : Ordered(turns', Excused', x)
    <3> DEFINE W == Excused
               V == Excused'
               U == turns'
    <3>1. W \subseteq V /\ U = [s \in Sessions |-> IF s \in S THEN <<>> ELSE turns[s]]
      BY <2>1, <2>2
    <3> HIDE DEF W, V, U
    <3>2. /\ U \in [Sessions -> Seq(TurnSet)]
          /\ \A q : \A x \in Sessions \ S : HasTurn(turns, W, x, q) => HasTurn(U, V, x, q)
          /\ (\A x \in Sessions : Ordered(turns, W, x)) => \A x \in Sessions : Ordered(U, V, x)
      BY <1>0, <3>1, TurnsErased
    <3>3. QED
      BY <3>2 DEF W, V, U
  <2>4. ASSUME NEW u \in Threads, Seeds(u),
               HasTurn(turns, Excused, job[u].session, job[u].id)
        PROVE  HasTurn(turns', Excused', job[u].session, job[u].id)
    <3>1. CASE job[u].session \in S
      BY <2>2, <2>4, <3>1 DEF Seeds, Seeded, HasTurn
    <3>2. CASE job[u].session \notin S
      BY <2>3, <2>4, <3>2 DEF Seeds, ShapeInv
    <3>3. QED
      BY <3>1, <3>2
  <2>5. QED
    BY <1>0, <1>1, <2>2, <2>3, <2>4, HistoryFrame
<1>4. QED
  BY <1>2, <1>3 DEF AdminStep, EditPrompt, ClearAfterEdit, CacheRequest, ResetBudget,
     SessionGoesIdle, GoIdle, mlxSessions

LEMMA HistoryStarts == Init => HistoryInv
<1> SUFFICES ASSUME Init PROVE HistoryInv
  OBVIOUS
<1>1. turns = [s \in Sessions |-> <<>>] /\ \A s \in Sessions : DOMAIN turns[s] = {}
  BY DEF Init, InitMlxSessions
<1>2. turns \in [Sessions -> Seq(TurnSet)]
  BY <1>1
<1>3. \A s \in Sessions : Ordered(turns, Excused, s)
  BY <1>1 DEF Ordered
<1>4. \A t \in Threads : ~Seeds(t) /\ \A a \in Agents : call[t][a].heard = "nothing"
  BY DEF Init, Seeds, NoJob, NoCall
<1>5. QED
  BY <1>2, <1>3, <1>4 DEF HistoryInv

LEMMA HistoryStep == ShapeInv /\ HearsInv /\ HistoryInv /\ [Next]_vars => HistoryInv'
<1> SUFFICES ASSUME ShapeInv, HearsInv, HistoryInv, [Next]_vars PROVE HistoryInv'
  OBVIOUS
<1>1. CASE UNCHANGED vars
  BY <1>1 DEF vars, handlers, mlxSessions, HistoryInv, Seeds, Excused
<1>2. QED
  BY <1>1, HistoryHandlers, HistoryCalls, HistoryAdmin DEF Next

\* Agents whose prompt is replaced by a session's history (stream_mlx) find the
\* turn they have to answer in it, and no answer is recorded before the turn it
\* answers; unless the session was erased under the request, or the request is
\* a stream that was left without an MLX agent and so recorded no turn.
THEOREM HistoriesHaveTheTurn == Spec => []HistoryHasTheTurn
<1>1. ShapeInv /\ HearsInv /\ HistoryInv /\ [Next]_vars
        => (ShapeInv /\ HearsInv /\ HistoryInv)'
  BY HistoryStep, HearsStep, ShapeStep
<1>2. Init => ShapeInv /\ HearsInv /\ HistoryInv
  BY HistoryStarts, HearsStarts, ShapeStarts
<1>3. HistoryInv => HistoryHasTheTurn
  BY DEF HistoryInv, HistoryHasTheTurn, Ordered, Excused
<1>4. QED
  BY <1>1, <1>2, <1>3, PTL DEF Spec

-----------------------------------------------------------------------------
(* How calls and requests go on, as far as types and routing are concerned    *)

\* A call that has been given its backend and is not over.
Late == {"note", "record", "hear", "serve", "other", "store", "turn"}

CallGoes(t, a, c, d) ==
    \/ c.pc = "start" /\ d.pc \in {"route", "done"} /\ d.routed = c.routed
    \/ /\ c.pc \in {"start", "route"} /\ d.routed = c.routed
       /\ d.pc = "resolve" /\ ShouldRoute
    \/ /\ c.pc \in {"start", "route"} /\ d.routed = c.routed
       /\ d.pc \in Late /\ ~ShouldRoute
    \/ c.pc = "resolve" /\ ctx.set /\ d.pc = "note" /\ d.routed = TRUE
    \/ c.pc \in Late /\ d.pc \in Late \cup {"done"} /\ d.routed = c.routed

LEMMA CallsGoOn ==
    ASSUME ShapeInv, NEW t \in Threads, NEW a \in Agents, CallStep(t, a)
    PROVE  LET c == call[t][a]
               d == call'[t][a]
           IN  /\ up /\ (UNCHANGED up \/ (c.pc = "resolve" /\ ~ctx.set /\ up' = FALSE))
               /\ d.backend = c.backend \/ d.backend \in Backends
               /\ \/ CallGoes(t, a, c, d)
                  \/ c.pc = "resolve" /\ ~ctx.set /\ d = c
<1>0. /\ call = [u \in Threads |-> [b \in Agents |-> call[u][b]]]
      /\ IsCall(call[t][a])
  BY DEF ShapeInv
<1> DEFINE c == call[t][a]
           Goal == /\ up /\ (UNCHANGED up \/ (c.pc = "resolve" /\ ~ctx.set /\ up' = FALSE))
                   /\ call'[t][a].backend = c.backend \/ call'[t][a].backend \in Backends
                   /\ \/ CallGoes(t, a, c, call'[t][a])
                      \/ c.pc = "resolve" /\ ~ctx.set /\ call'[t][a] = c
<1>1. up
  BY DEF CallStep, Lookup, Route, Resolve, Note, Record, Hear, Answered, Unanswered,
     OtherAnswered, OtherUnanswered, StoreAnswer, RecordTurn, CallAt
<1>2. Engine[a] \in Backends /\ Supports[a] \subseteq Backends
  BY RequestsAssumption DEF RequestsAssumption
<1>a. ASSUME NEW d, call' = [call EXCEPT ![t][a] = d] PROVE call'[t][a] = d
  BY <1>0, <1>a
<1>b. ASSUME NEW d, call' = [call EXCEPT ![t][a] = d], UNCHANGED up,
             d.backend = c.backend \/ d.backend \in Backends, CallGoes(t, a, c, d)
      PROVE  Goal
  <2>1. call'[t][a] = d
    BY <1>a, <1>b
  <2>2. QED
    BY <1>1, <1>b, <2>1
<1>c. ASSUME NEW l, Step(t, a, l), UNCHANGED up,
             \/ c.pc = "start" /\ l = "route"
             \/ c.pc \in {"start", "route"} /\ l = "resolve" /\ ShouldRoute
             \/ c.pc \in Late /\ l \in Late \cup {"done"}
      PROVE  Goal
  <2> DEFINE d == [c EXCEPT !.pc = l]
  <2>1. d.backend = c.backend /\ d.routed = c.routed /\ d.pc = l
    BY <1>0 DEF IsCall, CallFields
  <2>2. call' = [call EXCEPT ![t][a] = d]
    BY <1>0, <1>c DEF Step
  <2> HIDE DEF d, Goal
  <2>3. CallGoes(t, a, c, d)
    BY <1>c, <2>1 DEF CallGoes
  <2>4. QED
    BY <1>b, <1>c, <2>1, <2>2, <2>3
\* Its place and its text, or what it heard, change.
<1>d. ASSUME NEW l, NEW text, call' = [call EXCEPT ![t][a].pc = l, ![t][a].text = text],
             UNCHANGED up,
             \/ c.pc = "start" /\ l = "done"
             \/ c.pc \in Late /\ l \in Late \cup {"done"}
      PROVE  Goal
  <2> DEFINE d == [c EXCEPT !.pc = l, !.text = text]
  <2>1. d.backend = c.backend /\ d.routed = c.routed /\ d.pc = l
    BY <1>0 DEF IsCall, CallFields
  <2>2. call' = [call EXCEPT ![t][a] = d]
    BY <1>0, <1>d
  <2> HIDE DEF d, Goal
  <2>3. CallGoes(t, a, c, d)
    BY <1>d, <2>1 DEF CallGoes
  <2>4. QED
    BY <1>b, <1>d, <2>1, <2>2, <2>3
<1>e. \A backend : Onwards(c, backend) \in {"hear", "serve"}
  BY DEF Onwards
<1>f. Kept(c) \in {"store", "turn", "done"}
  BY DEF Kept
<1> USE DEF Late
<1>3. ASSUME Lookup(t, a) PROVE Goal
  <2>1. UNCHANGED up /\ c.pc = "start"
    BY <1>3 DEF Lookup, unseen, CallAt
  <2>2. ASSUME call' = [call EXCEPT ![t][a].pc = "done", ![t][a].text = map[Key(c.ask)].response]
        PROVE  Goal
    <3> HIDE DEF Goal
    <3>1. QED
      BY <1>d, <2>1, <2>2
  <2>3. ASSUME Step(t, a, "route") PROVE Goal
    <3> HIDE DEF Goal
    <3>1. QED
      BY <1>c, <2>1, <2>3
  <2>4. \/ Step(t, a, "route")
        \/ call' = [call EXCEPT ![t][a].pc = "done", ![t][a].text = map[Key(c.ask)].response]
    BY <1>3 DEF Lookup
  <2> HIDE DEF Goal
  <2>5. QED
    BY <2>2, <2>3, <2>4
<1>4. ASSUME Route(t, a) PROVE Goal
  <2>1. UNCHANGED up /\ c.pc \in {"start", "route"}
    BY <1>4 DEF Route, unseen, CallAt
  <2>2. ASSUME ShouldRoute PROVE Goal
    <3>1. Step(t, a, "resolve")
      BY <1>4, <2>2 DEF Route
    <3> HIDE DEF Goal
    <3>2. QED
      BY <1>c, <2>1, <2>2, <3>1
  <2>3. ASSUME ~ShouldRoute PROVE Goal
    <3> DEFINE l == IF routing THEN "note" ELSE Onwards(call[t][a], Engine[a])
               d == [c EXCEPT !.backend = Engine[a], !.pc = l]
    <3>0. l \in {"note", "hear", "serve"}
      BY <1>e
    <3>1. call' = [call EXCEPT ![t][a].backend = Engine[a], ![t][a].pc = l]
      BY <1>4, <2>3 DEF Route
    <3> HIDE DEF l
    <3>2. d.backend = Engine[a] /\ d.routed = c.routed /\ d.pc = l
      BY <1>0 DEF IsCall, CallFields
    <3>3. call' = [call EXCEPT ![t][a] = d]
      BY <1>0, <3>1
    <3> HIDE DEF d, Goal
    <3>4. CallGoes(t, a, c, d)
      BY <2>1, <2>3, <3>0, <3>2 DEF CallGoes
    <3>5. QED
      BY <1>2, <1>b, <2>1, <3>2, <3>3, <3>4
  <2>4. QED
    BY <2>2, <2>3
<1>5. ASSUME Resolve(t, a) PROVE Goal
  <2>1. c.pc = "resolve"
    BY <1>5 DEF Resolve, CallAt
  <2>2. ASSUME ctx.set PROVE Goal
    <3>1. PICK b \in Supports[a] : call' = [call EXCEPT ![t][a].pc = "note",
                                      ![t][a].backend = b, ![t][a].routed = TRUE]
      BY <1>5, <2>2 DEF Resolve
    <3> DEFINE d == [c EXCEPT !.pc = "note", !.backend = b, !.routed = TRUE]
    <3>2. d.backend = b /\ d.routed = TRUE /\ d.pc = "note"
      BY <1>0 DEF IsCall, CallFields
    <3>3. call' = [call EXCEPT ![t][a] = d]
      BY <1>0, <3>1
    <3>6. UNCHANGED up
      BY <1>5, <2>2 DEF Resolve
    <3> HIDE DEF d, Goal
    <3>4. CallGoes(t, a, c, d) /\ d.backend \in Backends
      BY <1>2, <2>1, <2>2, <3>1, <3>2 DEF CallGoes
    <3>5. QED
      BY <1>b, <3>3, <3>4, <3>6
  <2>3. ASSUME ~ctx.set PROVE Goal
    BY <1>1, <1>5, <2>1, <2>3 DEF Resolve
  <2>4. QED
    BY <2>2, <2>3
<1>6. ASSUME Note(t, a) \/ Record(t, a) \/ StoreAnswer(t, a) \/ RecordTurn(t, a) PROVE Goal
  <2>1. UNCHANGED up /\ c.pc \in Late
    BY <1>6 DEF Note, Record, StoreAnswer, RecordTurn, unseen, CallAt
  <2>2. PICK l \in Late \cup {"done"} : Step(t, a, l)
    BY <1>6, <1>e DEF Note, Record, StoreAnswer, RecordTurn
  <2> HIDE DEF Goal
  <2>3. QED
    BY <1>c, <2>1, <2>2
<1>7. ASSUME Hear(t, a) PROVE Goal
  <2> DEFINE d == [c EXCEPT !.pc = "serve", !.heard = Heard(job[t].session, job[t].id)]
  <2>1. d.backend = c.backend /\ d.routed = c.routed /\ d.pc = "serve"
    BY <1>0 DEF IsCall, CallFields
  <2>2. call' = [call EXCEPT ![t][a] = d] /\ UNCHANGED up /\ c.pc = "hear"
    BY <1>0, <1>7 DEF Hear, unseen, CallAt
  <2> HIDE DEF d, Goal
  <2>3. CallGoes(t, a, c, d)
    BY <2>1, <2>2 DEF CallGoes
  <2>4. QED
    BY <1>b, <2>1, <2>2, <2>3
<1>8. ASSUME Answered(t, a) \/ Unanswered(t, a) \/ OtherAnswered(t, a) \/ OtherUnanswered(t, a)
      PROVE  Goal
  <2>1. UNCHANGED up /\ c.pc \in Late
    BY <1>8 DEF Answered, Unanswered, OtherAnswered, OtherUnanswered, unseen, CallAt
  <2>2. \/ \E l \in Late \cup {"done"} : \E text :
             call' = [call EXCEPT ![t][a].pc = l, ![t][a].text = text]
        \/ \E l \in Late : Step(t, a, l)
    <3>1. ASSUME NEW l \in Late \cup {"done"}, NEW text,
                 call' = [call EXCEPT ![t][a].pc = l, ![t][a].text = text]
          PROVE  \E m \in Late \cup {"done"} : \E x :
                   call' = [call EXCEPT ![t][a].pc = m, ![t][a].text = x]
      BY <3>1
    <3>2. CASE Answered(t, a)
      BY <1>f, <3>1, <3>2 DEF Answered
    <3>3. CASE Unanswered(t, a)
      BY <3>1, <3>3 DEF Unanswered
    <3>4. CASE OtherAnswered(t, a)
      BY <3>1, <3>4 DEF OtherAnswered
    <3>5. CASE OtherUnanswered(t, a)
      BY <3>1, <3>5 DEF OtherUnanswered
    <3>6. QED
      BY <1>8, <3>2, <3>3, <3>4, <3>5
  <2> HIDE DEF Goal
  <2>3. QED
    BY <1>c, <1>d, <2>1, <2>2
<1>9. Goal
  <2> HIDE DEF Goal
  <2>1. QED
    BY <1>3, <1>4, <1>5, <1>6, <1>7, <1>8 DEF CallStep
<1>10. QED
  BY <1>9

\* What a handler's step does to a request that it does not begin: it ends it, or
\* goes on with it, and then its calls are as before, collected or new.
Ends(t) == job'[t] = NoJob /\ \A a \in Agents : call'[t][a] = NoCall

GoesOn(t) ==
    /\ job[t].at # "idle" /\ job'[t].at \in Steps \ {"idle"}
    /\ job'[t].alone = job[t].alone /\ job'[t].route = job[t].route
    /\ job'[t].mode = job[t].mode /\ job'[t].id = job[t].id
    /\ job'[t].session = job[t].session
    /\ Dispatching(t)' => (Dispatching(t) /\ UNCHANGED ctx) \/ ctx'.set
    /\ \A a \in Agents :
         LET c == call[t][a]
             d == call'[t][a]
         IN  \/ d = c /\ (c.pc # "off" => job'[t].at = job[t].at)
             \/ d.pc = "off" /\ d.backend \in Backends
             \/ d.pc = "start" /\ d.routed = FALSE /\ d.backend \in Backends

LEMMA NewCallPlain ==
    ASSUME NEW t, NEW a, NEW p, NEW quoted
    PROVE  LET d == NewCall(t, a, p, quoted)
           IN  d.pc = "start" /\ d.routed = FALSE /\ d.backend \in Backends
BY DEF NewCall, NoCall, Backends

LEMMA HandlersGoOn ==
    ASSUME ShapeInv, NEW t \in Threads, HandlerStep(t)
    PROVE  /\ up /\ UNCHANGED <<up, routing, prompts, editors>>
           /\ \/ Arrive(t)
              \/ Ends(t) /\ UNCHANGED arrivals
              \/ GoesOn(t) /\ UNCHANGED arrivals
<1>0. /\ t \in DOMAIN job /\ IsJob(job[t])
      /\ job[t].at \notin {"gated", "run"} => \A a \in Agents : call[t][a].pc = "off"
  BY DEF ShapeInv
<1>1. up /\ UNCHANGED <<up, routing, prompts, editors>>
  BY DEF HandlerStep, Arrive, Gate, Gated, Reject, Enter, Sweep, Seed, Launch, Leave, LeaveMlx,
     AtStep, Admission, dispatchState
<1>2. CASE Reject(t) \/ Leave(t) \/ LeaveMlx(t)
  <2>1. Dropped(t) /\ UNCHANGED <<arrivals, setup>>
    BY <1>2 DEF Reject, Leave, LeaveMlx
  <2>2. job'[t] = NoJob /\ \A a \in Agents : call'[t][a] = NoCall
    BY <2>1 DEF Dropped, ShapeInv
  <2>3. QED
    BY <1>1, <2>1, <2>2 DEF Ends
\* From one place to the next, without a call.
<1>3. CASE Enter(t) \/ Sweep(t) \/ Seed(t)
  <2>1. UNCHANGED <<call, arrivals>> /\ job[t].at \in {"parsed", "admit", "sweep", "seed"}
    BY <1>3 DEF Enter, Sweep, Seed, Admission, AtStep
  <2>2. /\ job'[t].at \in Steps \ {"idle"} /\ job'[t].alone = job[t].alone
        /\ job'[t].route = job[t].route /\ job'[t].mode = job[t].mode
        /\ job'[t].id = job[t].id /\ job'[t].session = job[t].session
    <3>1. CASE Enter(t)
      BY <3>1, EnterMoves DEF Steps
    <3>2. CASE Sweep(t) \/ Seed(t)
      BY <1>0, <3>2 DEF Sweep, Seed, Goto, IsJob, JobFields, Steps
    <3>3. QED
      BY <1>3, <3>1, <3>2
  <2>3. Dispatching(t)' => (Dispatching(t) /\ UNCHANGED ctx) \/ ctx'.set
    <3>1. CASE Enter(t)
      BY <3>1 DEF Enter, SetContext
    <3>2. CASE Sweep(t) \/ Seed(t)
      BY <2>2, <3>2 DEF Sweep, Seed, AtStep, Dispatching, dispatchState
    <3>3. QED
      BY <1>3, <3>1, <3>2
  <2>4. GoesOn(t)
    BY <1>0, <2>1, <2>2, <2>3 DEF GoesOn
  <2>5. QED
    BY <1>1, <2>1, <2>4
<1>4. CASE Gate(t)
  <2>1. PICK a \in setup.agents : CallThem(t, {a}, Summarise, {})
    BY <1>4 DEF Gate
  <2>2. /\ job[t].at = "parsed" /\ UNCHANGED <<arrivals, ctx>>
        /\ job' = [job EXCEPT ![t].at = "gated"]
    BY <1>4 DEF Gate, AtStep, Goto, dispatchState
  <2>3. /\ job'[t].at = "gated" /\ job'[t].alone = job[t].alone
        /\ job'[t].route = job[t].route /\ job'[t].mode = job[t].mode
        /\ job'[t].id = job[t].id /\ job'[t].session = job[t].session
    BY <1>0, <2>2 DEF IsJob, JobFields
  <2>4. \A b \in Agents : \/ call'[t][b] = call[t][b] /\ call[t][b].pc = "off"
                          \/ call'[t][b] = NewCall(t, b, Summarise, {})
    BY <1>0, <2>1, <2>2, CallsAreMade
  <2>5. \A b \in Agents :
          \/ call'[t][b] = call[t][b] /\ call[t][b].pc = "off"
          \/ /\ call'[t][b].pc = "start" /\ call'[t][b].routed = FALSE
             /\ call'[t][b].backend \in Backends
    <3>1. \A b \in Agents : LET d == NewCall(t, b, Summarise, {})
                            IN  d.pc = "start" /\ d.routed = FALSE /\ d.backend \in Backends
      BY NewCallPlain
    <3> QED
      BY <2>4, <3>1
  <2>6. GoesOn(t)
    BY <2>2, <2>3, <2>5 DEF GoesOn, Dispatching, Steps
  <2>7. QED
    BY <1>1, <2>2, <2>6
<1>5. CASE Gated(t)
  <2>1. PICK text : job' = [job EXCEPT ![t].at = "admit", ![t].prompt = text]
    BY <1>5 DEF Gated
  <2>2. /\ job[t].at = "gated" /\ UNCHANGED <<arrivals, ctx>> /\ Joined(t)
        /\ CallThem(t, {}, Summarise, {})
    BY <1>5 DEF Gated, AtStep, dispatchState
  <2>3. /\ job'[t].at = "admit" /\ job'[t].alone = job[t].alone
        /\ job'[t].route = job[t].route /\ job'[t].mode = job[t].mode
        /\ job'[t].id = job[t].id /\ job'[t].session = job[t].session
    BY <1>0, <2>1 DEF IsJob, JobFields
  <2>4. \A b \in Agents : \/ call'[t][b] = call[t][b] /\ call[t][b].pc = "off"
                          \/ call'[t][b] = NoCall
    BY <2>2, CallsAreMade DEF Joined
  <2>5. NoCall.pc = "off" /\ NoCall.backend \in Backends
    BY DEF NoCall, Backends
  <2>6. GoesOn(t)
    BY <2>2, <2>3, <2>4, <2>5 DEF GoesOn, Dispatching, Steps
  <2>7. QED
    BY <1>1, <2>2, <2>6
<1>6. CASE Launch(t)
  <2>1. PICK S, p, quoted : CallThem(t, S, p, quoted)
    BY <1>6 DEF Launch
  <2>2. /\ job[t].at = "run" /\ UNCHANGED <<arrivals, ctx>>
        /\ job' = [job EXCEPT ![t].phase = @ + 1]
    BY <1>6 DEF Launch, AtStep, dispatchState
  <2>3. /\ job'[t].at = "run" /\ job'[t].alone = job[t].alone
        /\ job'[t].route = job[t].route /\ job'[t].mode = job[t].mode
        /\ job'[t].id = job[t].id /\ job'[t].session = job[t].session
    BY <1>0, <2>2 DEF IsJob, JobFields
  <2>4. \A b \in Agents : call'[t][b] \in {call[t][b], NoCall, NewCall(t, b, p, quoted)}
    BY <2>1, CallsAreMade
  <2>5. NoCall.pc = "off" /\ NoCall.backend \in Backends
    BY DEF NoCall, Backends
  <2>6. \A b \in Agents :
          \/ call'[t][b] = call[t][b]
          \/ call'[t][b].pc = "off" /\ call'[t][b].backend \in Backends
          \/ /\ call'[t][b].pc = "start" /\ call'[t][b].routed = FALSE
             /\ call'[t][b].backend \in Backends
    <3>1. \A b \in Agents : LET d == NewCall(t, b, p, quoted)
                            IN  d.pc = "start" /\ d.routed = FALSE /\ d.backend \in Backends
      BY NewCallPlain
    <3> QED
      BY <2>4, <2>5, <3>1
  <2>7. GoesOn(t)
    BY <2>2, <2>3, <2>6 DEF GoesOn, Dispatching, Steps
  <2>8. QED
    BY <1>1, <2>2, <2>7
<1>7. QED
  BY <1>1, <1>2, <1>3, <1>4, <1>5, <1>6 DEF HandlerStep

-----------------------------------------------------------------------------
(* A request that has the process to itself                                   *)

\* Its calls are routed.
OwnWay(t) == /\ routing /\ job[t].at = "run"
             /\ Sequential(job[t].mode) /\ job[t].route \notin MlxRoutes

AloneOf(t) ==
    /\ up
    /\ \A x \in Threads \ {t} : ~Running(x)
    /\ Dispatching(t) => ctx.set
    /\ \A a \in Agents :
         /\ call[t][a].pc \in {"start", "route"} => call[t][a].routed = FALSE
         /\ call[t][a].pc = "resolve" => OwnWay(t)
         /\ call[t][a].pc \in Late => call[t][a].routed = OwnWay(t)

AloneInv == \A t \in Threads : Running(t) /\ job[t].alone => AloneOf(t)

\* The context it finds is its own.
LEMMA RoutedAlone ==
    ASSUME ShapeInv, ContextInv, NEW t \in Threads, AloneOf(t),
           NEW a \in Agents, call[t][a].pc # "off"
    PROVE  ShouldRoute <=> OwnWay(t)
<1>1. job[t].at \in {"gated", "run"}
  BY DEF ShapeInv
<1>2. ASSUME ShouldRoute PROVE OwnWay(t)
  <2>1. PICK u \in Threads : Dispatching(u) /\ job[u].mode = ctx.mode
    BY <1>2 DEF ShouldRoute, ContextInv
  <2>2. u = t
    BY <2>1 DEF AloneOf, Running, Dispatching
  <2>3. QED
    BY <1>1, <1>2, <2>1, <2>2 DEF ShouldRoute, OwnWay, Dispatching
<1>3. ASSUME OwnWay(t) PROVE ShouldRoute
  <2>1. Dispatching(t)
    BY <1>3 DEF OwnWay, Dispatching
  <2>2. PICK u \in Threads : Dispatching(u) /\ job[u].mode = ctx.mode
    BY <2>1 DEF AloneOf, ContextInv
  <2>3. u = t
    BY <2>2 DEF AloneOf, Running, Dispatching
  <2>4. QED
    BY <1>3, <2>1, <2>2, <2>3 DEF ShouldRoute, OwnWay, AloneOf
<1>4. QED
  BY <1>2, <1>3

LEMMA AloneHandlers ==
    ASSUME ShapeInv, AloneInv, NEW t \in Threads, HandlerStep(t)
    PROVE  AloneInv'
<1>0. up /\ UNCHANGED <<up, routing>>
  BY HandlersGoOn
<1>1. CASE Arrive(t)
  <2>1. PICK route \in setup.routes, mode \in setup.modes,
             s \in setup.sessions, user \in setup.users :
          job' = [x \in Threads |-> IF x = t THEN NewJob(t, route, mode, s, user)
                                   ELSE IF Running(x) THEN Accompanied(x) ELSE job[x]]
    BY <1>1 DEF Arrive
  <2>2. UNCHANGED call /\ job[t].at = "idle"
    BY <1>1 DEF Arrive, AtStep
  <2> DEFINE j == NewJob(t, route, mode, s, user)
  <2>3. /\ j.route = route /\ j.at = IF route \in MlxRoutes THEN "sweep" ELSE "parsed"
        /\ j.alone = \A x \in Threads \ {t} : ~Running(x)
    BY DEF NewJob, NoJob
  <2> HIDE DEF j
  <2>4. job'[t] = j
    BY <2>1 DEF j
  <2>5. \A x \in Threads \ {t} :
          job'[x].alone = FALSE \/ (job'[x] = job[x] /\ ~Running(x))
    <3>1. \A x \in Threads : Accompanied(x).alone = FALSE
      BY DEF ShapeInv, IsJob, JobFields, Accompanied
    <3>2. TAKE x \in Threads \ {t}
    <3>3. job'[x] = IF Running(x) THEN Accompanied(x) ELSE job[x]
      BY <2>1
    <3>4. CASE Running(x)
      BY <3>1, <3>3, <3>4
    <3>5. CASE ~Running(x)
      BY <3>3, <3>5
    <3>6. QED
      BY <3>4, <3>5
  <2>6. ASSUME NEW x \in Threads, Running(x)', job'[x].alone PROVE AloneOf(x)'
    <3>1. x = t
      BY <2>5, <2>6 DEF Running
    <3>2. \A y \in Threads \ {t} : ~Running(y)
      BY <2>3, <2>4, <2>6, <3>1
    <3>3. \A y \in Threads \ {t} : ~Running(y)'
      BY <2>1, <3>2 DEF Running
    <3>4. ~Dispatching(t)'
      BY <2>3, <2>4 DEF Dispatching
    <3>5. \A a \in Agents : call'[t][a].pc = "off"
      BY <2>2 DEF ShapeInv
    <3>6. QED
      BY <1>0, <3>1, <3>3, <3>4, <3>5 DEF AloneOf, Late
  <2>7. QED
    BY <2>6 DEF AloneInv
<1>2. CASE ~Arrive(t)
  <2>1. \A u \in Threads \ {t} : job'[u] = job[u]
    <3>1. CASE Reject(t) \/ Leave(t) \/ LeaveMlx(t)
      BY <3>1 DEF Reject, Leave, LeaveMlx, Dropped, ShapeInv
    <3>2. CASE Gate(t) \/ Gated(t) \/ Enter(t) \/ Sweep(t) \/ Seed(t) \/ Launch(t)
      BY <3>2, EnterMoves DEF Gate, Gated, Sweep, Seed, Launch, Goto, ShapeInv
    <3>3. QED
      BY <1>2, <3>1, <3>2 DEF HandlerStep
  <2>2. Running(t)
    BY <1>2 DEF HandlerStep, Gate, Gated, Reject, Enter, Sweep, Seed, Launch, Leave, LeaveMlx,
       AtStep, Admission, Running
  <2>3. \A u \in Threads \ {t} : ~(Running(u)' /\ job'[u].alone)
    BY <2>1, <2>2 DEF AloneInv, AloneOf, Running
  <2>4. ASSUME Running(t)', job'[t].alone PROVE AloneOf(t)'
    <3>1. GoesOn(t)
      <4>1. ~Ends(t)
        BY <2>4 DEF Ends, NoJob, Running
      <4>2. QED
        BY <1>2, <4>1, HandlersGoOn
    <3>2. AloneOf(t)
      BY <2>2, <2>4, <3>1 DEF GoesOn, AloneInv
    <3>3. \A x \in Threads \ {t} : ~Running(x)'
      BY <2>1, <3>2 DEF AloneOf, Running
    <3>4. Dispatching(t)' => ctx'.set
      BY <3>1, <3>2 DEF GoesOn, AloneOf
    <3>5. job'[t].at = job[t].at => (OwnWay(t)' <=> OwnWay(t))
      BY <1>0, <3>1 DEF GoesOn, OwnWay
    <3>6. ASSUME NEW a \in Agents
          PROVE  /\ call'[t][a].pc \in {"start", "route"} => call'[t][a].routed = FALSE
                 /\ call'[t][a].pc = "resolve" => OwnWay(t)'
                 /\ call'[t][a].pc \in Late => call'[t][a].routed = OwnWay(t)'
      <4>1. CASE call'[t][a] = call[t][a] /\ (call[t][a].pc # "off" => job'[t].at = job[t].at)
        BY <3>2, <3>5, <4>1 DEF AloneOf, Late, OwnWay
      <4>2. CASE call'[t][a].pc = "off" \/ (call'[t][a].pc = "start" /\ call'[t][a].routed = FALSE)
        BY <4>2 DEF Late
      <4>3. QED
        BY <3>1, <4>1, <4>2 DEF GoesOn
    <3>7. QED
      BY <1>0, <3>2, <3>3, <3>4, <3>6 DEF AloneOf
  <2>5. QED
    BY <2>3, <2>4 DEF AloneInv
<1>3. QED
  BY <1>1, <1>2

LEMMA AloneCalls ==
    ASSUME ShapeInv, ContextInv, AloneInv, NEW t \in Threads, NEW a \in Agents, CallStep(t, a)
    PROVE  AloneInv'
<1>1. UNCHANGED <<ctx, routing, job>>
  BY DEF CallStep, Lookup, Route, Resolve, Note, Record, Hear, Answered, Unanswered,
     OtherAnswered, OtherUnanswered, StoreAnswer, RecordTurn, unseen, dispatchState
<1>2. call[t][a].pc # "off" /\ \A u \in Threads, b \in Agents :
        <<u, b>> # <<t, a>> => call'[u][b] = call[u][b]
  BY CallHears
<1>3. \A u \in Threads : /\ Running(u)' <=> Running(u)
                         /\ Dispatching(u)' <=> Dispatching(u)
                         /\ OwnWay(u)' <=> OwnWay(u)
  BY <1>1 DEF Running, Dispatching, OwnWay
<1>4. Running(t)
  BY <1>2 DEF ShapeInv, Running
<1>5. ASSUME NEW u \in Threads, Running(u)', job'[u].alone PROVE AloneOf(u)'
  <2>1. AloneOf(u)
    BY <1>1, <1>3, <1>5 DEF AloneInv
  <2>2. u = t
    BY <1>4, <2>1 DEF AloneOf
  <2>3. ShouldRoute <=> OwnWay(t)
    BY <1>2, <2>1, <2>2, RoutedAlone
  <2>4. call[t][a].pc = "resolve" => ctx.set
    BY <2>1, <2>2 DEF AloneOf, OwnWay, Dispatching
  <2>5. UNCHANGED up /\ CallGoes(t, a, call[t][a], call'[t][a])
    BY <2>4, CallsGoOn
  <2>6. /\ call'[t][a].pc \in {"start", "route"} => call'[t][a].routed = FALSE
        /\ call'[t][a].pc = "resolve" => OwnWay(t)
        /\ call'[t][a].pc \in Late => call'[t][a].routed = OwnWay(t)
    BY <2>1, <2>2, <2>3, <2>5 DEF CallGoes, AloneOf, Late, OwnWay
  <2>7. \A b \in Agents :
          /\ call'[t][b].pc \in {"start", "route"} => call'[t][b].routed = FALSE
          /\ call'[t][b].pc = "resolve" => OwnWay(t)
          /\ call'[t][b].pc \in Late => call'[t][b].routed = OwnWay(t)
    BY <1>2, <2>1, <2>2, <2>6 DEF AloneOf
  <2>8. \A x \in Threads \ {t} : ~Running(x)'
    BY <1>3, <2>1, <2>2 DEF AloneOf
  <2>9. Dispatching(t)' => ctx'.set
    BY <1>1, <1>3, <2>1, <2>2 DEF AloneOf
  <2>10. up'
    BY <2>1, <2>5 DEF AloneOf
  <2>11. \A b \in Agents :
          /\ call'[t][b].pc \in {"start", "route"} => call'[t][b].routed = FALSE
          /\ call'[t][b].pc = "resolve" => OwnWay(t)'
          /\ call'[t][b].pc \in Late => call'[t][b].routed = OwnWay(t)'
    BY <1>1, <2>7 DEF OwnWay
  <2>12. QED
    BY <2>2, <2>8, <2>9, <2>10, <2>11 DEF AloneOf
<1>6. QED
  BY <1>5 DEF AloneInv

LEMMA AloneStep == ShapeInv /\ ContextInv /\ AloneInv /\ [Next]_vars => AloneInv'
<1> SUFFICES ASSUME ShapeInv, ContextInv, AloneInv, [Next]_vars PROVE AloneInv'
  OBVIOUS
<1>1. CASE AdminStep \/ UNCHANGED vars
  <2>1. UNCHANGED <<up, job, call>>
    BY <1>1, AdminChangesNoCall DEF vars, handlers
  <2>2. UNCHANGED <<ctx, routing>>
    BY <1>1 DEF AdminStep, EditPrompt, ClearAfterEdit, CacheRequest, ResetBudget, WipeSessions,
       SessionGoesIdle, dispatchState, vars
  <2>3. QED
    BY <2>1, <2>2 DEF AloneInv, AloneOf, Running, Dispatching, OwnWay
<1>2. QED
  BY <1>1, AloneHandlers, AloneCalls DEF Next

\* A request that has the process to itself is routed as its own mode says, and
\* the process survives it: no other request's context, and no missing one, can
\* be met by its calls.
THEOREM AloneIsOwn == Spec => []AloneIsRoutedByItsMode
<1>1. ShapeInv /\ LedgerInv /\ ContextInv /\ AloneInv /\ [Next]_vars
        => (ShapeInv /\ LedgerInv /\ ContextInv /\ AloneInv)'
  BY AloneStep, ContextStep, LedgerStep, ShapeStep
<1>2. Init => ShapeInv /\ LedgerInv /\ ContextInv /\ AloneInv
  <2>1. Init => AloneInv
    BY DEF Init, AloneInv, Running, NoJob
  <2>2. QED
    BY <2>1, ContextStarts, LedgerStarts, ShapeStarts
<1>3. AloneInv => AloneIsRoutedByItsMode
  BY DEF AloneInv, AloneOf, OwnWay, AloneIsRoutedByItsMode, Late
<1>4. QED
  BY <1>1, <1>2, <1>3, PTL DEF Spec

-----------------------------------------------------------------------------
(* Types                                                                      *)

\* What TypeOK says and no invariant above does.
PlaceOf(t) ==
    /\ job[t].id <= arrivals /\ job[t].at \in Steps
    /\ job[t].route \in Routes /\ job[t].session \in Sessions \cup {NoSession}
    /\ \A a \in Agents : call[t][a].pc \in Pcs /\ call[t][a].backend \in Backends

PlacesInv == up \in BOOLEAN /\ routing = setup.routing /\ \A t \in Threads : PlaceOf(t)

RouterInv ==
    /\ ctx \in [set : BOOLEAN, mode : Modes, by : Nat]
    /\ decisions \subseteq [agent : Agents, by : Nat, from : Routes \cup {"gate"}]

RosterInv ==
    /\ prompts \in [Agents -> 0 .. PromptEdits] /\ editors \in Nat
    /\ idle \subseteq Sessions /\ wiped \subseteq Nat /\ silent \subseteq Nat
    /\ \A t \in Threads : job[t].roster \subseteq Agents

LEMMA PlacesStep == ShapeInv /\ HearsInv /\ PlacesInv /\ [Next]_vars => PlacesInv'
<1> SUFFICES ASSUME ShapeInv, HearsInv, PlacesInv, [Next]_vars PROVE PlacesInv'
  OBVIOUS
<1>1. ASSUME NEW t \in Threads, HandlerStep(t) PROVE PlacesInv'
  <2>1. up' \in BOOLEAN /\ routing' = setup'.routing
    BY <1>1, HandlersGoOn, OthersStay DEF PlacesInv
  <2>2. PlaceOf(t) /\ arrivals \in Nat /\ job[t].id \in Nat
    BY DEF PlacesInv, HearsInv, HearsOf
  <2>3. arrivals' \in Nat /\ arrivals <= arrivals'
    <3>1. arrivals' \in {arrivals, arrivals + 1}
      BY <1>1 DEF HandlerStep, Arrive, Gate, Gated, Reject, Enter, Sweep, Seed, Launch, Leave,
         LeaveMlx
    <3>2. QED
      BY <2>2, <3>1
  <2>4. ASSUME NEW u \in Threads, u # t PROVE PlaceOf(u)'
    <3>1. /\ \A a \in Agents : call'[u][a] = call[u][a]
          /\ job'[u].id = job[u].id /\ job'[u].at = job[u].at
          /\ job'[u].route = job[u].route /\ job'[u].session = job[u].session
      BY <1>1, <2>4, OthersStay
    <3>2. job[u].id <= arrivals /\ job[u].id \in Nat
      BY DEF PlacesInv, PlaceOf, HearsInv, HearsOf
    <3>3. job'[u].id <= arrivals'
      BY <2>2, <2>3, <3>1, <3>2
    <3>4. QED
      BY <3>1, <3>3 DEF PlacesInv, PlaceOf
  <2>5. PlaceOf(t)'
    <3>1. CASE Arrive(t)
      <4>1. PICK route \in setup.routes, mode \in setup.modes,
                 s \in setup.sessions, user \in setup.users :
              job' = [x \in Threads |-> IF x = t THEN NewJob(t, route, mode, s, user)
                                       ELSE IF Running(x) THEN Accompanied(x) ELSE job[x]]
        BY <3>1 DEF Arrive
      <4>2. UNCHANGED call /\ arrivals' = arrivals + 1
        BY <3>1 DEF Arrive
      <4>3. route \in Routes /\ s \in Sessions
        BY RequestsAssumption DEF ShapeInv, RequestsAssumption, TypeOfSetup
      <4> DEFINE j == NewJob(t, route, mode, s, user)
      <4>4. /\ j.id = arrivals + 1 /\ j.route = route /\ j.session = s
            /\ j.at \in {"sweep", "parsed"}
        BY NewJobShape
      <4> HIDE DEF j
      <4>5. job'[t] = j
        BY <4>1 DEF j
      <4>6. j.id <= arrivals' /\ j.at \in Steps
        BY <2>2, <4>2, <4>4 DEF Steps
      <4>7. QED
        BY <2>2, <4>2, <4>3, <4>4, <4>5, <4>6 DEF PlaceOf
    <3>2. CASE Ends(t)
      <4>1. /\ NoJob.id = 0 /\ NoJob.at \in Steps /\ NoJob.route \in Routes
            /\ NoJob.session = NoSession /\ NoCall.pc \in Pcs /\ NoCall.backend \in Backends
        BY DEF NoJob, NoCall, Steps, Routes, Pcs, Backends
      <4>2. QED
        BY <2>3, <3>2, <4>1 DEF Ends, PlaceOf
    <3>3. CASE GoesOn(t) /\ UNCHANGED arrivals
      <4>1. "off" \in Pcs /\ "start" \in Pcs
        BY DEF Pcs
      <4>2. QED
        BY <2>2, <3>3, <4>1 DEF GoesOn, PlaceOf
    <3>4. QED
      BY <1>1, <3>1, <3>2, <3>3, HandlersGoOn
  <2>6. QED
    BY <2>1, <2>4, <2>5 DEF PlacesInv
<1>2. ASSUME NEW t \in Threads, NEW a \in Agents, CallStep(t, a) PROVE PlacesInv'
  <2>1. UNCHANGED <<setup, routing, job, arrivals>>
    BY <1>2 DEF CallStep, Lookup, Route, Resolve, Note, Record, Hear, Answered, Unanswered,
       OtherAnswered, OtherUnanswered, StoreAnswer, RecordTurn, unseen, dispatchState
  <2>2. \A u \in Threads, b \in Agents : <<u, b>> # <<t, a>> => call'[u][b] = call[u][b]
    BY <1>2, CallHears
  <2>3. up' \in BOOLEAN /\ call'[t][a].backend \in Backends /\ call'[t][a].pc \in Pcs
    <3>1. PlaceOf(t) /\ up \in BOOLEAN
      BY DEF PlacesInv
    <3>2. up' \in BOOLEAN
      BY <1>2, <3>1, CallsGoOn
    <3>3. call'[t][a].backend \in Backends
      BY <1>2, <3>1, CallsGoOn DEF PlaceOf
    <3>4. call'[t][a].pc \in Pcs
      BY <1>2, CallsGoOn DEF CallGoes, Late, Pcs
    <3>5. QED
      BY <3>2, <3>3, <3>4
  <2>4. QED
    BY <2>1, <2>2, <2>3 DEF PlacesInv, PlaceOf
<1>3. CASE AdminStep \/ UNCHANGED vars
  <2>1. UNCHANGED <<setup, up, arrivals, job, call>>
    BY <1>3, AdminChangesNoCall DEF vars, handlers
  <2>2. UNCHANGED routing
    BY <1>3 DEF AdminStep, EditPrompt, ClearAfterEdit, CacheRequest, ResetBudget, WipeSessions,
       SessionGoesIdle, dispatchState, vars
  <2>3. QED
    BY <2>1, <2>2 DEF PlacesInv, PlaceOf
<1>4. QED
  BY <1>1, <1>2, <1>3 DEF Next

LEMMA RouterStep == ShapeInv /\ HearsInv /\ PlacesInv /\ RouterInv /\ [Next]_vars => RouterInv'
<1> SUFFICES ASSUME ShapeInv, HearsInv, PlacesInv, RouterInv, [Next]_vars PROVE RouterInv'
  OBVIOUS
<1>1. \A t \in Threads : job[t].id \in Nat /\ job[t].mode \in Modes /\ job[t].route \in Routes
  BY DEF HearsInv, HearsOf, PlacesInv, PlaceOf
<1>2. \A t \in Threads : Origin(t) \in Routes \cup {"gate"}
  BY <1>1 DEF Origin
<1>3. ASSUME NEW t \in Threads, HandlerStep(t) PROVE RouterInv'
  <2>1. CASE Leave(t)
    BY <2>1 DEF Leave, ClearContext, NoContext, RouterInv, Modes
  <2>2. CASE Enter(t)
    BY <1>1, <2>2 DEF Enter, SetContext, RouterInv
  <2>3. CASE UNCHANGED <<ctx, decisions>>
    BY <2>3 DEF RouterInv
  <2>4. QED
    BY <1>3, <2>1, <2>2, <2>3 DEF HandlerStep, Arrive, Gate, Gated, Reject, Sweep, Seed, Launch,
       LeaveMlx, dispatchState
<1>4. ASSUME NEW t \in Threads, NEW a \in Agents, CallStep(t, a) PROVE RouterInv'
  <2>1. UNCHANGED ctx
    BY <1>4 DEF CallStep, Lookup, Route, Resolve, Note, Record, Hear, Answered, Unanswered,
       OtherAnswered, OtherUnanswered, StoreAnswer, RecordTurn, dispatchState
  <2>2. UNCHANGED decisions \/ RecordDecision(a, job[t].id, Origin(t))
    BY <1>4 DEF CallStep, Lookup, Route, Resolve, Note, Record, Hear, Answered, Unanswered,
       OtherAnswered, OtherUnanswered, StoreAnswer, RecordTurn, dispatchState
  <2>3. CASE UNCHANGED decisions
    BY <2>1, <2>3 DEF RouterInv
  <2>4. CASE RecordDecision(a, job[t].id, Origin(t))
    <3> DEFINE new == [agent |-> a, by |-> job[t].id, from |-> Origin(t)]
    <3>1. new \in [agent : Agents, by : Nat, from : Routes \cup {"gate"}]
      BY <1>1, <1>2
    <3>2. decisions' = {d \in decisions : d.agent # a} \cup {new}
      BY <2>4 DEF RecordDecision
    <3> HIDE DEF new
    <3>3. QED
      BY <2>1, <3>1, <3>2 DEF RouterInv
  <2>5. QED
    BY <2>2, <2>3, <2>4
<1>5. CASE AdminStep \/ UNCHANGED vars
  <2>1. UNCHANGED <<ctx, decisions>>
    BY <1>5 DEF AdminStep, EditPrompt, ClearAfterEdit, CacheRequest, ResetBudget, WipeSessions,
       SessionGoesIdle, dispatchState, vars
  <2>2. QED
    BY <2>1 DEF RouterInv
<1>6. QED
  BY <1>3, <1>4, <1>5 DEF Next

LEMMA SeededAreRequests == HearsInv => \A S : Seeded(S) \subseteq Nat
BY DEF HearsInv, HearsOf, Seeded

\* A request serves configured agents only.
LEMMA RostersAreListed ==
    ASSUME ShapeInv, NEW t \in Threads, HandlerStep(t), NEW u \in Threads
    PROVE  job'[u].roster = job[u].roster \/ job'[u].roster \subseteq setup.agents
<1>0. IsJob(job[t]) /\ IsJob(job[u]) /\ job = [x \in Threads |-> job[x]]
  BY DEF ShapeInv
<1>1. CASE Arrive(t)
  <2>1. PICK route \in setup.routes, mode \in setup.modes,
             s \in setup.sessions, user \in setup.users :
          job' = [x \in Threads |-> IF x = t THEN NewJob(t, route, mode, s, user)
                                   ELSE IF Running(x) THEN Accompanied(x) ELSE job[x]]
    BY <1>1 DEF Arrive
  <2>2. job'[u] \in {NewJob(t, route, mode, s, user), Accompanied(u), job[u]}
    BY <2>1
  <2>3. NewJob(t, route, mode, s, user).roster \subseteq setup.agents
    BY DEF NewJob, NoJob, Roster
  <2>4. Accompanied(u).roster = job[u].roster
    BY <1>0 DEF Accompanied, IsJob, JobFields
  <2>5. QED
    BY <2>2, <2>3, <2>4
<1>2. CASE Reject(t) \/ Leave(t) \/ LeaveMlx(t)
  <2>1. Dropped(t) /\ NoJob.roster = {}
    BY <1>2 DEF Reject, Leave, LeaveMlx, NoJob
  <2>2. QED
    BY <1>0, <2>1 DEF Dropped
<1>3. CASE Enter(t)
  BY <1>3, EnterMoves
<1>4. CASE Gate(t) \/ Gated(t) \/ Sweep(t) \/ Seed(t) \/ Launch(t)
  <2>1. CASE u # t
    BY <1>0, <1>4, <2>1 DEF Gate, Gated, Sweep, Seed, Launch, Goto
  <2>2. CASE u = t /\ Gated(t)
    BY <1>0, <2>2 DEF Gated, IsJob, JobFields
  <2>3. CASE u = t /\ ~Gated(t)
    <3>1. \/ job' = [job EXCEPT ![t].phase = @ + 1]
          \/ \E l : job' = [job EXCEPT ![t].at = l]
      BY <1>4, <2>3 DEF Gate, Sweep, Seed, Launch, Goto
    <3>2. QED
      BY <1>0, <2>3, <3>1 DEF IsJob, JobFields
  <2>4. QED
    BY <2>1, <2>2, <2>3
<1>5. QED
  BY <1>1, <1>2, <1>3, <1>4 DEF HandlerStep

LEMMA RosterStep == ShapeInv /\ HearsInv /\ RosterInv /\ [Next]_vars => RosterInv'
<1> SUFFICES ASSUME ShapeInv, HearsInv, RosterInv, [Next]_vars PROVE RosterInv'
  OBVIOUS
<1> USE DEF RosterInv
<1>0. setup.agents \subseteq Agents /\ setup.sessions \subseteq Sessions
  BY RequestsAssumption DEF ShapeInv, RequestsAssumption, TypeOfSetup
<1>1. ASSUME NEW t \in Threads, HandlerStep(t) PROVE RosterInv'
  <2>1. UNCHANGED <<prompts, editors>>
    BY <1>1, HandlersGoOn
  <2>2. \A u \in Threads : job'[u].roster \subseteq Agents
    BY <1>0, <1>1, RostersAreListed
  <2>3. CASE Sweep(t)
    BY <2>1, <2>2, <2>3, SeededAreRequests DEF Sweep, Erase
  <2>4. CASE Enter(t)
    <3>1. UNCHANGED <<idle, wiped>> /\ job[t].id \in Nat
      BY <2>4 DEF Enter, mlxSessions, HearsInv, HearsOf
    <3>2. silent' \subseteq silent \cup {job[t].id}
      BY <2>4, EnterMoves
    <3>3. QED
      BY <2>1, <2>2, <3>1, <3>2
  <2>5. CASE UNCHANGED <<wiped, silent>> /\ idle' \subseteq idle
    BY <2>1, <2>2, <2>5
  <2>6. QED
    BY <1>1, <2>3, <2>4, <2>5 DEF HandlerStep, Arrive, Gate, Gated, Reject, Seed, Launch, Leave,
       LeaveMlx, AppendTurn, mlxSessions
<1>2. ASSUME NEW t \in Threads, NEW a \in Agents, CallStep(t, a) PROVE RosterInv'
  <2>1. UNCHANGED <<prompts, editors, wiped, silent, job>> /\ idle' \subseteq idle
    BY <1>2 DEF CallStep, Lookup, Route, Resolve, Note, Record, Hear, Answered, Unanswered,
       OtherAnswered, OtherUnanswered, StoreAnswer, RecordTurn, unseen, AppendTurn, mlxSessions
  <2>2. QED
    BY <2>1
<1>3. CASE AdminStep
  <2>0. UNCHANGED job
    BY <1>3, AdminChangesNoCall
  <2>1. ASSUME NEW a \in setup.agents, EditPrompt(a) PROVE RosterInv'
    <3>1. prompts' = [prompts EXCEPT ![a] = @ + 1] /\ prompts[a] < PromptEdits /\ a \in Agents
      BY <1>0, <2>1 DEF EditPrompt
    <3>2. prompts[a] + 1 \in 0 .. PromptEdits
      BY <3>1, RequestsAssumption DEF RequestsAssumption
    <3>3. prompts' \in [Agents -> 0 .. PromptEdits]
      BY <3>1, <3>2
    <3>4. UNCHANGED <<idle, wiped, silent>> /\ editors' = editors + 1
      BY <2>1 DEF EditPrompt, mlxSessions
    <3>5. QED
      BY <2>0, <3>3, <3>4
  <2>2. CASE ClearAfterEdit
    BY <2>0, <2>2 DEF ClearAfterEdit, mlxSessions
  <2>3. CASE CacheRequest \/ \E s \in setup.sessions : ResetBudget(s)
    BY <2>0, <2>3 DEF CacheRequest, ResetBudget, mlxSessions
  <2>4. ASSUME NEW s \in setup.sessions, SessionGoesIdle(s) PROVE RosterInv'
    BY <1>0, <2>0, <2>4 DEF SessionGoesIdle, GoIdle
  <2>5. CASE WipeSessions
    <3>1. PICK S : Erase(S) /\ wiped' = wiped \cup Seeded(S)
      BY <2>5 DEF WipeSessions
    <3>2. UNCHANGED <<prompts, editors, silent>>
      BY <2>5 DEF WipeSessions
    <3>3. QED
      BY <2>0, <3>1, <3>2, SeededAreRequests DEF Erase
  <2>6. QED
    BY <1>3, <2>1, <2>2, <2>3, <2>4, <2>5 DEF AdminStep
<1>4. CASE UNCHANGED vars
  BY <1>4 DEF vars, handlers, mlxSessions
<1>5. QED
  BY <1>1, <1>2, <1>3, <1>4 DEF Next

LEMMA TypesStart == Init => PlacesInv /\ RouterInv /\ RosterInv
<1> SUFFICES ASSUME Init PROVE PlacesInv /\ RouterInv /\ RosterInv
  OBVIOUS
<1>1. PlacesInv
  BY DEF Init, InitDispatchState, PlacesInv, PlaceOf, NoJob, NoCall, Steps, Routes, Pcs, Backends
<1>2. RouterInv
  BY DEF Init, InitDispatchState, RouterInv, NoContext, Modes
<1>3. RosterInv
  BY RequestsAssumption DEF Init, InitMlxSessions, RosterInv, RequestsAssumption, NoJob
<1>4. QED
  BY <1>1, <1>2, <1>3

\* Every variable has its type, in the state the requests share and in each.
THEOREM TypeCorrect == Spec => []TypeOK
<1> DEFINE Inv == /\ ShapeInv /\ CacheInv /\ LedgerInv /\ HearsInv /\ HistoryInv
                  /\ PlacesInv /\ RouterInv /\ RosterInv
<1>1. Inv /\ [Next]_vars => Inv'
  BY CacheStepInv, HearsStep, HistoryStep, LedgerStep, PlacesStep, RosterStep, RouterStep,
     ShapeStep
<1>2. Init => Inv
  BY CacheStartsWell, HearsStarts, HistoryStarts, LedgerStarts, ShapeStarts, TypesStart
<1>3. Inv => TypeOK
  <2> SUFFICES ASSUME Inv PROVE TypeOK
    OBVIOUS
  <2>1. \A t \in Threads : job[t].id \in 0 .. arrivals
    BY DEF HearsInv, HearsOf, PlacesInv, PlaceOf
  <2>2. \A t \in Threads :
         /\ job[t].at \in Steps /\ job[t].phase \in Nat
         /\ job[t].route \in Routes /\ job[t].mode \in Modes
         /\ job[t].session \in Sessions \cup {NoSession}
         /\ \A a \in Agents : call[t][a].pc \in Pcs /\ call[t][a].backend \in Backends
    BY DEF HearsInv, HearsOf, PlacesInv, PlaceOf
  <2>3. turns \in [Sessions -> Seq([role : {"user", "assistant"}, by : Nat])]
    BY DEF HistoryInv, TurnSet
  <2>4. /\ cache_enabled \in BOOLEAN /\ ttl_secs \in Ttls /\ max_entries \in CacheSizes
        /\ ledger \in [Sessions -> [budget : Nat, consumed : Nat]]
        /\ tl \in [Threads -> Sessions \cup {NoSession}] /\ spent \in [Sessions -> Nat]
    BY DEF CacheInv, LedgerInv
  <2>5. setup \in Setups /\ up \in BOOLEAN /\ routing = setup.routing /\ arrivals \in Nat
    BY DEF ShapeInv, PlacesInv, HearsInv
  <2>6. QED
    BY <2>1, <2>2, <2>3, <2>4, <2>5 DEF RouterInv, RosterInv, TypeOK
<1> HIDE DEF Inv
<1>4. QED
  BY <1>1, <1>2, <1>3, PTL DEF Spec
=============================================================================
