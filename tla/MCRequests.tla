----------------------------- MODULE MCRequests -----------------------------
(* Instances of Requests for TLC. Each configuration lets a part of the       *)
(* shared state work: the cache, the dispatch context, the ledger, the MLX    *)
(* sessions. The run explores all of them.                                    *)
EXTENDS Requests, TLC

CONSTANTS t1, t2, s1, s2

TwoThreads == {t1, t2}
TwoSessions == {s1, s2}

\* A llama.cpp agent that an MLX server can stand in for, and two MLX agents,
\* one that has no other backend.
ThreeAgents == {"coder", "tester", "critic"}
Engines == [a \in ThreeAgents |-> IF a = "coder" THEN "llama" ELSE "mlx"]
SupportedBackends == [a \in ThreeAgents |-> IF a = "critic" THEN {"mlx"} ELSE {"llama", "mlx"}]

UserPrompts == {"ask", "again"}

Plain == [routing |-> FALSE, budget |-> 0, reject |-> FALSE, gate |-> FALSE,
          cached |-> FALSE, ttl |-> 1, size |-> 1,
          agents |-> {"coder"}, routes |-> {"architect"},
          modes |-> {"flat"}, sessions |-> {s1}, users |-> {"ask"},
          ops |-> {}, threads |-> 2, requests |-> 2]

\* The cache: requests that overlap edits and each other; and one request after
\* the other, with every operation on the cache in between.
CacheRaces == [Plain EXCEPT !.cached = TRUE, !.users = {"ask", "again"},
                            !.ops = {"edit", "time"}, !.requests = 3]
CacheOperations == [Plain EXCEPT !.cached = TRUE, !.users = {"ask", "again"},
                            !.ops = {"edit", "toggle", "resize", "flush", "time"},
                            !.threads = 1, !.requests = 3, !.size = 2]
CacheReduced == [Plain EXCEPT !.cached = TRUE, !.modes = {"cascade"},
                            !.agents = {"coder", "critic"}, !.ops = {"edit"},
                            !.threads = 1]

\* The dispatch context: two dispatches side by side, one beside a request of
\* an MLX route; every mode of one.
Overlap == [Plain EXCEPT !.routing = TRUE, !.routes = {"architect", "stream"},
                         !.modes = {"flat", "pipeline"}]
OverlapMlx == [Plain EXCEPT !.routing = TRUE, !.routes = {"architect", "mlx"},
                         !.agents = {"tester"}, !.modes = {"pipeline"}]
OverlapGate == [Plain EXCEPT !.routing = TRUE, !.gate = TRUE, !.budget = 1, !.reject = TRUE,
                         !.modes = {"pipeline"}]
EveryMode == [Plain EXCEPT !.routing = TRUE, !.agents = {"coder", "tester"},
                         !.routes = {"architect", "stream"}, !.modes = Modes,
                         !.threads = 1, !.requests = 1]

\* The ledger, with budgets that run out.
Budgets == [Plain EXCEPT !.budget = 2, !.reject = TRUE, !.gate = TRUE,
                         !.agents = {"tester"}, !.routes = {"architect", "mlx"},
                         !.modes = {"pipeline"}, !.sessions = {s1, s2},
                         !.ops = {"reset"}, !.threads = 1, !.requests = 3]
BudgetRaces == [Plain EXCEPT !.budget = 2, !.reject = TRUE,
                         !.routes = {"architect", "stream"},
                         !.modes = {"flat", "pipeline"}]

\* The histories: two requests in one session; two agents in one request.
OneSession == [Plain EXCEPT !.agents = {"critic"}, !.routes = {"stream", "mlx", "submit"},
                         !.modes = {"flat", "pipeline"}, !.ops = {"wipe", "time"}]
OneHistory == [Plain EXCEPT !.agents = {"tester", "critic"},
                         !.routes = {"stream", "mlx", "submit"},
                         !.modes = {"flat", "pipeline", "cascade"},
                         !.ops = {"wipe"}, !.threads = 1, !.requests = 1]

\* One request after the other in one session; breakers decide whether an MLX
\* agent is among those that are streamed.
NoTurn == [Plain EXCEPT !.routing = TRUE, !.agents = {"coder", "tester"},
                         !.routes = {"stream"}, !.modes = {"pipeline"}, !.threads = 1]

ThreadSymmetry == Permutations(TwoThreads)

Configurations == {CacheRaces, CacheOperations, CacheReduced, Overlap, OverlapMlx,
                   OverlapGate, EveryMode, Budgets, BudgetRaces, OneSession, OneHistory, NoTurn}
FlatAndPipeline == {BudgetRaces}
=============================================================================
