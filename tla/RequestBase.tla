----------------------------- MODULE RequestBase -----------------------------
(* The names that the requests of a coordinator and the state they share are  *)
(* built from.                                                                *)
CONSTANTS
    Threads,    \* the HTTP server's threads
    Sessions,   \* session ids
    NoSession,  \* the empty session id
    Agents

ASSUME RequestBaseAssumption == NoSession \notin Sessions

Routes == {"architect", "stream", "mlx", "submit"}
MlxRoutes == {"mlx", "submit"}
Modes == {"flat", "cascade", "pipeline", "router"}
Sequential(mode) == mode \in {"pipeline", "cascade", "router"}
=============================================================================
