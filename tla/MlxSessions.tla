----------------------------- MODULE MlxSessions -----------------------------
(* The message histories of MLX sessions (mlx_session_store.cpp), one store   *)
(* per process under one mutex. A message is its role and the request that    *)
(* recorded it. get_or_create, and with it the cap on the number of sessions, *)
(* is called by nothing.                                                      *)
EXTENDS Sequences, SequencesExt, RequestBase

VARIABLES
    turns,  \* sessions_: [session -> messages], absent as the empty sequence
    idle    \* sessions whose last use is longer ago than max_idle_secs_

mlxSessions == <<turns, idle>>

InitMlxSessions == turns = [s \in Sessions |-> <<>>] /\ idle = {}

Turn(role, r) == [role |-> role, by |-> r]

\* append_message: creates the session when it has to, and touches it.
AppendTurn(s, role, r) ==
    /\ turns' = [turns EXCEPT ![s] = Append(@, Turn(role, r))]
    /\ idle' = idle \ {s}

\* clear (one session), clear_all, cleanup_idle
Erase(S) ==
    /\ turns' = [s \in Sessions |-> IF s \in S THEN <<>> ELSE turns[s]]
    /\ idle' = idle \ S

\* Nobody appends to s for max_idle_secs_. Reading does not count as use.
GoIdle(s) == turns[s] # <<>> /\ s \notin idle /\ idle' = idle \cup {s} /\ UNCHANGED turns

\* What get_messages holds for request r: its own user turn, other turns only,
\* or nothing.
Heard(s, r) == IF turns[s] = <<>> THEN "nothing"
               ELSE IF Turn("user", r) \in ToSet(turns[s]) THEN "own" ELSE "foreign"
=============================================================================
