----------------------------- MODULE MCPortGate -----------------------------
(* Instances of PortGate for TLC.                                           *)
EXTENDS PortGate, TLC

CONSTANTS t1, t2, t3, t4, t5

Agent(limit_, budget_) == [max_concurrency |-> limit_, kv_token_budget |-> budget_]

ThreeThreads == {t1, t2, t3}
FourThreads == ThreeThreads \cup {t4}
FiveThreads == FourThreads \cup {t5}

\* The port's first agent asks for no gate, the second installs both.
ThreeSlotsAndTokens == <<Agent(0, 0), Agent(3, 3)>>

MixedEstimates == t1 :> 2 @@ t2 :> 1 @@ t3 :> 3
FourEstimates == MixedEstimates @@ t4 :> 1

\* A prompt of less than 4 characters to an agent with max_tokens 0 is
\* estimated at 0.
FiveEstimates == MixedEstimates @@ t4 :> 0 @@ t5 :> 1
=============================================================================
