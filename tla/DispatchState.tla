---------------------------- MODULE DispatchState ----------------------------
(* What the requests of one coordinator process share while they run:         *)
(*   - the dispatch context and the decisions of the backend router           *)
(*     (backend_router.cpp), one of each per process, under one mutex;        *)
(*   - the token ledger (token_ledger.cpp), an entry per session;             *)
(*   - the session a thread works for (session_context.h), a thread-local of  *)
(*     the server's threads. The threads that std::async starts have theirs   *)
(*     empty, and nothing sets it.                                            *)
(* The operations say what becomes of these; Requests says when they are      *)
(* called. The token counts are abstracted to one unit per answered call.     *)
EXTENDS Naturals, RequestBase

VARIABLES
    routing,    \* g_cfg.enabled, set at startup
    ctx,        \* g_ctx and g_ctx_set; `by` (history) is the request that set it
    decisions,  \* g_last_decisions: agents; who called, and from where (history)
    ledger,     \* g_ledger: [session -> [budget, consumed]], absent as zeros
    tl          \* tl_id: [thread -> session]

dispatchState == <<routing, ctx, decisions, ledger, tl>>

NoContext == [set |-> FALSE, mode |-> "flat", by |-> 0]

InitDispatchState(enabled) ==
    /\ routing = enabled
    /\ ctx = NoContext /\ decisions = {}
    /\ ledger = [s \in Sessions |-> [budget |-> 0, consumed |-> 0]]
    /\ tl = [t \in Threads |-> NoSession]

-----------------------------------------------------------------------------
(* The backend router                                                         *)

SetContext(mode, r) == ctx' = [set |-> TRUE, mode |-> mode, by |-> r]

\* Mutant: the decisions are left for the next one to replace.
ClearContextOnly == ctx' = NoContext /\ UNCHANGED decisions

\* clear_dispatch_context: it clears the context, whoever has set it.
ClearContext == ctx' = NoContext /\ decisions' = {}

\* Mutant: any mode is routed.
ShouldRouteAny == routing /\ ctx.set

\* should_route; the flat mode it excludes by name is not sequential.
ShouldRoute == routing /\ ctx.set /\ Sequential(ctx.mode)

\* record_decision
RecordDecision(a, by, from) ==
    decisions' = {d \in decisions : d.agent # a}
                   \cup {[agent |-> a, by |-> by, from |-> from]}

-----------------------------------------------------------------------------
(* The token ledger                                                           *)

\* set_budget; zero, no budget, is not passed on.
SetBudget(s, budget) ==
    ledger' = IF budget > 0 /\ s # NoSession
                THEN [ledger EXCEPT ![s].budget = budget] ELSE ledger

\* add: nothing without a session.
Charge(s) ==
    ledger' = IF s # NoSession THEN [ledger EXCEPT ![s].consumed = @ + 1] ELSE ledger

\* reset
ResetLedger(s) == ledger' = [ledger EXCEPT ![s] = [budget |-> 0, consumed |-> 0]]

-----------------------------------------------------------------------------
(* The session of a thread                                                    *)

SetSession(t, s) == tl' = [tl EXCEPT ![t] = s]
ClearSession(t) == tl' = [tl EXCEPT ![t] = NoSession]
=============================================================================
