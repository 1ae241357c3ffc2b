----------------------------- MODULE MCExecutor -----------------------------
(* Two web threads and a caller of push_timed_event.  The budgets let requests *)
(* meet each other, requests meet timers, and timers each other.               *)
EXTENDS Executor, TLC

CONSTANTS h1, h2, c1
ThePosters == {"clock", "executor", h1, h2}
TheAsks    == (h1 :> "EV_HTML_HASHRATE") @@ (h2 :> "EV_HTML_RESULTS")
Budget(t, n1, n2, c) == ("clock" :> t) @@ (h1 :> n1) @@ (h2 :> n2) @@ (c1 :> c)
TheBudgets == {Budget(1, 2, 1, 0), Budget(2, 1, 1, 0), Budget(2, 1, 0, 1), Budget(4, 0, 0, 1)}
=============================================================================
