--------------------------- MODULE MCRateLimiter ---------------------------
(* A scope that refills faster than once a tick's token, and a slow one. *)
EXTENDS RateLimiter, TLC

MCCapacity == "query" :> 3 @@ "login" :> 2
MCPeriod == "query" :> 4 @@ "login" :> 5
=============================================================================
