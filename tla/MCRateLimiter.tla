---------------------------- MODULE MCRateLimiter ----------------------------
(***************************************************************************)
(* An instance of RateLimiter for TLC: one client with a limit of its own, *)
(* one for its whole route, and a default between the two.                 *)
(***************************************************************************)
EXTENDS RateLimiter

CONSTANTS q1, q2

MCUsers == {"u"}
MCTenants == {"t"}
MCScopes == {<<"u", "">>, <<"", "">>}
MCLimits == {0, 2}
MCRequests == {q1, q2}
===============================================================================
