---------------------------- MODULE MC_RateLimit ----------------------------
(* Four requests of one client on two routes: their limits per second are   *)
(* one and two, and the limit per minute is two on both, on the second by   *)
(* the default.  A window is forgotten after four ticks and a bucket after  *)
(* five, the least the assumptions allow; there is time for a request after *)
(* either.                                                                  *)
EXTENDS RateLimit, TLC

MCRoute == {"a", "b"}
MCRouteQps == [a |-> 1, b |-> 2]
MCRouteQpm == [a |-> 2, b |-> 0]

Symmetry == Permutations(Request)
=============================================================================
