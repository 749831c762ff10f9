--------------------------- MODULE MC_CacheLayer ---------------------------
(* Two gateways, and a row that changes twice: the second version of it is  *)
(* missing, so that "EMPTY" gets into Redis.                                *)
EXTENDS CacheLayer

MCGateway == {"ga", "gb"}
=============================================================================
