------------------------------ MODULE MC_Proxy ------------------------------
(* Two nodes and the versions of their service a cache may hold one after   *)
(* another: "alone" has lost node 2 and changed the weight and the limit of  *)
(* node 1, "empty" has lost both.                                            *)
EXTENDS Proxy, TLC

n1 == 1
n2 == 2

NodeConf(pos, weight, max) ==
    [pos |-> pos, url |-> "u", weight |-> weight, maxConn |-> max, status |-> 1,
     availability |-> FullAvailability]

MCConfig ==
    [v \in {"both", "alone", "empty"} |->
        CASE v = "both"  -> [n \in {n1, n2} |-> NodeConf(n, n, 1)]
          [] v = "alone" -> [n \in {n1} |-> NodeConf(1, 2, 0)]
          [] v = "empty" -> NoObjects]

MCNode == {n1, n2}
MCVersion == DOMAIN MCConfig
OneVersion == {"both"}

(* Requests are interchangeable; the run with a liveness property does not   *)
(* use this.                                                                 *)
Symmetry == Permutations(Request)
=============================================================================
