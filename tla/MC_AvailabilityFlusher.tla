----------------------- MODULE MC_AvailabilityFlusher -----------------------
(* Node 1 starts at full availability and node 2 just above zero, so that    *)
(* both clamps and the "already full" case occur within MaxMarks marks.      *)
EXTENDS AvailabilityFlusher

MCNode == {1, 2}

MCConfig ==
    [v \in {"v"} |->
        [n \in MCNode |->
            [pos |-> n, url |-> "u", weight |-> 1, maxConn |-> 1, status |-> 1,
             availability |-> IF n = 1 THEN FullAvailability ELSE 7]]]
=============================================================================
