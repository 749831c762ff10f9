------------------------- MODULE MC_Authentication -------------------------
(* Four submissions of requests stamped 1 and 4.  The window reaches one    *)
(* tick to each side and the counter lives four ticks or five, so that it   *)
(* can expire while requests of the second stamp pass; the second version   *)
(* of the table changes every field.  Either one call of the script is      *)
(* repeated or the table changes.                                           *)
EXTENDS Authentication, TLC

MCField == {"window", "ttl", "limit"}

MCSaved == << [window |-> 1, ttl |-> 4, limit |-> 2],
              [window |-> 0, ttl |-> 5, limit |-> 1] >>

Symmetry == Permutations(Submission)
=============================================================================
