---------------------------- MODULE MC_FrontDoor ----------------------------
(* Seven requests against a base limit of five: the throttled, nominal and  *)
(* extended limits are 4, 5 and 6, so every limit can be reached and        *)
(* exceeded by a load admitted under a larger one.  One dependency, whose   *)
(* status takes two probes to change either way and whose probe may hang,   *)
(* and two attempts for a mail.                                             *)
EXTENDS FrontDoor

MCDep == {"DB"}
MCDeps == <<"DB">>
MCThreshold == [d \in MCDep |-> 2]
=============================================================================
