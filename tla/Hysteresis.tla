----------------------------- MODULE Hysteresis -----------------------------
(***************************************************************************)
(* What a health checker promises of each dependency: its status changes   *)
(* with the threshold-th probe in a row that contradicts it, and not       *)
(* before; a probe that agrees with it starts the count again.             *)
(*                                                                         *)
(* The last probe is part of the state, with a turn that every probe       *)
(* changes: a step that probes is never a stutter, so that an              *)
(* implementation has to count every one of them.                          *)
(***************************************************************************)
EXTENDS Integers

CONSTANTS Dep, FailThreshold, OKThreshold

VARIABLES
    healthy,          \* the status of each dependency
    contrary,         \* probes in a row that contradicted it
    probe             \* the last probe: its outcome, and whose turn is next

vars == <<healthy, contrary, probe>>

Threshold(d) == IF healthy[d] THEN FailThreshold[d] ELSE OKThreshold[d]

Init ==
    /\ healthy = [d \in Dep |-> TRUE]
    /\ contrary = [d \in Dep |-> 0]
    /\ probe = [d \in Dep |-> [ok |-> TRUE, turn |-> FALSE]]

\* One more probe of d, with this outcome.
Probe(d, ok) == probe' = [probe EXCEPT ![d] = [ok |-> ok, turn |-> ~@.turn]]

Agree(d) ==
    /\ Probe(d, healthy[d])
    /\ contrary' = [contrary EXCEPT ![d] = 0]
    /\ UNCHANGED healthy

Contradict(d) ==
    /\ Probe(d, ~healthy[d])
    /\ contrary[d] + 1 < Threshold(d)
    /\ contrary' = [contrary EXCEPT ![d] = @ + 1]
    /\ UNCHANGED healthy

Flip(d) ==
    /\ Probe(d, ~healthy[d])
    /\ contrary[d] + 1 >= Threshold(d)
    /\ healthy' = [healthy EXCEPT ![d] = ~@]
    /\ contrary' = [contrary EXCEPT ![d] = 0]

Next == \E d \in Dep : Agree(d) \/ Contradict(d) \/ Flip(d)

Spec == Init /\ [][Next]_vars
=============================================================================
