------------------------- MODULE ConcurrencyLimiter -------------------------
(***************************************************************************)
(* The global concurrency limiter (internal/service/concurrencyLimiter)    *)
(* and the middleware that uses it (internal/middleware/concurrencyLimit). *)
(*                                                                         *)
(* Every request is a goroutine of net/http.  The middleware calls Acquire *)
(* before the rest of the chain and releases in a `defer`, so that a panic *)
(* of a later handler releases too.  A background goroutine recomputes the *)
(* limit on every tick from the utilisation it finds.  All methods hold    *)
(* the limiter's mutex for their whole body: one action per method.        *)
(***************************************************************************)
EXTENDS Integers, FiniteSets

CONSTANTS
    Request,          \* goroutines serving requests
    CpuCount,         \* runtime.NumCPU()
    MaxPerCpu,        \* gateway.max-concurrency-per-cpu of the configuration
    FloorPerCpu       \* the 50 of the lower bound `cpuCount * 50`

ASSUME LimiterConstants ==
    /\ IsFiniteSet(Request)
    /\ CpuCount \in Nat \ {0}
    /\ MaxPerCpu \in Nat
    /\ FloorPerCpu \in Nat \ {0}

VARIABLES
    current,          \* currentConcurrency
    max,              \* maxConcurrency
    serving           \* the requests between Acquire and the deferred Release

vars == <<current, max, serving>>

-----------------------------------------------------------------------------
(* Operators named ...Bug are plausible mistakes of the operator they stand *)
(* before; no behaviour of the model uses them.  They show that the         *)
(* properties below are sensitive to the code.                              *)

(* The three limits a recalculation chooses from.  float64 arithmetic on   *)
(* 0.8, 1.2 and 0.3 agrees with these integer forms for every int32.       *)

base == CpuCount * MaxPerCpu

minConcurrency == CpuCount * FloorPerCpu

AtLeastFloor(limit) == IF limit < minConcurrency THEN minConcurrency ELSE limit

Throttled == AtLeastFloor((base * 4) \div 5)
Nominal   == AtLeastFloor(base)
Extended  == AtLeastFloor((base * 6) \div 5)

\* Bug: scale the limit in force instead of the base limit.
CompoundingLimitBug(c, m) ==
    IF m > 0 /\ c * 5 > m * 4 THEN AtLeastFloor((m * 4) \div 5)
    ELSE IF m <= 0 \/ c * 10 < m * 3 THEN AtLeastFloor((m * 6) \div 5)
    ELSE Nominal

\* Bug: skip the adjustment when there is no load.
KeepsLimitWhenIdleBug(c, m) ==
    IF c = 0 THEN m
    ELSE IF m > 0 /\ c * 5 > m * 4 THEN Throttled
    ELSE IF m <= 0 \/ c * 10 < m * 3 THEN Extended
    ELSE Nominal

\* The limit recalculateMaxConcurrency computes from the load c and limit m.
\* With m = 0 the usage ratio is 0.
NewLimit(c, m) ==
    IF m > 0 /\ c * 5 > m * 4 THEN Throttled
    ELSE IF m <= 0 \/ c * 10 < m * 3 THEN Extended
    ELSE Nominal

-----------------------------------------------------------------------------
Init ==
    /\ current = 0
    /\ max = base
    /\ serving = {}

\* Bug: admit at the limit.
AcquireAtLimitBug(r) ==
    /\ r \notin serving
    /\ current <= max
    /\ current' = current + 1
    /\ serving' = serving \cup {r}
    /\ UNCHANGED max

\* The middleware admits r: Acquire returned true.
Acquire(r) ==
    /\ r \notin serving
    /\ current < max
    /\ current' = current + 1
    /\ serving' = serving \cup {r}
    /\ UNCHANGED max

\* Bug: release both in the handler and in the defer, without the guard.
ReleaseTwiceBug(r) ==
    /\ r \in serving
    /\ current' = current - 2
    /\ serving' = serving \ {r}
    /\ UNCHANGED max

\* The deferred Release of r, after a normal return or a panic of the chain.
Release(r) ==
    /\ r \in serving
    /\ current' = IF current > 0 THEN current - 1 ELSE current
    /\ serving' = serving \ {r}
    /\ UNCHANGED max

\* A tick of autoAdjust (or its first, unconditional call).
recalculateMaxConcurrency ==
    /\ max' = NewLimit(current, max)
    /\ UNCHANGED <<current, serving>>

Next ==
    \/ \E r \in Request : Acquire(r) \/ Release(r)
    \/ recalculateMaxConcurrency

Spec == Init /\ [][Next]_vars

\* The ticker keeps firing.  Nothing bounds a handler: a slow client holds its
\* permit as long as it likes.
Fairness == WF_vars(recalculateMaxConcurrency)

FairSpec == Spec /\ Fairness

-----------------------------------------------------------------------------
TypeOK ==
    /\ current \in Nat
    /\ max \in Nat
    /\ serving \in SUBSET Request

\* The counter is the number of requests inside the chain: no order of
\* admissions, releases and recalculations loses or duplicates a permit, and the
\* `if currentConcurrency > 0` guard of Release never hides an imbalance.  (The
\* one deferred Release is every way out of the chain, that of a panic too.)
PermitsMatchRequests == current = Cardinality(serving)

\* Requests really in service never exceed the largest limit the gateway can
\* compute, whatever the sequence of recalculations.
ServingWithinLargestLimit ==
    Cardinality(serving) <= Extended

\* A request is admitted only while fewer requests than the limit of that
\* moment are really in service; after the limit shrinks below the load,
\* nothing is admitted until enough requests have left.
AdmitsOnlyBelowLimit ==
    [][serving' \ serving # {} => Cardinality(serving) < max]_vars

\* The controller does not oscillate: at a constant load, at most three
\* recalculations reach a limit that the next one leaves unchanged.
LimitSettles ==
    LET step(m) == NewLimit(current, m)
    IN  step(step(step(step(max)))) = step(step(step(max)))

\* The limit recovers: however loaded the gateway was and whatever limit it was
\* left with, a gateway that drains and stays idle gets the extended limit.
IdleRecoversLimit == [](serving = {} => <>(serving # {} \/ max = Extended))
=============================================================================
