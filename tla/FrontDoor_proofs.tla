--------------------------- MODULE FrontDoor_proofs ---------------------------
(***************************************************************************)
(* Proofs about the concurrency limiter and about the front of the chain   *)
(* that runs it.  The limiter's theorems come first, for every number of   *)
(* CPUs, every configured limit and every finite set of requests.  The     *)
(* front runs the limiter unchanged, so that they hold of it; its request  *)
(* is checked and admitted in this order; and the health manager           *)
(* implements Hysteresis, for every set of dependencies, every threshold,  *)
(* zero and negative ones included, and every number of attempts to send   *)
(* a mail.                                                                 *)
(***************************************************************************)
EXTENDS FrontDoor, FiniteSetTheorems, TLAPS

USE LimiterConstants

-----------------------------------------------------------------------------
(* The concurrency limiter.                                                *)

\* The three candidate limits are ordered, at least the floor, and the largest
\* is at least the limit the limiter starts with.
LEMMA CandidateLimits ==
    /\ base \in Nat /\ minConcurrency \in Nat \ {0}
    /\ Throttled \in Nat \ {0} /\ Nominal \in Nat \ {0} /\ Extended \in Nat \ {0}
    /\ Throttled <= Nominal /\ Nominal <= Extended /\ base <= Extended
<1>1. base \in Nat /\ minConcurrency \in Nat \ {0}
  BY DEF base, minConcurrency
<1>2. /\ (base * 4) \div 5 \in Nat
      /\ (base * 6) \div 5 \in Nat
      /\ (base * 4) \div 5 <= base
      /\ base <= (base * 6) \div 5
  BY <1>1
<1>3. QED
  BY <1>1, <1>2 DEF Throttled, Nominal, Extended, AtLeastFloor

\* A recalculation always yields one of the three candidates.
LEMMA NewLimitIsCandidate ==
    ASSUME NEW c, NEW m
    PROVE  NewLimit(c, m) \in {Throttled, Nominal, Extended}
BY DEF NewLimit

\* The inductive invariant: the permits are balanced, and both the limit and
\* the load stay below the largest candidate.  Without the last two conjuncts
\* the bound on the requests in service is not inductive.
IInv ==
    /\ TypeOK
    /\ PermitsMatchRequests
    /\ max <= Extended
    /\ current <= Extended

\* The strengthened invariant holds in every reachable state of the limiter.
LEMMA Invariance == Spec => []IInv
<1>1. Init => IInv
  <2>1. Cardinality({}) = 0
    BY FS_EmptySet
  <2>2. QED
    BY <2>1, CandidateLimits DEF Init, IInv, TypeOK, PermitsMatchRequests
<1>2. IInv /\ [Next]_vars => IInv'
  <2> SUFFICES ASSUME IInv, [Next]_vars PROVE IInv'
    OBVIOUS
  <2>0. IsFiniteSet(serving)
    BY FS_Subset DEF IInv, TypeOK
  <2>1. ASSUME NEW r \in Request, Acquire(r) PROVE IInv'
    <3>1. Cardinality(serving \cup {r}) = Cardinality(serving) + 1
      BY <2>0, <2>1, FS_AddElement DEF Acquire
    <3>2. QED
      BY <2>1, <3>1, CandidateLimits
      DEF Acquire, IInv, TypeOK, PermitsMatchRequests
  <2>2. ASSUME NEW r \in Request, Release(r) PROVE IInv'
    <3>1. Cardinality(serving \ {r}) = Cardinality(serving) - 1
      BY <2>0, <2>2, FS_RemoveElement DEF Release
    <3>2. Cardinality(serving) \in Nat /\ Cardinality(serving \ {r}) \in Nat
      BY <2>0, FS_CardinalityType, FS_RemoveElement, FS_Subset
    <3>3. QED
      BY <2>2, <3>1, <3>2, CandidateLimits
      DEF Release, IInv, TypeOK, PermitsMatchRequests
  <2>3. CASE recalculateMaxConcurrency
    BY <2>3, CandidateLimits, NewLimitIsCandidate
    DEF recalculateMaxConcurrency, IInv, TypeOK, PermitsMatchRequests
  <2>4. CASE UNCHANGED vars
    BY <2>4 DEF vars, IInv, TypeOK, PermitsMatchRequests
  <2>5. QED
    BY <2>1, <2>2, <2>3, <2>4 DEF Next
<1>3. QED
  BY <1>1, <1>2, PTL DEF Spec

\* The counter and the limit keep their types.
THEOREM LimiterTypes == Spec => []TypeOK
<1>1. IInv => TypeOK
  BY DEF IInv
<1>2. QED
  BY <1>1, Invariance, PTL

\* No permit is lost or duplicated (limiter.go Acquire and Release under the
\* deferred call of the middleware).
THEOREM PermitsBalanced == Spec => []PermitsMatchRequests
<1>1. IInv => PermitsMatchRequests
  BY DEF IInv
<1>2. QED
  BY <1>1, Invariance, PTL

\* The requests in service never exceed the largest limit.
THEOREM ServingBounded == Spec => []ServingWithinLargestLimit
<1>1. IInv => ServingWithinLargestLimit
  BY DEF IInv, PermitsMatchRequests, ServingWithinLargestLimit
<1>2. QED
  BY <1>1, Invariance, PTL

\* Every admission happens while fewer requests than the limit are in service,
\* also after the limit has shrunk below the load.
THEOREM AdmissionBelowLimit == Spec => AdmitsOnlyBelowLimit
<1>1. IInv /\ [Next]_vars =>
        [serving' \ serving # {} => Cardinality(serving) < max]_vars
  <2> SUFFICES ASSUME IInv, [Next]_vars, serving' \ serving # {}
               PROVE  Cardinality(serving) < max
    OBVIOUS
  <2>1. CASE \E r \in Request : Acquire(r)
    BY <2>1 DEF Acquire, IInv, PermitsMatchRequests
  <2>2. CASE (\E r \in Request : Release(r)) \/ recalculateMaxConcurrency \/ UNCHANGED vars
    BY <2>2 DEF Release, recalculateMaxConcurrency, vars
  <2>3. QED
    BY <2>1, <2>2 DEF Next
<1>2. QED
  BY <1>1, Invariance, PTL DEF Spec, AdmitsOnlyBelowLimit

\* At a fixed load the sequence of limits is constant from the third
\* recalculation on, whatever the limit it starts from.
LEMMA RecalculationConverges ==
    ASSUME NEW c \in Nat, NEW m \in Nat
    PROVE  LET step(x) == NewLimit(c, x)
           IN  step(step(step(step(m)))) = step(step(step(m)))
<1> DEFINE step(x) == NewLimit(c, x)
<1>1. \A x \in Nat \ {0} : step(x) = IF c * 5 > x * 4 THEN Throttled
                               ELSE IF c * 10 < x * 3 THEN Extended
                               ELSE Nominal
  BY DEF NewLimit
<1>2. step(m) \in {Throttled, Nominal, Extended}
  BY NewLimitIsCandidate
<1> HIDE DEF step
<1>3. ASSUME NEW x \in {Throttled, Nominal, Extended}
      PROVE  step(step(step(x))) = step(step(x))
  <2>1. CASE c * 5 > Extended * 4
    BY <1>1, <2>1, CandidateLimits
  <2>2. CASE ~(c * 5 > Extended * 4) /\ c * 10 < Extended * 3
    BY <1>1, <2>2, CandidateLimits
  <2>3. CASE ~(c * 5 > Extended * 4) /\ ~(c * 10 < Extended * 3)
    BY <1>1, <2>3, CandidateLimits
  <2>4. QED
    BY <2>1, <2>2, <2>3
<1>4. step(step(step(step(m)))) = step(step(step(m)))
  BY <1>2, <1>3
<1>5. QED
  BY <1>4 DEF step

\* In every reachable state the controller is at most three ticks from a limit
\* it keeps, as long as the load does not change.
THEOREM ControllerSettles == Spec => []LimitSettles
<1>1. TypeOK => LimitSettles
  BY RecalculationConverges DEF TypeOK, LimitSettles
<1>2. QED
  BY <1>1, LimiterTypes, PTL

-----------------------------------------------------------------------------
USE HealthConstants

LEMMA AttemptsPositive == Attempts \in Nat \ {0}
  BY DEF Attempts

LEMMA CappedType == ASSUME NEW n \in 0 .. Bound PROVE Capped(n + 1) \in 0 .. Bound
  BY DEF Capped

-----------------------------------------------------------------------------
(* The limiter in the chain.                                               *)

LEMMA FrontStepIsLimiterStep == [FrontNext]_frontVars => [Next]_vars
<1> SUFFICES ASSUME [FrontNext]_frontVars PROVE [Next]_vars
  OBVIOUS
<1>1. ASSUME NEW r \in Request, HealthCheck(r) PROVE [Next]_vars
  BY <1>1 DEF HealthCheck
<1>2. ASSUME NEW r \in Request, ConcurrencyLimit(r) PROVE [Next]_vars
  BY <1>2 DEF ConcurrencyLimit, Next
<1>3. ASSUME NEW r \in Request, Leave(r) PROVE [Next]_vars
  BY <1>3 DEF Leave, Next
<1>4. CASE recalculateMaxConcurrency
  BY <1>4 DEF Next
<1>5. CASE UNCHANGED vars
  BY <1>5
<1> QED
  BY <1>1, <1>2, <1>3, <1>4, <1>5 DEF FrontNext, frontVars

\* The front of the chain (routes.go:18) uses the limiter as its specification
\* says, so that every theorem about the limiter is one about the chain.
THEOREM FrontRunsLimiter == FrontSpec => Spec
<1>1. FrontInit => Init
  BY DEF FrontInit
<1> QED
  BY <1>1, FrontStepIsLimiterStep, PTL DEF FrontSpec, Spec

-----------------------------------------------------------------------------
(* The health manager.                                                     *)

LEMMA HealthInitTypes == HealthInit => HealthTypeOK
  BY AttemptsPositive DEF HealthInit, HealthTypeOK, Reach

LEMMA ReportTypes ==
    ASSUME HealthTypeOK, NEW d \in Dep, Report(d)
    PROVE  HealthTypeOK'
<1>1. failCount[d] \in 0 .. Bound /\ successCount[d] \in 0 .. Bound
  BY DEF HealthTypeOK
<1>2. Capped(failCount[d] + 1) \in 0 .. Bound /\ Capped(successCount[d] + 1) \in 0 .. Bound
  BY <1>1, CappedType
<1>3. 0 \in 0 .. Bound /\ Attempts \in 0 .. Attempts /\ 0 \in 0 .. Attempts
  BY AttemptsPositive
<1>4. failCount' \in [Dep -> 0 .. Bound] /\ successCount' \in [Dep -> 0 .. Bound]
  <2>1. CASE ReportFailure(d)
    BY <1>2, <1>3, <2>1 DEF HealthTypeOK, ReportFailure
  <2>2. CASE ReportSuccess(d)
    BY <1>2, <1>3, <2>2 DEF HealthTypeOK, ReportSuccess
  <2> QED
    BY <2>1, <2>2 DEF Report
<1>5. status' \in [Dep -> {"Healthy", "Unhealthy"}] /\ mail' \in [Dep -> 0 .. Attempts]
  <2>1. \/ UNCHANGED <<status, mail>>
        \/ \E s \in {"Healthy", "Unhealthy"} : Becomes(d, s)
    BY DEF Report, ReportFailure, ReportSuccess
  <2>2. status \in [Dep -> {"Healthy", "Unhealthy"}] /\ mail \in [Dep -> 0 .. Attempts]
    BY DEF HealthTypeOK
  <2> QED
    BY <1>3, <2>1, <2>2 DEF Becomes
<1>6. probe' \in [Dep -> [ok : BOOLEAN, turn : BOOLEAN]] /\ up' = up
  <2>1. PICK ok \in BOOLEAN : Probed(d, ok)
    BY DEF Report, ReportFailure, ReportSuccess
  <2>2. [ok |-> ok, turn |-> ~probe[d].turn] \in [ok : BOOLEAN, turn : BOOLEAN]
    OBVIOUS
  <2> QED
    BY <2>1, <2>2 DEF Probed, HealthTypeOK, Report, ReportFailure, ReportSuccess
<1> QED
  BY <1>4, <1>5, <1>6 DEF HealthTypeOK, Report, ReportFailure, ReportSuccess

LEMMA HealthTypesStep == HealthTypeOK /\ [HealthNext]_healthVars => HealthTypeOK'
<1> SUFFICES ASSUME HealthTypeOK, [HealthNext]_healthVars PROVE HealthTypeOK'
  OBVIOUS
<1>1. ASSUME NEW d \in Dep, Change(d) PROVE HealthTypeOK'
  BY <1>1 DEF Change, HealthTypeOK, Reach
<1>2. ASSUME NEW d \in Dep, Report(d) PROVE HealthTypeOK'
  BY <1>2, ReportTypes
<1>3. ASSUME NEW d \in Dep, SendMail(d) PROVE HealthTypeOK'
  <2>1. mail' \in [Dep -> 0 .. Attempts]
    BY <1>3, AttemptsPositive DEF SendMail, MailSent, MailFails, HealthTypeOK
  <2> QED
    BY <1>3, <2>1 DEF SendMail, MailSent, MailFails, HealthTypeOK
<1>4. CASE UNCHANGED healthVars
  BY <1>4 DEF healthVars, HealthTypeOK
<1> QED
  BY <1>1, <1>2, <1>3, <1>4 DEF HealthNext

Checks ==
    /\ TypeOK
    /\ checked \in [Request -> 0 .. Len(Deps)]
    /\ \A r \in serving : checked[r] = 0

LEMMA FrontStepChecks == Checks /\ [FrontNext]_frontVars => Checks'
<1> SUFFICES ASSUME Checks, [FrontNext]_frontVars PROVE Checks'
  OBVIOUS
<1>1. Len(Deps) \in Nat
  BY FrontConstants
<1>2. TypeOK'
  <2>1. [Next]_vars
    BY FrontStepIsLimiterStep
  <2>2. ASSUME NEW r \in Request, Acquire(r) PROVE TypeOK'
    BY <2>2 DEF Acquire, Checks, TypeOK
  <2>3. ASSUME NEW r \in Request, Release(r) PROVE TypeOK'
    BY <2>3 DEF Release, Checks, TypeOK
  <2>4. CASE recalculateMaxConcurrency
    BY <2>4, CandidateLimits, NewLimitIsCandidate DEF recalculateMaxConcurrency, Checks, TypeOK
  <2>5. CASE UNCHANGED vars
    BY <2>5 DEF vars, Checks, TypeOK
  <2> QED
    BY <2>1, <2>2, <2>3, <2>4, <2>5 DEF Next
<1>3. ASSUME NEW r \in Request, HealthCheck(r) PROVE Checks'
  <2>1. checked' \in [Request -> 0 .. Len(Deps)]
    BY <1>1, <1>3 DEF HealthCheck, Checks
  <2>2. serving' = serving /\ r \notin serving
    BY <1>3 DEF HealthCheck, vars
  <2>3. \A q \in serving : checked'[q] = 0
    BY <1>3, <2>2 DEF HealthCheck, Checks, TypeOK
  <2> QED
    BY <1>2, <2>1, <2>2, <2>3 DEF Checks
<1>4. ASSUME NEW r \in Request, ConcurrencyLimit(r) PROVE Checks'
  <2>1. checked' = [checked EXCEPT ![r] = 0]
    BY <1>4 DEF ConcurrencyLimit
  <2>2. serving' \subseteq serving \cup {r}
    BY <1>4 DEF ConcurrencyLimit, Acquire, vars
  <2> QED
    BY <1>1, <1>2, <2>1, <2>2 DEF Checks, TypeOK
<1>5. ASSUME NEW r \in Request, Leave(r) PROVE Checks'
  BY <1>2, <1>5 DEF Leave, Release, Checks
<1>6. CASE UNCHANGED checked /\ UNCHANGED serving
  BY <1>2, <1>6 DEF Checks
<1> QED
  BY <1>3, <1>4, <1>5, <1>6 DEF FrontNext, frontVars, vars, recalculateMaxConcurrency

LEMMA FrontStepIsHealthStep == [FrontNext]_frontVars => [HealthNext]_healthVars
  BY DEF FrontNext, frontVars, HealthCheck, ConcurrencyLimit, Leave

\* A request in service has given up what it was checked for: the next one of
\* its connection is checked again (healthCheck.go:14, concurrencyLimit.go:16).
THEOREM FrontTypes == FrontSpec => []FrontTypeOK
<1>1. FrontInit => Checks
  BY FrontConstants, CandidateLimits DEF FrontInit, Init, Checks, TypeOK
<1>2. FrontInit => HealthTypeOK
  BY HealthInitTypes DEF FrontInit
<1>3. HealthTypeOK /\ [FrontNext]_frontVars => HealthTypeOK'
  BY HealthTypesStep, FrontStepIsHealthStep
<1>4. Checks /\ HealthTypeOK => FrontTypeOK
  BY DEF Checks, FrontTypeOK
<1> QED
  BY <1>1, <1>2, <1>3, <1>4, FrontStepChecks, PTL DEF FrontSpec

-----------------------------------------------------------------------------
(* The two counters of a checker are the one count of Hysteresis: failures  *)
(* while it is healthy, successes while it is not.  The other counter is    *)
(* reset before the status makes it the one that counts.                    *)

Healthy == [d \in Dep |-> IsHealthy(d)]
Contrary == [d \in Dep |-> IF IsHealthy(d) THEN failCount[d] ELSE successCount[d]]

LEMMA PromisedThreshold ==
    ASSUME NEW d \in Dep
    PROVE  Promised!Threshold(d) = IF IsHealthy(d) THEN FailThreshold[d] ELSE OKThreshold[d]
  BY DEF Promised!Threshold

\* The probe of the implementation is that of the abstract checker.
LEMMA ProbeIsReported ==
    ASSUME NEW d \in Dep
    PROVE  /\ ReportFailure(d) => Promised!Probe(d, FALSE)
           /\ ReportSuccess(d) => Promised!Probe(d, TRUE)
  BY DEF ReportFailure, ReportSuccess, Probed, Promised!Probe

\* A probe of a healthy dependency fails.
LEMMA FailureOfHealthy ==
    ASSUME HealthTypeOK, NEW d \in Dep, ReportFailure(d), IsHealthy(d)
    PROVE  Promised!Contradict(d) \/ Promised!Flip(d)
<1> DEFINE f == failCount[d]
<1>1. f \in 0 .. Bound /\ Bound >= FailThreshold[d] /\ FailThreshold[d] \in Int /\ Contrary[d] = f
  BY DEF HealthTypeOK, Contrary
<1>2. \A e \in Dep \ {d} : status'[e] = status[e] /\ failCount'[e] = failCount[e] /\ successCount'[e] = successCount[e]
  BY DEF HealthTypeOK, ReportFailure, Becomes
<1>3. Promised!Threshold(d) = FailThreshold[d]
  BY PromisedThreshold
<1>4. Promised!Probe(d, ~Healthy[d])
  BY ProbeIsReported DEF Healthy
<1>5. CASE Capped(f + 1) >= FailThreshold[d]
  <2>1. f + 1 >= FailThreshold[d]
    BY <1>1, <1>5 DEF Capped
  <2>2. status'[d] = "Unhealthy" /\ successCount'[d] = 0
    BY <1>5 DEF HealthTypeOK, ReportFailure, Becomes
  <2>3. Healthy' = [Healthy EXCEPT ![d] = ~@]
    BY <1>2, <2>2 DEF Healthy, IsHealthy
  <2>4. Contrary' = [Contrary EXCEPT ![d] = 0]
    BY <1>2, <2>2 DEF Contrary, IsHealthy
  <2> QED
    BY <1>1, <1>3, <1>4, <2>1, <2>3, <2>4 DEF Promised!Flip, Healthy, Contrary
<1>6. CASE ~(Capped(f + 1) >= FailThreshold[d])
  <2>1. f + 1 < FailThreshold[d] /\ Capped(f + 1) = f + 1
    BY <1>1, <1>6 DEF Capped
  <2>2. status' = status /\ failCount'[d] = f + 1
    BY <1>6, <2>1 DEF HealthTypeOK, ReportFailure
  <2>3. Healthy' = Healthy
    BY <2>2 DEF Healthy, IsHealthy
  <2>4. Contrary' = [Contrary EXCEPT ![d] = @ + 1]
    BY <1>1, <1>2, <2>2 DEF Contrary, IsHealthy
  <2> QED
    BY <1>1, <1>3, <1>4, <2>1, <2>3, <2>4 DEF Promised!Contradict, Healthy, Contrary
<1> QED
  BY <1>5, <1>6

\* A probe of a dependency that is not healthy succeeds.
LEMMA SuccessOfUnhealthy ==
    ASSUME HealthTypeOK, NEW d \in Dep, ReportSuccess(d), ~IsHealthy(d)
    PROVE  Promised!Contradict(d) \/ Promised!Flip(d)
<1> DEFINE f == successCount[d]
<1>1. f \in 0 .. Bound /\ Bound >= OKThreshold[d] /\ OKThreshold[d] \in Int /\ Contrary[d] = f
  BY DEF HealthTypeOK, Contrary
<1>2. \A e \in Dep \ {d} : status'[e] = status[e] /\ failCount'[e] = failCount[e] /\ successCount'[e] = successCount[e]
  BY DEF HealthTypeOK, ReportSuccess, Becomes
<1>3. Promised!Threshold(d) = OKThreshold[d]
  BY PromisedThreshold
<1>4. Promised!Probe(d, ~Healthy[d])
  BY ProbeIsReported DEF Healthy
<1>5. CASE Capped(f + 1) >= OKThreshold[d]
  <2>1. f + 1 >= OKThreshold[d]
    BY <1>1, <1>5 DEF Capped
  <2>2. status'[d] = "Healthy" /\ failCount'[d] = 0
    BY <1>5 DEF HealthTypeOK, ReportSuccess, Becomes
  <2>3. Healthy' = [Healthy EXCEPT ![d] = ~@]
    BY <1>2, <2>2 DEF Healthy, IsHealthy
  <2>4. Contrary' = [Contrary EXCEPT ![d] = 0]
    BY <1>2, <2>2 DEF Contrary, IsHealthy
  <2> QED
    BY <1>1, <1>3, <1>4, <2>1, <2>3, <2>4 DEF Promised!Flip, Healthy, Contrary
<1>6. CASE ~(Capped(f + 1) >= OKThreshold[d])
  <2>1. f + 1 < OKThreshold[d] /\ Capped(f + 1) = f + 1
    BY <1>1, <1>6 DEF Capped
  <2>2. status' = status /\ successCount'[d] = f + 1
    BY <1>6, <2>1 DEF HealthTypeOK, ReportSuccess
  <2>3. Healthy' = Healthy
    BY <2>2 DEF Healthy, IsHealthy
  <2>4. Contrary' = [Contrary EXCEPT ![d] = @ + 1]
    BY <1>1, <1>2, <2>2 DEF Contrary, IsHealthy
  <2> QED
    BY <1>1, <1>3, <1>4, <2>1, <2>3, <2>4 DEF Promised!Contradict, Healthy, Contrary
<1> QED
  BY <1>5, <1>6

\* A probe that agrees with the status.
LEMMA Agrees ==
    ASSUME HealthTypeOK, NEW d \in Dep,
           (ReportFailure(d) /\ ~IsHealthy(d)) \/ (ReportSuccess(d) /\ IsHealthy(d))
    PROVE  Promised!Agree(d)
<1>1. status' = status
  BY DEF ReportFailure, ReportSuccess
<1>2. \A e \in Dep \ {d} : failCount'[e] = failCount[e] /\ successCount'[e] = successCount[e]
  BY DEF HealthTypeOK, ReportFailure, ReportSuccess
<1>3. IF IsHealthy(d) THEN failCount'[d] = 0 ELSE successCount'[d] = 0
  BY DEF HealthTypeOK, ReportFailure, ReportSuccess
<1>4. Healthy' = Healthy
  BY <1>1 DEF Healthy, IsHealthy
<1>5. Contrary' = [Contrary EXCEPT ![d] = 0]
  BY <1>1, <1>2, <1>3 DEF Contrary, IsHealthy
<1>6. Promised!Probe(d, Healthy[d])
  BY ProbeIsReported DEF Healthy, IsHealthy
<1> QED
  BY <1>4, <1>5, <1>6 DEF Promised!Agree, Healthy, Contrary

LEMMA HysteresisStep ==
    HealthTypeOK /\ [HealthNext]_healthVars => [Promised!Next]_(Promised!vars)
<1> SUFFICES ASSUME HealthTypeOK, [HealthNext]_healthVars
             PROVE  Promised!Next \/ UNCHANGED Promised!vars
  OBVIOUS
<1>1. ASSUME NEW d \in Dep, Report(d) PROVE Promised!Next
  <2>1. CASE ReportFailure(d) /\ IsHealthy(d)
    BY <2>1, FailureOfHealthy DEF Promised!Next
  <2>2. CASE ReportSuccess(d) /\ ~IsHealthy(d)
    BY <2>2, SuccessOfUnhealthy DEF Promised!Next
  <2>3. CASE (ReportFailure(d) /\ ~IsHealthy(d)) \/ (ReportSuccess(d) /\ IsHealthy(d))
    BY <2>3, Agrees DEF Promised!Next
  <2> QED
    BY <1>1, <2>1, <2>2, <2>3 DEF Report
<1>2. CASE UNCHANGED <<status, failCount, successCount, probe>>
  BY <1>2 DEF Promised!vars, IsHealthy
<1> QED
  BY <1>1, <1>2 DEF HealthNext, healthVars, Change, SendMail, MailSent, MailFails

\* Report (healthManager.go:72) changes the status with the threshold-th probe
\* in a row against it and not before, whatever the thresholds are: every probe
\* is a step of Hysteresis, and one that agrees with the status starts the row
\* again.
THEOREM HealthIsHysteresis == FrontSpec => ImplementsHysteresis
<1>1. FrontInit => HealthTypeOK /\ Promised!Init
  <2> SUFFICES ASSUME FrontInit PROVE HealthTypeOK /\ Promised!Init
    OBVIOUS
  <2>1. /\ \A d \in Dep : status[d] = "Healthy" /\ failCount[d] = 0
        /\ probe = [d \in Dep |-> [ok |-> TRUE, turn |-> FALSE]]
    BY DEF FrontInit, HealthInit
  <2>2. Healthy = [d \in Dep |-> TRUE] /\ Contrary = [d \in Dep |-> 0]
    BY <2>1 DEF Healthy, Contrary, IsHealthy
  <2> QED
    BY <2>1, <2>2, HealthInitTypes DEF FrontInit, Healthy, Contrary, Promised!Init
<1>2. HealthTypeOK /\ [FrontNext]_frontVars => HealthTypeOK'
  BY HealthTypesStep, FrontStepIsHealthStep
<1>3. HealthTypeOK /\ [FrontNext]_frontVars => [Promised!Next]_(Promised!vars)
  BY HysteresisStep, FrontStepIsHealthStep
<1> QED
  BY <1>1, <1>2, <1>3, PTL DEF FrontSpec, ImplementsHysteresis, Promised!Spec
=============================================================================
