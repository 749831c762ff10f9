-------------------------- MODULE RateLimit_proofs --------------------------
(***************************************************************************)
(* Proofs about RateLimit: the types, that the clean-up cannot be noticed, *)
(* and the bounds on what passes and what is refused, for every limit,     *)
(* number of requests and lateness of the clock that the assumptions allow.*)
(***************************************************************************)
EXTENDS RateLimit, FiniteSetTheorems, TLAPS

USE DEF Time, Never

LEMMA LimitTypes ==
    \A p \in Route : Qps(p) \in Nat /\ Qpm(p) \in Nat
  BY RateConstants DEF Qps, Qpm

LEMMA NoWindowType == MaxTime \in Nat => NoWindow \in [start : Time, count : Nat]
  BY DEF NoWindow

\* What the first check leaves of a window is a window.
LEMMA CountedType ==
    ASSUME NEW w \in [start : Time, count : Nat], NEW t \in Time
    PROVE  Counted(w, t) \in [start : Time, count : Nat]
  BY RateConstants DEF Counted, StartsWindow

Bucket == [tokens : Int, refilled : Time \union {Never}]

Full(b) == b = NoBucket \/ \E p \in Route : b.tokens <= Qpm(p) * Minute

\* What the second check leaves of a bucket is a bucket that does not overflow.
LEMMA RefilledType ==
    ASSUME NEW b \in Bucket, NEW t \in Time, NEW p \in Route
    PROVE  /\ Refilled(b, t, Qpm(p)) \in Bucket
           /\ Refilled(b, t, Qpm(p)).tokens <= Qpm(p) * Minute
           /\ Refilled(b, t, Qpm(p)).refilled = t
<1> DEFINE l == Qpm(p)
<1>1. l \in Nat /\ Minute \in Nat
  BY LimitTypes, RateConstants
<1>2. b.tokens \in Int /\ b.refilled \in Int /\ t \in Int
  BY RateConstants DEF Bucket
<1> HIDE DEF l
<1>3. l * Minute \in Int /\ b.tokens + (t - b.refilled) * l \in Int
  BY <1>1, <1>2
<1>4. \A n \in Int : Capped(n, l) \in Int /\ Capped(n, l) <= l * Minute
  BY <1>3 DEF Capped
<1>5. Refilled(b, t, l) \in Bucket
      /\ Refilled(b, t, l).tokens <= l * Minute
      /\ Refilled(b, t, l).refilled = t
  BY <1>3, <1>4 DEF Refilled, Bucket
<1> QED
  BY <1>5 DEF l

LEMMA SpentType ==
    ASSUME NEW b \in Bucket, NEW t \in Time, NEW p \in Route
    PROVE  Spent(b, t, Qpm(p)) \in Bucket /\ Full(Spent(b, t, Qpm(p)))
<1> DEFINE c == Refilled(b, t, Qpm(p))
<1>1. c \in Bucket /\ c.tokens <= Qpm(p) * Minute
  BY RefilledType
<1>2. Minute \in Nat /\ Qpm(p) * Minute \in Int
  BY LimitTypes, RateConstants
<1>3. Spent(b, t, Qpm(p)) \in {c, [c EXCEPT !.tokens = @ - Minute]}
  BY DEF Spent
<1> HIDE DEF c
<1>4. [c EXCEPT !.tokens = @ - Minute] \in Bucket
      /\ [c EXCEPT !.tokens = @ - Minute].tokens = c.tokens - Minute
  BY <1>1, <1>2 DEF Bucket
<1>5. c.tokens \in Int
  BY <1>1 DEF Bucket
<1>6. c.tokens - Minute <= Qpm(p) * Minute
  BY <1>1, <1>2, <1>5
<1>7. Spent(b, t, Qpm(p)).tokens <= Qpm(p) * Minute
  BY <1>1, <1>3, <1>4, <1>6
<1> QED
  BY <1>1, <1>3, <1>4, <1>7 DEF Full

-----------------------------------------------------------------------------
Stages == {"new", "qps", "qpm", "passed", "overQps", "overQpm"}
RequestType == [pc : Stages, route : Route, read : Time,
                second : Time \union {Never}, minute : Time \union {Never}]

Types ==
    /\ now \in Time
    /\ window \in [start : Time, count : Nat] /\ keptWindow \in [start : Time, count : Nat]
    /\ bucket \in Bucket /\ keptBucket \in Bucket
    /\ Full(bucket) /\ Full(keptBucket)
    /\ request \in [Request -> RequestType]

LEMMA TypesIsTypeOK == Types => TypeOK
  BY DEF Types, TypeOK, Bucket, Full, Stages, RequestType

LEMMA TypesInit == LimitInit => Types
<1> SUFFICES ASSUME LimitInit PROVE Types
  OBVIOUS
<1>1. New \in RequestType
  BY RateConstants DEF New, RequestType, Stages
<1>2. NoBucket \in Bucket /\ Full(NoBucket)
  BY DEF NoBucket, Bucket, Full
<1>3. 0 \in Time /\ NoWindow \in [start : Time, count : Nat]
  BY RateConstants, NoWindowType
<1> QED
  BY <1>1, <1>2, <1>3 DEF LimitInit, Init, Types

\* The request whose check it is keeps its type, whatever the check says.
LEMMA RequestMoves ==
    ASSUME Types, NEW r \in Request
    PROVE  /\ QpsPasses(r) => request' \in [Request -> RequestType]
           /\ QpmPasses(r) => request' \in [Request -> RequestType]
           /\ \A check \in {"overQps", "overQpm"} :
                Refuse(r, check) => request' \in [Request -> RequestType]
<1>1. now \in Time /\ 0 \in Time /\ request \in [Request -> RequestType] /\ request[r] \in RequestType
  BY RateConstants DEF Types
<1>2. [request[r] EXCEPT !.pc = "qpm", !.read = now, !.second = now] \in RequestType
  BY <1>1 DEF RequestType, Stages
<1>3. [request[r] EXCEPT !.pc = "passed", !.read = 0, !.minute = now] \in RequestType
  BY <1>1 DEF RequestType, Stages
<1>4. \A check \in {"overQps", "overQpm"} :
        [request[r] EXCEPT !.pc = check, !.read = now] \in RequestType
  BY <1>1 DEF RequestType, Stages
<1>5. QpsPasses(r) => request' \in [Request -> RequestType]
  BY <1>1, <1>2 DEF QpsPasses
<1>6. QpmPasses(r) => request' \in [Request -> RequestType]
  BY <1>1, <1>3 DEF QpmPasses
<1>7. \A check \in {"overQps", "overQpm"} : Refuse(r, check) => request' \in [Request -> RequestType]
  BY <1>1, <1>4 DEF Refuse
<1> QED
  BY <1>5, <1>6, <1>7

LEMMA TypesStep == Types /\ [LimitNext]_allVars => Types'
<1> SUFFICES ASSUME Types, [LimitNext]_allVars PROVE Types'
  OBVIOUS
<1> USE DEF Types
<1>1. CASE Tick /\ UNCHANGED kept
  <2>1. now' \in Time
    BY <1>1, RateConstants DEF Tick
  <2> QED
    BY <1>1, <2>1 DEF Tick, kept, Full
<1>2. CASE CleanUp
  <2>1. window' \in [start : Time, count : Nat]
    BY <1>2, RateConstants, NoWindowType DEF CleanUp, CleanUpCounters, CleanUpBuckets
  <2>2. bucket' \in {bucket, NoBucket}
    BY <1>2 DEF CleanUp, CleanUpCounters, CleanUpBuckets
  <2>3. bucket' \in Bucket /\ Full(bucket)'
    BY <2>2 DEF Full, NoBucket, Bucket
  <2> QED
    BY <1>2, <2>1, <2>3 DEF CleanUp, CleanUpCounters, CleanUpBuckets, kept, Full
<1>3. ASSUME NEW r \in Request, NEW p \in Route, Arrive(r, p), UNCHANGED kept
      PROVE  Types'
  <2>1. [New EXCEPT !.pc = "qps", !.route = p, !.read = now] \in RequestType
    BY RateConstants DEF New, RequestType, Stages
  <2>2. request' \in [Request -> RequestType]
    BY <1>3, <2>1 DEF Arrive
  <2> QED
    BY <1>3, <2>2 DEF Arrive, kept, Full
<1>4. ASSUME NEW r \in Request, LimitQPS(r) PROVE Types'
  <2>1. request[r].read \in Time
    BY DEF RequestType
  <2>2. request' \in [Request -> RequestType]
    BY <1>4, RequestMoves DEF LimitQPS, CheckQPS
  <2>3. window' \in [start : Time, count : Nat]
    <3>1. window' = window \/ window' = Counted(window, request[r].read)
      BY <1>4 DEF LimitQPS, CheckQPS
    <3>2. Counted(window, request[r].read) \in [start : Time, count : Nat]
      BY <2>1, CountedType
    <3> QED
      BY <3>1, <3>2
  <2>4. keptWindow' \in [start : Time, count : Nat]
    BY <1>4, <2>1, CountedType DEF LimitQPS
  <2>5. UNCHANGED <<now, bucket, keptBucket>>
    BY <1>4 DEF LimitQPS, CheckQPS
  <2> QED
    BY <2>2, <2>3, <2>4, <2>5 DEF Full
<1>5. ASSUME NEW r \in Request, LimitQPM(r) PROVE Types'
  <2>1. request[r].read \in Time /\ request[r].route \in Route
    BY DEF RequestType
  <2>2. request' \in [Request -> RequestType]
    BY <1>5, RequestMoves DEF LimitQPM, CheckQPM
  <2>3. bucket' \in Bucket /\ Full(bucket)'
    <3>1. CASE UNCHANGED bucket
      BY <3>1 DEF Full
    <3>2. CASE bucket' = Spent(bucket, request[r].read, Qpm(request[r].route))
      <4>1. Spent(bucket, request[r].read, Qpm(request[r].route)) \in Bucket
            /\ Full(Spent(bucket, request[r].read, Qpm(request[r].route)))
        BY <2>1, SpentType
      <4> QED
        BY <3>2, <4>1 DEF Full
    <3> QED
      BY <1>5, <3>1, <3>2 DEF LimitQPM, CheckQPM
  <2>4. keptBucket' \in Bucket /\ Full(keptBucket)'
    <3>1. CASE keptBucket' = keptBucket
      BY <3>1 DEF Full
    <3>2. CASE keptBucket' = Spent(keptBucket, request[r].read, Qpm(request[r].route))
      <4>1. Spent(keptBucket, request[r].read, Qpm(request[r].route)) \in Bucket
            /\ Full(Spent(keptBucket, request[r].read, Qpm(request[r].route)))
        BY <2>1, SpentType
      <4> QED
        BY <3>2, <4>1 DEF Full
    <3> QED
      BY <1>5, <3>1, <3>2 DEF LimitQPM
  <2>5. UNCHANGED <<now, window, keptWindow>>
    BY <1>5 DEF LimitQPM, CheckQPM
  <2> QED
    BY <2>2, <2>3, <2>4, <2>5
<1>6. CASE UNCHANGED allVars
  BY <1>6 DEF allVars, vars, kept, Full
<1> QED
  BY <1>1, <1>2, <1>3, <1>4, <1>5, <1>6 DEF LimitNext

\* The records keep their types, and no bucket, with late readings of the clock
\* included, holds more than the limit of some route (rateLimit.go:132).
THEOREM LimiterTypes == LimitSpec => []TypeOK
<1>1. LimitInit => Types
  BY TypesInit
<1>2. Types /\ [LimitNext]_allVars => Types'
  BY TypesStep
<1>3. Types => TypeOK
  BY TypesIsTypeOK
<1> QED
  BY <1>1, <1>2, <1>3, PTL DEF LimitSpec

-----------------------------------------------------------------------------
(* The clean-up cannot be noticed.  A removed window is older than a second  *)
(* for every reading of the clock that may still be compared with it, and a  *)
(* removed bucket would be full again.  For the latter no bucket may be too  *)
(* far below zero: a late reading takes back what an earlier one has filled, *)
(* and, at one and the same limit, no more than that.                        *)

OneQpm == \A p, q \in Route : Qpm(p) = Qpm(q)

Rate == Qpm(CHOOSE p \in Route : TRUE)

LateByAtMostStall ==
    \A r \in Request :
        request[r].pc \in {"qps", "qpm"} =>
            request[r].read <= now /\ now <= request[r].read + MaxStall

WindowAgrees ==
    \/ window = keptWindow
    \/ window = NoWindow /\ now - keptWindow.start > WindowIdle

BucketAgrees ==
    \/ bucket = keptBucket
    \/ bucket = NoBucket /\ now - keptBucket.refilled > BucketIdle

\* What the bucket lacks, the time since its last reading has already earned.
NotTooEmpty(b) ==
    b = NoBucket \/ (/\ b.refilled \in Time /\ b.refilled <= now
                    /\ b.tokens + MaxStall * Rate >= 0
                    /\ b.tokens + (now - b.refilled) * Rate >= 0)

OnTime ==
    /\ Types
    /\ LateByAtMostStall
    /\ WindowAgrees

Agreement ==
    /\ OnTime
    /\ BucketAgrees
    /\ NotTooEmpty(keptBucket)

LEMMA RateType == Rate \in Nat /\ (OneQpm => \A p \in Route : Qpm(p) = Rate)
  BY LimitTypes, RateConstants DEF Rate, OneQpm

LEMMA Distribute ==
    ASSUME NEW a \in Int, NEW b \in Int, NEW l \in Int
    PROVE  (a + b) * l = a * l + b * l
  OBVIOUS

LEMMA Monotone ==
    ASSUME NEW a \in Int, NEW b \in Int, NEW l \in Nat, a <= b
    PROVE  a * l <= b * l
  OBVIOUS

\* A check that compares with the window it has decides like one that compares
\* with the window it would have.
LEMMA SameWindow ==
    ASSUME Types, WindowAgrees, NEW t \in Time, now <= t + MaxStall, NEW limit \in Nat
    PROVE  /\ Fits(window, t, limit) = Fits(keptWindow, t, limit)
           /\ Fits(window, t, limit) => Counted(window, t) = Counted(keptWindow, t)
<1>1. CASE window = keptWindow
  BY <1>1
<1>2. CASE window = NoWindow /\ now - keptWindow.start > WindowIdle
  <2>1. t - keptWindow.start >= Second
    BY <1>2, RateConstants, IdleConstants DEF Types
  <2>2. StartsWindow(window, t) /\ StartsWindow(keptWindow, t)
    BY <1>2, <2>1 DEF StartsWindow
  <2> QED
    BY <2>2 DEF Fits, Counted
<1> QED
  BY <1>1, <1>2 DEF WindowAgrees

LEMMA SameBucket ==
    ASSUME Types, BucketAgrees, NotTooEmpty(keptBucket),
           NEW t \in Time, now <= t + MaxStall
    PROVE  Spent(bucket, t, Rate) = Spent(keptBucket, t, Rate)
           /\ HasToken(bucket, t, Rate) = HasToken(keptBucket, t, Rate)
<1>1. CASE bucket = keptBucket \/ keptBucket = NoBucket
  BY <1>1 DEF BucketAgrees
<1>2. CASE bucket = NoBucket /\ keptBucket # NoBucket /\ now - keptBucket.refilled > BucketIdle
  <2> DEFINE k == keptBucket.tokens
             e == t - keptBucket.refilled
  <2>1. Rate \in Nat /\ MaxStall \in Nat /\ Minute \in Nat /\ BucketIdle \in Nat /\ now \in Int
        /\ BucketIdle >= Minute + 2 * MaxStall
    BY RateType, RateConstants, IdleConstants DEF Types
  <2>2. k \in Int /\ e \in Int /\ keptBucket.refilled \in Int
    BY <2>1 DEF Types, Bucket
  <2>3. k + MaxStall * Rate >= 0
    BY <1>2 DEF NotTooEmpty
  <2>4. e >= Minute + MaxStall
    BY <1>2, <2>1, <2>2
  <2> HIDE DEF k, e
  <2>5. (Minute + MaxStall) * Rate <= e * Rate
    BY <2>1, <2>2, <2>4, Monotone
  <2>6. (Minute + MaxStall) * Rate = Minute * Rate + MaxStall * Rate
    BY <2>1, Distribute
  <2>7. Rate * Minute = Minute * Rate /\ Rate * Minute \in Int /\ e * Rate \in Int /\ MaxStall * Rate \in Int
    BY <2>1, <2>2
  <2>8. k + e * Rate >= Rate * Minute
    BY <2>2, <2>3, <2>5, <2>6, <2>7
  <2>9. Capped(k + e * Rate, Rate) = Rate * Minute
    <3>1. \A n, f \in Int : n >= f => (IF n > f THEN f ELSE n) = f
      OBVIOUS
    <3>2. k + e * Rate \in Int
      BY <2>2, <2>7
    <3> QED
      BY <2>7, <2>8, <3>1, <3>2 DEF Capped
  <2>10. Refilled(keptBucket, t, Rate) = Refilled(bucket, t, Rate)
    BY <1>2, <2>9 DEF Refilled, k, e
  <2> QED
    BY <2>10 DEF HasToken, Spent
<1> QED
  BY <1>1, <1>2 DEF BucketAgrees

\* The second check, whatever time it has read, leaves the bucket not too empty.
LEMMA SpentNotTooEmpty ==
    ASSUME Types, NEW b \in Bucket, NotTooEmpty(b), NEW t \in Time, t <= now, now <= t + MaxStall
    PROVE  LET c == Spent(b, t, Rate) IN
           /\ c # NoBucket
           /\ c.refilled = t
           /\ c.tokens + MaxStall * Rate >= 0
           /\ c.tokens + (now - t) * Rate >= 0
<1> DEFINE c == Refilled(b, t, Rate)
           s == MaxStall * Rate
           late == (now - t) * Rate
<1>1. Rate \in Nat /\ MaxStall \in Nat /\ Minute \in Nat /\ Minute > 0 /\ now \in Int /\ t \in Int
  BY RateType, RateConstants DEF Types
<1>2. b.tokens \in Int /\ b.refilled \in Int
  BY <1>1 DEF Bucket
<1>3. s \in Int /\ late \in Int /\ late <= s /\ 0 <= late
  <2>1. (now - t) * Rate <= MaxStall * Rate
    BY <1>1, Monotone
  <2>2. 0 * Rate <= (now - t) * Rate /\ 0 * Rate = 0
    BY <1>1, Monotone
  <2> QED
    BY <1>1, <2>1, <2>2
<1>4. Rate * Minute \in Nat
  BY <1>1
<1>5. c.refilled = t /\ c.tokens \in Int /\ c.tokens + late >= 0 /\ c \in [tokens : Int, refilled : {t}]
  <2>1. CASE b = NoBucket
    <3>1. c = [tokens |-> Rate * Minute, refilled |-> t]
      BY <2>1 DEF Refilled
    <3> HIDE DEF c, late
    <3> QED
      BY <1>3, <1>4, <3>1
  <2>2. CASE b # NoBucket
    <3> DEFINE gain == (t - b.refilled) * Rate
    <3>1. gain \in Int
      BY <1>1, <1>2
    <3>2. b.tokens + (now - b.refilled) * Rate >= 0
      BY <2>2 DEF NotTooEmpty
    <3>3. ((now - t) + (t - b.refilled)) * Rate = (now - t) * Rate + (t - b.refilled) * Rate
      BY <1>1, <1>2, Distribute
    <3>4. (now - t) + (t - b.refilled) = now - b.refilled
      BY <1>1, <1>2
    <3>5. c = [tokens |-> Capped(b.tokens + gain, Rate), refilled |-> t]
      BY <2>2 DEF Refilled
    <3>6. (now - b.refilled) * Rate = late + gain
      BY <3>3, <3>4
    <3> HIDE DEF c, gain, late
    <3>7. b.tokens + gain + late >= 0
      BY <1>2, <1>3, <3>1, <3>2, <3>6
    <3>8. Capped(b.tokens + gain, Rate) \in {b.tokens + gain, Rate * Minute}
      BY DEF Capped
    <3> QED
      BY <1>2, <1>3, <1>4, <3>1, <3>5, <3>7, <3>8
  <2> QED
    BY <2>1, <2>2
<1>6. Spent(b, t, Rate) = IF c.tokens >= Minute THEN [c EXCEPT !.tokens = @ - Minute] ELSE c
  BY DEF Spent, HasToken
<1> HIDE DEF c, s, late
<1>7. CASE c.tokens >= Minute
  <2>1. Spent(b, t, Rate) = [tokens |-> c.tokens - Minute, refilled |-> t]
    BY <1>5, <1>6, <1>7
  <2>2. c.tokens - Minute >= 0
    BY <1>1, <1>5, <1>7
  <2> QED
    BY <1>1, <1>3, <1>5, <2>1, <2>2 DEF NoBucket, s, late
<1>8. CASE ~(c.tokens >= Minute)
  <2>1. Spent(b, t, Rate) = c
    BY <1>6, <1>8
  <2>2. c.tokens + s >= 0
    BY <1>3, <1>5
  <2> QED
    BY <1>1, <1>5, <2>1, <2>2 DEF NoBucket, s, late
<1> QED
  BY <1>7, <1>8

LEMMA AgreementInit == LimitInit => Agreement
<1> SUFFICES ASSUME LimitInit PROVE Agreement
  OBVIOUS
<1>1. \A r \in Request : request[r].pc = "new"
  BY DEF LimitInit, Init, New
<1>2. LateByAtMostStall
  BY <1>1 DEF LateByAtMostStall
<1>3. WindowAgrees /\ BucketAgrees /\ NotTooEmpty(keptBucket)
  BY DEF LimitInit, Init, WindowAgrees, BucketAgrees, NotTooEmpty
<1> QED
  BY <1>2, <1>3, TypesInit DEF Agreement, OnTime

\* A request that moves has read the clock at this moment.
LEMMA MovesNotLate ==
    ASSUME OnTime, now' = now, NEW r \in Request,
           \/ \E p \in Route : Arrive(r, p)
           \/ QpsPasses(r) \/ QpmPasses(r) \/ Refuse(r, "overQps") \/ Refuse(r, "overQpm")
    PROVE  LateByAtMostStall'
<1>1. now \in Int /\ MaxStall \in Nat /\ request \in [Request -> RequestType]
  BY RateConstants DEF OnTime, Types
<1>2. request'[r].pc \in {"qps", "qpm"} => request'[r].read = now
  <2>1. ASSUME NEW p \in Route, Arrive(r, p) PROVE request'[r].read = now
    BY <1>1, <2>1 DEF Arrive, New
  <2>2. QpsPasses(r) => request'[r].read = now
    BY <1>1 DEF QpsPasses, RequestType
  <2>3. QpmPasses(r) => request'[r].pc = "passed"
    BY <1>1 DEF QpmPasses, RequestType
  <2>4. \A check \in {"overQps", "overQpm"} : Refuse(r, check) => request'[r].read = now
    BY <1>1 DEF Refuse, RequestType
  <2> QED
    BY <2>1, <2>2, <2>3, <2>4
<1>3. \A q \in Request \ {r} : request'[q] = request[q]
  BY <1>1 DEF Arrive, QpsPasses, QpmPasses, Refuse
<1> SUFFICES ASSUME NEW q \in Request, request'[q].pc \in {"qps", "qpm"}
             PROVE  request'[q].read <= now /\ now <= request'[q].read + MaxStall
  BY DEF LateByAtMostStall
<1>4. CASE q = r
  BY <1>1, <1>2, <1>4
<1>5. CASE q # r
  BY <1>3, <1>5 DEF OnTime, LateByAtMostStall
<1> QED
  BY <1>4, <1>5

LEMMA OnTimeTick ==
    ASSUME OnTime, Tick, UNCHANGED kept
    PROVE  LateByAtMostStall' /\ WindowAgrees'
<1>1. /\ now' = now + 1 /\ now \in Int /\ request' = request
      /\ window' = window /\ keptWindow' = keptWindow
  BY RateConstants DEF Tick, kept, OnTime, Types
<1>2. LateByAtMostStall'
  <2> SUFFICES ASSUME NEW r \in Request, request[r].pc \in {"qps", "qpm"}
               PROVE  request[r].read <= now + 1 /\ now + 1 <= request[r].read + MaxStall
    BY <1>1 DEF LateByAtMostStall
  <2>1. request[r].read <= now /\ now < request[r].read + MaxStall
    BY DEF OnTime, LateByAtMostStall, Tick
  <2>2. request[r].read \in Int /\ MaxStall \in Int
    BY RateConstants DEF OnTime, Types, RequestType
  <2> QED
    BY <1>1, <2>1, <2>2
<1>3. WindowAgrees'
  <2>1. keptWindow.start \in Int /\ WindowIdle \in Int
    BY IdleConstants, RateConstants DEF OnTime, Types
  <2> QED
    BY <1>1, <2>1 DEF OnTime, WindowAgrees
<1> QED
  BY <1>2, <1>3

LEMMA OnTimeCleanUp ==
    ASSUME OnTime, CleanUp
    PROVE  LateByAtMostStall' /\ WindowAgrees'
<1>1. now' = now /\ request' = request /\ keptWindow' = keptWindow
  BY DEF CleanUp, CleanUpCounters, CleanUpBuckets, kept
<1>2. LateByAtMostStall'
  BY <1>1 DEF OnTime, LateByAtMostStall
<1>3. CASE window' = window
  BY <1>1, <1>2, <1>3 DEF OnTime, WindowAgrees
<1>4. CASE window' = NoWindow /\ now - window.start > WindowIdle
  BY <1>1, <1>2, <1>4 DEF OnTime, WindowAgrees
<1> QED
  BY <1>3, <1>4 DEF CleanUp, CleanUpCounters, CleanUpBuckets

\* What the first check does, told by the window that is never forgotten.
LEMMA LimitQPSKept ==
    ASSUME OnTime, NEW r \in Request, LimitQPS(r)
    PROVE  LET limit == Qps(request[r].route)
               t == request[r].read
           IN  /\ request[r].pc = "qps" /\ t \in Time /\ t <= now /\ now <= t + MaxStall
               /\ limit \in Nat
               /\ \/ limit = 0 /\ QpsPasses(r) /\ UNCHANGED <<window, keptWindow>>
                  \/ /\ limit > 0 /\ Fits(keptWindow, t, limit) /\ QpsPasses(r)
                     /\ keptWindow' = Counted(keptWindow, t) /\ window' = keptWindow'
                  \/ /\ limit > 0 /\ ~Fits(keptWindow, t, limit) /\ Refuse(r, "overQps")
                     /\ UNCHANGED <<window, keptWindow>>
<1> DEFINE limit == Qps(request[r].route)
           t == request[r].read
<1>1. request[r].pc = "qps" /\ limit \in Nat /\ t \in Time /\ t <= now /\ now <= t + MaxStall
  BY LimitTypes DEF OnTime, Types, RequestType, LateByAtMostStall, LimitQPS, CheckQPS
<1>2. /\ Fits(window, t, limit) = Fits(keptWindow, t, limit)
      /\ Fits(window, t, limit) => Counted(window, t) = Counted(keptWindow, t)
  BY <1>1, SameWindow DEF OnTime
<1>3. /\ QpsPasses(r) => request'[r].pc = "qpm"
      /\ Refuse(r, "overQps") => request'[r].pc = "overQps"
  BY DEF QpsPasses, Refuse, OnTime, Types, RequestType
<1>4. CASE limit = 0
  BY <1>1, <1>4 DEF LimitQPS, CheckQPS
<1>5. CASE limit > 0
  BY <1>1, <1>2, <1>3, <1>5 DEF LimitQPS, CheckQPS
<1> QED
  BY <1>1, <1>4, <1>5

LEMMA OnTimeQPS ==
    ASSUME OnTime, NEW r \in Request, LimitQPS(r)
    PROVE  LateByAtMostStall' /\ WindowAgrees'
<1>1. now' = now /\ (QpsPasses(r) \/ Refuse(r, "overQps"))
  BY DEF LimitQPS, CheckQPS
<1>2. LateByAtMostStall'
  BY <1>1, MovesNotLate
<1>3. UNCHANGED <<window, keptWindow>> \/ window' = keptWindow'
  BY LimitQPSKept
<1> QED
  BY <1>1, <1>2, <1>3 DEF OnTime, WindowAgrees

LEMMA OnTimeQPM ==
    ASSUME OnTime, NEW r \in Request, LimitQPM(r)
    PROVE  LateByAtMostStall' /\ WindowAgrees'
<1>1. now' = now /\ window' = window /\ keptWindow' = keptWindow /\ (QpmPasses(r) \/ Refuse(r, "overQpm"))
  BY DEF LimitQPM, CheckQPM
<1>2. LateByAtMostStall'
  BY <1>1, MovesNotLate
<1> QED
  BY <1>1, <1>2 DEF OnTime, WindowAgrees

LEMMA OnTimeStep == OnTime /\ [LimitNext]_allVars => OnTime'
<1> SUFFICES ASSUME OnTime, [LimitNext]_allVars
             PROVE  LateByAtMostStall' /\ WindowAgrees'
  BY TypesStep DEF OnTime
<1>1. CASE Tick /\ UNCHANGED kept
  BY <1>1, OnTimeTick
<1>2. CASE CleanUp
  BY <1>2, OnTimeCleanUp
<1>3. ASSUME NEW r \in Request, NEW p \in Route, Arrive(r, p), UNCHANGED kept
      PROVE  LateByAtMostStall' /\ WindowAgrees'
  <2>1. UNCHANGED <<now, window, keptWindow>>
    BY <1>3 DEF Arrive, kept
  <2>2. LateByAtMostStall'
    BY <1>3, <2>1, MovesNotLate
  <2> QED
    BY <2>1, <2>2 DEF OnTime, WindowAgrees
<1>4. ASSUME NEW r \in Request, LimitQPS(r) PROVE LateByAtMostStall' /\ WindowAgrees'
  BY <1>4, OnTimeQPS
<1>5. ASSUME NEW r \in Request, LimitQPM(r) PROVE LateByAtMostStall' /\ WindowAgrees'
  BY <1>5, OnTimeQPM
<1>6. CASE UNCHANGED allVars
  BY <1>6 DEF allVars, vars, kept, OnTime, LateByAtMostStall, WindowAgrees
<1> QED
  BY <1>1, <1>2, <1>3, <1>4, <1>5, <1>6 DEF LimitNext

\* The clean-up leaves a bucket that agrees with the kept one.
LEMMA AgreementCleanUp ==
    ASSUME Agreement, CleanUp
    PROVE  BucketAgrees' /\ NotTooEmpty(keptBucket)'
<1>1. now' = now /\ keptBucket' = keptBucket
  BY DEF CleanUp, CleanUpCounters, CleanUpBuckets, kept
<1>2. NotTooEmpty(keptBucket)'
  BY <1>1 DEF Agreement, NotTooEmpty
<1>3. CASE bucket' = bucket
  BY <1>1, <1>2, <1>3 DEF Agreement, BucketAgrees
<1>4. CASE bucket' = NoBucket /\ now - bucket.refilled > BucketIdle
  BY <1>1, <1>2, <1>4 DEF Agreement, BucketAgrees
<1> QED
  BY <1>3, <1>4 DEF CleanUp, CleanUpCounters, CleanUpBuckets

\* Time only makes the removed bucket older and the kept one fuller.
LEMMA AgreementTick ==
    ASSUME Agreement, Tick, UNCHANGED kept
    PROVE  BucketAgrees' /\ NotTooEmpty(keptBucket)'
<1>1. now' = now + 1 /\ now \in Int /\ bucket' = bucket /\ keptBucket' = keptBucket
  BY RateConstants DEF Tick, kept, Agreement, OnTime, Types
<1>2. BucketAgrees'
  <2>1. keptBucket.refilled \in Int /\ BucketIdle \in Int
    BY IdleConstants, RateConstants DEF Agreement, OnTime, Types, Bucket
  <2> QED
    BY <1>1, <2>1 DEF Agreement, BucketAgrees
<1>3. NotTooEmpty(keptBucket)'
  <2> SUFFICES ASSUME keptBucket # NoBucket
               PROVE  /\ keptBucket.refilled <= now + 1
                      /\ keptBucket.tokens + ((now + 1) - keptBucket.refilled) * Rate >= 0
    BY <1>1 DEF Agreement, NotTooEmpty
  <2> DEFINE f == keptBucket.refilled
             k == keptBucket.tokens
  <2>1. f \in Int /\ k \in Int /\ Rate \in Nat
    BY RateType, RateConstants DEF Agreement, OnTime, Types, Bucket
  <2>2. f <= now /\ k + (now - f) * Rate >= 0
    BY DEF Agreement, NotTooEmpty
  <2> HIDE DEF f, k
  <2>3. (now - f) * Rate <= ((now + 1) - f) * Rate
    BY <1>1, <2>1, Monotone
  <2>4. (now - f) * Rate \in Int /\ ((now + 1) - f) * Rate \in Int
    BY <1>1, <2>1
  <2>5. k + ((now + 1) - f) * Rate >= 0
    BY <2>1, <2>2, <2>3, <2>4
  <2> QED
    BY <1>1, <2>1, <2>2, <2>5 DEF f, k
<1> QED
  BY <1>2, <1>3

\* What the second check does, told by the bucket that is never forgotten.
LEMMA LimitQPMKept ==
    ASSUME OneQpm, Agreement, NEW r \in Request, LimitQPM(r)
    PROVE  LET t == request[r].read
           IN  /\ request[r].pc = "qpm" /\ t \in Time /\ t <= now /\ now <= t + MaxStall
               /\ \/ Rate = 0 /\ QpmPasses(r) /\ UNCHANGED <<bucket, keptBucket>>
                  \/ /\ Rate > 0
                     /\ IF HasToken(keptBucket, t, Rate) THEN QpmPasses(r) ELSE Refuse(r, "overQpm")
                     /\ keptBucket' = Spent(keptBucket, t, Rate) /\ bucket' = keptBucket'
<1> DEFINE t == request[r].read
<1>1. Qpm(request[r].route) = Rate /\ Rate \in Nat
  BY RateType DEF Agreement, OnTime, Types, RequestType
<1>2. request[r].pc = "qpm" /\ t \in Time /\ t <= now /\ now <= t + MaxStall
  BY DEF Agreement, OnTime, Types, RequestType, LateByAtMostStall, LimitQPM, CheckQPM
<1>3. /\ HasToken(bucket, t, Rate) = HasToken(keptBucket, t, Rate)
      /\ Spent(bucket, t, Rate) = Spent(keptBucket, t, Rate)
  BY <1>2, SameBucket DEF Agreement, OnTime
<1> QED
  BY <1>1, <1>2, <1>3 DEF LimitQPM, CheckQPM

LEMMA AgreementQPM ==
    ASSUME OneQpm, Agreement, NEW r \in Request, LimitQPM(r)
    PROVE  BucketAgrees' /\ NotTooEmpty(keptBucket)'
<1> DEFINE t == request[r].read
<1>1. now' = now
  BY DEF LimitQPM, CheckQPM
<1>2. t \in Time /\ t <= now /\ now <= t + MaxStall
  BY LimitQPMKept
<1>3. CASE Rate > 0 /\ keptBucket' = Spent(keptBucket, t, Rate) /\ bucket' = keptBucket'
  <2>1. keptBucket \in Bucket /\ NotTooEmpty(keptBucket)
    BY DEF Agreement, OnTime, Types
  <2>2. /\ keptBucket'.refilled = t
        /\ keptBucket'.tokens + MaxStall * Rate >= 0
        /\ keptBucket'.tokens + (now - t) * Rate >= 0
    BY <1>2, <1>3, <2>1, SpentNotTooEmpty DEF Agreement, OnTime
  <2>3. NotTooEmpty(keptBucket)'
    BY <1>1, <1>2, <2>2 DEF NotTooEmpty
  <2> QED
    BY <1>3, <2>3 DEF BucketAgrees
<1>4. CASE UNCHANGED <<bucket, keptBucket>>
  BY <1>1, <1>4 DEF Agreement, BucketAgrees, NotTooEmpty
<1> QED
  BY <1>3, <1>4, LimitQPMKept

LEMMA AgreementStep == OneQpm /\ Agreement /\ [LimitNext]_allVars => Agreement'
<1> SUFFICES ASSUME OneQpm, Agreement, [LimitNext]_allVars
             PROVE  BucketAgrees' /\ NotTooEmpty(keptBucket)'
  BY OnTimeStep DEF Agreement
<1>1. CASE Tick /\ UNCHANGED kept
  BY <1>1, AgreementTick
<1>2. CASE CleanUp
  BY <1>2, AgreementCleanUp
<1>3. CASE UNCHANGED <<now, bucket, keptBucket>>
  BY <1>3 DEF Agreement, BucketAgrees, NotTooEmpty
<1>4. ASSUME NEW r \in Request, LimitQPM(r) PROVE BucketAgrees' /\ NotTooEmpty(keptBucket)'
  BY <1>4, AgreementQPM
<1>5. ASSUME NEW r \in Request, (\E p \in Route : Arrive(r, p) /\ UNCHANGED kept) \/ LimitQPS(r)
      PROVE  UNCHANGED <<now, bucket, keptBucket>>
  BY <1>5 DEF Arrive, kept, LimitQPS, CheckQPS
<1>6. UNCHANGED allVars => UNCHANGED <<now, bucket, keptBucket>>
  BY DEF allVars, vars, kept
<1> QED
  BY <1>1, <1>2, <1>3, <1>4, <1>5, <1>6 DEF LimitNext

-----------------------------------------------------------------------------
\* The operators without a variable are the same in both specifications.
LEMMA SameOperators ==
    /\ \A p : Unforgetting!Qps(p) = Qps(p) /\ Unforgetting!Qpm(p) = Qpm(p)
    /\ \A w, t, limit : Unforgetting!Fits(w, t, limit) = Fits(w, t, limit)
    /\ \A w, t : Unforgetting!Counted(w, t) = Counted(w, t)
    /\ \A b, t, limit :
         /\ Unforgetting!HasToken(b, t, limit) = HasToken(b, t, limit)
         /\ Unforgetting!Spent(b, t, limit) = Spent(b, t, limit)
<1>1. \A p : Unforgetting!Qps(p) = Qps(p) /\ Unforgetting!Qpm(p) = Qpm(p)
  BY DEF Unforgetting!Qps, Qps, Unforgetting!Qpm, Qpm
<1>2. \A w, t : Unforgetting!StartsWindow(w, t) = StartsWindow(w, t)
  BY DEF Unforgetting!StartsWindow, StartsWindow, Unforgetting!NoWindow, NoWindow
<1>3. \A w, t, limit : Unforgetting!Fits(w, t, limit) = Fits(w, t, limit)
  BY <1>2 DEF Unforgetting!Fits, Fits
<1>4. \A w, t : Unforgetting!Counted(w, t) = Counted(w, t)
  BY <1>2 DEF Unforgetting!Counted, Counted
<1>5. \A b, t, limit : Unforgetting!Refilled(b, t, limit) = Refilled(b, t, limit)
  BY DEF Unforgetting!Refilled, Refilled, Unforgetting!Capped, Capped, Unforgetting!NoBucket, NoBucket
<1>6. \A b, t, limit : Unforgetting!HasToken(b, t, limit) = HasToken(b, t, limit)
  BY <1>5 DEF Unforgetting!HasToken, HasToken
<1>7. \A b, t, limit : Unforgetting!Spent(b, t, limit) = Spent(b, t, limit)
  BY <1>5, <1>6 DEF Unforgetting!Spent, Spent
<1> QED
  BY <1>1, <1>3, <1>4, <1>6, <1>7

LEMMA UnforgettingQPS ==
    ASSUME OnTime, NEW r \in Request, LimitQPS(r)
    PROVE  Unforgetting!CheckQPS(r)
<1>1. UNCHANGED <<now, keptBucket>>
  BY DEF LimitQPS, CheckQPS
<1> QED
  BY <1>1, LimitQPSKept, SameOperators
  DEF Unforgetting!CheckQPS, Unforgetting!QpsPasses, Unforgetting!Refuse, QpsPasses, Refuse

LEMMA UnforgettingQPM ==
    ASSUME OneQpm, Agreement, NEW r \in Request, LimitQPM(r)
    PROVE  Unforgetting!CheckQPM(r)
<1>1. Qpm(request[r].route) = Rate
  BY RateType DEF Agreement, OnTime, Types, RequestType
<1>2. UNCHANGED <<now, keptWindow>>
  BY DEF LimitQPM, CheckQPM
<1> QED
  BY <1>1, <1>2, LimitQPMKept, SameOperators
  DEF Unforgetting!CheckQPM, Unforgetting!QpmPasses, Unforgetting!Refuse, QpmPasses, Refuse

LEMMA UnforgettingStep ==
    OneQpm /\ Agreement /\ [LimitNext]_allVars => [Unforgetting!Next]_(Unforgetting!vars)
<1> SUFFICES ASSUME OneQpm, Agreement, [LimitNext]_allVars
             PROVE  Unforgetting!Next \/ UNCHANGED Unforgetting!vars
  OBVIOUS
<1>1. CASE Tick /\ UNCHANGED kept
  BY <1>1 DEF Tick, kept, Unforgetting!Tick, Unforgetting!Next
<1>2. CASE CleanUp
  BY <1>2 DEF CleanUp, CleanUpCounters, CleanUpBuckets, kept, Unforgetting!vars
<1>3. ASSUME NEW r \in Request, NEW p \in Route, Arrive(r, p), UNCHANGED kept
      PROVE  Unforgetting!Next
  BY <1>3 DEF Arrive, kept, New, Never, Unforgetting!New, Unforgetting!Never, Unforgetting!Arrive, Unforgetting!Next
<1>4. ASSUME NEW r \in Request, LimitQPS(r) PROVE Unforgetting!Next
  BY <1>4, UnforgettingQPS DEF Agreement, Unforgetting!Next
<1>5. ASSUME NEW r \in Request, LimitQPM(r) PROVE Unforgetting!Next
  BY <1>5, UnforgettingQPM DEF Unforgetting!Next
<1>6. CASE UNCHANGED allVars
  BY <1>6 DEF allVars, vars, kept, Unforgetting!vars
<1> QED
  BY <1>1, <1>2, <1>3, <1>4, <1>5, <1>6 DEF LimitNext

\* Where all routes have one limit a minute, the clean-up (rateLimit.go:191)
\* cannot be noticed: with it, requests are let through and refused as if every
\* record were kept, although a check may compare with a clock that is late.
THEOREM CleanUpIsInvisible == OneQpm => (LimitSpec => NeverForgets)
<1> SUFFICES ASSUME OneQpm PROVE LimitSpec => NeverForgets
  OBVIOUS
<1>1. LimitInit => Agreement
  BY AgreementInit
<1>2. Agreement /\ [LimitNext]_allVars => Agreement'
  BY AgreementStep
<1>3. LimitInit => Unforgetting!Init
  BY DEF LimitInit, Init, New, NoWindow, NoBucket, Never,
         Unforgetting!Init, Unforgetting!New, Unforgetting!NoWindow, Unforgetting!NoBucket, Unforgetting!Never
<1>4. Agreement /\ [LimitNext]_allVars => [Unforgetting!Next]_(Unforgetting!vars)
  BY UnforgettingStep
<1> QED
  BY <1>1, <1>2, <1>3, <1>4, PTL DEF LimitSpec, NeverForgets, Unforgetting!Spec

-----------------------------------------------------------------------------
(* What the windows let through.  A request that is counted has a place: the *)
(* start of a window and a number within it.  The places of two requests     *)
(* differ, those of the last window are all taken, and windows are a second  *)
(* apart, so that how many pass, and who is refused, is told by the places.  *)

LEMMA CountTo ==
    ASSUME NEW k \in Nat
    PROVE  IsFiniteSet(1 .. k) /\ Cardinality(1 .. k) = k
<1>1. 1 \in Int /\ k \in Int
  OBVIOUS
<1> QED
  BY <1>1, FS_Interval

Window == [start : Time, count : Nat]

Counting == {r \in Request : request[r].second # Never /\ Qps(request[r].route) > 0}

InWindow(place, r) ==
    /\ place[r].count \in 1 .. Qps(request[r].route)
    /\ place[r].start <= request[r].second
    /\ place[r].count = 1 => request[r].second <= place[r].start + MaxStall
    /\ place[r].start <= keptWindow.start
    /\ place[r].start = keptWindow.start => place[r].count <= keptWindow.count

Apart(place, r, q) ==
    place[r].start < place[q].start =>
        /\ place[r].start + Second <= place[q].start
        /\ request[r].second <= place[q].start + MaxStall

Places(place) ==
    /\ place \in [Request -> Window]
    /\ \A r \in Counting : InWindow(place, r)
    /\ \A r, q \in Counting : (r # q => place[r] # place[q]) /\ Apart(place, r, q)
    /\ \A k \in 1 .. keptWindow.count :
         \E q \in Counting : place[q] = [start |-> keptWindow.start, count |-> k]

Placed ==
    /\ OnTime
    /\ keptWindow.start <= now
    /\ keptWindow.count = 0 => keptWindow = NoWindow
    /\ \A r \in Request :
         /\ request[r].second <= now
         /\ request[r].pc \in {"new", "qps", "overQps"} => request[r].second = Never
    /\ \E place : Places(place)

LEMMA PlacedInit == LimitInit => Placed
<1> SUFFICES ASSUME LimitInit PROVE Placed
  OBVIOUS
<1>1. OnTime
  BY AgreementInit DEF Agreement
<1>2. keptWindow = NoWindow /\ now = 0 /\ \A r \in Request : request[r].second = Never
  BY DEF LimitInit, Init, New
<1>3. Counting = {}
  BY <1>2 DEF Counting
<1> DEFINE place == [r \in Request |-> NoWindow]
<1>4. place \in [Request -> Window]
  BY NoWindowType, RateConstants DEF Window
<1>5. Places(place)
  BY <1>2, <1>3, <1>4 DEF Places, NoWindow
<1> QED
  BY <1>1, <1>2, <1>5 DEF Placed, NoWindow

\* Places are kept by what moves no request in or out of the windows.
LEMMA PlacesKept ==
    ASSUME Placed, UNCHANGED keptWindow, Counting' = Counting,
           \A r \in Counting :
             /\ request'[r].second = request[r].second
             /\ request'[r].route = request[r].route
    PROVE  \E place : Places(place)'
<1> PICK place : Places(place)
  BY DEF Placed
<1>1. \A r \in Counting : InWindow(place, r)'
  BY DEF Places, InWindow
<1>2. \A r, q \in Counting : Apart(place, r, q)'
  BY DEF Places, Apart
<1>3. Places(place)'
  BY <1>1, <1>2 DEF Places
<1> QED
  BY <1>3

\* The place that a request takes when it is counted at time t is later than
\* those of the requests before it.
LEMMA NextPlace ==
    ASSUME Placed, NEW place, Places(place), NEW t \in Time, t <= now, now <= t + MaxStall,
           NEW limit \in Nat, limit > 0, Fits(keptWindow, t, limit)
    PROVE  LET v == Counted(keptWindow, t)
           IN  /\ v \in Window /\ v.count \in 1 .. limit /\ v.start <= now
               /\ v.count = 1 => now <= v.start + MaxStall
               /\ \A q \in Counting :
                    /\ place[q].start <= v.start
                    /\ place[q].start = v.start => place[q].count < v.count
                    /\ place[q].start < v.start =>
                        place[q].start + Second <= v.start /\ request[q].second <= v.start + MaxStall
               /\ \A k \in 1 .. v.count :
                    k = v.count \/ \E q \in Counting : place[q] = [start |-> v.start, count |-> k]
<1> DEFINE w == keptWindow
           v == Counted(w, t)
<1>1. /\ w \in Window /\ w.start \in Nat /\ w.count \in Nat /\ w.start <= now
      /\ now \in Nat /\ t \in Nat
      /\ Second \in Nat /\ Second > 0 /\ MaxStall \in Nat
  BY RateConstants DEF Placed, OnTime, Types, Window
<1>2. ASSUME NEW q \in Counting
      PROVE  /\ place[q].start \in Nat /\ place[q].count \in Nat /\ request[q].second \in Int
             /\ request[q].second <= now /\ place[q].count >= 1
             /\ place[q].start <= w.start
             /\ place[q].start = w.start => place[q].count <= w.count
  <2>1. q \in Request
    BY DEF Counting
  <2>2. place[q] \in Window
    BY <2>1 DEF Places
  <2>3. place[q].start \in Nat /\ place[q].count \in Nat
    BY <2>2, RateConstants DEF Window
  <2>4. request[q].second \in Int /\ request[q].second <= now
    BY <2>1, RateConstants DEF Placed, OnTime, Types, RequestType
  <2>5. Qps(request[q].route) \in Nat
    BY <2>1, LimitTypes DEF Placed, OnTime, Types, RequestType
  <2> QED
    BY <2>3, <2>4, <2>5 DEF Places, InWindow
<1>3. w.count = 0 => Counting = {}
  <2> SUFFICES ASSUME w.count = 0, NEW q \in Counting PROVE FALSE
    OBVIOUS
  <2>1. w.start = 0
    BY DEF Placed, NoWindow
  <2> HIDE DEF w
  <2>2. place[q].start = w.start
    BY <1>2, <2>1
  <2> QED
    BY <1>2, <2>2
<1>4. CASE StartsWindow(w, t)
  <2>1. v = [start |-> t, count |-> 1]
    BY <1>4 DEF Counted
  <2>2. Counting = {} \/ t - w.start >= Second
    BY <1>3, <1>4 DEF StartsWindow, NoWindow
  <2>3. v \in Window /\ v.start = t /\ v.count = 1
    BY <2>1 DEF Window
  <2> HIDE DEF v, w
  <2>4. ASSUME NEW q \in Counting
        PROVE  /\ place[q].start < v.start
               /\ place[q].start + Second <= v.start /\ request[q].second <= v.start + MaxStall
    <3>1. t - w.start >= Second
      BY <2>2
    <3> QED
      BY <1>1, <1>2, <2>3, <3>1
  <2>5. \A k \in 1 .. v.count : k = v.count
    BY <2>3
  <2>7. v.count \in 1 .. limit /\ v.start <= now /\ now <= v.start + MaxStall
    BY <2>3
  <2>8. ASSUME NEW q \in Counting PROVE place[q].start <= v.start /\ place[q].start # v.start
    <3>1. v.start \in Int
      BY <1>1, <2>3
    <3> QED
      BY <1>2, <2>4, <3>1
  <2> QED
    BY <2>3, <2>4, <2>5, <2>7, <2>8 DEF v, w
<1>5. CASE ~StartsWindow(w, t)
  <2>1. v = [w EXCEPT !.count = @ + 1] /\ w.count < limit /\ w # NoWindow
    BY <1>5 DEF Counted, Fits, StartsWindow
  <2>2. w.count >= 1
    BY <1>1, <2>1 DEF Placed, Window
  <2>3. v \in Window /\ v.start = w.start /\ v.count = w.count + 1 /\ w.count \in Nat /\ w.start \in Int
    BY <1>1, <2>1 DEF Window
  <2> HIDE DEF v
  <2>4. PICK q0 \in Counting : place[q0] = [start |-> w.start, count |-> 1]
    BY <2>2, <2>3 DEF Places
  <2>5. ASSUME NEW q \in Counting, place[q].start < w.start
        PROVE  place[q].start + Second <= w.start /\ request[q].second <= w.start + MaxStall
    BY <2>4, <2>5 DEF Places, Apart
  <2>6. \A q \in Counting : place[q].start = w.start => place[q].count < v.count
    <3> SUFFICES ASSUME NEW q \in Counting, place[q].start = w.start PROVE place[q].count < v.count
      OBVIOUS
    <3> QED
      BY <1>2, <2>3
  <2>7. \A k \in 1 .. v.count : k = v.count \/ \E q \in Counting : place[q] = [start |-> v.start, count |-> k]
    <3>1. \A k \in 1 .. v.count : k = v.count \/ k \in 1 .. w.count
      BY <2>3
    <3> QED
      BY <2>3, <3>1 DEF Places
  <2>8. v.count \in 1 .. limit /\ v.start <= now /\ v.count # 1
    BY <1>1, <2>1, <2>2, <2>3
  <2> QED
    BY <1>2, <2>3, <2>5, <2>6, <2>7, <2>8 DEF v
<1> QED
  BY <1>4, <1>5

LEMMA PlaceTaken ==
    ASSUME Placed, NEW r \in Request, LET t == request[r].read
                                          limit == Qps(request[r].route)
                                      IN  /\ t \in Time /\ t <= now /\ now <= t + MaxStall
                                          /\ limit \in Nat /\ limit > 0 /\ Fits(keptWindow, t, limit)
                                          /\ keptWindow' = Counted(keptWindow, t),
           request[r].pc = "qps", QpsPasses(r), now' = now
    PROVE  /\ keptWindow'.start <= now /\ keptWindow'.count # 0
           /\ \E place : Places(place)'
<1> PICK place : Places(place)
  BY DEF Placed
<1> DEFINE limit == Qps(request[r].route)
           v == keptWindow'
<1>1. /\ v \in Window /\ v.count \in 1 .. limit /\ v.start <= now
      /\ v.count = 1 => now <= v.start + MaxStall
      /\ \A q \in Counting :
           /\ place[q].start <= v.start
           /\ place[q].start = v.start => place[q].count < v.count
           /\ place[q].start < v.start =>
               place[q].start + Second <= v.start /\ request[q].second <= v.start + MaxStall
      /\ \A k \in 1 .. v.count :
           k = v.count \/ \E q \in Counting : place[q] = [start |-> v.start, count |-> k]
  BY NextPlace
<1>2. place \in [Request -> Window] /\ request \in [Request -> RequestType] /\ now \in Time
  BY DEF Placed, OnTime, Types, Places
<1>3. r \notin Counting
  BY DEF Placed, Counting
<1>4. /\ \A q \in Request \ {r} : request'[q] = request[q]
      /\ request'[r].second = now /\ request'[r].route = request[r].route
  BY <1>2 DEF QpsPasses, RequestType
<1>5. Counting' = Counting \union {r}
  BY <1>2, <1>4, RateConstants DEF Counting
<1>6. PICK after \in [Request -> Window] :
        after[r] = v /\ \A q \in Counting : after[q] = place[q] /\ q \in Request \ {r}
  <2>1. [place EXCEPT ![r] = v] \in [Request -> Window]
    BY <1>1, <1>2
  <2> QED
    BY <1>2, <1>3, <2>1 DEF Counting
<1> HIDE DEF v
<1>7. \A q \in Counting' : InWindow(after, q)'
  <2>1. InWindow(after, r)'
    <3>1. v.start \in Int /\ v.count \in Int
      BY <1>1, RateConstants DEF Window
    <3>2. /\ after[r].count \in 1 .. Qps(request'[r].route)
          /\ after[r].start <= request'[r].second
          /\ after[r].count = 1 => request'[r].second <= after[r].start + MaxStall
          /\ after[r].start <= v.start
          /\ after[r].start = v.start => after[r].count <= v.count
      BY <1>1, <1>4, <1>6, <3>1
    <3> QED
      BY <3>2 DEF InWindow, v
  <2>2. ASSUME NEW q \in Counting PROVE InWindow(after, q)'
    <3>1. place[q].count \in Int /\ v.count \in Int
      BY <1>1, <1>2, <1>6 DEF Window
    <3>2. request'[q] = request[q] /\ after[q] = place[q]
      BY <1>4, <1>6
    <3>3. place[q].start = v.start => place[q].count <= v.count
      BY <1>1, <3>1
    <3>4. place[q].start <= v.start
      BY <1>1
    <3> QED
      BY <3>2, <3>3, <3>4 DEF InWindow, Places, v
  <2> QED
    BY <1>5, <2>1, <2>2
<1>8. \A q, p \in Counting' : (q # p => after[q] # after[p]) /\ Apart(after, q, p)'
  <2>1. ASSUME NEW q \in Counting, NEW p \in Counting
        PROVE  (q # p => after[q] # after[p]) /\ Apart(after, q, p)'
    <3>1. request'[q] = request[q] /\ after[q] = place[q] /\ after[p] = place[p]
      BY <1>4, <1>6
    <3> QED
      BY <3>1 DEF Places, Apart
  <2>2. ASSUME NEW q \in Counting
        PROVE  after[q] # after[r] /\ Apart(after, q, r)' /\ Apart(after, r, q)'
    <3>1. /\ place[q].count \in Int /\ v.count \in Int
          /\ place[q].start \in Int /\ v.start \in Int
      BY <1>1, <1>2, <1>6, RateConstants DEF Window
    <3>2. request'[q] = request[q] /\ after[q] = place[q] /\ after[r] = v
      BY <1>4, <1>6
    <3>3. place[q].start <= v.start /\ place[q] # v
      BY <1>1, <3>1
    <3>4. place[q].start < v.start =>
            place[q].start + Second <= v.start /\ request[q].second <= v.start + MaxStall
      BY <1>1
    <3>5. Apart(after, q, r)'
      BY <3>2, <3>4 DEF Apart
    <3>6. Apart(after, r, q)'
      BY <3>1, <3>2, <3>3 DEF Apart
    <3> QED
      BY <3>2, <3>3, <3>5, <3>6
  <2>3. Apart(after, r, r)'
    <3>1. after[r].start \in Int
      BY <1>1, <1>6, RateConstants DEF Window
    <3> QED
      BY <3>1 DEF Apart
  <2> QED
    BY <1>5, <2>1, <2>2, <2>3
<1>9. \A k \in 1 .. v.count : \E q \in Counting' : after[q] = [start |-> v.start, count |-> k]
  <2>1. after[r] = [start |-> v.start, count |-> v.count]
    BY <1>1, <1>6 DEF Window
  <2> QED
    BY <1>1, <1>5, <1>6, <2>1
<1>10. Places(after)'
  BY <1>6, <1>7, <1>8, <1>9 DEF Places, v
<1> QED
  BY <1>1, <1>10 DEF v

\* Requests keep what the windows know of them, whatever else they do.
LEMMA PlacedMoves ==
    ASSUME Placed, now' = now, NEW r \in Request,
           \/ \E p \in Route : Arrive(r, p)
           \/ QpmPasses(r) /\ request[r].pc = "qpm"
           \/ Refuse(r, "overQpm") /\ request[r].pc = "qpm"
           \/ Refuse(r, "overQps") /\ request[r].pc = "qps"
    PROVE  \A q \in Request :
             /\ request'[q].second = request[q].second
             /\ request'[q].route = request[q].route \/ request[q].second = Never
             /\ request'[q].pc \in {"new", "qps", "overQps"} => request'[q].second = Never
<1>1. request \in [Request -> RequestType]
  BY DEF Placed, OnTime, Types
<1>2. \A q \in Request \ {r} : request'[q] = request[q]
  BY <1>1 DEF Arrive, QpmPasses, Refuse
<1>3. ASSUME NEW p \in Route, Arrive(r, p)
      PROVE  request[r].second = Never /\ request'[r].second = Never
  BY <1>1, <1>3 DEF Arrive, New, Placed
<1>4. ASSUME QpmPasses(r), request[r].pc = "qpm"
      PROVE  /\ request'[r].second = request[r].second /\ request'[r].route = request[r].route
             /\ request'[r].pc = "passed"
  BY <1>1, <1>4 DEF QpmPasses, RequestType
<1>5. ASSUME NEW check \in {"overQps", "overQpm"}, Refuse(r, check)
      PROVE  /\ request'[r].second = request[r].second /\ request'[r].route = request[r].route
             /\ request'[r].pc = check
  BY <1>1, <1>5 DEF Refuse, RequestType
<1> QED
  BY <1>2, <1>3, <1>4, <1>5 DEF Placed

LEMMA PlacedQPS ==
    ASSUME Placed, NEW r \in Request, LimitQPS(r)
    PROVE  /\ keptWindow'.start <= now'
           /\ keptWindow'.count = 0 => keptWindow' = NoWindow
           /\ \A q \in Request :
                /\ request'[q].second <= now'
                /\ request'[q].pc \in {"new", "qps", "overQps"} => request'[q].second = Never
           /\ \E place : Places(place)'
<1> DEFINE limit == Qps(request[r].route)
           t == request[r].read
<1>1. now' = now /\ now \in Int /\ request \in [Request -> RequestType]
  BY RateConstants DEF LimitQPS, CheckQPS, Placed, OnTime, Types
<1>2. /\ request[r].pc = "qps" /\ t \in Time /\ t <= now /\ now <= t + MaxStall
      /\ limit \in Nat
      /\ \/ limit = 0 /\ QpsPasses(r) /\ UNCHANGED <<window, keptWindow>>
         \/ /\ limit > 0 /\ Fits(keptWindow, t, limit) /\ QpsPasses(r)
            /\ keptWindow' = Counted(keptWindow, t) /\ window' = keptWindow'
         \/ /\ limit > 0 /\ ~Fits(keptWindow, t, limit) /\ Refuse(r, "overQps")
            /\ UNCHANGED <<window, keptWindow>>
  BY LimitQPSKept DEF Placed
<1>3. ASSUME QpsPasses(r)
      PROVE  /\ \A q \in Request \ {r} : request'[q] = request[q]
             /\ request'[r].second = now /\ request'[r].pc = "qpm"
             /\ request'[r].route = request[r].route
  BY <1>1, <1>3 DEF QpsPasses, RequestType
<1>4. ASSUME QpsPasses(r)
      PROVE  \A q \in Request :
                /\ request'[q].second <= now'
                /\ request'[q].pc \in {"new", "qps", "overQps"} => request'[q].second = Never
  BY <1>1, <1>3, <1>4 DEF Placed
<1>5. CASE limit = 0 /\ QpsPasses(r) /\ UNCHANGED keptWindow
  <2>1. Counting' = Counting /\ r \notin Counting
    BY <1>3, <1>5 DEF Counting
  <2>2. \A q \in Counting : request'[q] = request[q]
    BY <1>3, <1>5, <2>1 DEF Counting
  <2>3. \E place : Places(place)'
    BY <1>5, <2>1, <2>2, PlacesKept
  <2> QED
    BY <1>1, <1>4, <1>5, <2>3 DEF Placed
<1>6. CASE limit > 0 /\ Fits(keptWindow, t, limit) /\ QpsPasses(r) /\ keptWindow' = Counted(keptWindow, t)
  <2>1. /\ keptWindow'.start <= now /\ keptWindow'.count # 0
        /\ \E place : Places(place)'
    BY <1>1, <1>2, <1>6, PlaceTaken
  <2> QED
    BY <1>1, <1>4, <1>6, <2>1
<1>7. CASE Refuse(r, "overQps") /\ UNCHANGED keptWindow
  <2>1. \A q \in Request :
          /\ request'[q].second = request[q].second
          /\ request'[q].route = request[q].route \/ request[q].second = Never
          /\ request'[q].pc \in {"new", "qps", "overQps"} => request'[q].second = Never
    BY <1>1, <1>2, <1>7, PlacedMoves
  <2>2. Counting' = Counting
    BY <2>1 DEF Counting
  <2>3. \E place : Places(place)'
    BY <1>7, <2>1, <2>2, PlacesKept DEF Counting
  <2> QED
    BY <1>1, <1>7, <2>1, <2>3 DEF Placed
<1> QED
  BY <1>2, <1>5, <1>6, <1>7

LEMMA PlacedStep == Placed /\ [LimitNext]_allVars => Placed'
<1> SUFFICES ASSUME Placed, [LimitNext]_allVars PROVE Placed'
  OBVIOUS
<1>1. OnTime'
  BY OnTimeStep DEF Placed
<1>2. now \in Int /\ keptWindow.start \in Int /\ request \in [Request -> RequestType]
      /\ \A q \in Request : request[q].second \in Int
  BY RateConstants DEF Placed, OnTime, Types, RequestType
<1>3. ASSUME UNCHANGED keptWindow, now' = now \/ now' = now + 1,
             \A q \in Request :
               /\ request'[q].second = request[q].second
               /\ request'[q].route = request[q].route \/ request[q].second = Never
               /\ request'[q].pc \in {"new", "qps", "overQps"} => request'[q].second = Never
      PROVE  Placed'
  <2>1. Counting' = Counting
    BY <1>3 DEF Counting
  <2>2. \E place : Places(place)'
    BY <1>3, <2>1, PlacesKept DEF Counting
  <2>3. keptWindow'.start <= now' /\ \A q \in Request : request'[q].second <= now'
    BY <1>2, <1>3 DEF Placed
  <2> QED
    BY <1>1, <1>3, <2>2, <2>3 DEF Placed
<1>4. CASE request' = request /\ UNCHANGED keptWindow /\ (now' = now \/ now' = now + 1)
  BY <1>3, <1>4 DEF Placed
<1>5. (Tick /\ UNCHANGED kept) \/ CleanUp \/ UNCHANGED allVars
        => request' = request /\ UNCHANGED keptWindow /\ (now' = now \/ now' = now + 1)
  BY DEF Tick, kept, CleanUp, CleanUpCounters, CleanUpBuckets, allVars, vars
<1>6. ASSUME NEW r \in Request, NEW p \in Route, Arrive(r, p), UNCHANGED kept PROVE Placed'
  <2>1. now' = now /\ UNCHANGED keptWindow
    BY <1>6 DEF Arrive, kept
  <2> QED
    BY <1>3, <1>6, <2>1, PlacedMoves
<1>7. ASSUME NEW r \in Request, LimitQPS(r) PROVE Placed'
  BY <1>1, <1>7, PlacedQPS DEF Placed
<1>8. ASSUME NEW r \in Request, LimitQPM(r) PROVE Placed'
  <2>1. now' = now /\ UNCHANGED keptWindow /\ request[r].pc = "qpm"
        /\ (QpmPasses(r) \/ Refuse(r, "overQpm"))
    BY <1>8 DEF LimitQPM, CheckQPM
  <2> QED
    BY <1>3, <2>1, PlacedMoves
<1> QED
  BY <1>4, <1>5, <1>6, <1>7, <1>8 DEF LimitNext

\* Of two windows whose requests pass within less than a second, the first has
\* lost its first request to the time before.
LEMMA PlacedBurst ==
    ASSUME Placed, NEW r \in Request, request[r].second # Never, Qps(request[r].route) > 0
    PROVE  LET p == request[r].route
               t == request[r].second
           IN  Cardinality({q \in PassedQps(t, t + Second - MaxStall - 1) : request[q].route = p})
                   <= 2 * Qps(p) - 1
<1> DEFINE p == request[r].route
           t == request[r].second
           L == Qps(p)
           S == {q \in PassedQps(t, t + Second - MaxStall - 1) : request[q].route = p}
<1> PICK place : Places(place)
  BY DEF Placed
<1>1. L \in Nat /\ L > 0 /\ t \in Int /\ Second \in Int /\ MaxStall \in Nat
  BY LimitTypes, RateConstants DEF Placed, OnTime, Types, RequestType
<1>2. ASSUME NEW q \in S
      PROVE  /\ q \in Counting
             /\ request[q].second \in Int /\ place[q].start \in Int /\ place[q].count \in Int
             /\ t <= request[q].second /\ request[q].second < t + Second - MaxStall
             /\ place[q].start <= request[q].second
             /\ place[q].count \in 1 .. L
             /\ place[q].count = 1 => request[q].second <= place[q].start + MaxStall
  <2>1. /\ q \in Request /\ request[q].second \in Time /\ request[q].route = p
        /\ request[q].second \in t .. t + Second - MaxStall - 1
    BY DEF PassedQps
  <2>2. q \in Counting
    BY <1>1, <2>1, RateConstants DEF Counting
  <2>3. place[q] \in Window
    BY <2>1 DEF Places
  <2>4. place[q].start \in Int /\ place[q].count \in Int
    BY <2>3, RateConstants DEF Window
  <2>5. InWindow(place, q)
    BY <2>2 DEF Places
  <2>6. request[q].second \in Int /\ t <= request[q].second /\ request[q].second < t + Second - MaxStall
    BY <1>1, <2>1, RateConstants
  <2> QED
    BY <2>1, <2>2, <2>4, <2>5, <2>6 DEF InWindow
<1>3. \A a, b \in S : (a # b => place[a] # place[b]) /\ Apart(place, a, b)
  BY <1>2 DEF Places
<1> HIDE DEF S, L, p, t
<1>4. ASSUME NEW a \in S, NEW b \in S, place[a].start < place[b].start
      PROVE  /\ place[a].count # 1
             /\ \A c \in S : place[c].start \in {place[a].start, place[b].start}
  <2>1. place[a].start + Second <= place[b].start /\ request[a].second <= place[b].start + MaxStall
    BY <1>3, <1>4 DEF Apart
  <2>2. place[a].count # 1
    BY <1>1, <1>2, <2>1
  <2>3. ASSUME NEW c \in S, place[c].start < place[a].start PROVE FALSE
    <3>1. request[c].second <= place[a].start + MaxStall
      BY <1>3, <2>3 DEF Apart
    <3> QED
      BY <1>1, <1>2, <2>1, <3>1
  <2>4. ASSUME NEW c \in S, place[b].start < place[c].start PROVE FALSE
    <3>1. place[b].start + Second <= place[c].start
      BY <1>3, <2>4 DEF Apart
    <3> QED
      BY <1>1, <1>2, <2>1, <3>1
  <2>5. ASSUME NEW c \in S, place[a].start < place[c].start, place[c].start < place[b].start PROVE FALSE
    <3>1. place[c].start + Second <= place[b].start
      BY <1>3, <2>5 DEF Apart
    <3>2. request[a].second <= place[c].start + MaxStall
      BY <1>3, <2>5 DEF Apart
    <3> QED
      BY <1>1, <1>2, <3>1, <3>2
  <2> QED
    BY <1>2, <2>2, <2>3, <2>4, <2>5
<1>5. \A a, b \in S : place[a].start = place[b].start /\ place[a].count = place[b].count => a = b
  <2> SUFFICES ASSUME NEW a \in S, NEW b \in S,
                      place[a].start = place[b].start, place[a].count = place[b].count
               PROVE  a = b
    OBVIOUS
  <2>1. place[a] \in Window /\ place[b] \in Window
    BY <1>2 DEF Places, Counting
  <2>2. place[a] = place[b]
    BY <2>1 DEF Window
  <2> QED
    BY <1>3, <2>2
<1>6. ExistsInjection(S, 1 .. 2 * L - 1)
  <2>1. CASE \A a, b \in S : place[a].start = place[b].start
    <3> DEFINE f == [q \in S |-> place[q].count]
    <3>1. \A q \in S : place[q].count \in 1 .. 2 * L - 1
      BY <1>1, <1>2
    <3>2. f \in Injection(S, 1 .. 2 * L - 1)
      BY <1>5, <2>1, <3>1 DEF Injection, IsInjective
    <3> QED
      BY <3>2 DEF ExistsInjection
  <2>2. CASE \E a, b \in S : place[a].start < place[b].start
    <3> PICK a \in S, b \in S : place[a].start < place[b].start
      BY <2>2
    <3> DEFINE f == [q \in S |-> IF place[q].start = place[b].start THEN place[q].count
                                 ELSE L + place[q].count - 1]
    <3>1. ASSUME NEW q \in S
          PROVE  /\ place[q].start = place[b].start => place[q].count \in 1 .. L
                 /\ place[q].start # place[b].start =>
                      place[q].start = place[a].start /\ place[q].count \in 2 .. L
      <4>1. place[q].count \in 1 .. L
        BY <1>2
      <4>2. place[q].start # place[b].start => place[q].start = place[a].start
        BY <1>4
      <4>3. place[q].start = place[a].start => place[q].count # 1
        BY <1>4
      <4> QED
        BY <1>1, <4>1, <4>2, <4>3
    <3>2. ASSUME NEW q \in S PROVE f[q] \in 1 .. 2 * L - 1
      BY <1>1, <3>1
    <3>3. ASSUME NEW q \in S, NEW o \in S, f[q] = f[o] PROVE q = o
      <4>1. place[q].start = place[o].start /\ place[q].count = place[o].count
        BY <1>1, <1>2, <3>1, <3>3
      <4> QED
        BY <1>5, <4>1
    <3>4. f \in Injection(S, 1 .. 2 * L - 1)
      <4>1. f \in [S -> 1 .. 2 * L - 1]
        BY <3>2
      <4> HIDE DEF f
      <4> QED
        BY <3>3, <4>1 DEF Injection, IsInjective
    <3> QED
      BY <3>4 DEF ExistsInjection
  <2> QED
    BY <1>2, <2>1, <2>2
<1>7. IsFiniteSet(1 .. 2 * L - 1) /\ Cardinality(1 .. 2 * L - 1) = 2 * L - 1
  <2>1. 2 * L - 1 \in Nat
    BY <1>1
  <2> QED
    BY <2>1, CountTo
<1>8. Cardinality(S) <= 2 * L - 1
  BY <1>6, <1>7, FS_Injection DEF ExistsInjection
<1> QED
  BY <1>8 DEF S, L, p, t

\* The window that starts with the first request (rateLimit.go:64) lets through
\* one request less than twice the limit of a route, whatever the requests on
\* the other routes do and however late the clock was read within MaxStall.
THEOREM BurstIsBounded == LimitSpec => []QpsBurst
<1>1. Placed => QpsBurst
  <2> SUFFICES ASSUME Placed, NEW r \in PassedQps(0, MaxTime), Qps(request[r].route) > 0
               PROVE  LET p == request[r].route
                          t == request[r].second
                      IN  Cardinality({q \in PassedQps(t, t + Second - MaxStall - 1) : request[q].route = p})
                              <= 2 * Qps(p) - 1
    BY DEF QpsBurst, SecondFrom
  <2>1. r \in Request /\ request[r].second # Never
    BY RateConstants DEF PassedQps
  <2> QED
    BY <2>1, PlacedBurst
<1> QED
  BY <1>1, PlacedInit, PlacedStep, PTL DEF LimitSpec

\* A window that refuses has all the places up to the limit taken, by requests
\* that have passed since it started.
LEMMA PlacedRefusal ==
    ASSUME Placed, NEW t \in Time, t <= now, now <= t + MaxStall,
           NEW limit \in Nat, ~Fits(keptWindow, t, limit)
    PROVE  Cardinality(PassedQps(now - Second - MaxStall, now)) >= limit
<1> PICK place : Places(place)
  BY DEF Placed
<1> DEFINE w == keptWindow
           S == PassedQps(now - Second - MaxStall, now)
           f == [k \in 1 .. limit |-> CHOOSE q \in Counting : place[q] = [start |-> w.start, count |-> k]]
<1>1. /\ w.start \in Nat /\ w.count \in Nat /\ now \in Nat /\ t \in Nat
      /\ Second \in Nat /\ MaxStall \in Nat
  BY RateConstants DEF Placed, OnTime, Types, Window
<1>2. w.count >= limit /\ t - w.start < Second
  BY <1>1 DEF Fits, StartsWindow
<1>3. ASSUME NEW k \in 1 .. limit
      PROVE  f[k] \in Counting /\ place[f[k]] = [start |-> w.start, count |-> k]
  <2>1. k \in 1 .. w.count
    BY <1>1, <1>2
  <2>2. \E q \in Counting : place[q] = [start |-> w.start, count |-> k]
    BY <2>1 DEF Places
  <2> QED
    BY <2>2
<1> HIDE DEF f
<1>4. ASSUME NEW k \in 1 .. limit PROVE f[k] \in S
  <2> DEFINE q == f[k]
  <2>0. q \in Counting /\ place[q] = [start |-> w.start, count |-> k]
    BY <1>3
  <2> HIDE DEF q
  <2>1. q \in Request /\ place[q].start = w.start
    BY <2>0 DEF Counting
  <2>2. request[q].second \in Time /\ request[q].second <= now
    BY <2>0, <2>1 DEF Placed, OnTime, Types, RequestType, Counting
  <2>3. w.start <= request[q].second
    BY <2>0, <2>1 DEF Places, InWindow
  <2>4. request[q].second \in Int
    BY <2>2, RateConstants
  <2>5. request[q].second \in now - Second - MaxStall .. now
    BY <1>1, <1>2, <2>2, <2>3, <2>4
  <2>6. q \in S
    BY <2>1, <2>2, <2>5 DEF PassedQps
  <2> QED
    BY <2>6 DEF q
<1>5. f \in Injection(1 .. limit, S)
  <2>1. f \in [1 .. limit -> S]
    BY <1>4 DEF f
  <2>2. ASSUME NEW k \in 1 .. limit, NEW l \in 1 .. limit, f[k] = f[l] PROVE k = l
    <3>1. [start |-> w.start, count |-> k] = [start |-> w.start, count |-> l]
      BY <1>3, <2>2
    <3> QED
      BY <3>1
  <2> QED
    BY <2>1, <2>2 DEF Injection, IsInjective
<1>6. IsFiniteSet(S) /\ Cardinality(S) \in Nat
  BY FS_Subset, FS_CardinalityType, RateConstants DEF PassedQps
<1>7. Cardinality(1 .. limit) = limit
  BY CountTo
<1>8. Cardinality(1 .. limit) <= Cardinality(S)
  BY <1>5, <1>6, FS_Injection
<1> QED
  BY <1>6, <1>7, <1>8

\* A request that has passed the first check, or was refused by it, remains so.
LEMMA FirstCheckIsFinal ==
    ASSUME Placed, [LimitNext]_allVars
    PROVE  \A q \in Request :
             /\ request[q].second # Never => request'[q].second = request[q].second
             /\ request[q].pc = "overQps" => request'[q] = request[q]
             /\ request'[q].pc = "overQps" /\ request[q].pc # "overQps" => LimitQPS(q)
<1>1. request \in [Request -> RequestType]
  BY DEF Placed, OnTime, Types
<1>2. CASE request' = request
  BY <1>2
<1>3. (Tick /\ UNCHANGED kept) \/ CleanUp \/ UNCHANGED allVars => request' = request
  BY DEF Tick, kept, CleanUp, CleanUpCounters, CleanUpBuckets, allVars, vars
<1> DEFINE Final(q) ==
             /\ request[q].second # Never => request'[q].second = request[q].second
             /\ request[q].pc = "overQps" => request'[q] = request[q]
             /\ request'[q].pc = "overQps" /\ request[q].pc # "overQps" => LimitQPS(q)
<1>4. ASSUME NEW r \in Request, NEW p \in Route, Arrive(r, p) PROVE \A q \in Request : Final(q)
  <2>1. \A q \in Request \ {r} : request'[q] = request[q]
    BY <1>1, <1>4 DEF Arrive
  <2>2. request[r].pc = "new" /\ request[r].second = Never /\ request'[r].pc = "qps"
    BY <1>1, <1>4 DEF Arrive, New, Placed
  <2> QED
    BY <2>1, <2>2
<1>5. ASSUME NEW r \in Request, LimitQPS(r) PROVE \A q \in Request : Final(q)
  <2>1. request[r].pc = "qps" /\ request[r].second = Never
    BY <1>5 DEF LimitQPS, CheckQPS, Placed
  <2>2. \A q \in Request \ {r} : request'[q] = request[q]
    BY <1>1, <1>5 DEF LimitQPS, CheckQPS, QpsPasses, Refuse
  <2> QED
    BY <1>5, <2>1, <2>2
<1>6. ASSUME NEW r \in Request, LimitQPM(r) PROVE \A q \in Request : Final(q)
  <2>1. request[r].pc = "qpm" /\ (QpmPasses(r) \/ Refuse(r, "overQpm"))
    BY <1>6 DEF LimitQPM, CheckQPM
  <2>2. \A q \in Request \ {r} : request'[q] = request[q]
    BY <1>1, <2>1 DEF QpmPasses, Refuse
  <2>3. request'[r].second = request[r].second /\ request'[r].pc # "overQps"
    BY <1>1, <2>1 DEF QpmPasses, Refuse, RequestType
  <2> QED
    BY <2>1, <2>2, <2>3
<1> QED
  BY <1>2, <1>3, <1>4, <1>5, <1>6 DEF LimitNext

LEMMA RefusalsStep ==
    ASSUME Placed, QpsRefusalsAreEarned, [LimitNext]_allVars
    PROVE  QpsRefusalsAreEarned'
<1> DEFINE After(a, b) == {q \in Request : request'[q].second \in Time \intersect (a .. b)}
<1> SUFFICES ASSUME NEW r \in Request, request'[r].pc = "overQps"
             PROVE  Cardinality(After(request'[r].read - Second - MaxStall, request'[r].read))
                        >= Qps(request'[r].route)
  BY DEF QpsRefusalsAreEarned, PassedQps
<1>1. \A a, b : PassedQps(a, b) \subseteq After(a, b)
  BY FirstCheckIsFinal, RateConstants DEF PassedQps
<1>2. ASSUME NEW a, NEW b, NEW n \in Nat, Cardinality(PassedQps(a, b)) >= n
      PROVE  Cardinality(After(a, b)) >= n
  <2>1. IsFiniteSet(After(a, b))
    BY FS_Subset, RateConstants
  <2> HIDE DEF After
  <2>2. /\ Cardinality(PassedQps(a, b)) <= Cardinality(After(a, b))
        /\ IsFiniteSet(PassedQps(a, b))
    BY <1>1, <2>1, FS_Subset
  <2>3. Cardinality(PassedQps(a, b)) \in Nat /\ Cardinality(After(a, b)) \in Nat
    BY <2>1, <2>2, FS_CardinalityType
  <2> QED
    BY <1>2, <2>2, <2>3
<1> HIDE DEF After
<1>3. request \in [Request -> RequestType] /\ Qps(request[r].route) \in Nat
  BY LimitTypes DEF Placed, OnTime, Types, RequestType
<1>4. CASE request[r].pc = "overQps"
  <2>1. request'[r] = request[r]
    BY <1>4, FirstCheckIsFinal
  <2>2. Cardinality(PassedQps(request[r].read - Second - MaxStall, request[r].read)) >= Qps(request[r].route)
    BY <1>4 DEF QpsRefusalsAreEarned
  <2> QED
    BY <1>2, <1>3, <2>1, <2>2
<1>5. CASE request[r].pc # "overQps"
  <2> DEFINE t == request[r].read
             limit == Qps(request[r].route)
  <2>1. LimitQPS(r)
    BY <1>5, FirstCheckIsFinal
  <2>2. t \in Time /\ t <= now /\ now <= t + MaxStall
    BY <2>1, LimitQPSKept DEF Placed
  <2>3. QpsPasses(r) => request'[r].pc = "qpm"
    BY <1>3 DEF QpsPasses, RequestType
  <2>4. ~Fits(keptWindow, t, limit) /\ Refuse(r, "overQps")
    BY <2>1, <2>3, LimitQPSKept DEF Placed
  <2>5. request'[r].read = now /\ request'[r].route = request[r].route
    BY <1>3, <2>4 DEF Refuse, RequestType
  <2>6. Cardinality(PassedQps(now - Second - MaxStall, now)) >= limit
    BY <1>3, <2>2, <2>4, PlacedRefusal
  <2> QED
    BY <1>2, <1>3, <2>5, <2>6
<1> QED
  BY <1>4, <1>5

\* Nobody is refused by the first check (rateLimit.go:71) before as many requests
\* of the client as its route allows have passed within the last second, or as
\* much longer as a reading of the clock may be late.
THEOREM RefusalsAreEarned == LimitSpec => []QpsRefusalsAreEarned
<1>1. LimitInit => QpsRefusalsAreEarned
  BY DEF LimitInit, Init, New, QpsRefusalsAreEarned
<1>2. Placed /\ QpsRefusalsAreEarned /\ [LimitNext]_allVars => QpsRefusalsAreEarned'
  BY RefusalsStep
<1> QED
  BY <1>1, <1>2, PlacedInit, PlacedStep, PTL DEF LimitSpec

-----------------------------------------------------------------------------
(* What the buckets let through, where all routes have one limit a minute.   *)
(* From the pass of a request on, what has been spent and what is left in    *)
(* the bucket are no more than a full bucket and what it was filled with, or *)
(* may be for readings of the clock before that pass.                        *)

Since(a) == {q \in Request : request[q].minute >= a}

Balanced(r) ==
    Cardinality(Since(request[r].minute)) * Minute + keptBucket.tokens
        <= Rate * (Minute + MaxStall + keptBucket.refilled - request[r].minute)

Sustained(r, q) ==
    Cardinality(PassedQpm(request[r].minute, request[q].minute)) * Minute
        <= Rate * (Minute + MaxStall + request[q].minute - request[r].minute)

Spending ==
    /\ Agreement
    /\ \A r \in Request :
         /\ request[r].minute <= now
         /\ request[r].pc # "passed" => request[r].minute = Never
         /\ request[r].minute # Never => keptBucket # NoBucket /\ Balanced(r)
    /\ \A r, q \in Request :
         request[r].minute # Never /\ request[r].minute <= request[q].minute => Sustained(r, q)

\* What is spent stays below what was earned when the bucket is filled up from
\* time f to time t.
LEMMA EarnedMore ==
    ASSUME NEW n \in Int, NEW k \in Int, NEW c \in Int, NEW l \in Nat, NEW m \in Int,
           NEW f \in Int, NEW t \in Int, NEW a \in Int,
           n + k <= l * (m + f - a), c <= k + (t - f) * l
    PROVE  n + c <= l * (m + t - a)
<1> DEFINE x == m + f - a
           y == t - f
<1>1. (x + y) * l = x * l + y * l
  BY Distribute
<1>2. x + y = m + t - a /\ x \in Int /\ y \in Int
  OBVIOUS
<1>3. l * x = x * l /\ l * (m + t - a) = (m + t - a) * l /\ y * l \in Int /\ x * l \in Int
  BY <1>2
<1>4. n + k <= x * l /\ c <= k + y * l /\ l * (m + t - a) = x * l + y * l
  BY <1>1, <1>2, <1>3
<1> HIDE DEF x, y
<1> QED
  BY <1>3, <1>4

LEMMA SpendingInit == OneQpm /\ LimitInit => Spending
<1> SUFFICES ASSUME LimitInit PROVE Spending
  OBVIOUS
<1>1. Agreement
  BY AgreementInit
<1>2. now = 0 /\ \A r \in Request : request[r].minute = Never
  BY DEF LimitInit, Init, New
<1> QED
  BY <1>1, <1>2 DEF Spending

\* What changes neither the bucket nor a pass keeps the balance.
LEMMA SpendingKept ==
    ASSUME Spending, Agreement', UNCHANGED keptBucket, now' \in {now, now + 1},
           \A r \in Request :
             /\ request'[r].minute = request[r].minute
             /\ request'[r].pc # "passed" => request'[r].minute = Never
    PROVE  Spending'
<1>1. \A a : {q \in Request : request'[q].minute >= a} = Since(a)
  BY DEF Since
<1>2. \A a, b : {q \in Request : request'[q].minute \in a .. b} = PassedQpm(a, b)
  BY DEF PassedQpm
<1>3. \A r \in Request : Balanced(r) => Balanced(r)'
  BY <1>1 DEF Balanced, Since
<1>4. \A r, q \in Request : Sustained(r, q) => Sustained(r, q)'
  BY <1>2 DEF Sustained, PassedQpm
<1>5. \A r \in Request : request'[r].minute <= now'
  <2>1. now \in Int /\ \A r \in Request : request[r].minute \in Int
    BY RateConstants DEF Spending, Agreement, OnTime, Types, RequestType
  <2> QED
    BY <2>1 DEF Spending
<1> QED
  BY <1>3, <1>4, <1>5 DEF Spending

\* A pass takes a token, and a refusal takes none, from what was earned so far.
LEMMA Earned ==
    ASSUME OneQpm, Spending, NEW t \in Time, NEW r \in Request, request[r].minute # Never
    PROVE  Cardinality(Since(request[r].minute)) * Minute + Refilled(keptBucket, t, Rate).tokens
               <= Rate * (Minute + MaxStall + t - request[r].minute)
<1> DEFINE n == Cardinality(Since(request[r].minute)) * Minute
           k == keptBucket.tokens
           f == keptBucket.refilled
           c == Refilled(keptBucket, t, Rate).tokens
           a == request[r].minute
           m == Minute + MaxStall
<1>1. /\ Rate \in Nat /\ m \in Int /\ Minute \in Nat /\ t \in Int /\ a \in Int
      /\ keptBucket \in Bucket /\ k \in Int /\ f \in Int
  BY RateType, RateConstants DEF Spending, Agreement, OnTime, Types, RequestType, Bucket
<1>2. n \in Int
  <2>1. Cardinality(Since(a)) \in Nat
    BY FS_Subset, FS_CardinalityType, RateConstants DEF Since
  <2> QED
    BY <1>1, <2>1
<1>3. n + k <= Rate * (m + f - a)
  BY DEF Spending, Balanced
<1>4. c \in Int /\ c <= k + (t - f) * Rate
  <2>1. k + (t - f) * Rate \in Int /\ Rate * Minute \in Int
    BY <1>1
  <2>2. c = Capped(k + (t - f) * Rate, Rate)
    BY DEF Spending, Refilled
  <2> HIDE DEF k, f, c
  <2>3. \A x, y \in Int : (IF x > y THEN y ELSE x) \in Int /\ (IF x > y THEN y ELSE x) <= x
    OBVIOUS
  <2> QED
    BY <2>1, <2>2, <2>3 DEF Capped
<1> HIDE DEF n, k, f, c, a, m
<1>5. n + c <= Rate * (m + t - a)
  BY <1>1, <1>2, <1>3, <1>4, EarnedMore
<1>6. m + t - a = Minute + MaxStall + t - a
  BY <1>1 DEF m
<1> QED
  BY <1>5 DEF n, c, a, m

LEMMA SpendingRefused ==
    ASSUME OneQpm, Rate > 0, Spending, Agreement', NEW r \in Request, LimitQPM(r), Refuse(r, "overQpm"),
           ~HasToken(keptBucket, request[r].read, Rate),
           keptBucket' = Spent(keptBucket, request[r].read, Rate)
    PROVE  Spending'
<1> DEFINE t == request[r].read
<1>1. request \in [Request -> RequestType] /\ now' = now /\ t \in Time /\ request[r].pc = "qpm"
  BY LimitQPMKept DEF LimitQPM, CheckQPM, Spending, Agreement, OnTime, Types
<1>2. \A q \in Request :
        request'[q].minute = request[q].minute /\ (request'[q].pc # "passed" => request'[q].minute = Never)
  BY <1>1 DEF Refuse, Spending, RequestType
<1>3. keptBucket' = Refilled(keptBucket, t, Rate) /\ keptBucket'.refilled = t /\ keptBucket' # NoBucket
  BY <1>1, RateConstants DEF Spent, Refilled, NoBucket
<1>4. \A q \in Request : request[q].minute # Never => Balanced(q)'
  <2>1. \A a : {q \in Request : request'[q].minute >= a} = Since(a)
    BY <1>2 DEF Since
  <2> QED
    BY <1>1, <1>2, <1>3, <2>1, Earned DEF Balanced, Since
<1>5. \A p, q \in Request : Sustained(p, q) => Sustained(p, q)'
  <2>1. \A a, b : {q \in Request : request'[q].minute \in a .. b} = PassedQpm(a, b)
    BY <1>2 DEF PassedQpm
  <2> QED
    BY <1>2, <2>1 DEF Sustained, PassedQpm
<1> QED
  BY <1>1, <1>2, <1>3, <1>4, <1>5 DEF Spending

\* The first pass at a moment starts with no more than a full bucket.
LEMMA EarnedAtOnce ==
    ASSUME Agreement, NEW t \in Time, t <= now, now <= t + MaxStall
    PROVE  Refilled(keptBucket, t, Rate).tokens <= Rate * (Minute + MaxStall + t - now)
<1> DEFINE c == Refilled(keptBucket, t, Rate).tokens
           m == Minute + MaxStall + t - now
<1>1. Rate \in Nat /\ Minute \in Int /\ MaxStall \in Int /\ t \in Int /\ now \in Int /\ m \in Int
  BY RateType, RateConstants DEF Agreement, OnTime, Types
<1>2. c \in Int /\ c <= Rate * Minute
  <2>1. keptBucket \in Bucket /\ (CHOOSE p \in Route : TRUE) \in Route
    BY RateConstants DEF Agreement, OnTime, Types
  <2> QED
    BY <2>1, RefilledType DEF Rate, Bucket
<1>3. Minute <= m
  BY <1>1
<1> HIDE DEF c, m
<1>4. Minute * Rate <= m * Rate /\ Minute * Rate = Rate * Minute /\ m * Rate = Rate * m
      /\ Rate * Minute \in Int /\ Rate * m \in Int
  BY <1>1, <1>3, Monotone
<1>5. c <= Rate * m
  BY <1>2, <1>4
<1> QED
  BY <1>5 DEF c, m

LEMMA SpendingPassed ==
    ASSUME OneQpm, Rate > 0, Spending, Agreement', NEW r \in Request, LimitQPM(r), QpmPasses(r),
           HasToken(keptBucket, request[r].read, Rate),
           keptBucket' = Spent(keptBucket, request[r].read, Rate)
    PROVE  Spending'
<1> DEFINE t == request[r].read
           c == Refilled(keptBucket, t, Rate).tokens
           Later(a) == {q \in Request : request'[q].minute >= a}
<1>1. /\ request \in [Request -> RequestType] /\ now' = now /\ now \in Nat
      /\ t \in Time /\ t \in Int /\ t <= now /\ now <= t + MaxStall /\ request[r].pc = "qpm"
      /\ Minute \in Nat /\ MaxStall \in Nat /\ Rate \in Nat
  BY LimitQPMKept, RateType, RateConstants DEF LimitQPM, CheckQPM, Spending, Agreement, OnTime, Types
<1>2. /\ \A q \in Request \ {r} : request'[q] = request[q]
      /\ request'[r].minute = now /\ request'[r].pc = "passed" /\ request[r].minute = Never
  BY <1>1 DEF QpmPasses, Spending, RequestType
<1>3. c \in Int /\ c >= Minute
  <2>1. keptBucket \in Bucket /\ (CHOOSE p \in Route : TRUE) \in Route
    BY RateConstants DEF Spending, Agreement, OnTime, Types
  <2> QED
    BY <1>1, <2>1, RefilledType DEF Rate, Bucket, HasToken
<1>4. keptBucket' = [tokens |-> c - Minute, refilled |-> t] /\ keptBucket' # NoBucket
  BY <1>1 DEF Spent, Refilled, NoBucket
<1>5. ASSUME NEW q \in Request
      PROVE  request[q].minute \in Int /\ request[q].minute >= -1 /\ request[q].minute <= now
             /\ request'[q].minute \in Int /\ request'[q].minute <= now
  BY <1>1, <1>2, RateConstants DEF Spending, RequestType
<1> HIDE DEF t, c
\* The bounds on what is spent from each pass on, the new one included.
<1>6. ASSUME NEW q \in Request, request'[q].minute # Never
      PROVE  Cardinality(Later(request'[q].minute)) * Minute + (c - Minute)
                 <= Rate * (Minute + MaxStall + t - request'[q].minute)
  <2> DEFINE a == request'[q].minute
             n == Cardinality(Since(a))
  <2>1. a \in Nat /\ a <= now
    BY <1>1, <1>2, <1>5, <1>6, RateConstants DEF RequestType
  <2>2. Later(a) = Since(a) \union {r} /\ r \notin Since(a)
    BY <1>1, <1>2, <1>5, <2>1 DEF Since
  <2>3. IsFiniteSet(Since(a))
    BY FS_Subset, RateConstants DEF Since
  <2> HIDE DEF Later, a
  <2>4. n \in Nat /\ Cardinality(Later(a)) = n + 1
    BY <2>2, <2>3, FS_AddElement, FS_CardinalityType
  <2>5. n * Minute + c <= Rate * (Minute + MaxStall + t - a)
    <3>1. CASE \E p \in Request : request[p].minute = a
      <4> PICK p \in Request : request[p].minute = a
        BY <3>1
      <4>1. request[p].minute # Never
        BY <2>1
      <4> QED
        BY <1>1, <4>1, Earned DEF t, c
    <3>2. CASE ~ \E p \in Request : request[p].minute = a
      <4>1. q = r /\ a = now
        BY <1>2, <3>2 DEF a
      <4>2. Since(a) = {}
        <5>1. \A p \in Request : ~(request[p].minute >= now)
          BY <1>5, <1>1, <3>2, <4>1
        <5> QED
          BY <4>1, <5>1 DEF Since
      <4>3. n = 0 /\ n * Minute = 0
        BY <1>1, <4>2, FS_EmptySet
      <4>4. c <= Rate * (Minute + MaxStall + t - now)
        BY <1>1, EarnedAtOnce DEF Spending, t, c
      <4> QED
        BY <1>3, <4>1, <4>3, <4>4
    <3> QED
      BY <3>1, <3>2
  <2>6. (n + 1) * Minute = n * Minute + Minute /\ n * Minute \in Int
    BY <1>1, <2>4
  <2>7. (n + 1) * Minute + (c - Minute) = n * Minute + c
    BY <1>1, <1>3, <2>6
  <2> QED
    BY <2>4, <2>5, <2>7 DEF a
<1>7. \A q \in Request : request'[q].minute # Never => Balanced(q)'
  BY <1>4, <1>6 DEF Balanced, Since
<1>8. ASSUME NEW p \in Request, NEW q \in Request,
             request'[p].minute # Never, request'[p].minute <= request'[q].minute
      PROVE  Sustained(p, q)'
  <2> DEFINE a == request'[p].minute
             b == request'[q].minute
             W == {o \in Request : request'[o].minute \in a .. b}
  <2> SUFFICES Cardinality(W) * Minute <= Rate * (Minute + MaxStall + b - a)
    BY DEF Sustained, PassedQpm
  <2>1. CASE b = now
    <3>1. W = Later(a)
      BY <1>5, <2>1
    <3>2. Cardinality(W) \in Nat
      BY FS_Subset, FS_CardinalityType, RateConstants
    <3> HIDE DEF W, a, b
    <3>3. a \in Int /\ b \in Int
      BY <1>5 DEF a, b
    <3>4. Cardinality(W) * Minute + (c - Minute) <= Rate * (Minute + MaxStall + t - a)
      BY <1>6, <1>8, <3>1 DEF a
    <3> DEFINE x == Minute + MaxStall + t - a
               y == Minute + MaxStall + b - a
    <3>5. x \in Int /\ y \in Int /\ x <= y
      BY <1>1, <2>1, <3>3
    <3>6. x * Rate <= y * Rate /\ x * Rate = Rate * x /\ y * Rate = Rate * y
          /\ Rate * x \in Int /\ Rate * y \in Int
      BY <1>1, <3>5, Monotone
    <3>7. Cardinality(W) * Minute \in Int
      BY <1>1, <3>2
    <3> HIDE DEF x, y
    <3>8. Cardinality(W) * Minute <= Rate * y
      <4>1. Cardinality(W) * Minute + (c - Minute) <= Rate * x
        BY <3>4 DEF x
      <4> QED
        BY <1>1, <1>3, <3>6, <3>7, <4>1
    <3> QED
      BY <3>8 DEF y
  <2>2. CASE b # now
    <3>1. b < now /\ q # r /\ p # r
      BY <1>1, <1>2, <1>5, <1>8, <2>2
    <3>2. a = request[p].minute /\ b = request[q].minute
      BY <1>2, <3>1
    <3>3. W = PassedQpm(a, b)
      <4>1. r \notin W /\ r \notin PassedQpm(a, b)
        BY <1>1, <1>2, <1>5, <1>8, <3>1, <3>2, RateConstants DEF PassedQpm, RequestType
      <4> QED
        BY <1>2, <4>1 DEF PassedQpm
    <3>4. Sustained(p, q)
      BY <1>8, <3>2 DEF Spending
    <3> QED
      BY <3>2, <3>3, <3>4 DEF Sustained
  <2> QED
    BY <2>1, <2>2
<1> QED
  BY <1>1, <1>2, <1>4, <1>5, <1>7, <1>8 DEF Spending

LEMMA SpendingStep == OneQpm /\ Rate > 0 /\ Spending /\ [LimitNext]_allVars => Spending'
<1> SUFFICES ASSUME OneQpm, Rate > 0, Spending, [LimitNext]_allVars PROVE Spending'
  OBVIOUS
<1>1. Agreement' /\ request \in [Request -> RequestType]
  BY AgreementStep DEF Spending, Agreement, OnTime, Types
<1>2. CASE request' = request /\ UNCHANGED keptBucket /\ now' \in {now, now + 1}
  BY <1>1, <1>2, SpendingKept DEF Spending
<1>3. (Tick /\ UNCHANGED kept) \/ CleanUp \/ UNCHANGED allVars
        => request' = request /\ UNCHANGED keptBucket /\ now' \in {now, now + 1}
  BY DEF Tick, kept, CleanUp, CleanUpCounters, CleanUpBuckets, allVars, vars
<1>4. ASSUME NEW r \in Request, NEW p \in Route, Arrive(r, p), UNCHANGED kept PROVE Spending'
  <2>1. UNCHANGED keptBucket /\ now' = now /\ request[r].pc = "new"
    BY <1>4 DEF Arrive, kept
  <2>2. \A q \in Request \ {r} : request'[q] = request[q]
    BY <1>1, <1>4 DEF Arrive
  <2>3. request[r].minute = Never /\ request'[r].minute = Never
    BY <1>1, <1>4, <2>1 DEF Arrive, New, Spending
  <2> QED
    BY <1>1, <2>1, <2>2, <2>3, SpendingKept DEF Spending
<1>5. ASSUME NEW r \in Request, LimitQPS(r) PROVE Spending'
  <2>1. /\ UNCHANGED keptBucket /\ now' = now /\ request[r].pc = "qps"
        /\ QpsPasses(r) \/ Refuse(r, "overQps")
    BY <1>5 DEF LimitQPS, CheckQPS
  <2>2. \A q \in Request \ {r} : request'[q] = request[q]
    BY <1>1, <2>1 DEF QpsPasses, Refuse
  <2>3. request[r].minute = Never /\ request'[r].minute = Never
    BY <1>1, <2>1 DEF QpsPasses, Refuse, Spending, RequestType
  <2> QED
    BY <1>1, <2>1, <2>2, <2>3, SpendingKept DEF Spending
<1>6. ASSUME NEW r \in Request, LimitQPM(r) PROVE Spending'
  BY <1>1, <1>6, LimitQPMKept, SpendingPassed, SpendingRefused DEF Spending
<1> QED
  BY <1>2, <1>3, <1>4, <1>5, <1>6 DEF LimitNext

\* Where all routes have one limit a minute (rateLimit.go:124), no more requests
\* pass within any span of time than a full bucket and what it is filled with
\* meanwhile, although a late reading of the clock takes the filling back.
THEOREM SustainedRate == LimitSpec => []QpmSustained
<1>1. CASE OneQpm /\ Rate > 0
  <2>1. Spending => QpmSustained
    <3> SUFFICES ASSUME Spending, NEW r \in PassedQpm(0, MaxTime), NEW q \in PassedQpm(0, MaxTime),
                        request[q].minute - request[r].minute >= 0
                 PROVE  Cardinality(PassedQpm(request[r].minute, request[q].minute)) * Minute
                          <= Qpm(request[r].route)
                               * (Minute + (request[q].minute - request[r].minute) + MaxStall)
      BY DEF QpmSustained
    <3> DEFINE a == request[r].minute
               b == request[q].minute
    <3>1. r \in Request /\ q \in Request /\ a \in Int /\ b \in Int /\ a >= 0 /\ a <= b
      BY RateConstants DEF PassedQpm
    <3>2. Qpm(request[r].route) = Rate
      BY <1>1, <3>1, RateType DEF Spending, Agreement, OnTime, Types, RequestType
    <3>3. Sustained(r, q)
      BY <3>1 DEF Spending
    <3>4. Minute + MaxStall + b - a = Minute + (b - a) + MaxStall
      BY <3>1, RateConstants
    <3> QED
      BY <3>2, <3>3, <3>4 DEF Sustained
  <2> QED
    BY <1>1, <2>1, SpendingInit, SpendingStep, PTL DEF LimitSpec
<1>2. CASE ~(OneQpm /\ Rate > 0)
  <2>1. ASSUME NEW limit, SameQpm(limit) PROVE FALSE
    BY <1>2, <2>1, RateConstants DEF SameQpm, OneQpm, Rate
  <2>2. Types => QpmSustained
    BY <2>1 DEF QpmSustained
  <2> QED
    BY <2>2, TypesInit, TypesStep, PTL DEF LimitSpec
<1> QED
  BY <1>1, <1>2
=============================================================================
