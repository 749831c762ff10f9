----------------------------- MODULE RateLimit -----------------------------
(***************************************************************************)
(* The rate limiter with the clean-up that runs every minute: it removes   *)
(* the window and the bucket of a client that has been idle.  The records  *)
(* the limiter would have without the clean-up are kept as history; they   *)
(* show that it implements RateLimiter, where nothing is ever removed.     *)
(***************************************************************************)
EXTENDS RateLimiter

CONSTANTS
    WindowIdle,       \* a window is removed when it is older: ten seconds
    BucketIdle        \* a bucket, when it was filled longer ago: five minutes

ASSUME IdleConstants ==
    /\ {WindowIdle, BucketIdle} \subseteq Nat
    /\ WindowIdle >= Second + MaxStall
    /\ BucketIdle >= Minute + 2 * MaxStall

VARIABLES
    keptWindow, keptBucket       \* history: the records without the clean-up

kept == <<keptWindow, keptBucket>>
allVars == <<vars, kept>>

LimitInit == Init /\ keptWindow = NoWindow /\ keptBucket = NoBucket

LimitQPS(r) ==
    /\ CheckQPS(r)
    /\ keptWindow' = IF request'[r].pc = "qpm" /\ Qps(request[r].route) > 0
                     THEN Counted(keptWindow, request[r].read) ELSE keptWindow
    /\ UNCHANGED keptBucket

LimitQPM(r) ==
    /\ CheckQPM(r)
    /\ keptBucket' = IF Qpm(request[r].route) > 0
                     THEN Spent(keptBucket, request[r].read, Qpm(request[r].route)) ELSE keptBucket
    /\ UNCHANGED keptWindow

\* The clean-up goes through the windows and then the buckets, and holds one
\* lock at a time; the time it compares with was read before.
CleanUpCounters ==
    /\ now - window.start > WindowIdle
    /\ window' = NoWindow
    /\ UNCHANGED <<now, bucket, request, kept>>

\* Bug: the age of the bucket is not looked at.
CleanUpBucketsAnyAgeBug ==
    /\ bucket' = NoBucket
    /\ UNCHANGED <<now, window, request, kept>>

CleanUpBuckets ==
    /\ now - bucket.refilled > BucketIdle
    /\ bucket' = NoBucket
    /\ UNCHANGED <<now, window, request, kept>>

CleanUp == CleanUpCounters \/ CleanUpBuckets

LimitNext ==
    \/ Tick /\ UNCHANGED kept
    \/ CleanUp
    \/ \E r \in Request :
        \/ (\E p \in Route : Arrive(r, p)) /\ UNCHANGED kept
        \/ LimitQPS(r) \/ LimitQPM(r)

LimitSpec == LimitInit /\ [][LimitNext]_allVars

-----------------------------------------------------------------------------
Time == 0 .. MaxTime

TypeOK ==
    /\ now \in Time
    /\ {window, keptWindow} \subseteq [start : Time, count : Nat]
    /\ {bucket, keptBucket} \subseteq [tokens : Int, refilled : Time \union {Never}]
    /\ \A b \in {bucket, keptBucket} : b = NoBucket \/ \E p \in Route : b.tokens <= Qpm(p) * Minute
    /\ request \in [Request -> [pc : {"new", "qps", "qpm", "passed", "overQps", "overQpm"}, route : Route,
                                read : Time, second : Time \union {Never}, minute : Time \union {Never}]]

\* The clean-up cannot be noticed: every request is let through or refused as
\* if no record was ever removed.
Unforgetting == INSTANCE RateLimiter WITH window <- keptWindow, bucket <- keptBucket
NeverForgets == Unforgetting!Spec

PassedQps(from, to) == {r \in Request : request[r].second \in Time \intersect (from .. to)}

\* The requests of r's route that pass in the second that begins with r, less
\* the time by which a reading of the clock may be late.
SecondFrom(r) ==
    {q \in PassedQps(request[r].second, request[r].second + Second - MaxStall - 1) :
        request[q].route = request[r].route}

\* What the repository says of the limit, and the code does not keep: a route
\* gets no more requests through than its limit in any second.
QpsIsAMaximum ==
    \A r \in PassedQps(0, MaxTime) :
        Qps(request[r].route) > 0 => Cardinality(SecondFrom(r)) <= Qps(request[r].route)

\* What the code keeps: the window starts with the first request and the next
\* one may start soon after the last requests of it, so that up to
\* 2 * limit - 1 requests pass in a second, and never more.
QpsBurst ==
    \A r \in PassedQps(0, MaxTime) :
        Qps(request[r].route) > 0 => Cardinality(SecondFrom(r)) <= 2 * Qps(request[r].route) - 1

\* A client refused by the first check has made as many requests as the limit
\* of the route within the last second, or on other routes.
QpsRefusalsAreEarned ==
    \A r \in Request :
        request[r].pc = "overQps" =>
            Cardinality(PassedQps(request[r].read - Second - MaxStall, request[r].read))
                >= Qps(request[r].route)

PassedQpm(from, to) == {r \in Request : request[r].minute \in from .. to}

SameQpm(limit) == limit > 0 /\ \A p \in Route : Qpm(p) = limit

\* Over any span of time, a client gets no more requests through than a full
\* bucket and what it refills, as long as its routes have one limit.  (Where
\* they differ, a generous route refills the bucket for the others.)
QpmSustained ==
    \A r, q \in PassedQpm(0, MaxTime) :
        LET limit == Qpm(request[r].route)
            span == request[q].minute - request[r].minute
        IN  SameQpm(limit) /\ span >= 0
                => Cardinality(PassedQpm(request[r].minute, request[q].minute)) * Minute
                       <= limit * (Minute + span + MaxStall)
=============================================================================
