---------------------------- MODULE RateLimiter ----------------------------
(***************************************************************************)
(* What RateLimit (internal/middleware/rateLimit.go) promises: a request   *)
(* passes a window of a second and then a token bucket of a minute, whose  *)
(* records are kept for ever.  RateLimit, which forgets the records of a   *)
(* client that has been idle, implements it.                               *)
(*                                                                         *)
(* One client is modelled.  The records have the address of the client in  *)
(* their key and not the route, so that the routes, whose limits differ,   *)
(* share them.  RateLimit runs before the middlewares that look the API    *)
(* key up, and finds none: the limits of a key are never used.             *)
(*                                                                         *)
(* A request reads the clock before it takes the lock of the shard: the    *)
(* time it compares with may be older than the record.  Tokens are counted *)
(* in Minute-ths, so that a tick adds as many as the limit.                *)
(***************************************************************************)
EXTENDS Integers, FiniteSets

CONSTANTS
    Request, Route,
    RouteQps, RouteQpm,          \* limits of the routes, 0 for none
    QpsLimit, QpmLimit,          \* auth.qps-limit, auth.qpm-limit: for those
    Second, Minute,              \* in ticks
    MaxTime,                     \* a bound on the clock
    MaxStall                     \* ticks between the reading of the clock and
                                 \* the lock

ASSUME RateConstants ==
    /\ IsFiniteSet(Request)
    /\ Route # {} /\ RouteQps \in [Route -> Nat] /\ RouteQpm \in [Route -> Nat]
    /\ {QpsLimit, QpmLimit, MaxTime, MaxStall} \subseteq Nat
    /\ {Second, Minute} \subseteq Nat \ {0}

VARIABLES
    now,
    window,           \* slidingWindowCounter: windowStart, count
    bucket,           \* tokens, lastRefill
    request           \* where each request is, the time it has read, and when
                      \* each of the two checks let it pass

vars == <<now, window, bucket, request>>

NoWindow == [start |-> 0, count |-> 0]
NoBucket == [tokens |-> 0, refilled |-> -1]

Never == -1

Qps(p) == IF RouteQps[p] > 0 THEN RouteQps[p] ELSE QpsLimit
Qpm(p) == IF RouteQpm[p] > 0 THEN RouteQpm[p] ELSE QpmLimit

\* Bug: an old window is never replaced.
StartsWindowOnceBug(w, t) == w = NoWindow

\* checkQPS under the lock, for a request that has read time t.
StartsWindow(w, t) == w = NoWindow \/ t - w.start >= Second

\* Bug: count <= limit.
FitsOffByOneBug(w, t, limit) == StartsWindow(w, t) \/ w.count <= limit

Fits(w, t, limit) == StartsWindow(w, t) \/ w.count < limit
Counted(w, t) == IF StartsWindow(w, t) THEN [start |-> t, count |-> 1] ELSE [w EXCEPT !.count = @ + 1]

\* Bug: the bucket overflows.
CappedNeverBug(tokens, limit) == tokens

\* checkQPM under the lock: the bucket is filled up to time t, and a token is
\* taken if there is one.
Capped(tokens, limit) == IF tokens > limit * Minute THEN limit * Minute ELSE tokens
Refilled(b, t, limit) ==
    [tokens |-> IF b = NoBucket THEN limit * Minute
                ELSE Capped(b.tokens + (t - b.refilled) * limit, limit),
     refilled |-> t]
HasToken(b, t, limit) == Refilled(b, t, limit).tokens >= Minute

\* Bug: a token that is taken leaves the time of the last refill as it was.
SpentKeepsTimeBug(b, t, limit) ==
    IF HasToken(b, t, limit)
    THEN [tokens |-> Refilled(b, t, limit).tokens - Minute,
          refilled |-> IF b = NoBucket THEN t ELSE b.refilled]
    ELSE Refilled(b, t, limit)

Spent(b, t, limit) ==
    IF HasToken(b, t, limit) THEN [Refilled(b, t, limit) EXCEPT !.tokens = @ - Minute]
    ELSE Refilled(b, t, limit)

-----------------------------------------------------------------------------
New == [pc |-> "new", route |-> CHOOSE p \in Route : TRUE, read |-> 0, second |-> Never, minute |-> Never]

Init ==
    /\ now = 0
    /\ window = NoWindow
    /\ bucket = NoBucket
    /\ request = [r \in Request |-> New]

\* The limits of the route are looked up and, for the first check, the clock
\* is read.
Arrive(r, p) ==
    /\ request[r].pc = "new"
    /\ request' = [request EXCEPT ![r] = [New EXCEPT !.pc = "qps", !.route = p, !.read = now]]
    /\ UNCHANGED <<now, window, bucket>>

\* A request that passes the first check reads the clock again for the second.
QpsPasses(r) ==
    request' = [request EXCEPT ![r].pc = "qpm", ![r].read = now, ![r].second = now]
QpmPasses(r) ==
    request' = [request EXCEPT ![r].pc = "passed", ![r].read = 0, ![r].minute = now]
Refuse(r, check) ==
    request' = [request EXCEPT ![r].pc = check, ![r].read = now]

CheckQPS(r) ==
    LET limit == Qps(request[r].route)
        t == request[r].read
    IN  /\ request[r].pc = "qps"
        /\ \/ limit = 0 /\ QpsPasses(r) /\ UNCHANGED window
           \/ limit > 0 /\ Fits(window, t, limit) /\ QpsPasses(r) /\ window' = Counted(window, t)
           \/ limit > 0 /\ ~Fits(window, t, limit) /\ Refuse(r, "overQps") /\ UNCHANGED window
        /\ UNCHANGED <<now, bucket>>

CheckQPM(r) ==
    LET limit == Qpm(request[r].route)
        t == request[r].read
    IN  /\ request[r].pc = "qpm"
        /\ \/ limit = 0 /\ QpmPasses(r) /\ UNCHANGED bucket
           \/ /\ limit > 0
              /\ IF HasToken(bucket, t, limit) THEN QpmPasses(r) ELSE Refuse(r, "overQpm")
              /\ bucket' = Spent(bucket, t, limit)
        /\ UNCHANGED <<now, window>>

Tick ==
    /\ now < MaxTime
    /\ \A r \in Request : request[r].pc \in {"qps", "qpm"} => now < request[r].read + MaxStall
    /\ now' = now + 1
    /\ UNCHANGED <<window, bucket, request>>

Next ==
    \/ Tick
    \/ \E r \in Request :
        (\E p \in Route : Arrive(r, p)) \/ CheckQPS(r) \/ CheckQPM(r)

Spec == Init /\ [][Next]_vars
=============================================================================
