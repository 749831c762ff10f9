-------------------------- MODULE Authentication --------------------------
(***************************************************************************)
(* The five middlewares of a route that requires a signature               *)
(* (internal/gateway/handler.go build): HeaderParser, TimeWindow,          *)
(* UniqueNonce, Authenticator, Authorizer, in this order, composed with    *)
(* the reloads of the configuration they read.                             *)
(*                                                                         *)
(* One API key and one nonce are modelled: the counter of another nonce is *)
(* another key of Redis.  A submission is one arrival of a request with    *)
(* that nonce: the same signed request sent again, or another one, with    *)
(* another timestamp.  The counter is incremented by a Lua script, one     *)
(* atomic step of Redis, that sets the expiry when it creates the key; the *)
(* Redis client sends it again when the connection fails before the reply. *)
(* The configuration is read field by field, when the code reads it.       *)
(***************************************************************************)
EXTENDS Configuration, FiniteSets

CONSTANTS
    Submission,
    Stamp,            \* timestamps of the signed requests, in ticks
    MaxTime,          \* a bound on the clock
    MaxStall,         \* ticks a handler may need from TimeWindow's reading of
                      \* the clock to the increment of the counter
    MaxWindow,        \* bounds on the fields of every version of the table:
    MinTtl,           \*   timestamp-window, nonce-window-hour (in ticks) and
    MaxLimit,         \*   nonce-window
    MinLimit,
    MaxRetries,       \* go-redis' MaxRetries, which storage/redis.go leaves alone
    MaxMishaps        \* a bound on the calls repeated and the changes of the
                      \* table, together

\* The life of the counter outlasts the span in which a request is accepted:
\* 24 hours against twice 5 seconds in mariaDB.sql.
ASSUME AuthConstants ==
    /\ IsFiniteSet(Submission)
    /\ Stamp \subseteq Nat
    /\ {MaxTime, MaxStall, MaxWindow, MinTtl, MinLimit, MaxRetries, MaxMishaps} \subseteq Nat
    /\ MaxLimit \in Nat \ {0}
    /\ Field = {"window", "ttl", "limit"}
    /\ \A v \in DOMAIN Saved :
        /\ Saved[v]["window"] <= MaxWindow
        /\ Saved[v]["ttl"] >= MinTtl
        /\ Saved[v]["limit"] \in MinLimit .. MaxLimit
    /\ MinTtl > 2 * MaxWindow + MaxStall

VARIABLES
    now,
    counter,          \* the key of the nonce in Redis: value, creation, expiry
    sub,              \* where each submission is; `reply` is the key right after
                      \* the increment whose reply arrived: the value returned
                      \* and, as history, the life it fell in
    repeated,         \* the calls repeated so far
    increments        \* history: the key after each increment, and the stamp of
                      \* the request that made it

vars == <<configVars, now, counter, sub, repeated, increments>>

Stage == {"unsent", "inWindow", "counting", "counted", "accepted", "reused", "rejected"}

NoKey == [count |-> 0, since |-> 0, until |-> 0]

Unsent == [pc |-> "unsent", stamp |-> 0, seen |-> 0, ttl |-> 0, resent |-> 0,
           reply |-> NoKey]

\* The request is answered with an error; nothing is left of it here.
Reject(r) == sub' = [sub EXCEPT ![r] = [Unsent EXCEPT !.pc = "rejected"]]

Proceed(r, stage) == sub' = [sub EXCEPT ![r].pc = stage]

Age(t) == IF now >= t THEN now - t ELSE t - now

\* The key exists: an EXPIRE of 0 deletes it at once.
Alive == now < counter.until

\* Bug: the key is set, not incremented.
IncrementedSetsBug(ttl) ==
    IF Alive THEN [counter EXCEPT !.count = 1]
    ELSE [count |-> 1, since |-> now, until |-> now + ttl]

\* Bug: EXPIRE is given minutes where the script expects seconds.
IncrementedShortLivedBug(ttl) ==
    IF Alive THEN [counter EXCEPT !.count = @ + 1]
    ELSE [count |-> 1, since |-> now, until |-> now + ttl \div 2]

\* The key after an INCR and, if it was created, an EXPIRE.
Incremented(ttl) ==
    IF Alive THEN [counter EXCEPT !.count = @ + 1]
    ELSE [count |-> 1, since |-> now, until |-> now + ttl]

-----------------------------------------------------------------------------
Init ==
    /\ ConfigInit
    /\ now = 0
    /\ counter = NoKey
    /\ sub = [r \in Submission |-> Unsent]
    /\ repeated = 0
    /\ increments = {}

\* A request with its four headers, stamped s.  HeaderParser rejects one that
\* lacks a header, before anything is touched.
HeaderParser(r, s) == started /\ sub[r].pc = "unsent" /\ s \in Stamp

\* TimeWindow lets a request pass whose stamp is near the clock; any other is
\* rejected and touches nothing.
TimeWindow(r, s) ==
    /\ HeaderParser(r, s)
    /\ Age(s) <= config["window"]
    /\ sub' = [sub EXCEPT ![r] = [Unsent EXCEPT !.pc = "inWindow", !.stamp = s, !.seen = now]]
    /\ UNCHANGED <<configVars, now, counter, repeated, increments>>

\* UniqueNonce reads nonce-window-hour for the expiry, before it calls Redis.
UniqueNonce(r) ==
    /\ sub[r].pc = "inWindow"
    /\ sub' = [sub EXCEPT ![r].pc = "counting", ![r].ttl = config["ttl"]]
    /\ UNCHANGED <<configVars, now, counter, repeated, increments>>

\* Redis runs the script for r.
RunScript(r) ==
    /\ sub[r].pc = "counting"
    /\ counter' = Incremented(sub[r].ttl)
    /\ increments' = increments \cup {[stamp |-> sub[r].stamp, key |-> counter']}
    /\ UNCHANGED <<configVars, now>>

\* The reply arrives.
IncrAndExpire(r) ==
    /\ RunScript(r)
    /\ sub' = [sub EXCEPT ![r] = [Unsent EXCEPT !.pc = "counted", !.stamp = sub[r].stamp,
                                               !.reply = counter']]
    /\ UNCHANGED repeated

\* It does not: go-redis sends the script again on another connection, or the
\* call has failed for the gateway and the request is answered with an error.
ReplyLost(r) ==
    /\ RunScript(r)
    /\ \/ /\ sub[r].resent < MaxRetries
          /\ repeated + version <= MaxMishaps
          /\ repeated' = repeated + 1
          /\ sub' = [sub EXCEPT ![r].resent = @ + 1]
       \/ /\ Reject(r)
          /\ UNCHANGED repeated

\* Bug: an error gives the use back.
IncrFailsGivesBackBug(r) ==
    /\ sub[r].pc = "counting"
    /\ sub' = [sub EXCEPT ![r] = Unsent]
    /\ counter' = [counter EXCEPT !.count = @ - 1]
    /\ UNCHANGED <<configVars, now, repeated, increments>>

\* Redis is not reached, by the first attempt or by a repetition: the request is
\* answered with an error, and in the first case leaves no trace.
IncrFails(r) ==
    /\ sub[r].pc = "counting"
    /\ \/ /\ sub[r].resent = 0
          /\ sub' = [sub EXCEPT ![r] = Unsent]
       \/ /\ sub[r].resent > 0
          /\ Reject(r)
    /\ UNCHANGED <<configVars, now, counter, repeated, increments>>

\* Authenticator and Authorizer: the key is found, enabled, not banned and not
\* expired, the signature verifies, and the route is one of the key's; or not.
Authenticator(r) == Proceed(r, "accepted") \/ Reject(r)

\* Bug: count >= limit.
NonceWindowOffByOneBug(r) ==
    /\ sub[r].pc = "counted"
    /\ IF sub[r].reply.count >= config["limit"] THEN Proceed(r, "reused") ELSE Authenticator(r)
    /\ UNCHANGED <<configVars, now, counter, repeated, increments>>

\* The rest of UniqueNonce compares the count with nonce-window, read now, and
\* calls the rest of the chain.
NonceWindow(r) ==
    /\ sub[r].pc = "counted"
    /\ IF sub[r].reply.count > config["limit"] THEN Proceed(r, "reused") ELSE Authenticator(r)
    /\ UNCHANGED <<configVars, now, counter, repeated, increments>>

\* The clock advances, but not past MaxStall for a handler between its check
\* of the time window and the increment.
Tick ==
    /\ now < MaxTime
    /\ \A r \in Submission :
        sub[r].pc \in {"inWindow", "counting"} => now < sub[r].seen + MaxStall
    /\ now' = now + 1
    /\ UNCHANGED <<configVars, counter, sub, repeated, increments>>

Reload ==
    /\ ConfigNext
    /\ repeated + version' <= MaxMishaps + 1
    /\ UNCHANGED <<now, counter, sub, repeated, increments>>

Handle(r) ==
    \/ \E s \in Stamp : TimeWindow(r, s)
    \/ UniqueNonce(r) \/ IncrAndExpire(r) \/ ReplyLost(r) \/ IncrFails(r)
    \/ NonceWindow(r)

Next == Tick \/ Reload \/ \E r \in Submission : Handle(r)

Spec == Init /\ [][Next]_vars

-----------------------------------------------------------------------------
Key == [count : Nat, since : Nat, until : Nat]

TypeOK ==
    /\ ConfigTypeOK
    /\ now \in 0 .. MaxTime
    /\ counter \in Key
    /\ sub \in [Submission -> [pc : Stage, stamp : Nat, seen : Nat, ttl : Nat,
                              resent : 0 .. MaxRetries, reply : Key]]
    /\ repeated \in Nat
    /\ increments \subseteq [stamp : Nat, key : Key]

Accepted(s) == {r \in Submission : sub[r].pc = "accepted" /\ sub[r].stamp = s}

\* A signed request is accepted at most nonce-window times, as long as no other
\* request used its nonce: the counter does not expire in the middle of the
\* span in which the time window lets the request pass, whatever is reloaded
\* meanwhile.
FreshNonceIsLimited ==
    \A s \in Stamp :
        (\A i \in increments : i.stamp = s)
            => Cardinality(Accepted(s)) <= MaxLimit

\* A nonce that was used before may expire in the middle of that span, and the
\* request is then counted in two lives of the counter; but the first of them
\* has already counted the other request.
ReusedNonceIsLimited ==
    \A s \in Stamp : Cardinality(Accepted(s)) <= 2 * MaxLimit - 1

\* The increments before that of r, in the same life of the counter.
Before(r) ==
    {i \in increments : i.key.since = sub[r].reply.since /\ i.key.count < sub[r].reply.count}

\* A nonce has nonce-window uses: a request is refused as reused only after that
\* many increments before its own, in the same life of the counter.  An increment
\* is a submission's, or go-redis' repetition of a call, the request's own included.
RefusedOnlyBeyondLimit ==
    \A r \in Submission :
        sub[r].pc = "reused" => Cardinality(Before(r)) >= MinLimit
=============================================================================
