----------------------------- MODULE CacheLayer -----------------------------
(***************************************************************************)
(* The caches in front of the database (internal/app/get*.go): a local     *)
(* cache in every gateway, Redis shared by all of them, and the messages   *)
(* that clear both after a change (internal/service/pubSub).               *)
(*                                                                         *)
(* API keys, services, routes and blacklists follow one pattern; keys share *)
(* nothing, so one key is modelled.  A fill is the function a gateway runs *)
(* under singleflight, one at a time for the key; its accesses to Redis,   *)
(* the database and the local cache are steps, and so are those of the     *)
(* pub/sub handler.  Requests that find the local entry, or join a fill,   *)
(* change nothing and are left out.                                        *)
(***************************************************************************)
EXTENDS Integers, Sequences

CONSTANTS
    Gateway,
    MaxVersion,       \* a bound on the changes of the row
    Missing,          \* the versions in which the row does not exist
    Kind              \* the messages the operator sends after a change

ASSUME CacheConstants ==
    /\ MaxVersion \in Nat \ {0}
    /\ Missing \subseteq 1 .. MaxVersion
    /\ Kind \subseteq {"clear", "clearAll"}

VARIABLES
    db,               \* the version of the row
    redis,            \* the entry in Redis
    local,            \* the entry in each gateway's local cache
    fill,             \* the fill each gateway runs
    unpublished,      \* the row has changed since the last message
    inbox,            \* messages each gateway has received and not handled
    handler,          \* where each gateway's message handler is
    missed            \* history: why a gateway's last clears had no effect

vars == <<db, redis, local, fill, unpublished, inbox, handler, missed>>

-----------------------------------------------------------------------------
Version == 1 .. MaxVersion

\* A cached row.  overlap is history: the fill that made the entry overlapped the
\* change that made it outdated, or a clear that should have removed it.
Entry == [version : Version, overlap : BOOLEAN]

NoEntry == [version |-> 0, overlap |-> FALSE]

\* The "EMPTY" that a fill leaves in Redis for a missing row; Get reads it as
\* a miss, but KEYS lists it.
EmptyEntry == [version |-> -1, overlap |-> FALSE]

IsEntry(e) == e.version \in Version

Outdated(e) == IsEntry(e) /\ e.version # db

NoFill == [stage |-> "none", entry |-> NoEntry]

Fill == [stage : {"none", "redis", "db", "setEmpty", "setRedis", "setLocal"},
         entry : Entry \cup {NoEntry}]

\* The entry of a fill that overlaps an event, if `bad` says that it matters.
Overlapped(e, bad) == [version |-> e.version, overlap |-> e.overlap \/ bad]

OverlappedFill(f, bad) == [stage |-> f.stage, entry |-> Overlapped(f.entry, bad)]

EndFill(g) == fill' = [fill EXCEPT ![g] = NoFill]

Continue(g, stage, entry) ==
    fill' = [fill EXCEPT ![g] = [stage |-> stage, entry |-> entry]]

messageVars == <<unpublished, inbox, handler, missed>>

Init ==
    /\ db = 1
    /\ redis = NoEntry
    /\ local = [g \in Gateway |-> NoEntry]
    /\ fill = [g \in Gateway |-> NoFill]
    /\ unpublished = FALSE
    /\ inbox = [g \in Gateway |-> <<>>]
    /\ handler = [g \in Gateway |-> "idle"]
    /\ missed = [g \in Gateway |-> {}]

-----------------------------------------------------------------------------
(* Filling.                                                                *)

\* Bug: no second look at the local cache under singleflight.
BeginFillUncheckedBug(g) ==
    /\ fill[g].stage = "none"
    /\ Continue(g, "redis", NoEntry)
    /\ UNCHANGED <<db, redis, local, messageVars>>

\* A request that missed the local cache earlier starts the fill; the second
\* look at the local cache misses too.
BeginFill(g) ==
    /\ fill[g].stage = "none"
    /\ ~IsEntry(local[g])
    /\ Continue(g, "redis", NoEntry)
    /\ UNCHANGED <<db, redis, local, messageVars>>

\* Bug: write what Redis returned back to it, to renew its expiry.
GetRedisRenewsBug(g) ==
    /\ fill[g].stage = "redis"
    /\ \/ /\ IsEntry(redis)
          /\ Continue(g, "setRedis", Overlapped(redis, Outdated(redis) /\ handler[g] = "redis"))
       \/ Continue(g, "db", NoEntry)
    /\ UNCHANGED <<db, redis, local, messageVars>>

\* Bug: take "EMPTY" for an entry.
GetRedisFindsEmptyBug(g) ==
    /\ fill[g].stage = "redis"
    /\ \/ /\ redis # NoEntry
          /\ Continue(g, "setLocal", redis)
       \/ Continue(g, "db", NoEntry)
    /\ UNCHANGED <<db, redis, local, messageVars>>

\* Redis.Get: found, or a miss, "EMPTY" or an error.  An entry read while the
\* gateway is between the two deletions of a clear overlaps the clear.
GetRedis(g) ==
    /\ fill[g].stage = "redis"
    /\ \/ /\ IsEntry(redis)
          /\ Continue(g, "setLocal", Overlapped(redis, Outdated(redis) /\ handler[g] = "redis"))
       \/ Continue(g, "db", NoEntry)
    /\ UNCHANGED <<db, redis, local, messageVars>>

\* The query: a row, no row, or an error that ends the fill.
QueryDB(g) ==
    /\ fill[g].stage = "db"
    /\ \/ /\ db \notin Missing
          /\ Continue(g, "setRedis", [version |-> db, overlap |-> FALSE])
       \/ /\ db \in Missing
          /\ Continue(g, "setEmpty", NoEntry)
       \/ EndFill(g)
    /\ UNCHANGED <<db, redis, local, messageVars>>

\* Redis.Set of "EMPTY"; its error is ignored, and may come after the effect.
SetEmpty(g) ==
    /\ fill[g].stage = "setEmpty"
    /\ redis' = EmptyEntry \/ redis' = redis
    /\ EndFill(g)
    /\ UNCHANGED <<db, local, messageVars>>

\* Redis.Set of the row; an error is logged.
SetRedis(g) ==
    /\ fill[g].stage = "setRedis"
    /\ redis' = fill[g].entry \/ redis' = redis
    /\ Continue(g, "setLocal", fill[g].entry)
    /\ UNCHANGED <<db, local, messageVars>>

\* LocalCache.Set; for an API key, after decryption, which may fail.
SetLocal(g) ==
    /\ fill[g].stage = "setLocal"
    /\ local' = [local EXCEPT ![g] = fill[g].entry] \/ local' = local
    /\ EndFill(g)
    /\ UNCHANGED <<db, redis, messageVars>>

FillStep(g) == GetRedis(g) \/ QueryDB(g) \/ SetEmpty(g) \/ SetRedis(g) \/ SetLocal(g)

-----------------------------------------------------------------------------
(* Expiry: the entry's own time, a clean-up, an eviction by Redis, or a Get *)
(* that found another, expired entry and deletes this one by its key.       *)

ExpireLocal(g) ==
    /\ IsEntry(local[g])
    /\ local' = [local EXCEPT ![g] = NoEntry]
    /\ UNCHANGED <<db, redis, fill, messageVars>>

ExpireRedis ==
    /\ redis # NoEntry
    /\ redis' = NoEntry
    /\ UNCHANGED <<db, local, fill, messageVars>>

-----------------------------------------------------------------------------
(* Changes and the messages that follow them.                              *)

\* The operator changes the row in the database.
ChangeRow ==
    /\ db < MaxVersion
    /\ db' = db + 1
    /\ fill' = [g \in Gateway |-> OverlappedFill(fill[g], IsEntry(fill[g].entry))]
    /\ unpublished' = TRUE
    /\ UNCHANGED <<redis, local, inbox, handler, missed>>

\* The operator has a gateway publish a message.  Pub/sub hands it to the gateways
\* connected at that moment; those the message does not name drop it.  A
\* failed publish reaches nobody.
Publish(kind, receivers) ==
    /\ unpublished
    /\ unpublished' = FALSE
    /\ inbox' = [g \in Gateway |-> IF g \in receivers THEN Append(inbox[g], kind) ELSE inbox[g]]
    /\ missed' = [g \in Gateway |-> IF g \in receivers THEN missed[g] ELSE missed[g] \cup {"fault"}]
    /\ UNCHANGED <<db, redis, local, fill, handler>>

\* HandleMessage: Clear begins with the local entry, ClearAll with the keys.
Receive(g) ==
    /\ handler[g] = "idle"
    /\ inbox[g] # <<>>
    /\ handler' = [handler EXCEPT ![g] = IF Head(inbox[g]) = "clear" THEN "local" ELSE "list"]
    /\ inbox' = [inbox EXCEPT ![g] = Tail(inbox[g])]
    /\ UNCHANGED <<db, redis, local, fill, unpublished, missed>>

\* ClearAll: GetKeysByPattern.  Its loop visits the keys Redis lists, and
\* only those; an error ends it.
ListKeys(g) ==
    /\ handler[g] = "list"
    /\ \/ /\ redis # NoEntry
          /\ handler' = [handler EXCEPT ![g] = "local"]
          /\ UNCHANGED missed
       \/ /\ redis = NoEntry
          /\ handler' = [handler EXCEPT ![g] = "idle"]
          /\ missed' = [missed EXCEPT ![g] = missed[g] \cup {"unlisted"}]
       \/ /\ handler' = [handler EXCEPT ![g] = "idle"]
          /\ missed' = [missed EXCEPT ![g] = missed[g] \cup {"fault"}]
    /\ UNCHANGED <<db, redis, local, fill, unpublished, inbox>>

\* Bug: clear Redis only.
DeleteLocalSkippedBug(g) ==
    /\ handler[g] = "local"
    /\ handler' = [handler EXCEPT ![g] = "redis"]
    /\ missed' = [missed EXCEPT ![g] = {}]
    /\ UNCHANGED <<db, redis, local, fill, unpublished, inbox>>

\* LocalCache.Delete, the first of the two deletions of both clears.
DeleteLocal(g) ==
    /\ handler[g] = "local"
    /\ local' = [local EXCEPT ![g] = NoEntry]
    /\ fill' = [fill EXCEPT ![g] = OverlappedFill(fill[g], Outdated(fill[g].entry))]
    /\ handler' = [handler EXCEPT ![g] = "redis"]
    /\ missed' = [missed EXCEPT ![g] = {}]
    /\ UNCHANGED <<db, redis, unpublished, inbox>>

\* Redis.Del, whose error is logged, before or after the effect.
DeleteRedis(g) ==
    /\ handler[g] = "redis"
    /\ handler' = [handler EXCEPT ![g] = "idle"]
    /\ \/ /\ redis' = NoEntry
          /\ UNCHANGED missed
       \/ /\ redis' = redis
          /\ missed' = [missed EXCEPT ![g] = missed[g] \cup {"fault"}]
    /\ UNCHANGED <<db, local, fill, unpublished, inbox>>

HandlerStep(g) == Receive(g) \/ ListKeys(g) \/ DeleteLocal(g) \/ DeleteRedis(g)

-----------------------------------------------------------------------------
Next ==
    \/ \E g \in Gateway : BeginFill(g) \/ FillStep(g) \/ ExpireLocal(g) \/ HandlerStep(g)
    \/ ExpireRedis
    \/ ChangeRow
    \/ \E kind \in Kind, receivers \in SUBSET Gateway : Publish(kind, receivers)

Spec == Init /\ [][Next]_vars

\* Calls of Redis and of the database have timeouts, the handler's goroutine
\* runs, and every entry has an expiry.  Nothing is assumed of requests or of
\* messages.
FairSpec ==
    /\ Spec
    /\ \A g \in Gateway : WF_vars(FillStep(g)) /\ WF_vars(ExpireLocal(g)) /\ WF_vars(HandlerStep(g))
    /\ WF_vars(ExpireRedis)

-----------------------------------------------------------------------------
CacheTypeOK ==
    /\ db \in Version
    /\ redis \in Entry \cup {NoEntry, EmptyEntry}
    /\ local \in [Gateway -> Entry \cup {NoEntry}]
    /\ fill \in [Gateway -> Fill]
    /\ unpublished \in BOOLEAN
    /\ inbox \in [Gateway -> Seq({"clear", "clearAll"})]
    /\ handler \in [Gateway -> {"idle", "list", "local", "redis"}]
    /\ missed \in [Gateway -> SUBSET {"fault", "unlisted"}]

\* A clear of g's local entry is still to come.
AwaitsClear(g) == unpublished \/ inbox[g] # <<>> \/ handler[g] \in {"list", "local"}

\* After a change, the caches do not keep an old row by themselves: an outdated
\* local entry is going to be cleared, or its gateway's clear did not reach it
\* (lost, failed, not listed), or the fill that made it overlapped the change
\* or the clear.  An outdated entry in Redis, likewise, needs that of EVERY
\* gateway: one clear that succeeds anywhere removes it.
OutdatedEntriesAwaitAClear ==
    /\ \A g \in Gateway :
          Outdated(local[g]) /\ ~local[g].overlap => AwaitsClear(g) \/ missed[g] # {}
    /\ Outdated(redis) /\ ~redis.overlap =>
          \A g \in Gateway : AwaitsClear(g) \/ handler[g] = "redis" \/ missed[g] # {}

\* A fill never replaces an entry: singleflight and the second look under it keep
\* a slow fill from overwriting what a later one has stored.
EntriesAreNotReplaced ==
    [][ \A g \in Gateway : IsEntry(local[g]) /\ IsEntry(local'[g]) => local'[g] = local[g] ]_vars

\* Whatever was lost, failed or overtaken: when the row stops changing, the
\* expiry of the entries makes every cache agree with the database, because a
\* local entry is never copied back to Redis and a read renews no expiry.
EventuallyFresh ==
    <>[] (~Outdated(redis) /\ \A g \in Gateway : ~Outdated(local[g]))

\* What "clear all service caches" says: a clear that was received and met no
\* error has removed the gateway's old entry.
ClearAllClears ==
    \A g \in Gateway :
        Outdated(local[g]) /\ ~local[g].overlap
            => AwaitsClear(g) \/ "fault" \in missed[g]
=============================================================================
