------------------------- MODULE CacheLayer_proofs -------------------------
(* Types and safety of the caches, for every set of gateways, any number of *)
(* changes and any messages.                                                *)
EXTENDS CacheLayer, TLAPS

\* A fill holds its gateway's only chance of storing an entry.
FillsAreExclusive ==
    \A g \in Gateway : fill[g].stage # "none" => ~IsEntry(local[g])

\* What a fill carries obeys the rule of the caches it will store it in: what
\* goes to Redis came from the database, and is old only if the row changed
\* meanwhile; what goes to the local cache only may be old because Redis was.
FillsAreAccounted ==
    \A g \in Gateway :
        /\ Outdated(fill[g].entry) /\ ~fill[g].entry.overlap => AwaitsClear(g) \/ missed[g] # {}
        /\ fill[g].stage = "setRedis" /\ Outdated(fill[g].entry) => fill[g].entry.overlap

Safe == FillsAreExclusive /\ FillsAreAccounted /\ OutdatedEntriesAwaitAClear

IInv == CacheTypeOK /\ Safe

-----------------------------------------------------------------------------
\* Marking an entry keeps its version and its type.
LEMMA OverlappedEntries ==
    ASSUME NEW e \in Entry \cup {NoEntry, EmptyEntry}, NEW bad \in BOOLEAN
    PROVE  /\ Overlapped(e, bad).version = e.version
           /\ Overlapped(e, bad).overlap = (e.overlap \/ bad)
           /\ e \in Entry => Overlapped(e, bad) \in Entry
           /\ e = NoEntry /\ ~bad => Overlapped(e, bad) = NoEntry
<1>1. e.overlap \in BOOLEAN
  <2>1. CASE e \in Entry
    BY <2>1, Zenon DEF Entry
  <2>2. CASE e \in {NoEntry, EmptyEntry}
    <3>1. NoEntry.overlap = FALSE /\ EmptyEntry.overlap = FALSE
      BY DEF NoEntry, EmptyEntry
    <3>2. QED
      BY <2>2, <3>1, Zenon
  <2>3. QED
    BY <2>1, <2>2
<1>2. Overlapped(e, bad).version = e.version
  BY DEF Overlapped
<1>3. Overlapped(e, bad).overlap = (e.overlap \/ bad)
  BY DEF Overlapped
<1>4. ASSUME e \in Entry PROVE Overlapped(e, bad) \in Entry
  <2>1. e.version \in Version
    BY <1>4 DEF Entry
  <2>2. (e.overlap \/ bad) \in BOOLEAN
    OBVIOUS
  <2>3. QED
    BY <2>1, <2>2, Zenon DEF Overlapped, Entry
<1>5. ASSUME e = NoEntry, ~bad PROVE Overlapped(e, bad) = NoEntry
  <2>1. e.version = 0 /\ e.overlap = FALSE
    BY <1>5 DEF NoEntry
  <2>2. (e.overlap \/ bad) = FALSE
    BY <1>5, <2>1
  <2>3. QED
    BY <2>1, <2>2 DEF Overlapped, NoEntry
<1>6. QED
  BY <1>2, <1>3, <1>4, <1>5

\* An entry is a cached row exactly when it is not one of the two markers.
LEMMA Markers ==
    /\ ~IsEntry(NoEntry) /\ ~IsEntry(EmptyEntry)
    /\ \A e \in Entry \cup {NoEntry, EmptyEntry} : IsEntry(e) <=> e \in Entry
  BY DEF IsEntry, NoEntry, EmptyEntry, Entry, Version

\* A marked fill is a fill.
LEMMA OverlappedFills ==
    ASSUME NEW f \in Fill, NEW bad \in BOOLEAN, bad => IsEntry(f.entry)
    PROVE  /\ OverlappedFill(f, bad) \in Fill
           /\ OverlappedFill(f, bad).stage = f.stage
           /\ OverlappedFill(f, bad).entry = Overlapped(f.entry, bad)
<1>1. f.entry \in Entry \cup {NoEntry}
  BY DEF Fill
<1>2. Overlapped(f.entry, bad) \in Entry \cup {NoEntry}
  BY <1>1, Markers, OverlappedEntries
<1>3. QED
  BY <1>2 DEF OverlappedFill, Fill

\* The initial state is well typed.
LEMMA InitialTypes == Init => CacheTypeOK
<1> SUFFICES ASSUME Init PROVE CacheTypeOK
  OBVIOUS
<1>1. 1 \in Version
  BY CacheConstants DEF Version
<1>2. NoFill \in Fill
  BY DEF NoFill, Fill
<1>3. /\ db \in Version /\ unpublished \in BOOLEAN
      /\ redis \in Entry \cup {NoEntry, EmptyEntry}
      /\ local \in [Gateway -> Entry \cup {NoEntry}]
      /\ fill \in [Gateway -> Fill]
  BY <1>1, <1>2 DEF Init
<1>4. inbox \in [Gateway -> Seq({"clear", "clearAll"})]
  <2>1. <<>> \in Seq({"clear", "clearAll"})
    OBVIOUS
  <2>2. QED
    BY <2>1 DEF Init
<1>5. /\ handler \in [Gateway -> {"idle", "list", "local", "redis"}]
      /\ missed \in [Gateway -> SUBSET {"fault", "unlisted"}]
  BY DEF Init
<1>6. QED
  BY <1>3, <1>4, <1>5 DEF CacheTypeOK

\* The steps of a fill keep the types.
LEMMA FillTypes ==
    ASSUME CacheTypeOK, NEW g \in Gateway, BeginFill(g) \/ FillStep(g)
    PROVE  CacheTypeOK'
<1>1. fill[g] \in Fill /\ fill[g].entry \in Entry \cup {NoEntry}
  BY DEF CacheTypeOK, Fill
<1>2. UNCHANGED <<db, messageVars>>
  BY DEF BeginFill, FillStep, GetRedis, QueryDB, SetEmpty, SetRedis, SetLocal
<1>3. redis' \in Entry \cup {NoEntry, EmptyEntry}
  BY <1>1 DEF BeginFill, FillStep, GetRedis, QueryDB, SetEmpty, SetRedis, SetLocal, CacheTypeOK
<1>4. local' \in [Gateway -> Entry \cup {NoEntry}]
  BY <1>1 DEF BeginFill, FillStep, GetRedis, QueryDB, SetEmpty, SetRedis, SetLocal, CacheTypeOK
<1>5. fill' \in [Gateway -> Fill]
  <2>1. ASSUME NEW stage \in {"none", "redis", "db", "setEmpty", "setRedis", "setLocal"},
               NEW e \in Entry \cup {NoEntry}, Continue(g, stage, e)
        PROVE  fill' \in [Gateway -> Fill]
    BY <2>1 DEF Continue, CacheTypeOK, Fill
  <2>2. ASSUME EndFill(g) PROVE fill' \in [Gateway -> Fill]
    BY <2>2 DEF EndFill, NoFill, CacheTypeOK, Fill
  <2>3. CASE BeginFill(g)
    BY <2>1, <2>3 DEF BeginFill
  <2>4. CASE GetRedis(g)
    <3>1. CASE Continue(g, "db", NoEntry)
      BY <2>1, <3>1
    <3>2. CASE /\ IsEntry(redis)
               /\ Continue(g, "setLocal", Overlapped(redis, Outdated(redis) /\ handler[g] = "redis"))
      <4>1. (Outdated(redis) /\ handler[g] = "redis") \in BOOLEAN
        BY DEF Outdated, IsEntry
      <4>2. redis \in Entry
        BY <3>2, Markers DEF CacheTypeOK
      <4>3. QED
        BY <2>1, <3>2, <4>1, <4>2, OverlappedEntries
    <3>3. QED
      BY <2>4, <3>1, <3>2 DEF GetRedis
  <2>5. CASE QueryDB(g)
    <3>1. [version |-> db, overlap |-> FALSE] \in Entry
      BY DEF CacheTypeOK, Entry
    <3>2. QED
      BY <2>1, <2>2, <2>5, <3>1 DEF QueryDB
  <2>6. CASE SetEmpty(g) \/ SetLocal(g)
    BY <2>2, <2>6 DEF SetEmpty, SetLocal
  <2>7. CASE SetRedis(g)
    BY <1>1, <2>1, <2>7 DEF SetRedis
  <2>8. QED
    BY <2>3, <2>4, <2>5, <2>6, <2>7 DEF FillStep
<1>6. QED
  BY <1>2, <1>3, <1>4, <1>5 DEF CacheTypeOK, messageVars

\* Receiving and handling messages keeps the types.
LEMMA HandlerTypes ==
    ASSUME CacheTypeOK, NEW g \in Gateway, HandlerStep(g)
    PROVE  CacheTypeOK'
<1>1. UNCHANGED <<db, unpublished>>
  BY DEF HandlerStep, Receive, ListKeys, DeleteLocal, DeleteRedis
<1>2. handler' \in [Gateway -> {"idle", "list", "local", "redis"}]
  BY DEF HandlerStep, Receive, ListKeys, DeleteLocal, DeleteRedis, CacheTypeOK
<1>3. missed' \in [Gateway -> SUBSET {"fault", "unlisted"}]
  <2>1. missed[g] \in SUBSET {"fault", "unlisted"}
    BY DEF CacheTypeOK
  <2>2. \A s \in SUBSET {"fault", "unlisted"} :
            [missed EXCEPT ![g] = s] \in [Gateway -> SUBSET {"fault", "unlisted"}]
    BY DEF CacheTypeOK
  <2>3. /\ missed[g] \cup {"fault"} \in SUBSET {"fault", "unlisted"}
        /\ missed[g] \cup {"unlisted"} \in SUBSET {"fault", "unlisted"}
        /\ {} \in SUBSET {"fault", "unlisted"}
    BY <2>1
  <2>4. \/ missed' = missed
        \/ \E s \in SUBSET {"fault", "unlisted"} : missed' = [missed EXCEPT ![g] = s]
    BY <2>3 DEF HandlerStep, Receive, ListKeys, DeleteLocal, DeleteRedis
  <2>5. QED
    BY <2>2, <2>4 DEF CacheTypeOK
<1>4. redis' \in Entry \cup {NoEntry, EmptyEntry} /\ local' \in [Gateway -> Entry \cup {NoEntry}]
  BY DEF HandlerStep, Receive, ListKeys, DeleteLocal, DeleteRedis, CacheTypeOK
<1>5. inbox' \in [Gateway -> Seq({"clear", "clearAll"})]
  <2>1. CASE Receive(g)
    <3>1. inbox[g] \in Seq({"clear", "clearAll"}) /\ inbox[g] # <<>>
      BY <2>1 DEF Receive, CacheTypeOK
    <3>2. Tail(inbox[g]) \in Seq({"clear", "clearAll"})
      BY <3>1
    <3>3. QED
      BY <2>1, <3>2 DEF Receive, CacheTypeOK
  <2>2. CASE ~Receive(g)
    BY <2>2 DEF HandlerStep, ListKeys, DeleteLocal, DeleteRedis, CacheTypeOK
  <2>3. QED
    BY <2>1, <2>2
<1>6. fill' \in [Gateway -> Fill]
  <2>1. fill[g] \in Fill /\ Outdated(fill[g].entry) \in BOOLEAN
    BY DEF CacheTypeOK, Outdated, IsEntry
  <2>2. OverlappedFill(fill[g], Outdated(fill[g].entry)) \in Fill
    BY <2>1, OverlappedFills DEF Outdated
  <2>3. QED
    BY <2>2 DEF HandlerStep, Receive, ListKeys, DeleteLocal, DeleteRedis, CacheTypeOK
<1>7. QED
  BY <1>1, <1>2, <1>3, <1>4, <1>5, <1>6 DEF CacheTypeOK

\* Expiry, changes and messages keep the types.
LEMMA OtherTypes ==
    ASSUME CacheTypeOK,
           \/ \E g \in Gateway : ExpireLocal(g)
           \/ ExpireRedis
           \/ ChangeRow
           \/ \E kind \in Kind, receivers \in SUBSET Gateway : Publish(kind, receivers)
    PROVE  CacheTypeOK'
<1>1. CASE (\E g \in Gateway : ExpireLocal(g)) \/ ExpireRedis
  BY <1>1 DEF ExpireLocal, ExpireRedis, CacheTypeOK, messageVars
<1>2. CASE ChangeRow
  <2>1. db' \in Version
    BY <1>2, CacheConstants DEF ChangeRow, CacheTypeOK, Version
  <2>2. ASSUME NEW g \in Gateway
        PROVE  OverlappedFill(fill[g], IsEntry(fill[g].entry)) \in Fill
    <3>1. fill[g] \in Fill
      BY DEF CacheTypeOK
    <3>2. IsEntry(fill[g].entry) \in BOOLEAN
      BY DEF IsEntry
    <3>3. QED
      BY <3>1, <3>2, OverlappedFills
  <2>3. QED
    BY <1>2, <2>1, <2>2 DEF ChangeRow, CacheTypeOK
<1>3. ASSUME NEW kind \in Kind, NEW receivers \in SUBSET Gateway, Publish(kind, receivers)
      PROVE  CacheTypeOK'
  <2>1. kind \in {"clear", "clearAll"}
    BY CacheConstants
  <2>2. ASSUME NEW g \in Gateway
        PROVE  Append(inbox[g], kind) \in Seq({"clear", "clearAll"})
    <3>1. inbox[g] \in Seq({"clear", "clearAll"})
      BY DEF CacheTypeOK
    <3>2. QED
      BY <2>1, <3>1
  <2>3. inbox' \in [Gateway -> Seq({"clear", "clearAll"})]
    BY <1>3, <2>2 DEF Publish, CacheTypeOK
  <2>4. \A g \in Gateway : missed[g] \cup {"fault"} \in SUBSET {"fault", "unlisted"}
    BY DEF CacheTypeOK
  <2>5. missed' \in [Gateway -> SUBSET {"fault", "unlisted"}]
    BY <1>3, <2>4 DEF Publish, CacheTypeOK
  <2>6. QED
    BY <1>3, <2>3, <2>5 DEF Publish, CacheTypeOK
<1>4. QED
  BY <1>1, <1>2, <1>3

-----------------------------------------------------------------------------
\* Every step keeps the types.
LEMMA Types == CacheTypeOK /\ [Next]_vars => CacheTypeOK'
<1> SUFFICES ASSUME CacheTypeOK, [Next]_vars PROVE CacheTypeOK'
  OBVIOUS
<1>1. ASSUME NEW g \in Gateway, BeginFill(g) \/ FillStep(g) PROVE CacheTypeOK'
  BY <1>1, FillTypes
<1>2. ASSUME NEW g \in Gateway, HandlerStep(g) PROVE CacheTypeOK'
  BY <1>2, HandlerTypes
<1>3. CASE \/ \E g \in Gateway : ExpireLocal(g)
           \/ ExpireRedis
           \/ ChangeRow
           \/ \E kind \in Kind, receivers \in SUBSET Gateway : Publish(kind, receivers)
  BY <1>3, OtherTypes
<1>4. CASE UNCHANGED vars
  BY <1>4 DEF vars, CacheTypeOK
<1>5. QED
  BY <1>1, <1>2, <1>3, <1>4 DEF Next

\* Only an entry that a step stores or changes can break the rule: the rest of
\* the state keeps it as long as each gateway that awaited a clear still does,
\* or has recorded why it got none.
LEMMA Kept ==
    ASSUME IInv, UNCHANGED <<db, redis, local, fill>>,
           \A g \in Gateway :
              /\ AwaitsClear(g) \/ missed[g] # {} => AwaitsClear(g)' \/ missed'[g] # {}
              /\ handler[g] = "redis" => handler'[g] = "redis"
    PROVE  Safe'
<1>1. FillsAreExclusive'
  BY DEF IInv, Safe, FillsAreExclusive, IsEntry
<1>2. FillsAreAccounted'
  BY DEF IInv, Safe, FillsAreAccounted, Outdated, IsEntry
<1>3. OutdatedEntriesAwaitAClear'
  BY DEF IInv, Safe, OutdatedEntriesAwaitAClear, Outdated, IsEntry
<1>4. QED
  BY <1>1, <1>2, <1>3 DEF Safe

\* A fill takes from Redis only what the rule of Redis allows, and stores only
\* what its own rule allows.
LEMMA FillSafety ==
    ASSUME IInv, NEW h \in Gateway, BeginFill(h) \/ FillStep(h)
    PROVE  Safe'
<1>1. /\ UNCHANGED <<db, messageVars>>
      /\ \A g \in Gateway : AwaitsClear(g)' = AwaitsClear(g)
  BY DEF BeginFill, FillStep, GetRedis, QueryDB, SetEmpty, SetRedis, SetLocal, messageVars, AwaitsClear
<1>2. \A g \in Gateway \ {h} : fill'[g] = fill[g] /\ local'[g] = local[g]
  BY DEF BeginFill, FillStep, GetRedis, QueryDB, SetEmpty, SetRedis, SetLocal, Continue, EndFill,
         IInv, CacheTypeOK
<1>3. ASSUME NEW stage, NEW e, Continue(h, stage, e)
      PROVE  fill'[h].stage = stage /\ fill'[h].entry = e
  BY <1>3 DEF Continue, IInv, CacheTypeOK
<1>4. ASSUME EndFill(h)
      PROVE  fill'[h].stage = "none" /\ fill'[h].entry = NoEntry
  BY <1>4 DEF EndFill, NoFill, IInv, CacheTypeOK
<1>5. FillsAreExclusive'
  <2>1. fill'[h].stage # "none" => ~IsEntry(local[h]) /\ local' = local
    BY <1>3, <1>4 DEF BeginFill, FillStep, GetRedis, QueryDB, SetEmpty, SetRedis, SetLocal,
                      IInv, Safe, FillsAreExclusive
  <2>2. QED
    BY <1>2, <2>1 DEF IInv, Safe, FillsAreExclusive, IsEntry
<1>6. /\ fill'[h].stage # "setRedis" \/ ~Outdated(fill'[h].entry)
      /\ Outdated(fill'[h].entry) /\ ~fill'[h].entry.overlap => AwaitsClear(h) \/ missed[h] # {}
  <2>1. ~Outdated(NoEntry)
    BY Markers DEF Outdated
  <2>2. CASE BeginFill(h)
    BY <1>3, <2>1, <2>2 DEF BeginFill
  <2>3. CASE GetRedis(h)
    <3>1. CASE Continue(h, "db", NoEntry)
      BY <1>3, <2>1, <3>1
    <3>2. CASE /\ IsEntry(redis)
               /\ Continue(h, "setLocal", Overlapped(redis, Outdated(redis) /\ handler[h] = "redis"))
      <4>1. (Outdated(redis) /\ handler[h] = "redis") \in BOOLEAN
        BY DEF Outdated, IsEntry
      <4>2. redis \in Entry \cup {NoEntry, EmptyEntry}
        BY DEF IInv, CacheTypeOK
      <4> DEFINE bad == Outdated(redis) /\ handler[h] = "redis"
      <4>3. /\ Overlapped(redis, bad).version = redis.version
            /\ Overlapped(redis, bad).overlap = (redis.overlap \/ bad)
        BY <4>1, <4>2, OverlappedEntries
      <4>4. fill'[h].stage = "setLocal" /\ fill'[h].entry = Overlapped(redis, bad)
        BY <1>3, <3>2
      <4>5. /\ fill'[h].stage = "setLocal"
            /\ fill'[h].entry.version = redis.version
            /\ fill'[h].entry.overlap = (redis.overlap \/ (Outdated(redis) /\ handler[h] = "redis"))
        BY <4>3, <4>4
      <4>6. QED
        BY <4>5 DEF Outdated, IsEntry, IInv, Safe, OutdatedEntriesAwaitAClear
    <3>3. QED
      BY <2>3, <3>1, <3>2 DEF GetRedis
  <2>4. CASE QueryDB(h)
    <3>1. ~Outdated([version |-> db, overlap |-> FALSE])
      BY DEF Outdated
    <3>2. QED
      BY <1>3, <1>4, <2>1, <2>4, <3>1 DEF QueryDB
  <2>5. CASE SetEmpty(h) \/ SetLocal(h)
    BY <1>4, <2>1, <2>5 DEF SetEmpty, SetLocal
  <2>6. CASE SetRedis(h)
    BY <1>3, <2>6 DEF SetRedis, IInv, Safe, FillsAreAccounted
  <2>7. QED
    BY <2>2, <2>3, <2>4, <2>5, <2>6 DEF FillStep
<1>7. FillsAreAccounted'
  BY <1>1, <1>2, <1>6 DEF messageVars, Outdated, IsEntry, IInv, Safe, FillsAreAccounted
<1>8. Outdated(redis)' /\ ~redis'.overlap =>
          \A g \in Gateway : AwaitsClear(g)' \/ handler'[g] = "redis" \/ missed'[g] # {}
  <2>1. CASE redis' = redis
    BY <1>1, <2>1 DEF messageVars, Outdated, IsEntry, IInv, Safe, OutdatedEntriesAwaitAClear
  <2>2. CASE redis' = EmptyEntry
    BY <2>2, Markers DEF Outdated, IsEntry
  <2>3. CASE SetRedis(h) /\ redis' = fill[h].entry
    BY <1>1, <2>3 DEF SetRedis, Outdated, IsEntry, IInv, Safe, FillsAreAccounted
  <2>4. QED
    BY <2>1, <2>2, <2>3 DEF BeginFill, FillStep, GetRedis, QueryDB, SetEmpty, SetRedis, SetLocal
<1>9. ASSUME NEW g \in Gateway, Outdated(local[g])', ~local'[g].overlap
      PROVE  AwaitsClear(g)' \/ missed'[g] # {}
  <2>1. CASE local'[g] = local[g]
    BY <1>1, <1>9, <2>1 DEF messageVars, Outdated, IsEntry, IInv, Safe, OutdatedEntriesAwaitAClear
  <2>2. CASE g = h /\ local'[h] = fill[h].entry
    BY <1>1, <1>9, <2>2 DEF messageVars, Outdated, IsEntry, IInv, Safe, FillsAreAccounted
  <2>3. local'[g] = local[g] \/ (g = h /\ local'[h] = fill[h].entry)
    BY DEF BeginFill, FillStep, GetRedis, QueryDB, SetEmpty, SetRedis, SetLocal, IInv, CacheTypeOK
  <2>4. QED
    BY <2>1, <2>2, <2>3
<1>10. OutdatedEntriesAwaitAClear'
  BY <1>8, <1>9 DEF OutdatedEntriesAwaitAClear, Outdated, IsEntry
<1>11. QED
  BY <1>5, <1>7, <1>10 DEF Safe

\* Receiving a clear, or giving it up, leaves the gateway awaiting one or with a
\* record of why not; deleting the local entry marks the fill that would put
\* it back.
LEMMA HandlerSafety ==
    ASSUME IInv, NEW h \in Gateway, HandlerStep(h)
    PROVE  Safe'
<1>1. /\ UNCHANGED <<db, unpublished>>
      /\ \A g \in Gateway \ {h} :
            /\ AwaitsClear(g)' = AwaitsClear(g)
            /\ handler'[g] = handler[g]
            /\ missed'[g] = missed[g]
  BY DEF HandlerStep, Receive, ListKeys, DeleteLocal, DeleteRedis, AwaitsClear, IInv, CacheTypeOK
<1>2. CASE Receive(h) \/ ListKeys(h)
  <2>1. AwaitsClear(h)' \/ missed'[h] # {}
    <3>1. CASE Receive(h)
      BY <3>1 DEF Receive, AwaitsClear, IInv, CacheTypeOK
    <3>2. CASE ListKeys(h)
      <4>1. /\ handler \in [Gateway -> {"idle", "list", "local", "redis"}]
            /\ missed \in [Gateway -> SUBSET {"fault", "unlisted"}]
        BY DEF IInv, CacheTypeOK
      <4>2. handler'[h] = "local" \/ missed'[h] # {}
        BY <3>2, <4>1 DEF ListKeys
      <4> QED
        BY <4>2 DEF AwaitsClear
    <3> QED
      BY <1>2, <3>1, <3>2
  <2>2. UNCHANGED <<db, redis, local, fill>> /\ handler[h] # "redis"
    BY <1>2 DEF Receive, ListKeys
  <2>3. QED
    BY <1>1, <2>1, <2>2, Kept
<1>3. CASE DeleteLocal(h)
  <2>1. /\ local'[h] = NoEntry
        /\ handler'[h] = "redis"
        /\ redis' = redis
        /\ fill'[h] = OverlappedFill(fill[h], Outdated(fill[h].entry))
        /\ \A g \in Gateway \ {h} : local'[g] = local[g] /\ fill'[g] = fill[g]
    BY <1>3 DEF DeleteLocal, IInv, CacheTypeOK
  <2>2. /\ fill'[h].stage = fill[h].stage
        /\ fill'[h].entry.version = fill[h].entry.version
        /\ Outdated(fill[h].entry) => fill'[h].entry.overlap
    <3>1. fill[h] \in Fill /\ fill[h].entry \in Entry \cup {NoEntry}
      BY DEF IInv, CacheTypeOK, Fill
    <3>2. Outdated(fill[h].entry) \in BOOLEAN /\ (Outdated(fill[h].entry) => IsEntry(fill[h].entry))
      BY DEF Outdated, IsEntry
    <3>3. /\ fill'[h].stage = fill[h].stage
          /\ fill'[h].entry = Overlapped(fill[h].entry, Outdated(fill[h].entry))
      BY <2>1, <3>1, <3>2, OverlappedFills
    <3>4. /\ fill'[h].entry.version = fill[h].entry.version
          /\ fill'[h].entry.overlap = (fill[h].entry.overlap \/ Outdated(fill[h].entry))
      BY <3>1, <3>2, <3>3, OverlappedEntries
    <3>5. QED
      BY <3>3, <3>4
  <2>3. ~Outdated(NoEntry)' /\ ~IsEntry(NoEntry)
    BY Markers DEF Outdated, IsEntry
  <2>4. FillsAreExclusive'
    BY <2>1, <2>2, <2>3 DEF IInv, Safe, FillsAreExclusive, IsEntry
  <2>5. FillsAreAccounted'
    BY <1>1, <2>1, <2>2 DEF IInv, Safe, FillsAreAccounted, Outdated, IsEntry
  <2>6. OutdatedEntriesAwaitAClear'
    BY <1>1, <2>1, <2>3 DEF IInv, Safe, OutdatedEntriesAwaitAClear, Outdated, IsEntry
  <2>7. QED
    BY <2>4, <2>5, <2>6 DEF Safe
<1>4. CASE DeleteRedis(h)
  <2>1. /\ UNCHANGED <<local, fill>>
        /\ \/ redis' = NoEntry
           \/ redis' = redis /\ missed'[h] # {}
    <3>1. ASSUME missed' = [missed EXCEPT ![h] = missed[h] \cup {"fault"}]
          PROVE  missed'[h] # {}
      <4>1. missed'[h] = missed[h] \cup {"fault"}
        BY <3>1 DEF IInv, CacheTypeOK
      <4>2. QED
        BY <4>1
    <3>2. /\ UNCHANGED <<local, fill>>
          /\ \/ redis' = NoEntry
             \/ redis' = redis /\ missed' = [missed EXCEPT ![h] = missed[h] \cup {"fault"}]
      BY <1>4 DEF DeleteRedis
    <3>3. QED
      BY <3>1, <3>2, Zenon
  <2>2. AwaitsClear(h) \/ missed[h] # {} => AwaitsClear(h)' \/ missed'[h] # {}
    BY <1>4 DEF DeleteRedis, AwaitsClear, IInv, CacheTypeOK
  <2>3. FillsAreExclusive'
    BY <2>1 DEF IInv, Safe, FillsAreExclusive, IsEntry
  <2>4. FillsAreAccounted'
    BY <1>1, <2>1, <2>2 DEF IInv, Safe, FillsAreAccounted, Outdated, IsEntry
  <2>5. \A g \in Gateway :
           Outdated(local[g])' /\ ~local'[g].overlap => AwaitsClear(g)' \/ missed'[g] # {}
    BY <1>1, <2>1, <2>2 DEF IInv, Safe, OutdatedEntriesAwaitAClear, Outdated, IsEntry
  <2>6. Outdated(redis)' /\ ~redis'.overlap =>
           \A g \in Gateway : AwaitsClear(g)' \/ handler'[g] = "redis" \/ missed'[g] # {}
    <3>1. CASE redis' = NoEntry
      BY <3>1, Markers DEF Outdated, IsEntry
    <3>2. CASE redis' = redis /\ missed'[h] # {}
      BY <1>1, <3>2 DEF IInv, Safe, OutdatedEntriesAwaitAClear, Outdated, IsEntry
    <3>3. QED
      BY <2>1, <3>1, <3>2
  <2>7. OutdatedEntriesAwaitAClear'
    BY <2>5, <2>6 DEF OutdatedEntriesAwaitAClear
  <2>8. QED
    BY <2>3, <2>4, <2>7 DEF Safe
<1>5. QED
  BY <1>2, <1>3, <1>4 DEF HandlerStep

\* Expiry only removes entries; a change marks the fills it overtakes and leaves
\* a message to be published; a message reaches an inbox or is recorded as lost.
LEMMA OtherSafety ==
    ASSUME IInv,
           \/ \E g \in Gateway : ExpireLocal(g)
           \/ ExpireRedis
           \/ ChangeRow
           \/ \E kind \in Kind, receivers \in SUBSET Gateway : Publish(kind, receivers)
    PROVE  Safe'
<1>1. ASSUME NEW h \in Gateway, ExpireLocal(h) PROVE Safe'
  <2>1. /\ UNCHANGED <<db, redis, fill, messageVars>>
        /\ local'[h] = NoEntry
        /\ \A g \in Gateway \ {h} : local'[g] = local[g]
    BY <1>1 DEF ExpireLocal, IInv, CacheTypeOK
  <2>2. \A g \in Gateway : AwaitsClear(g)' = AwaitsClear(g)
    BY <2>1 DEF AwaitsClear, messageVars
  <2>3. ~Outdated(NoEntry)' /\ ~IsEntry(NoEntry)
    BY Markers DEF Outdated, IsEntry
  <2>4. FillsAreExclusive'
    BY <2>1, <2>3 DEF IInv, Safe, FillsAreExclusive, IsEntry
  <2>5. FillsAreAccounted'
    BY <2>1, <2>2 DEF IInv, Safe, FillsAreAccounted, Outdated, IsEntry, messageVars
  <2>6. OutdatedEntriesAwaitAClear'
    BY <2>1, <2>2, <2>3 DEF IInv, Safe, OutdatedEntriesAwaitAClear, Outdated, IsEntry, messageVars
  <2>7. QED
    BY <2>4, <2>5, <2>6 DEF Safe
<1>2. CASE ExpireRedis
  <2>1. UNCHANGED <<db, local, fill, messageVars>> /\ redis' = NoEntry
    BY <1>2 DEF ExpireRedis
  <2>2. \A g \in Gateway : AwaitsClear(g)' = AwaitsClear(g)
    BY <2>1 DEF AwaitsClear, messageVars
  <2>3. ~Outdated(redis)'
    BY <2>1, Markers DEF Outdated, IsEntry
  <2>4. FillsAreExclusive'
    BY <2>1 DEF IInv, Safe, FillsAreExclusive, IsEntry
  <2>5. FillsAreAccounted'
    BY <2>1, <2>2 DEF IInv, Safe, FillsAreAccounted, Outdated, IsEntry, messageVars
  <2>6. OutdatedEntriesAwaitAClear'
    BY <2>1, <2>2, <2>3 DEF IInv, Safe, OutdatedEntriesAwaitAClear, Outdated, IsEntry, messageVars
  <2>7. QED
    BY <2>4, <2>5, <2>6 DEF Safe
<1>3. CASE ChangeRow
  <2>1. \A g \in Gateway : AwaitsClear(g)'
    BY <1>3 DEF ChangeRow, AwaitsClear
  <2>2. ASSUME NEW g \in Gateway
        PROVE  /\ fill'[g].stage = fill[g].stage
               /\ IsEntry(fill'[g].entry) => fill'[g].entry.overlap
    <3>1. fill[g] \in Fill /\ fill[g].entry \in Entry \cup {NoEntry}
      BY DEF IInv, CacheTypeOK, Fill
    <3>2. IsEntry(fill[g].entry) \in BOOLEAN
      BY DEF IsEntry
    <3>3. fill'[g] = OverlappedFill(fill[g], IsEntry(fill[g].entry))
      BY <1>3 DEF ChangeRow
    <3>4. /\ fill'[g].stage = fill[g].stage
          /\ fill'[g].entry = Overlapped(fill[g].entry, IsEntry(fill[g].entry))
      BY <3>1, <3>2, <3>3, OverlappedFills
    <3>5. /\ fill'[g].entry.version = fill[g].entry.version
          /\ fill'[g].entry.overlap = (fill[g].entry.overlap \/ IsEntry(fill[g].entry))
      BY <3>1, <3>2, <3>4, OverlappedEntries
    <3>6. QED
      BY <3>4, <3>5 DEF IsEntry
  <2>3. FillsAreExclusive'
    BY <1>3, <2>2 DEF ChangeRow, IInv, Safe, FillsAreExclusive, IsEntry
  <2>4. FillsAreAccounted'
    BY <2>1, <2>2 DEF FillsAreAccounted, Outdated, IsEntry
  <2>5. OutdatedEntriesAwaitAClear'
    BY <2>1 DEF OutdatedEntriesAwaitAClear
  <2>6. QED
    BY <2>3, <2>4, <2>5 DEF Safe
<1>4. ASSUME NEW kind \in Kind, NEW receivers \in SUBSET Gateway, Publish(kind, receivers)
      PROVE  Safe'
  <2>1. ASSUME NEW g \in Gateway
        PROVE  AwaitsClear(g)' \/ missed'[g] # {}
    <3>1. CASE g \in receivers
      <4>1. inbox'[g] = Append(inbox[g], kind) /\ inbox[g] \in Seq({"clear", "clearAll"})
        BY <1>4, <3>1 DEF Publish, IInv, CacheTypeOK
      <4>2. kind \in {"clear", "clearAll"}
        BY CacheConstants
      <4>3. inbox'[g] # <<>>
        BY <4>1, <4>2
      <4>4. QED
        BY <4>3 DEF AwaitsClear
    <3>2. CASE g \notin receivers
      BY <1>4, <3>2 DEF Publish
    <3>3. QED
      BY <3>1, <3>2
  <2>2. UNCHANGED <<db, redis, local, fill, handler>>
    BY <1>4 DEF Publish
  <2>3. QED
    BY <2>1, <2>2, Kept
<1>5. QED
  BY <1>1, <1>2, <1>3, <1>4

-----------------------------------------------------------------------------
\* The invariant holds at first and in every step.
LEMMA InitialInvariant == Init => IInv
<1> SUFFICES ASSUME Init PROVE IInv
  OBVIOUS
<1>1. \A g \in Gateway : fill[g] = NoFill /\ local[g] = NoEntry
  BY DEF Init
<1>2. ~IsEntry(NoEntry) /\ NoFill.stage = "none" /\ NoFill.entry = NoEntry /\ redis = NoEntry
  BY Markers DEF NoFill, Init
<1>3. FillsAreExclusive /\ FillsAreAccounted /\ OutdatedEntriesAwaitAClear
  BY <1>1, <1>2 DEF FillsAreExclusive, FillsAreAccounted, OutdatedEntriesAwaitAClear, Outdated
<1>4. QED
  BY <1>3, InitialTypes DEF IInv, Safe

\* What IInv says survives every step.
LEMMA Invariance == IInv /\ [Next]_vars => IInv'
<1> SUFFICES ASSUME IInv, [Next]_vars PROVE IInv'
  OBVIOUS
<1>1. CacheTypeOK'
  BY Types DEF IInv
<1>2. Safe'
  <2>1. ASSUME NEW g \in Gateway, BeginFill(g) \/ FillStep(g) PROVE Safe'
    BY <2>1, FillSafety
  <2>2. ASSUME NEW g \in Gateway, HandlerStep(g) PROVE Safe'
    BY <2>2, HandlerSafety
  <2>3. CASE \/ \E g \in Gateway : ExpireLocal(g)
             \/ ExpireRedis
             \/ ChangeRow
             \/ \E kind \in Kind, receivers \in SUBSET Gateway : Publish(kind, receivers)
    BY <2>3, OtherSafety
  <2>4. CASE UNCHANGED vars
    <3>1. /\ UNCHANGED <<db, redis, local, fill>>
          /\ \A g \in Gateway : AwaitsClear(g)' = AwaitsClear(g) /\ missed'[g] = missed[g]
                                /\ handler'[g] = handler[g]
      BY <2>4 DEF vars, AwaitsClear
    <3>2. QED
      BY <3>1, Kept
  <2>5. QED
    BY <2>1, <2>2, <2>3, <2>4 DEF Next
<1>3. QED
  BY <1>1, <1>2 DEF IInv

\* The variables of the caches keep their types, for every set of gateways and
\* any bound on changes.
THEOREM CacheTypes == Spec => []CacheTypeOK
<1>1. IInv => CacheTypeOK
  BY DEF IInv
<1>2. QED
  BY InitialInvariant, Invariance, <1>1, PTL DEF Spec

\* After a change, every outdated entry awaits a clear, or something is recorded
\* that kept the clear from it.
THEOREM OutdatedAwait == Spec => []OutdatedEntriesAwaitAClear
<1>1. IInv => OutdatedEntriesAwaitAClear
  BY DEF IInv, Safe
<1>2. QED
  BY InitialInvariant, Invariance, <1>1, PTL DEF Spec

\* No step replaces a cached row by another in a local cache.
THEOREM NotReplaced == Spec => EntriesAreNotReplaced
<1>1. ASSUME IInv, [Next]_vars
      PROVE  [ \A g \in Gateway :
                  IsEntry(local[g]) /\ IsEntry(local'[g]) => local'[g] = local[g] ]_vars
  <2> SUFFICES ASSUME NEW g \in Gateway, IsEntry(local[g]), IsEntry(local'[g])
               PROVE  local'[g] = local[g]
    OBVIOUS
  <2>1. ~IsEntry(NoEntry)
    BY Markers
  <2>2. ASSUME NEW h \in Gateway, SetLocal(h) PROVE local'[g] = local[g]
    <3>1. ~IsEntry(local[h])
      BY <1>1, <2>2 DEF SetLocal, IInv, Safe, FillsAreExclusive
    <3>2. QED
      BY <1>1, <2>2, <3>1 DEF SetLocal, IInv, CacheTypeOK
  <2>3. ASSUME NEW h \in Gateway, ExpireLocal(h) \/ DeleteLocal(h) PROVE local'[g] = local[g]
    BY <1>1, <2>1, <2>3 DEF ExpireLocal, DeleteLocal, IInv, CacheTypeOK
  <2>4. CASE UNCHANGED local
    BY <2>4
  <2>5. QED
    BY <1>1, <2>2, <2>3, <2>4
       DEF Next, vars, BeginFill, FillStep, GetRedis, QueryDB, SetEmpty, SetRedis, HandlerStep,
           Receive, ListKeys, DeleteRedis, ExpireRedis, ChangeRow, Publish
<1>2. QED
  BY InitialInvariant, Invariance, <1>1, PTL DEF Spec, EntriesAreNotReplaced
=============================================================================
