---------------------------- MODULE LoadBalancer ----------------------------
(***************************************************************************)
(* The runtime node table of one service                                   *)
(* (internal/service/loadBalancer).  `runtimeNodes` maps a service to a    *)
(* slice of *WeightedNode; services share nothing, so one is modelled.     *)
(*                                                                         *)
(* The slice is what makes the package hard: getRuntimeNodes returns it    *)
(* after unlocking, selectNodeByLoad locks again and works on the objects  *)
(* of that slice, while a request that carries another version of the      *)
(* service may have replaced the table by new objects in between.  Each    *)
(* table built is a GENERATION of objects here; a generation lives as long *)
(* as it is the table or some caller still holds its slice.                *)
(*                                                                         *)
(* The actions are the lock regions of the package.  They are parts of     *)
(* steps: Proxy and AvailabilityFlusher say who calls them and when.       *)
(*                                                                         *)
(* Availability is counted in half percents (100% is 200): the code only   *)
(* adds 0.5 and subtracts 3 and 5.  LastError, ConsecutiveFails and the    *)
(* circuit breaker's type are written and never read; they are left out.   *)
(*                                                                         *)
(* Operators named ...Bug are plausible mistakes of the operator they      *)
(* stand before; no behaviour of the model uses them.  They show that the  *)
(* properties are sensitive to the code.                                   *)
(***************************************************************************)
EXTENDS Integers, FiniteSets, FiniteSetsExt

CONSTANTS
    Node,             \* service_nodes.id
    Url,              \* service_nodes.node_url
    Request,          \* the goroutines that call SelectNode
    Version,          \* the versions of the service the caches may hold
    Config,           \* Config[v][n]: node n in version v of the service
    Generation,       \* numbers of the tables built; a bound on TLC's side
    NoGeneration,     \* "no slice" and "no entry in runtimeNodes"
    Cooldown          \* nodeFailureCooldown and CircuitBreaker.IsActive, in ticks

FullAvailability == 200

\* models.ServiceNode; pos is its index in service.Nodes.
NodeConfig == [pos : Nat, url : Url, weight : Int, maxConn : Int, status : {0, 1},
               availability : 0 .. FullAvailability]

NodeState == [conf : NodeConfig, active : Nat, currentWeight : Int,
              disabled : 0 .. Cooldown, breaker : 0 .. Cooldown]

\* A table holds elements of S for some of the nodes.
IsTableOf(f, S) == DOMAIN f \subseteq Node /\ f \in [DOMAIN f -> S]

ASSUME LoadBalancerConstants ==
    /\ IsFiniteSet(Node)
    /\ IsFiniteSet(Request)
    /\ \A v \in Version :
          /\ IsTableOf(Config[v], NodeConfig)
          /\ \A n, m \in DOMAIN Config[v] : Config[v][n].pos = Config[v][m].pos => n = m
    /\ Generation \subseteq Nat /\ NoGeneration \notin Generation
    /\ Cooldown \in Nat \ {0}

VARIABLES
    table,            \* runtimeNodes[service.ID]
    heap,             \* the WeightedNode objects of every live generation
    slice,            \* the []*WeightedNode a caller holds outside the lock
    queue             \* availabilityQueue: the latest value per node, or -1

lbVars == <<table, heap, slice, queue>>

NotQueued == -1

NoObjects == [n \in {} |-> 0]

-----------------------------------------------------------------------------
(* One node.                                                               *)

\* Bug: no `if > 0`.
DecrementedUnguardedBug(count) == count - 1

Decremented(count) == IF count > 0 THEN count - 1 ELSE count

EffectiveMaxConn(conf) == IF conf.maxConn <= 0 THEN 100 ELSE conf.maxConn

normalizedWeight(weight) == IF weight > 0 THEN weight ELSE 1

\* max(int(weight * availability%), 1); exact for the weights used here, a
\* float64 product may truncate one lower for larger ones.
AdjustedWeight(node) ==
    LET product == (node.conf.weight * node.conf.availability) \div FullAvailability
    IN  IF product < 1 THEN 1 ELSE product

\* The filter of filterAvailableNodesWithLock.
IsUsable(node) ==
    /\ node.conf.status = 1
    /\ node.breaker = 0
    /\ node.disabled = 0
    /\ node.active < EffectiveMaxConn(node.conf)

\* compareNodeLoad(a, b) = -1
LessLoaded(a, b) ==
    a.active * normalizedWeight(b.conf.weight) < b.active * normalizedWeight(a.conf.weight)

\* Bug: no clamp.
WithUnclampedAvailabilityBug(node, a) ==
    [node EXCEPT !.conf = [node.conf EXCEPT !.availability = a]]

\* The availability changed to a, clamped to 0% .. 100%.
WithAvailability(node, a) ==
    [node EXCEPT !.conf = [node.conf EXCEPT !.availability =
        IF a < 0 THEN 0 ELSE IF a > FullAvailability THEN FullAvailability ELSE a]]

\* The node after ReleaseNodeRequest.
Released(node) == [node EXCEPT !.active = Decremented(@)]

\* The node after MarkNodeFailure, MarkNodeSuccess and MarkNodeMaxConn.
Failed(node) ==
    [WithAvailability(node, node.conf.availability - 10) EXCEPT
        !.active = Decremented(@), !.currentWeight = 0,
        !.disabled = Cooldown, !.breaker = Cooldown]

Succeeded(node) ==
    [WithAvailability(node, node.conf.availability + 1) EXCEPT
        !.active = Decremented(@), !.disabled = 0, !.breaker = 0]

Overloaded(node) ==
    [WithAvailability(node, node.conf.availability - 6) EXCEPT !.breaker = Cooldown]

-----------------------------------------------------------------------------
(* The table and its generations.                                          *)

HasTable == table # NoGeneration

\* runtimeNodesMatch compares everything but the availability, in slice order: a
\* service that was loaded with its nodes in another order does not match.
Shape(conf) == [conf EXCEPT !.availability = 0]

runtimeNodesMatch(nodes, version) ==
    /\ DOMAIN nodes = DOMAIN Config[version]
    /\ \A n \in DOMAIN nodes : Shape(nodes[n].conf) = Shape(Config[version][n])

TableMatches(version) ==
    /\ HasTable
    /\ runtimeNodesMatch(heap[table], version)

Current == IF HasTable THEN heap[table] ELSE NoObjects

NewNode(conf) == [conf |-> conf, active |-> 0, currentWeight |-> 0,
                  disabled |-> 0, breaker |-> 0]

\* Bug: copy the counters but not the breaker and the cooldown.
RebuiltReopenedBug(version) ==
    [n \in DOMAIN Config[version] |->
        IF n \in DOMAIN Current
        THEN [NewNode(Config[version][n]) EXCEPT !.active = Current[n].active,
                                                 !.currentWeight = Current[n].currentWeight]
        ELSE NewNode(Config[version][n])]

\* rebuildRuntimeNodes: the configuration, the availability included, comes
\* from the service; the counters and timers from the replaced object.
Rebuilt(version) ==
    [n \in DOMAIN Config[version] |->
        IF n \in DOMAIN Current
        THEN [Current[n] EXCEPT !.conf = Config[version][n]]
        ELSE NewNode(Config[version][n])]

InUse(t, s) == {t} \cup {s[r] : r \in Request}

\* Go's collector frees what nothing refers to any more.
Collected(h, t, s) == [g \in Generation |-> IF g \in InUse(t, s) THEN h[g] ELSE NoObjects]

LBInit ==
    /\ table = NoGeneration
    /\ heap = [g \in Generation |-> NoObjects]
    /\ slice = [r \in Request |-> NoGeneration]
    /\ queue = [n \in Node |-> NotQueued]

\* getRuntimeNodes, when the table matches the caller's version of the service.
\* The lookup under RLock and the one under Lock that follows a mismatch have
\* no effect between them, so that the call takes effect at the last of them.
FetchNodes(r, version) ==
    /\ TableMatches(version)
    /\ slice' = [slice EXCEPT ![r] = table]
    /\ UNCHANGED <<table, heap, queue>>

\* getRuntimeNodes, when it does not: build and publish a new generation.  The
\* number it gets, the least that is free, means nothing.
RebuildNodes(r, version) ==
    /\ ~TableMatches(version)
    /\ \E g \in Generation \ InUse(table, slice) :
         /\ \A h \in Generation \ InUse(table, slice) : g <= h
         /\ table' = g
         /\ slice' = [slice EXCEPT ![r] = g]
         /\ heap' = Collected([heap EXCEPT ![g] = Rebuilt(version)], table', slice')
    /\ UNCHANGED queue

getRuntimeNodes(r, version) == FetchNodes(r, version) \/ RebuildNodes(r, version)

-----------------------------------------------------------------------------
(* selectNodeByLoad on the slice of r, without the nodes already tried.    *)

\* Bug: forget the nodes already tried.
AvailableUntriedBug(nodes, excluded) == {n \in DOMAIN nodes : IsUsable(nodes[n])}

Available(nodes, excluded) == {n \in DOMAIN nodes \ excluded : IsUsable(nodes[n])}

\* The candidates: no other available node is less loaded.
LeastLoaded(nodes, available) ==
    {n \in available : \A m \in available : ~LessLoaded(nodes[m], nodes[n])}

Raised(node) == node.currentWeight + AdjustedWeight(node)

\* The smooth weighted round robin among the candidates: the greatest current
\* weight, and the first in slice order of several.
BestCandidates(nodes, candidates) ==
    {n \in candidates : \A m \in candidates \ {n} :
        \/ Raised(nodes[m]) < Raised(nodes[n])
        \/ Raised(nodes[m]) = Raised(nodes[n]) /\ nodes[n].conf.pos < nodes[m].conf.pos}

TotalWeight(nodes, candidates) ==
    MapThenSumSet(LAMBDA m : AdjustedWeight(nodes[m]), candidates)

\* The nodes after n was chosen among the candidates.
Charged(nodes, candidates, n) ==
    [m \in DOMAIN nodes |->
        IF m = n
        THEN [nodes[m] EXCEPT !.active = @ + 1,
                 !.currentWeight = Raised(nodes[m]) - TotalWeight(nodes, candidates)]
        ELSE IF m \in candidates
        THEN [nodes[m] EXCEPT !.currentWeight = Raised(nodes[m])]
        ELSE nodes[m]]

Occupied(nodes, n) == [nodes EXCEPT ![n] = [nodes[n] EXCEPT !.active = @ + 1]]

\* The nodes that may be chosen: the only available one as it is, without
\* touching the weights, or the best candidate of several.
Selectable(nodes, excluded) ==
    LET available == Available(nodes, excluded)
    IN  IF Cardinality(available) = 1 THEN available
        ELSE BestCandidates(nodes, LeastLoaded(nodes, available))

Chosen(nodes, excluded, n) ==
    LET available == Available(nodes, excluded)
    IN  IF available = {n} THEN Occupied(nodes, n)
        ELSE Charged(nodes, LeastLoaded(nodes, available), n)

\* Bug: look the table up again instead of using the slice.
SelectNodeFromTableBug(r, excluded, n) ==
    LET nodes == heap[table]
    IN  /\ n \in Selectable(nodes, excluded)
        /\ slice' = [slice EXCEPT ![r] = NoGeneration]
        /\ heap' = Collected([heap EXCEPT ![table] = Chosen(nodes, excluded, n)], table, slice')
        /\ UNCHANGED <<table, queue>>

\* r's slice is dropped when the selection returns.  The last conjunct always
\* holds; it gives the proofs the type of the sum, which they cannot derive.
SelectNode(r, excluded, n) ==
    LET nodes == heap[slice[r]]
    IN  /\ n \in Selectable(nodes, excluded)
        /\ slice' = [slice EXCEPT ![r] = NoGeneration]
        /\ heap' = Collected([heap EXCEPT ![slice[r]] = Chosen(nodes, excluded, n)], table, slice')
        /\ UNCHANGED <<table, queue>>
        /\ TotalWeight(nodes, LeastLoaded(nodes, Available(nodes, excluded))) \in Int

SelectNothing(r, excluded) ==
    /\ Available(heap[slice[r]], excluded) = {}
    /\ slice' = [slice EXCEPT ![r] = NoGeneration]
    /\ heap' = Collected(heap, table, slice')
    /\ UNCHANGED <<table, queue>>

-----------------------------------------------------------------------------
(* Calls that find the node by its id in the table of the moment, which    *)
(* need not be the generation it was selected from; a node that is gone is *)
(* left alone.                                                             *)

InTable(n) == HasTable /\ n \in DOMAIN heap[table]

Updated(n, node) == [heap EXCEPT ![table] = [heap[table] EXCEPT ![n] = node]]

\* Bug: rely on the marks, of which MarkNodeMaxConn does not release.
ReleaseByMarksBug(n) == UNCHANGED lbVars

ReleaseNodeRequest(n) ==
    /\ heap' = IF InTable(n)
               THEN Updated(n, Released(heap[table][n]))
               ELSE heap
    /\ UNCHANGED <<table, slice, queue>>

\* A mark replaces the node and queues its new availability for the database.
Mark(n, node) ==
    /\ heap' = Updated(n, node)
    /\ queue' = [queue EXCEPT ![n] = node.conf.availability]
    /\ UNCHANGED <<table, slice>>

MarkNodeFailure(n) ==
    IF InTable(n) THEN Mark(n, Failed(heap[table][n])) ELSE UNCHANGED lbVars

MarkNodeMaxConn(n) ==
    IF InTable(n) THEN Mark(n, Overloaded(heap[table][n])) ELSE UNCHANGED lbVars

\* Bug: recover the availability without queueing it.
MarkNodeSuccessUnqueuedBug(n) ==
    /\ heap' = IF InTable(n) THEN Updated(n, Succeeded(heap[table][n])) ELSE heap
    /\ UNCHANGED <<table, slice, queue>>

\* A node at full availability is not written again.
MarkNodeSuccess(n) ==
    IF ~InTable(n) THEN UNCHANGED lbVars
    ELSE IF heap[table][n].conf.availability < FullAvailability
    THEN Mark(n, Succeeded(heap[table][n]))
    ELSE /\ heap' = Updated(n, Succeeded(heap[table][n]))
         /\ UNCHANGED <<table, slice, queue>>

-----------------------------------------------------------------------------
(* Time, in ticks: DisabledUntil and the breaker's start time recede.      *)

Aged(node) == [node EXCEPT !.disabled = Decremented(@), !.breaker = Decremented(@)]

SomeTimerRuns ==
    \E g \in Generation : \E n \in DOMAIN heap[g] :
        heap[g][n].disabled > 0 \/ heap[g][n].breaker > 0

Tick ==
    /\ SomeTimerRuns
    /\ heap' = [g \in Generation |-> [n \in DOMAIN heap[g] |-> Aged(heap[g][n])]]
    /\ UNCHANGED <<table, slice, queue>>

-----------------------------------------------------------------------------
LBTypeOK ==
    /\ table \in Generation \cup {NoGeneration}
    /\ heap \in [Generation -> {heap[g] : g \in Generation}]
    /\ \A g \in Generation : IsTableOf(heap[g], NodeState)
    /\ slice \in [Request -> Generation \cup {NoGeneration}]
    /\ queue \in [Node -> NotQueued .. FullAvailability]
=============================================================================
