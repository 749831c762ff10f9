------------------------ MODULE LoadBalancer_proofs ------------------------
(* What the lock regions of the load balancer do to the table, for every    *)
(* set of nodes, callers, versions and generations.  The modules that call  *)
(* them cite these lemmas instead of the definitions.                       *)
EXTENDS LoadBalancer, TLAPS

\* Changing the availability clamps it and touches nothing else.
LEMMA AvailabilityIsClamped ==
    ASSUME NEW node \in NodeState, NEW a \in Int
    PROVE  /\ WithAvailability(node, a) \in NodeState
           /\ WithAvailability(node, a).active = node.active
           /\ Shape(WithAvailability(node, a).conf) = Shape(node.conf)
<1> DEFINE b == IF a < 0 THEN 0 ELSE IF a > FullAvailability THEN FullAvailability ELSE a
           conf == [node.conf EXCEPT !.availability = b]
<1>1. b \in 0 .. FullAvailability
  BY DEF FullAvailability
<1>2. node.conf \in NodeConfig
  BY DEF NodeState
<1>3. WithAvailability(node, a) = [node EXCEPT !.conf = conf]
  BY DEF WithAvailability
<1> HIDE DEF b
<1>4. conf \in NodeConfig /\ Shape(conf) = Shape(node.conf)
  BY <1>1, <1>2 DEF NodeConfig, Shape
<1> HIDE DEF conf
<1>5. QED
  BY <1>3, <1>4 DEF NodeState

\* The operators on one node keep its type: counters stay natural numbers and
\* the availability stays between 0 and 100 percent, whatever is added.
LEMMA NodeOperators ==
    ASSUME NEW node \in NodeState
    PROVE  /\ Failed(node) \in NodeState
           /\ Succeeded(node) \in NodeState
           /\ Overloaded(node) \in NodeState
           /\ Aged(node) \in NodeState
           /\ Released(node) \in NodeState
           /\ Released(node).active = Decremented(node.active)
           /\ Raised(node) \in Int
           /\ Failed(node).active <= node.active
           /\ Succeeded(node).active <= node.active
           /\ Overloaded(node).active = node.active
           /\ Aged(node).active = node.active
<1> USE LoadBalancerConstants
<1>1. \A c \in Nat : Decremented(c) \in Nat /\ Decremented(c) <= c
  BY DEF Decremented
<1>2. \A t \in 0 .. Cooldown : Decremented(t) \in 0 .. Cooldown
  BY DEF Decremented
<1>3. \A a \in Int : WithAvailability(node, a) \in NodeState
                  /\ WithAvailability(node, a).active = node.active
  BY AvailabilityIsClamped
<1>4. node.conf.availability \in 0 .. FullAvailability /\ node.conf.weight \in Int
  BY DEF NodeState, NodeConfig
<1>5. /\ node.conf.availability - 10 \in Int
      /\ node.conf.availability + 1 \in Int
      /\ node.conf.availability - 6 \in Int
  BY <1>4 DEF FullAvailability
<1>6. ASSUME NEW x \in NodeState, x.active = node.active
      PROVE  /\ [x EXCEPT !.active = Decremented(@), !.currentWeight = 0,
                           !.disabled = Cooldown, !.breaker = Cooldown] \in NodeState
             /\ [x EXCEPT !.active = Decremented(@), !.currentWeight = 0,
                           !.disabled = Cooldown, !.breaker = Cooldown].active <= node.active
             /\ [x EXCEPT !.active = Decremented(@), !.disabled = 0, !.breaker = 0] \in NodeState
             /\ [x EXCEPT !.active = Decremented(@), !.disabled = 0, !.breaker = 0].active <= node.active
             /\ [x EXCEPT !.breaker = Cooldown] \in NodeState
             /\ [x EXCEPT !.breaker = Cooldown].active = node.active
  <2>1. Decremented(x.active) \in Nat /\ Decremented(x.active) <= node.active
    BY <1>1, <1>6 DEF NodeState
  <2>2. Cooldown \in 0 .. Cooldown /\ 0 \in 0 .. Cooldown /\ 0 \in Int
    OBVIOUS
  <2>3. \A e \in Nat, w \in Int, z \in 0 .. Cooldown :
          LET y == [x EXCEPT !.active = e, !.currentWeight = w, !.disabled = z, !.breaker = z]
          IN  y \in NodeState /\ y.active = e
    BY DEF NodeState
  <2>4. \A e \in Nat, z \in 0 .. Cooldown :
          LET y == [x EXCEPT !.active = e, !.disabled = z, !.breaker = z]
          IN  y \in NodeState /\ y.active = e
    BY DEF NodeState
  <2>5. \A z \in 0 .. Cooldown :
          LET y == [x EXCEPT !.breaker = z]
          IN  y \in NodeState /\ y.active = node.active
    BY <1>6 DEF NodeState
  <2>6. QED
    BY <2>1, <2>2, <2>3, <2>4, <2>5, Zenon
<1>7. /\ Failed(node) \in NodeState /\ Failed(node).active <= node.active
      /\ Succeeded(node) \in NodeState /\ Succeeded(node).active <= node.active
      /\ Overloaded(node) \in NodeState /\ Overloaded(node).active = node.active
  <2>1. \A a \in {node.conf.availability - 10, node.conf.availability + 1,
                  node.conf.availability - 6} :
          WithAvailability(node, a) \in NodeState /\ WithAvailability(node, a).active = node.active
    BY <1>3, <1>5
  <2>2. Failed(node) \in NodeState /\ Failed(node).active <= node.active
    BY <1>6, <2>1 DEF Failed
  <2>3. Succeeded(node) \in NodeState /\ Succeeded(node).active <= node.active
    BY <1>6, <2>1 DEF Succeeded
  <2>4. Overloaded(node) \in NodeState /\ Overloaded(node).active = node.active
    BY <1>6, <2>1 DEF Overloaded
  <2>5. QED
    BY <2>2, <2>3, <2>4
<1>8. Raised(node) \in Int
  <2>1. (node.conf.weight * node.conf.availability) \div FullAvailability \in Int
    BY <1>4 DEF FullAvailability
  <2>2. AdjustedWeight(node) \in Int
    BY <2>1 DEF AdjustedWeight
  <2>3. QED
    BY <2>2 DEF Raised, NodeState
<1>9. Aged(node) \in NodeState /\ Aged(node).active = node.active
  BY <1>2 DEF Aged, NodeState
<1>10. Released(node) \in NodeState /\ Released(node).active = Decremented(node.active)
  BY <1>1 DEF Released, NodeState
<1>11. QED
  BY <1>1, <1>7, <1>8, <1>9, <1>10

\* What is in use after a step that keeps the table and releases r's slice was
\* in use before.
\* getRuntimeNodes gives r a live generation of its own version's shape, and
\* every other live generation is left as it was; the table is either the old
\* one or a new one whose counters come from the old one.
LEMMA GetRuntimeNodes ==
    ASSUME LBTypeOK, NEW r \in Request, NEW v \in Version, getRuntimeNodes(r, v)
    PROVE  /\ LBTypeOK'
           /\ table' \in Generation
           /\ slice' = [slice EXCEPT ![r] = table']
           /\ runtimeNodesMatch(heap'[table'], v)
           /\ queue' = queue
           /\ \A q \in Request : q # r /\ slice[q] # NoGeneration =>
                  heap'[slice[q]] = heap[slice[q]]
           /\ \/ table' = table /\ heap' = heap
              \/ \A n \in DOMAIN heap'[table'] :
                    heap'[table'][n].active =
                        IF InTable(n) THEN heap[table][n].active ELSE 0
<1> USE LoadBalancerConstants
<1>1. CASE FetchNodes(r, v)
  BY <1>1 DEF FetchNodes, LBTypeOK, TableMatches, HasTable
<1>2. CASE RebuildNodes(r, v)
  <2>1. PICK g \in Generation \ InUse(table, slice) :
          /\ table' = g
          /\ slice' = [slice EXCEPT ![r] = g]
          /\ heap' = Collected([heap EXCEPT ![g] = Rebuilt(v)], g, slice')
    BY <1>2 DEF RebuildNodes
  <2>2. queue' = queue
    BY <1>2 DEF RebuildNodes
  <2>3. /\ heap' \in [Generation -> {heap'[h] : h \in Generation}]
        /\ heap'[g] = Rebuilt(v)
        /\ \A h \in Generation \ {g} : heap'[h] = heap[h] \/ heap'[h] = NoObjects
    BY <2>1 DEF Collected, InUse, LBTypeOK
  <2>4. IsTableOf(Config[v], NodeConfig)
    OBVIOUS
  <2>5. IsTableOf(Current, NodeState)
    BY DEF Current, HasTable, LBTypeOK, IsTableOf, NoObjects
  <2>6. \A c \in NodeConfig : NewNode(c) \in NodeState /\ NewNode(c).conf = c /\ NewNode(c).active = 0
    BY DEF NewNode, NodeState
  <2>7. \A c \in NodeConfig : \A m \in NodeState :
            /\ [m EXCEPT !.conf = c] \in NodeState
            /\ [m EXCEPT !.conf = c].conf = c
            /\ [m EXCEPT !.conf = c].active = m.active
    BY DEF NodeState
  <2>8. /\ DOMAIN Rebuilt(v) = DOMAIN Config[v]
        /\ \A n \in DOMAIN Config[v] :
              /\ Rebuilt(v)[n] \in NodeState
              /\ Rebuilt(v)[n].conf = Config[v][n]
              /\ Rebuilt(v)[n].active = IF n \in DOMAIN Current THEN Current[n].active ELSE 0
    BY <2>4, <2>5, <2>6, <2>7 DEF Rebuilt, IsTableOf
  <2>9. IsTableOf(Rebuilt(v), NodeState)
    BY <2>4, <2>8 DEF Rebuilt, IsTableOf
  <2>10. IsTableOf(NoObjects, NodeState)
    BY DEF IsTableOf, NoObjects
  <2>11. LBTypeOK'
    BY <2>1, <2>2, <2>3, <2>9, <2>10 DEF LBTypeOK
  <2>12. runtimeNodesMatch(heap'[table'], v)
    BY <2>1, <2>3, <2>8 DEF runtimeNodesMatch
  <2>13. \A n \in DOMAIN heap'[table'] :
            heap'[table'][n].active = IF InTable(n) THEN heap[table][n].active ELSE 0
    BY <2>1, <2>3, <2>8 DEF Current, InTable, HasTable, NoObjects
  <2>14. \A q \in Request : q # r /\ slice[q] # NoGeneration => heap'[slice[q]] = heap[slice[q]]
    BY <2>1 DEF Collected, InUse, LBTypeOK
  <2>15. QED
    BY <2>1, <2>2, <2>11, <2>12, <2>13, <2>14
<1>3. QED
  BY <1>1, <1>2 DEF getRuntimeNodes

\* The marks and the passage of time never change what runtimeNodesMatch sees.
LEMMA ShapeIsKept ==
    ASSUME NEW node \in NodeState
    PROVE  /\ Shape(Failed(node).conf) = Shape(node.conf)
           /\ Shape(Succeeded(node).conf) = Shape(node.conf)
           /\ Shape(Overloaded(node).conf) = Shape(node.conf)
           /\ Released(node).conf = node.conf
           /\ Aged(node).conf = node.conf
<1>0. /\ node.conf.availability - 10 \in Int
      /\ node.conf.availability + 1 \in Int
      /\ node.conf.availability - 6 \in Int
  BY DEF NodeState, NodeConfig, FullAvailability
<1>1. \A a \in {node.conf.availability - 10, node.conf.availability + 1,
               node.conf.availability - 6} :
        /\ WithAvailability(node, a) \in NodeState
        /\ Shape(WithAvailability(node, a).conf) = Shape(node.conf)
  BY <1>0, AvailabilityIsClamped
<1>2. \A x \in NodeState :
        /\ [x EXCEPT !.active = Decremented(@), !.currentWeight = 0,
                     !.disabled = Cooldown, !.breaker = Cooldown].conf = x.conf
        /\ [x EXCEPT !.active = Decremented(@), !.disabled = 0, !.breaker = 0].conf = x.conf
        /\ [x EXCEPT !.breaker = Cooldown].conf = x.conf
  BY DEF NodeState
<1>3. Aged(node).conf = node.conf /\ Released(node).conf = node.conf
  BY DEF Aged, Released, NodeState
<1>4. QED
  BY <1>1, <1>2, <1>3, Zenon DEF Failed, Succeeded, Overloaded

\* A selection changes the counter of the chosen node only, by one, and the
\* configuration of none.
LEMMA ChosenNodes ==
    ASSUME NEW nodes, IsTableOf(nodes, NodeState), NEW excluded,
           NEW n \in Selectable(nodes, excluded),
           TotalWeight(nodes, LeastLoaded(nodes, Available(nodes, excluded))) \in Int
    PROVE  /\ n \in DOMAIN nodes \ excluded
           /\ IsTableOf(Chosen(nodes, excluded, n), NodeState)
           /\ DOMAIN Chosen(nodes, excluded, n) = DOMAIN nodes
           /\ \A m \in DOMAIN nodes :
                 /\ Chosen(nodes, excluded, n)[m].conf = nodes[m].conf
                 /\ Chosen(nodes, excluded, n)[m].active =
                        IF m = n THEN nodes[m].active + 1 ELSE nodes[m].active
<1> DEFINE available == Available(nodes, excluded)
           total == TotalWeight(nodes, LeastLoaded(nodes, available))
<1>1. n \in DOMAIN nodes \ excluded
  BY DEF Selectable, BestCandidates, LeastLoaded, Available
<1>2. \A m \in DOMAIN nodes : nodes[m] \in NodeState /\ Raised(nodes[m]) \in Int
  BY NodeOperators DEF IsTableOf
<1>3. \A m \in DOMAIN nodes : nodes[m].active \in Nat /\ nodes[m].active + 1 \in Nat
  BY <1>2 DEF NodeState
<1>4. \A node \in NodeState :
        /\ \A w \in Int, e \in Nat :
              LET y == [node EXCEPT !.active = e, !.currentWeight = w]
              IN  y \in NodeState /\ y.conf = node.conf /\ y.active = e
        /\ \A w \in Int :
              LET y == [node EXCEPT !.currentWeight = w]
              IN  y \in NodeState /\ y.conf = node.conf /\ y.active = node.active
        /\ \A e \in Nat :
              LET y == [node EXCEPT !.active = e]
              IN  y \in NodeState /\ y.conf = node.conf /\ y.active = e
  BY DEF NodeState
<1>5. CASE available = {n}
  <2>1. Chosen(nodes, excluded, n) = Occupied(nodes, n)
    BY <1>5 DEF Chosen
  <2> DEFINE y == [nodes[n] EXCEPT !.active = @ + 1]
  <2>5. y \in NodeState /\ y.conf = nodes[n].conf /\ y.active = nodes[n].active + 1
    BY <1>1, <1>2, <1>3, <1>4, Zenon
  <2>6. Occupied(nodes, n) = [nodes EXCEPT ![n] = y]
    BY DEF Occupied
  <2> HIDE DEF y
  <2>2. Occupied(nodes, n) \in [DOMAIN nodes -> NodeState]
    BY <1>1, <1>2, <2>5, <2>6 DEF IsTableOf
  <2>3. \A m \in DOMAIN nodes :
           /\ Occupied(nodes, n)[m].conf = nodes[m].conf
           /\ Occupied(nodes, n)[m].active = IF m = n THEN nodes[m].active + 1 ELSE nodes[m].active
    BY <1>1, <2>5, <2>6 DEF IsTableOf
  <2>4. QED
    BY <1>1, <2>1, <2>2, <2>3 DEF IsTableOf
<1>6. CASE available # {n}
  <2> DEFINE f == Charged(nodes, LeastLoaded(nodes, available), n)
  <2>1. Chosen(nodes, excluded, n) = f
    BY <1>6 DEF Chosen
  <2>2. Raised(nodes[n]) - total \in Int
    BY <1>1, <1>2
  <2>3. DOMAIN f = DOMAIN nodes
    BY DEF Charged
  <2>4. \A m \in DOMAIN nodes :
           /\ f[m] \in NodeState
           /\ f[m].conf = nodes[m].conf
           /\ f[m].active = IF m = n THEN nodes[m].active + 1 ELSE nodes[m].active
    <3> TAKE m \in DOMAIN nodes
    <3>1. CASE m = n
      <4> DEFINE w == Raised(nodes[n]) - total
                 e == nodes[n].active + 1
                 y == [nodes[n] EXCEPT !.active = e, !.currentWeight = w]
      <4>1. y \in NodeState /\ y.conf = nodes[n].conf /\ y.active = e
        <5>1. w \in Int
          BY <2>2
        <5>2. nodes[n] \in NodeState /\ e \in Nat
          BY <1>1, <1>2, <1>3
        <5> HIDE DEF w, e
        <5>3. QED
          BY <5>1, <5>2 DEF NodeState
      <4>2. f[n] = y
        BY <1>1 DEF Charged
      <4>3. QED
        BY <3>1, <4>1, <4>2, Zenon
    <3>2. CASE m # n
      BY <1>1, <1>2, <1>3, <1>4, <3>2 DEF Charged
    <3>3. QED
      BY <3>1, <3>2
  <2>5. f \in [DOMAIN nodes -> NodeState]
    BY <2>4 DEF Charged
  <2>6. QED
    BY <1>1, <2>1, <2>3, <2>4, <2>5 DEF IsTableOf
<1>7. QED
  BY <1>5, <1>6
\* A selection works on r's own generation, even when that is no longer the
\* table: there it adds one to the chosen node's counter, everywhere else in
\* the live generations it changes nothing.
LEMMA SelectNodeEffect ==
    ASSUME LBTypeOK, NEW r \in Request, slice[r] # NoGeneration, NEW excluded, NEW n,
           SelectNode(r, excluded, n)
    PROVE  /\ LBTypeOK'
           /\ n \in DOMAIN heap[slice[r]] \ excluded
           /\ table' = table
           /\ slice' = [slice EXCEPT ![r] = NoGeneration]
           /\ \A g \in Generation : g = table \/ (\E q \in Request \ {r} : g = slice[q]) =>
                 /\ DOMAIN heap'[g] = DOMAIN heap[g]
                 /\ \A m \in DOMAIN heap[g] :
                       /\ heap'[g][m].conf = heap[g][m].conf
                       /\ heap'[g][m].active =
                            IF g = slice[r] /\ m = n
                            THEN heap[g][m].active + 1 ELSE heap[g][m].active
<1> DEFINE nodes == heap[slice[r]]
           chosen == Chosen(nodes, excluded, n)
<1>1. slice[r] \in Generation /\ IsTableOf(nodes, NodeState)
  BY DEF LBTypeOK
<1>2. /\ n \in Selectable(nodes, excluded)
      /\ slice' = [slice EXCEPT ![r] = NoGeneration]
      /\ heap' = Collected([heap EXCEPT ![slice[r]] = chosen], table, slice')
      /\ table' = table /\ queue' = queue
      /\ TotalWeight(nodes, LeastLoaded(nodes, Available(nodes, excluded))) \in Int
  BY DEF SelectNode
<1>3. /\ n \in DOMAIN nodes \ excluded
      /\ IsTableOf(chosen, NodeState)
      /\ DOMAIN chosen = DOMAIN nodes
      /\ \A m \in DOMAIN nodes :
            /\ chosen[m].conf = nodes[m].conf
            /\ chosen[m].active = IF m = n THEN nodes[m].active + 1 ELSE nodes[m].active
  BY <1>1, <1>2, ChosenNodes
<1> HIDE DEF chosen
<1>4. /\ heap' \in [Generation -> {heap'[g] : g \in Generation}]
      /\ \A g \in Generation :
            heap'[g] = IF g \in InUse(table, slice')
                       THEN IF g = slice[r] THEN chosen ELSE heap[g]
                       ELSE NoObjects
  BY <1>1, <1>2 DEF Collected, LBTypeOK
<1>5. IsTableOf(NoObjects, NodeState)
  BY DEF IsTableOf, NoObjects
<1>6. LBTypeOK'
  BY <1>2, <1>3, <1>4, <1>5 DEF LBTypeOK
<1>7. \A g \in Generation : g = table \/ (\E q \in Request \ {r} : g = slice[q]) =>
         g \in InUse(table, slice')
  BY <1>2 DEF InUse, LBTypeOK
<1>8. QED
  BY <1>2, <1>3, <1>4, <1>6, <1>7

\* A selection that finds nothing only drops r's slice.
LEMMA SelectNothingEffect ==
    ASSUME LBTypeOK, NEW r \in Request, NEW excluded, SelectNothing(r, excluded)
    PROVE  /\ LBTypeOK'
           /\ table' = table
           /\ slice' = [slice EXCEPT ![r] = NoGeneration]
           /\ \A g \in Generation : g = table \/ (\E q \in Request \ {r} : g = slice[q]) =>
                 heap'[g] = heap[g]
<1>1. /\ slice' = [slice EXCEPT ![r] = NoGeneration]
      /\ heap' = Collected(heap, table, slice')
      /\ table' = table /\ queue' = queue
  BY DEF SelectNothing
<1>2. /\ heap' \in [Generation -> {heap'[g] : g \in Generation}]
      /\ \A g \in Generation : heap'[g] = IF g \in InUse(table, slice') THEN heap[g] ELSE NoObjects
  BY <1>1 DEF Collected, LBTypeOK
<1>3. IsTableOf(NoObjects, NodeState)
  BY DEF IsTableOf, NoObjects
<1>4. LBTypeOK'
  BY <1>1, <1>2, <1>3 DEF LBTypeOK
<1>5. \A g \in Generation : g = table \/ (\E q \in Request \ {r} : g = slice[q]) =>
         g \in InUse(table, slice')
  BY <1>1 DEF InUse, LBTypeOK
<1>6. QED
  BY <1>1, <1>2, <1>4, <1>5

\* Replacing one node of the table by another state of the same shape.
LEMMA UpdatedEffect ==
    ASSUME LBTypeOK, NEW n, InTable(n), NEW node \in NodeState,
           Shape(node.conf) = Shape(heap[table][n].conf),
           heap' = Updated(n, node), table' = table, slice' = slice,
           queue' \in [Node -> NotQueued .. FullAvailability]
    PROVE  /\ LBTypeOK'
           /\ \A g \in Generation : DOMAIN heap'[g] = DOMAIN heap[g]
           /\ \A g \in Generation : \A m \in DOMAIN heap[g] :
                 /\ Shape(heap'[g][m].conf) = Shape(heap[g][m].conf)
                 /\ heap'[g][m] = IF g = table /\ m = n THEN node ELSE heap[g][m]
<1>1. table \in Generation /\ n \in DOMAIN heap[table]
  BY DEF InTable, HasTable, LBTypeOK
<1>2. IsTableOf(heap[table], NodeState)
  BY <1>1 DEF LBTypeOK
<1> DEFINE new == [heap[table] EXCEPT ![n] = node]
<1>3. /\ IsTableOf(new, NodeState)
      /\ DOMAIN new = DOMAIN heap[table]
      /\ \A m \in DOMAIN heap[table] : new[m] = IF m = n THEN node ELSE heap[table][m]
  BY <1>1, <1>2 DEF IsTableOf
<1>4. heap' = [heap EXCEPT ![table] = new]
  BY DEF Updated
<1> HIDE DEF new
<1>5. /\ heap' \in [Generation -> {heap'[g] : g \in Generation}]
      /\ \A g \in Generation : heap'[g] = IF g = table THEN new ELSE heap[g]
  BY <1>1, <1>4 DEF LBTypeOK
<1>6. LBTypeOK'
  BY <1>3, <1>5 DEF LBTypeOK
<1>7. QED
  BY <1>1, <1>3, <1>5, <1>6

\* ReleaseNodeRequest and the marks never raise a counter, never change the
\* shape of a table, and never touch a generation that is not the table.
LEMMA ReleaseAndMarkEffect ==
    ASSUME LBTypeOK, NEW n \in Node,
           \/ ReleaseNodeRequest(n) \/ MarkNodeFailure(n)
           \/ MarkNodeMaxConn(n) \/ MarkNodeSuccess(n)
    PROVE  /\ LBTypeOK'
           /\ table' = table /\ slice' = slice
           /\ \A g \in Generation : DOMAIN heap'[g] = DOMAIN heap[g]
           /\ \A g \in Generation : \A m \in DOMAIN heap[g] :
                 /\ Shape(heap'[g][m].conf) = Shape(heap[g][m].conf)
                 /\ heap'[g][m].active <= heap[g][m].active
           /\ ReleaseNodeRequest(n) /\ InTable(n) =>
                 heap'[table][n].active = Decremented(heap[table][n].active)
<1> DEFINE node == heap[table][n]
<1>1. \A g \in Generation : \A m \in DOMAIN heap[g] :
         heap[g][m] \in NodeState /\ heap[g][m].active \in Nat
  BY DEF LBTypeOK, IsTableOf, NodeState
<1>2. CASE ~InTable(n)
  <2>1. UNCHANGED lbVars
    BY <1>2 DEF ReleaseNodeRequest, MarkNodeFailure, MarkNodeMaxConn, MarkNodeSuccess, lbVars
  <2>2. QED
    BY <1>1, <1>2, <2>1 DEF lbVars, LBTypeOK
<1>3. CASE InTable(n)
  <2>1. table \in Generation /\ n \in DOMAIN heap[table] /\ node \in NodeState
    BY <1>1, <1>3 DEF InTable, HasTable, LBTypeOK
  <2>2. ASSUME NEW x \in NodeState, Shape(x.conf) = Shape(node.conf), x.active <= node.active,
               heap' = Updated(n, x), table' = table, slice' = slice,
               queue' = queue \/ queue' = [queue EXCEPT ![n] = x.conf.availability]
        PROVE  /\ LBTypeOK'
               /\ \A g \in Generation : DOMAIN heap'[g] = DOMAIN heap[g]
               /\ \A g \in Generation : \A m \in DOMAIN heap[g] :
                     /\ Shape(heap'[g][m].conf) = Shape(heap[g][m].conf)
                     /\ heap'[g][m].active <= heap[g][m].active
               /\ heap'[table][n] = x
    <3>1. x.conf.availability \in NotQueued .. FullAvailability
      BY DEF NodeState, NodeConfig, NotQueued, FullAvailability
    <3>2. queue' \in [Node -> NotQueued .. FullAvailability]
      BY <2>2, <3>1 DEF LBTypeOK
    <3>3. /\ LBTypeOK'
          /\ \A g \in Generation : DOMAIN heap'[g] = DOMAIN heap[g]
          /\ \A g \in Generation : \A m \in DOMAIN heap[g] :
                /\ Shape(heap'[g][m].conf) = Shape(heap[g][m].conf)
                /\ heap'[g][m] = IF g = table /\ m = n THEN x ELSE heap[g][m]
      BY <1>3, <2>2, <3>2, UpdatedEffect
    <3>4. \A g \in Generation : \A m \in DOMAIN heap[g] :
             heap'[g][m].active <= heap[g][m].active
      BY <1>1, <2>2, <3>3
    <3>5. QED
      BY <2>1, <3>3, <3>4
  <2>3. CASE ReleaseNodeRequest(n)
    <3>1. /\ heap' = Updated(n, Released(node))
          /\ table' = table /\ slice' = slice /\ queue' = queue
      BY <1>3, <2>3 DEF ReleaseNodeRequest
    <3>2. /\ Released(node) \in NodeState
          /\ Released(node).active = Decremented(node.active)
          /\ Shape(Released(node).conf) = Shape(node.conf)
      BY <2>1, NodeOperators, ShapeIsKept
    <3>3. Released(node).active <= node.active
      BY <1>1, <2>1, <3>2 DEF Decremented
    <3>4. QED
      BY <2>2, <3>1, <3>2, <3>3
  <2>4. CASE ~ReleaseNodeRequest(n)
    <3>1. PICK x \in {Failed(node), Overloaded(node), Succeeded(node)} :
            /\ heap' = Updated(n, x)
            /\ table' = table /\ slice' = slice
            /\ queue' = queue \/ queue' = [queue EXCEPT ![n] = x.conf.availability]
      BY <1>3, <2>4 DEF MarkNodeFailure, MarkNodeMaxConn, MarkNodeSuccess, Mark
    <3>2. x \in NodeState /\ x.active <= node.active /\ Shape(x.conf) = Shape(node.conf)
      <4> node.active \in Nat
        BY <1>1, <2>1
      <4> HIDE DEF node
      <4>1. CASE x = Failed(node)
        BY <2>1, <4>1, NodeOperators, ShapeIsKept
      <4>2. CASE x = Overloaded(node)
        <5>1. x \in NodeState /\ Shape(x.conf) = Shape(node.conf) /\ x.active = node.active
          BY <2>1, <4>2, NodeOperators, ShapeIsKept
        <5>2. QED
          BY <5>1
      <4>3. CASE x = Succeeded(node)
        BY <2>1, <4>3, NodeOperators, ShapeIsKept
      <4>4. QED
        BY <4>1, <4>2, <4>3
    <3>3. QED
      BY <2>2, <2>4, <3>1, <3>2
  <2>5. QED
    BY <2>3, <2>4
<1>4. QED
  BY <1>2, <1>3

\* Time only makes timers recede.
LEMMA TickEffect ==
    ASSUME LBTypeOK, Tick
    PROVE  /\ LBTypeOK'
           /\ table' = table /\ slice' = slice /\ queue' = queue
           /\ \A g \in Generation : DOMAIN heap'[g] = DOMAIN heap[g]
           /\ \A g \in Generation : \A m \in DOMAIN heap[g] :
                 /\ heap'[g][m].conf = heap[g][m].conf
                 /\ heap'[g][m].active = heap[g][m].active
<1>1. \A g \in Generation : \A m \in DOMAIN heap[g] :
         /\ Aged(heap[g][m]) \in NodeState
         /\ Aged(heap[g][m]).conf = heap[g][m].conf
         /\ Aged(heap[g][m]).active = heap[g][m].active
  BY NodeOperators, ShapeIsKept DEF LBTypeOK, IsTableOf
<1>2. /\ heap' = [g \in Generation |-> [m \in DOMAIN heap[g] |-> Aged(heap[g][m])]]
      /\ table' = table /\ slice' = slice /\ queue' = queue
  BY DEF Tick
<1>3. \A g \in Generation : IsTableOf(heap'[g], NodeState)
  BY <1>1, <1>2 DEF IsTableOf, LBTypeOK
<1>4. LBTypeOK'
  BY <1>2, <1>3 DEF LBTypeOK
<1>5. QED
  BY <1>1, <1>2, <1>4
=============================================================================
