--------------------- MODULE AvailabilityFlusher_proofs ---------------------
(* Theorems about the write-behind of availability, for every set of nodes,  *)
(* every configuration and every number of marks.                            *)
EXTENDS AvailabilityFlusher, LoadBalancer_proofs

\* Where the latest availability of a node is to be found.  A node whose value
\* is in the queue hides what is being written, and that hides the database:
\* PersistedWhenQuiet alone is not inductive, because it says nothing of the
\* values on their way.
LatestValue(n) ==
    LET latest == heap[table][n].conf.availability
    IN  /\ queue[n] # NotQueued => queue[n] = latest
        /\ queue[n] = NotQueued /\ batch[n] # NotQueued => batch[n] = latest
        /\ queue[n] = NotQueued /\ batch[n] = NotQueued /\ n \notin lost => db[n] = latest

FlusherInv ==
    /\ FlusherTypeOK
    /\ table \in Generation
    /\ \A n \in DOMAIN heap[table] : LatestValue(n)

\* A freshly published table with an empty queue has nothing outstanding.
LEMMA InitialFlusher == Init => FlusherInv
<1> SUFFICES ASSUME Init PROVE FlusherInv
  OBVIOUS
<1>1. PICK version \in Version, g \in Generation :
        /\ table = g
        /\ heap = [h \in Generation |->
                     IF h = g THEN [n \in DOMAIN Config[version] |-> NewNode(Config[version][n])]
                     ELSE NoObjects]
        /\ slice = [r \in Request |-> NoGeneration]
        /\ queue = NothingQueued
        /\ batch = NothingQueued
        /\ db = [n \in Node |-> IF n \in DOMAIN Config[version]
                                THEN Config[version][n].availability ELSE 0]
        /\ late = [l \in Late |-> NothingQueued]
        /\ lost = {}
        /\ marks = 0
  BY DEF Init
<1>2. /\ DOMAIN Config[version] \subseteq Node
      /\ \A n \in DOMAIN Config[version] : Config[version][n] \in NodeConfig
  BY LoadBalancerConstants DEF IsTableOf
<1>3. \A c \in NodeConfig : /\ NewNode(c) \in NodeState /\ NewNode(c).conf = c
                            /\ c.availability \in 0 .. FullAvailability
  <2>1. 0 \in 0 .. Cooldown
    BY LoadBalancerConstants
  <2>2. QED
    BY <2>1 DEF NewNode, NodeState, NodeConfig
<1>4. \A h \in Generation : IsTableOf(heap[h], NodeState)
  BY <1>1, <1>2, <1>3 DEF IsTableOf, NoObjects
<1>5. /\ queue \in [Node -> NotQueued .. FullAvailability] /\ batch \in [Node -> NotQueued .. FullAvailability]
      /\ late \in [Late -> [Node -> NotQueued .. FullAvailability]]
  BY <1>1 DEF NothingQueued, NotQueued, FullAvailability
<1>6. db \in [Node -> 0 .. FullAvailability]
  BY <1>1, <1>2, <1>3 DEF FullAvailability
<1>7. LBTypeOK
  BY <1>1, <1>4, <1>5 DEF LBTypeOK
<1>8. FlusherTypeOK
  BY <1>1, <1>5, <1>6, <1>7, FlusherConstants DEF FlusherTypeOK
<1>9. \A n \in DOMAIN heap[table] : LatestValue(n)
  BY <1>1, <1>2, <1>3 DEF LatestValue, NothingQueued, NotQueued
<1>10. QED
  BY <1>1, <1>8, <1>9 DEF FlusherInv

\* A mark queues the availability it leaves the node with, or does not change it.
LEMMA MarksQueue ==
    ASSUME LBTypeOK, NEW n \in Node, InTable(n),
           MarkNodeFailure(n) \/ MarkNodeMaxConn(n) \/ MarkNodeSuccess(n)
    PROVE  \E x \in NodeState :
              /\ heap' = Updated(n, x) /\ table' = table /\ slice' = slice
              /\ \/ queue' = [queue EXCEPT ![n] = x.conf.availability]
                 \/ queue' = queue /\ x.conf.availability = heap[table][n].conf.availability
<1> DEFINE node == heap[table][n]
<1>1. node \in NodeState
  BY DEF InTable, HasTable, LBTypeOK, IsTableOf
<1>2. /\ Failed(node) \in NodeState /\ Overloaded(node) \in NodeState
      /\ Succeeded(node) \in NodeState
  BY <1>1, NodeOperators
<1>3. CASE MarkNodeFailure(n)
  BY <1>2, <1>3 DEF MarkNodeFailure, Mark
<1>4. CASE MarkNodeMaxConn(n)
  BY <1>2, <1>4 DEF MarkNodeMaxConn, Mark
<1>5. CASE MarkNodeSuccess(n) /\ node.conf.availability < FullAvailability
  BY <1>2, <1>5 DEF MarkNodeSuccess, Mark
<1>6. CASE MarkNodeSuccess(n) /\ ~(node.conf.availability < FullAvailability)
  <2>1. node.conf.availability = FullAvailability
    BY <1>1, <1>6 DEF NodeState, NodeConfig, FullAvailability
  <2>2. \A x \in NodeState : x.conf.availability = FullAvailability =>
           WithAvailability(x, x.conf.availability + 1) = [x EXCEPT !.conf =
               [x.conf EXCEPT !.availability = FullAvailability]]
    BY DEF WithAvailability, FullAvailability
  <2>3. Succeeded(node).conf.availability = FullAvailability
    <3>1. \A x \in NodeState :
            LET y == [x EXCEPT !.conf = [x.conf EXCEPT !.availability = FullAvailability]]
            IN  [y EXCEPT !.active = Decremented(@), !.disabled = 0, !.breaker = 0].conf.availability
                   = FullAvailability
      BY DEF NodeState, NodeConfig
    <3>2. QED
      BY <1>1, <2>1, <2>2, <3>1 DEF Succeeded
  <2>4. heap' = Updated(n, Succeeded(node)) /\ table' = table /\ slice' = slice /\ queue' = queue
    BY <1>6 DEF MarkNodeSuccess
  <2>5. QED
    BY <1>2, <2>1, <2>3, <2>4
<1>7. QED
  BY <1>3, <1>4, <1>5, <1>6

\* A mark queues the very value it leaves in the runtime node, clamped, so that
\* the latest value of the node stays the queued one.
LEMMA MarkKeepsFlusher ==
    ASSUME FlusherInv, NEW n \in Node, MarkNode(n)
    PROVE  FlusherInv'
<1>1. LBTypeOK /\ table \in Generation /\ batch' = batch /\ db' = db /\ late' = late /\ lost' = lost
  BY DEF FlusherInv, FlusherTypeOK, MarkNode
<1>2. MarkNodeFailure(n) \/ MarkNodeMaxConn(n) \/ MarkNodeSuccess(n)
  BY DEF MarkNode
<1>3. LBTypeOK' /\ table' = table /\ DOMAIN heap'[table] = DOMAIN heap[table]
  BY <1>1, <1>2, ReleaseAndMarkEffect
<1>4. marks' \in 0 .. MaxMarks
  BY FlusherConstants DEF MarkNode, FlusherInv, FlusherTypeOK
<1>5. FlusherTypeOK'
  BY <1>1, <1>3, <1>4 DEF FlusherInv, FlusherTypeOK
<1>6. \A m \in DOMAIN heap[table] : LatestValue(m)'
  <2> TAKE m \in DOMAIN heap[table]
  <2>1. LatestValue(m) /\ m \in Node
    BY <1>1 DEF FlusherInv, LBTypeOK, IsTableOf
  <2>2. CASE ~InTable(n)
    <3>1. heap' = heap /\ queue' = queue
      BY <1>2, <2>2 DEF MarkNodeFailure, MarkNodeMaxConn, MarkNodeSuccess, lbVars
    <3>2. QED
      BY <1>1, <1>3, <2>1, <3>1 DEF LatestValue
  <2>3. CASE InTable(n)
    <3>1. PICK x \in NodeState :
              /\ heap' = Updated(n, x)
              /\ \/ queue' = [queue EXCEPT ![n] = x.conf.availability]
                 \/ queue' = queue /\ x.conf.availability = heap[table][n].conf.availability
      BY <1>1, <1>2, <2>3, MarksQueue
    <3>2. heap'[table][m] = IF m = n THEN x ELSE heap[table][m]
      <4>1. heap' = [heap EXCEPT ![table] = [heap[table] EXCEPT ![n] = x]]
        BY <3>1 DEF Updated
      <4>2. heap'[table] = [heap[table] EXCEPT ![n] = x]
        BY <1>1, <4>1 DEF LBTypeOK
      <4>3. heap[table] \in [DOMAIN heap[table] -> NodeState]
        BY <1>1 DEF LBTypeOK, IsTableOf
      <4>4. QED
        BY <4>2, <4>3
    <3>3. queue'[m] = queue[m] \/ (m = n /\ queue'[m] = x.conf.availability)
      <4>1. queue \in [Node -> NotQueued .. FullAvailability]
        BY <1>1 DEF LBTypeOK
      <4>2. CASE queue' = [queue EXCEPT ![n] = x.conf.availability]
        BY <2>1, <4>1, <4>2
      <4>3. QED
        BY <3>1, <4>2
    <3>4. x.conf.availability # NotQueued
      <4>1. x.conf \in NodeConfig
        BY DEF NodeState
      <4>2. x.conf.availability \in 0 .. FullAvailability
        BY <4>1 DEF NodeConfig
      <4>3. QED
        BY <4>2 DEF NotQueued, FullAvailability
    <3>5. CASE m # n
      BY <1>1, <1>3, <2>1, <3>2, <3>3, <3>5 DEF LatestValue
    <3>6. CASE m = n /\ queue' = [queue EXCEPT ![n] = x.conf.availability]
      <4>1. queue'[m] = heap'[table'][m].conf.availability
        <5>1. queue \in [Node -> NotQueued .. FullAvailability]
          BY <1>1 DEF LBTypeOK
        <5>2. queue'[n] = x.conf.availability
          BY <3>6, <5>1
        <5>3. QED
          BY <1>3, <3>2, <3>6, <5>2
      <4>2. QED
        BY <3>2, <3>4, <3>6, <1>3, <4>1 DEF LatestValue
    <3>7. CASE m = n /\ queue' = queue /\ x.conf.availability = heap[table][n].conf.availability
      BY <1>1, <1>3, <2>1, <3>2, <3>7 DEF LatestValue
    <3>8. QED
      BY <3>1, <3>5, <3>6, <3>7
  <2>4. QED
    BY <2>2, <2>3
<1>7. QED
  BY <1>1, <1>3, <1>5, <1>6 DEF FlusherInv

\* The flusher's own steps leave the load balancer's objects alone.
LEMMA FlushKeepsFlusher ==
    ASSUME FlusherInv, TakeQueue \/ WriteBatch \/ WriteFails \/ \E l \in Late : LandsLate(l)
    PROVE  FlusherInv'
<1>1. /\ table' = table /\ heap' = heap /\ slice' = slice /\ marks' = marks
      /\ FlusherTypeOK /\ table \in Generation
  BY DEF FlusherInv, TakeQueue, WriteBatch, WriteFails, LandsLate
<1>2. NothingQueued \in [Node -> NotQueued .. FullAvailability] /\ \A n \in Node : NothingQueued[n] = NotQueued
  BY DEF NothingQueued, NotQueued, FullAvailability
<1>3. \A b \in [Node -> NotQueued .. FullAvailability] : Applied(b) \in [Node -> 0 .. FullAvailability]
  BY <1>1 DEF Applied, FlusherTypeOK, NotQueued, FullAvailability
<1> DEFINE Typed(q, b, d, w, x) ==
             /\ q \in [Node -> NotQueued .. FullAvailability] /\ b \in [Node -> NotQueued .. FullAvailability]
             /\ d \in [Node -> 0 .. FullAvailability]
             /\ w \in [Late -> [Node -> NotQueued .. FullAvailability]]
             /\ x \in SUBSET Node
<1>4. Typed(queue', batch', db', late', lost')
  <2>1. CASE TakeQueue
    BY <1>1, <1>2, <2>1 DEF TakeQueue, FlusherTypeOK, LBTypeOK
  <2>2. CASE WriteBatch
    BY <1>1, <1>2, <1>3, <2>2 DEF WriteBatch, FlusherTypeOK, LBTypeOK
  <2>3. CASE WriteFails
    BY <1>1, <1>2, <2>3 DEF WriteFails, NodesOf, FlusherTypeOK, LBTypeOK
  <2>4. ASSUME NEW l \in Late, LandsLate(l) PROVE Typed(queue', batch', db', late', lost')
    BY <1>1, <1>2, <1>3, <2>4 DEF LandsLate, NodesOf, FlusherTypeOK, LBTypeOK
  <2> QED
    BY <2>1, <2>2, <2>3, <2>4
<1>5. FlusherTypeOK'
  BY <1>1, <1>4 DEF FlusherTypeOK, LBTypeOK
<1>6. ASSUME NEW n \in DOMAIN heap[table]
      PROVE  LatestValue(n)'
  <2>1. LatestValue(n) /\ n \in Node
    BY <1>1 DEF FlusherInv, FlusherTypeOK, LBTypeOK, IsTableOf
  <2>2. CASE TakeQueue
    <3>1. /\ batch[n] = NotQueued /\ batch'[n] = queue[n] /\ queue'[n] = NotQueued
          /\ db' = db /\ lost' = lost
      BY <1>2, <2>1, <2>2 DEF TakeQueue
    <3>2. QED
      BY <1>1, <2>1, <3>1 DEF LatestValue
  <2>3. CASE WriteBatch
    <3>1. /\ batch'[n] = NotQueued /\ queue' = queue
          /\ n \in lost' <=> n \in lost /\ batch[n] = NotQueued
          /\ db'[n] = IF batch[n] # NotQueued THEN batch[n] ELSE db[n]
      BY <1>2, <2>1, <2>3 DEF WriteBatch, Applied, NodesOf
    <3>2. QED
      BY <1>1, <2>1, <3>1 DEF LatestValue
  <2>4. CASE WriteFails
    <3>1. /\ batch'[n] = NotQueued /\ queue' = queue /\ db' = db
          /\ n \in lost' <=> n \in lost \/ batch[n] # NotQueued
      BY <1>2, <2>1, <2>4 DEF WriteFails, NodesOf
    <3>2. QED
      BY <1>1, <2>1, <3>1 DEF LatestValue
  <2>5. ASSUME NEW l \in Late, LandsLate(l) PROVE LatestValue(n)'
    <3>1. /\ batch' = batch /\ queue' = queue
          /\ n \in lost' <=> n \in lost \/ late[l][n] # NotQueued
          /\ late[l][n] = NotQueued => db'[n] = db[n]
      BY <2>1, <2>5 DEF LandsLate, Applied, NodesOf
    <3>2. QED
      BY <1>1, <2>1, <3>1 DEF LatestValue
  <2>6. QED
    BY <2>2, <2>3, <2>4, <2>5
<1>7. QED
  BY <1>1, <1>5, <1>6 DEF FlusherInv

\* Every step of the marks and of the flusher keeps the invariant.
LEMMA FlusherIsInductive == FlusherInv /\ [Next]_flusherVars => FlusherInv'
<1>1. FlusherInv /\ UNCHANGED flusherVars => FlusherInv'
  BY DEF FlusherInv, FlusherTypeOK, LBTypeOK, LatestValue, flusherVars
<1>2. QED
  BY <1>1, MarkKeepsFlusher, FlushKeepsFlusher DEF Next, Settled

\* Every reachable state of the write-behind has a well-typed queue and batch,
\* and the latest value of each node is in the queue, in the batch, in the
\* database, or lost by a failed flush (availability.go).
THEOREM FlusherInvariance == Spec => []FlusherInv
<1>1. QED
  BY InitialFlusher, FlusherIsInductive, PTL DEF Spec

\* Availabilities, queued, being written or persisted, stay between 0% and 100%.
THEOREM FlusherTypes == Spec => []FlusherTypeOK
<1>1. FlusherInv => FlusherTypeOK
  BY DEF FlusherInv
<1>2. QED
  BY <1>1, FlusherInvariance, PTL

\* No mark is lost between the swap of the queue and the end of the write: once
\* nothing of a node is on its way, the database has its runtime availability,
\* unless the last UPDATE of it is one that failed, which may also have landed
\* after a later one.
THEOREM MarksArePersisted == Spec => []PersistedWhenQuiet
<1>1. FlusherInv => PersistedWhenQuiet
  BY DEF FlusherInv, LatestValue, PersistedWhenQuiet, Pending
<1>2. QED
  BY <1>1, FlusherInvariance, PTL
=============================================================================
