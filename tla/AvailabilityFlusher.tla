------------------------ MODULE AvailabilityFlusher ------------------------
(***************************************************************************)
(* The write-behind of node availability: the marks of LoadBalancer queue  *)
(* the latest value of a node, a background goroutine swaps the queue out  *)
(* once a second and writes it to the database outside the lock.           *)
(*                                                                         *)
(* Any goroutine may mark any node at any time here, more than the proxied *)
(* requests of Proxy do; the table is published and keeps its version.     *)
(*                                                                         *)
(* An UPDATE that timed out is no longer waited for, but the database may  *)
(* still be at it: it is applied at any time after, or never.              *)
(***************************************************************************)
EXTENDS LoadBalancer

CONSTANTS
    MaxMarks,         \* a bound on the marks of a behaviour
    Late              \* a bound on the UPDATEs the database is at after their
                      \* time-out: each has a place of its own

ASSUME FlusherConstants == MaxMarks \in Nat

VARIABLES
    batch,            \* the updates taken from the queue, being written
    db,               \* service_nodes.availability
    late,             \* the UPDATEs that timed out and may yet be applied
    lost,             \* history: nodes whose last UPDATE in the database is one
                      \* that failed, whether or not it was applied
    marks             \* history: the number of marks so far

flusherVars == <<table, heap, slice, queue, batch, db, late, lost, marks>>

NothingQueued == [n \in Node |-> NotQueued]

Init ==
    \E version \in Version, g \in Generation :
        /\ table = g
        /\ heap = [h \in Generation |->
                     IF h = g THEN [n \in DOMAIN Config[version] |-> NewNode(Config[version][n])]
                     ELSE NoObjects]
        /\ slice = [r \in Request |-> NoGeneration]
        /\ queue = NothingQueued
        /\ batch = NothingQueued
        /\ db = [n \in Node |-> IF n \in DOMAIN Config[version]
                                THEN Config[version][n].availability ELSE 0]
        /\ late = [l \in Late |-> NothingQueued]
        /\ lost = {}
        /\ marks = 0

\* A request ends on node n, in one of three ways.
MarkNode(n) ==
    /\ marks < MaxMarks
    /\ marks' = marks + 1
    /\ MarkNodeFailure(n) \/ MarkNodeMaxConn(n) \/ MarkNodeSuccess(n)
    /\ UNCHANGED <<batch, db, late, lost>>

\* The locked half of flushAvailabilityQueue; an empty queue is not flushed.
TakeQueue ==
    /\ batch = NothingQueued
    /\ queue # NothingQueued
    /\ batch' = queue
    /\ queue' = NothingQueued
    /\ UNCHANGED <<table, heap, slice, db, late, lost, marks>>

NodesOf(b) == {n \in Node : b[n] # NotQueued}

\* The table after the UPDATE of the nodes of b.
Applied(b) == [n \in Node |-> IF b[n] # NotQueued THEN b[n] ELSE db[n]]

\* Bug: empty the queue when the write is over instead of when it was taken.
WriteClearsQueueBug ==
    /\ batch # NothingQueued
    /\ db' = Applied(batch)
    /\ lost' = lost \ NodesOf(batch)
    /\ batch' = NothingQueued
    /\ queue' = NothingQueued
    /\ UNCHANGED <<table, heap, slice, late, marks>>

\* The other half: UpdateNodeAvailability, one UPDATE for the whole batch.
WriteBatch ==
    /\ batch # NothingQueued
    /\ db' = Applied(batch)
    /\ lost' = lost \ NodesOf(batch)
    /\ batch' = NothingQueued
    /\ UNCHANGED <<table, heap, slice, queue, late, marks>>

\* The database refuses, or the write times out and the database is still at
\* it: the error is logged, and the batch is gone from the gateway.
WriteFails ==
    /\ batch # NothingQueued
    /\ \/ UNCHANGED late
       \/ \E l \in Late : late[l] = NothingQueued /\ late' = [late EXCEPT ![l] = batch]
    /\ lost' = lost \cup NodesOf(batch)
    /\ batch' = NothingQueued
    /\ UNCHANGED <<table, heap, slice, queue, db, marks>>

\* An UPDATE that timed out is applied, perhaps over the values of later ones.
LandsLate(l) ==
    /\ late[l] # NothingQueued
    /\ db' = Applied(late[l])
    /\ lost' = lost \cup NodesOf(late[l])
    /\ late' = [late EXCEPT ![l] = NothingQueued]
    /\ UNCHANGED <<table, heap, slice, queue, batch, marks>>

\* Marks have stopped and everything queued was written or lost.
Settled ==
    /\ marks = MaxMarks
    /\ queue = NothingQueued
    /\ batch = NothingQueued
    /\ UNCHANGED flusherVars

Next ==
    \/ \E n \in Node : MarkNode(n)
    \/ TakeQueue \/ WriteBatch \/ WriteFails
    \/ \E l \in Late : LandsLate(l)
    \/ Settled

Spec == Init /\ [][Next]_flusherVars

\* The ticker fires, and the UPDATE returns within the write timeout.  Nothing
\* is assumed of one that timed out.
FairSpec == Spec /\ WF_flusherVars(TakeQueue) /\ WF_flusherVars(WriteBatch \/ WriteFails)

-----------------------------------------------------------------------------
FlusherTypeOK ==
    /\ LBTypeOK
    /\ batch \in [Node -> NotQueued .. FullAvailability]
    /\ db \in [Node -> 0 .. FullAvailability]
    /\ late \in [Late -> [Node -> NotQueued .. FullAvailability]]
    /\ lost \in SUBSET Node
    /\ marks \in 0 .. MaxMarks

Pending(n) == queue[n] # NotQueued \/ batch[n] # NotQueued

\* The database follows the table: a node with no update queued or being
\* written has its runtime availability in the database, unless the last UPDATE
\* of it is one that failed: it was not applied, or it landed after a later
\* one and put an older value over it.  Marks between the swap of the queue and
\* the end of the write are not lost, and values are clamped before they are
\* queued.
PersistedWhenQuiet ==
    \A n \in DOMAIN heap[table] :
        ~Pending(n) /\ n \notin lost => db[n] = heap[table][n].conf.availability

\* Once requests stop, every node is persisted, or the last UPDATE of it is one
\* that failed.  Such a node stays wrong in the database until it is marked
\* again: nothing writes its value a second time.
EventuallyPersisted ==
    <>[] (marks = MaxMarks =>
            \A n \in DOMAIN heap[table] :
                n \in lost \/ db[n] = heap[table][n].conf.availability)
=============================================================================
