------------------------------- MODULE Proxy -------------------------------
(***************************************************************************)
(* The life of proxied requests: the LoadBalancer middleware, the          *)
(* middlewares behind it, and gateway.Proxy with its failover loop, run    *)
(* concurrently against one service's runtime table.                       *)
(*                                                                         *)
(* A request is a goroutine; its `pc` is the next shared-state access:     *)
(*                                                                         *)
(*   idle -> fetch -> select -> chain -> body -> proxy -> attempt -> copy  *)
(*             ^                                   ^         |         |   *)
(*             |                                   |         v         v   *)
(*             |                                   |         release <-+   *)
(*             |                                   |         |             *)
(*             +----------------------- (failed) --|-------- mark          *)
(*             fetch -> select --------------------+ (retry) | (ok)        *)
(*                                                           done          *)
(*                                                                         *)
(* In "body" and "copy" the handler waits for its client, which sends its  *)
(* request and takes the response as slowly as it likes: the server sets   *)
(* no timeouts (routes.go).                                                *)
(***************************************************************************)
EXTENDS LoadBalancer

CONSTANTS
    NoNode,           \* a nil *ServiceNode
    NoVersion         \* the request has not been matched to a service yet

ASSUME ProxyConstants ==
    /\ NoNode \notin Node
    /\ NoVersion \notin Version

VARIABLES
    req,              \* the locals of every request
    leaked            \* history: per node, the selections never given back

vars == <<table, heap, slice, queue, req, leaked>>

Stages == {"idle", "fetch", "select", "chain", "body", "proxy", "attempt", "copy",
           "release", "mark", "done"}

\* What proxyToNode returned: nil, an error isContextTimeout recognises, or
\* another error.
Outcomes == {"none", "ok", "timeout", "error"}

\* What the client got: nothing yet, the informational response an attempt that
\* failed had relayed, the upstream's response, the part of it that arrived
\* followed by Recovery's 500, the gateway's 502, a rejection of the chain, or
\* the empty 200 that net/http sends for a handler that returns without writing.
Answers == {"none", "partial", "upstream", "mixed", "badGateway", "rejected", "implicit200"}

\* What the retryAwareResponseWriter of the last attempt let through.
Written == {"nothing", "header"}

Locals == [pc : Stages, service : Version \cup {NoVersion},
           current : Node \cup {NoNode}, tried : SUBSET Node,
           outcome : Outcomes, wrote : Written, answer : Answers]

Idle == [pc |-> "idle", service |-> NoVersion, current |-> NoNode, tried |-> {},
         outcome |-> "none", wrote |-> "nothing", answer |-> "none"]

At(r, stage) == req[r].pc = stage

Goto(r, stage) == req' = [req EXCEPT ![r] = [req[r] EXCEPT !.pc = stage]]

\* The handler returns, and its locals are gone.
Finish(r, answer) ==
    req' = [req EXCEPT ![r] = [Idle EXCEPT !.pc = "done", !.answer = answer,
                                           !.outcome = req[r].outcome]]

Leak(n) == leaked' = [leaked EXCEPT ![n] = @ + 1]

\* The node r has selected and not yet released.
Holds(r, n) ==
    /\ req[r].current = n
    /\ req[r].pc \in {"chain", "body", "proxy", "attempt", "copy", "release"}

Holders(n) == {r \in Request : Holds(r, n)}

Init ==
    /\ LBInit
    /\ req = [r \in Request |-> Idle]
    /\ leaked = [n \in Node |-> 0]

-----------------------------------------------------------------------------
(* The LoadBalancer middleware.                                            *)

\* The Router matched r to the version of the service its caches hold.
Arrive(r, version) ==
    /\ At(r, "idle")
    /\ DOMAIN Config[version] # {}
    /\ req' = [req EXCEPT ![r] = [req[r] EXCEPT !.pc = "fetch", !.service = version]]
    /\ UNCHANGED <<lbVars, leaked>>

\* A service without nodes is answered before the table is consulted.
ArriveWithoutNodes(r, version) ==
    /\ At(r, "idle")
    /\ DOMAIN Config[version] = {}
    /\ Finish(r, "badGateway")
    /\ UNCHANGED <<lbVars, leaked>>

\* The first half of SelectNode, for the middleware and for a retry.
Fetch(r) ==
    /\ At(r, "fetch")
    /\ getRuntimeNodes(r, req[r].service)
    /\ Goto(r, "select")
    /\ UNCHANGED leaked

\* Only a retry has tried nodes.
IsRetry(r) == req[r].tried # {}

\* Bug: `retryable` is not looked at.
CannotRetryNeverBug(r) == FALSE

\* `!retryable` of the failed attempt: its response writer saw a WriteHeader.
CannotRetry(r) == IsRetry(r) /\ req[r].wrote = "header"

Select(r) ==
    /\ At(r, "select")
    /\ ~CannotRetry(r)
    /\ \E n \in Node :
         /\ SelectNode(r, req[r].tried, n)
         /\ req' = [req EXCEPT ![r] =
                [req[r] EXCEPT !.pc = IF IsRetry(r) THEN "proxy" ELSE "chain", !.current = n]]
    /\ UNCHANGED leaked

\* Bug: wait for a node instead of answering.
SelectWaitsBug(r) ==
    /\ At(r, "select")
    /\ ~CannotRetry(r)
    /\ SelectNothing(r, req[r].tried)
    /\ Goto(r, "fetch")
    /\ UNCHANGED leaked

\* The middleware and the failover loop both answer 502 without a node.
SelectFails(r) ==
    /\ At(r, "select")
    /\ ~CannotRetry(r)
    /\ SelectNothing(r, req[r].tried)
    /\ Finish(r, "badGateway")
    /\ UNCHANGED leaked

\* Proxy selects the next node before it looks at `retryable`; a request that
\* cannot be retried returns silently and keeps the node it selected.
GiveUp(r) ==
    /\ At(r, "select")
    /\ CannotRetry(r)
    /\ \/ /\ SelectNothing(r, req[r].tried)
          /\ UNCHANGED leaked
       \/ \E n \in Node :
            /\ SelectNode(r, req[r].tried, n)
            /\ Leak(n)
    /\ Finish(r, "implicit200")

-----------------------------------------------------------------------------
(* The handlers behind the LoadBalancer middleware.                        *)

\* RateLimit, or a middleware of the route (authentication, IP, country and
\* domain limits), answers; nobody releases the node.
Reject(r) ==
    /\ At(r, "chain")
    /\ Leak(req[r].current)
    /\ Finish(r, "rejected")
    /\ UNCHANGED lbVars

EnterProxy(r) ==
    /\ At(r, "chain")
    /\ Goto(r, "body")
    /\ UNCHANGED <<lbVars, leaked>>

\* Proxy starts by reading the whole body, which the client may break off.
SnapshotFails(r) ==
    /\ At(r, "body")
    /\ Leak(req[r].current)
    /\ Finish(r, "badGateway")
    /\ UNCHANGED lbVars

Snapshot(r) ==
    /\ At(r, "body")
    /\ Goto(r, "proxy")
    /\ UNCHANGED <<lbVars, leaked>>

-----------------------------------------------------------------------------
(* The failover loop of Proxy.                                             *)

\* The total timeout cannot have passed before the first attempt.
TotalTimeout(r) ==
    /\ At(r, "proxy")
    /\ req[r].tried # {}
    /\ Leak(req[r].current)
    /\ Finish(r, "badGateway")
    /\ UNCHANGED lbVars

BeginAttempt(r) ==
    /\ At(r, "proxy")
    /\ req' = [req EXCEPT ![r] =
            [req[r] EXCEPT !.pc = "attempt", !.tried = req[r].tried \cup {req[r].current},
                      !.wrote = "nothing", !.outcome = "none"]]
    /\ UNCHANGED <<lbVars, leaked>>

\* The round trip fails, by the node timeout or the client's cancellation
\* ("timeout") or otherwise; the transport may have relayed an informational
\* response (1xx) before, which goes through WriteHeader like a final one.
AttemptFails(r) ==
    /\ At(r, "attempt")
    /\ \E outcome \in {"timeout", "error"}, wrote \in Written :
         req' = [req EXCEPT ![r] =
                [req[r] EXCEPT !.pc = "release", !.outcome = outcome, !.wrote = wrote,
                          !.answer = IF wrote = "header" THEN "partial" ELSE req[r].answer]]
    /\ UNCHANGED <<lbVars, leaked>>

\* The upstream's final response goes to the client, header first.
ResponseBegins(r) ==
    /\ At(r, "attempt")
    /\ req' = [req EXCEPT ![r] =
            [req[r] EXCEPT !.pc = "copy", !.wrote = "header", !.answer = "upstream"]]
    /\ UNCHANGED <<lbVars, leaked>>

AttemptSucceeds(r) ==
    /\ At(r, "copy")
    /\ req' = [req EXCEPT ![r] = [req[r] EXCEPT !.pc = "release", !.outcome = "ok"]]
    /\ UNCHANGED <<lbVars, leaked>>

\* The copy of the response body fails, by the node timeout too: ReverseProxy
\* panics with ErrAbortHandler, the rest of Proxy is skipped, and the Recovery
\* middleware appends a 500 to what was sent instead of aborting the connection.
AttemptAborts(r) ==
    /\ At(r, "copy")
    /\ Leak(req[r].current)
    /\ Finish(r, "mixed")
    /\ UNCHANGED lbVars

Release(r) ==
    /\ At(r, "release")
    /\ ReleaseNodeRequest(req[r].current)
    /\ Goto(r, "mark")
    /\ UNCHANGED leaked

MarkSuccess(r) ==
    /\ At(r, "mark")
    /\ req[r].outcome = "ok"
    /\ MarkNodeSuccess(req[r].current)
    /\ Finish(r, req[r].answer)
    /\ UNCHANGED leaked

MarkFailed(r) ==
    /\ At(r, "mark")
    /\ \/ /\ req[r].outcome = "timeout"
          /\ MarkNodeMaxConn(req[r].current)
       \/ /\ req[r].outcome = "error"
          /\ MarkNodeFailure(req[r].current)
    /\ req' = [req EXCEPT ![r] = [req[r] EXCEPT !.pc = "fetch", !.current = NoNode]]
    /\ UNCHANGED leaked

-----------------------------------------------------------------------------
TimePasses == Tick /\ UNCHANGED <<req, leaked>>

GatewayStep(r) ==
    \/ Fetch(r) \/ Select(r) \/ SelectFails(r) \/ GiveUp(r)
    \/ Reject(r) \/ EnterProxy(r)
    \/ TotalTimeout(r) \/ BeginAttempt(r) \/ AttemptFails(r) \/ ResponseBegins(r)
    \/ Release(r) \/ MarkSuccess(r) \/ MarkFailed(r)

\* The steps for which the handler waits for its client.
ClientStep(r) ==
    \/ SnapshotFails(r) \/ Snapshot(r)
    \/ AttemptSucceeds(r) \/ AttemptAborts(r)

Step(r) == GatewayStep(r) \/ ClientStep(r)

\* Every request of the instance has been served.
AllDone == (\A r \in Request : At(r, "done")) /\ UNCHANGED vars

Next ==
    \/ \E r \in Request, version \in Version :
          Arrive(r, version) \/ ArriveWithoutNodes(r, version)
    \/ \E r \in Request : Step(r)
    \/ TimePasses
    \/ AllDone

Spec == Init /\ [][Next]_vars

\* A goroutine that can run does, the calls of the chain end with the timeouts
\* of Redis, and every round trip ends within NodeTimeout.  Nothing is assumed of
\* arrivals, of time or of a client.
FairSpec == Spec /\ \A r \in Request : WF_vars(GatewayStep(r))

-----------------------------------------------------------------------------
TypeOK ==
    /\ LBTypeOK
    /\ req \in [Request -> Locals]
    /\ leaked \in [Node -> Nat]

\* A node's counter never exceeds what really occupies it: the requests that
\* selected it and have not released it, plus the selections leaked before.
\* Rebuilding the table under running requests, and selecting from a
\* generation that has just been replaced, keep this; a leak is the only way
\* a node can be closed by requests that are over.
CountersNeverExceedHolders ==
    HasTable => \A n \in DOMAIN heap[table] :
        heap[table][n].active <= leaked[n] + Cardinality(Holders(n))

\* A request attempts each node at most once: whatever cooldowns end, tables
\* are rebuilt or nodes recover between its attempts, the node it is about to
\* use is one it has not tried.
RetriesUseFreshNodes ==
    \A r \in Request : At(r, "proxy") => req[r].current \notin req[r].tried

\* A request is proxied only to nodes of the version of the service it was
\* matched to, even when another request, of another version, replaces the
\* table between getRuntimeNodes and the selection.
ServedByOwnVersion ==
    \A r \in Request : \A n \in Node :
        Holds(r, n) => n \in DOMAIN Config[req[r].service]

\* Rebuilding the table keeps the cooldown, the breaker, the counter and the
\* round robin position of every node that stays, so that a configuration
\* change does not reopen a node that has just failed.
RebuildKeepsNodeState ==
    [][ HasTable /\ table' # table =>
          \A n \in DOMAIN heap[table] \cap DOMAIN heap'[table'] :
              [heap'[table'][n] EXCEPT !.conf = 0] = [heap[table][n] EXCEPT !.conf = 0]
      ]_vars

\* The failover loop answers a client once: after anything was written to it, an
\* informational response of an attempt that failed included, no other attempt
\* begins, no other response is copied and Proxy does not add its own 502.  What
\* may follow comes from outside the loop: Recovery's 500 after the part of a
\* response, and the final response net/http completes an informational one with.
AnswersOnce ==
    [][ \A r \in Request : req[r].answer # "none" =>
          /\ req'[r].pc # "attempt"
          /\ \/ req'[r].answer = req[r].answer
             \/ req[r].answer = "upstream" /\ req'[r].answer = "mixed"
             \/ req[r].answer = "partial" /\ req'[r].answer = "implicit200" ]_vars

\* What `max_conn` of service_nodes says: never more connections to a node at a
\* time than its maximum.
MaxConnRespected ==
    HasTable => \A n \in DOMAIN heap[table] :
        Cardinality({r \in Request : req[r].pc \in {"attempt", "copy"} /\ req[r].current = n})
            <= EffectiveMaxConn(heap[table][n].conf)

\* What "no node is available at the moment" says: a node that serves nobody
\* and is not cooling down can be selected.
IdleNodesAreSelectable ==
    HasTable => \A n \in DOMAIN heap[table] :
        LET node == heap[table][n]
        IN  Holders(n) = {} /\ node.disabled = 0 /\ node.breaker = 0
                => IsUsable(node)

\* What "a failing node is switched for another one" implies: a request whose
\* last attempt failed is answered by the gateway's 502, not by an empty 200.
FailuresAreReported ==
    \A r \in Request :
        At(r, "done") /\ req[r].outcome = "error" => req[r].answer = "badGateway"

WaitsForClient(r) == req[r].pc \in {"body", "copy"}

\* Every handler returns, with an answer to the client, whatever fails: the loop
\* does not go round for ever while cooldowns end and tables change.  The only
\* thing that keeps a request is a client that stops in the middle of its body
\* or of the response.
EveryRequestEnds ==
    \A r \in Request :
        <>[]WaitsForClient(r) \/ (~At(r, "idle") ~> At(r, "done") /\ req[r].answer # "none")
=============================================================================
