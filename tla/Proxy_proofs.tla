---------------------------- MODULE Proxy_proofs ----------------------------
(* Theorems about the proxied requests, for every finite set of nodes and    *)
(* requests, every set of versions and every cooldown.                       *)
EXTENDS Proxy, LoadBalancer_proofs, FiniteSetTheorems

\* The locals a request starts with are well typed.
LEMMA IdleIsLocals == Idle \in Locals
  BY DEF Idle, Locals, Stages, Outcomes, Written, Answers

\* The stages, outcomes and answers the actions assign are in their sets.
LEMMA ConstantMembers ==
  /\ {"idle", "fetch", "select", "chain", "body", "proxy", "attempt", "copy",
      "release", "mark", "done"} = Stages
  /\ {"none", "ok", "timeout", "error"} = Outcomes
  /\ {"nothing", "header"} = Written
  /\ {"none", "partial", "upstream", "mixed", "badGateway", "rejected", "implicit200"} = Answers
  BY DEF Stages, Outcomes, Written, Answers

\* The fields of a request's locals have the types of Locals.
LEMMA RecordFields ==
    ASSUME NEW x \in Locals
    PROVE  /\ x.pc \in Stages /\ x.service \in Version \cup {NoVersion}
           /\ x.current \in Node \cup {NoNode} /\ x.tried \in SUBSET Node
           /\ x.outcome \in Outcomes /\ x.wrote \in Written /\ x.answer \in Answers
  BY DEF Locals

Matched == {"fetch", "select", "chain", "body", "proxy", "attempt", "copy", "release", "mark"}

Selected == {"chain", "body", "proxy", "attempt", "copy", "release", "mark"}

\* The response of an upstream is being copied, or was.
Responded(r) ==
    At(r, "copy") \/ (req[r].pc \in {"release", "mark"} /\ req[r].outcome = "ok")

\* An attempt failed after an informational response: the writer remembers it
\* until the loop looks, after the next selection.
FailedAfterHeader(r) ==
    /\ req[r].pc \in {"release", "mark", "fetch", "select"}
    /\ req[r].pc \in {"release", "mark"} => req[r].outcome \in {"timeout", "error"}
    /\ req[r].tried # {} /\ req[r].wrote = "header"

\* What holds of one request wherever it stands.  The slice of a request
\* between getRuntimeNodes and the selection has the shape of its own version:
\* that, and not the table, is what the selection draws from.
RequestInv(r) ==
    /\ At(r, "select") => /\ slice[r] \in Generation
                          /\ runtimeNodesMatch(heap[slice[r]], req[r].service)
    /\ req[r].pc \in Matched => req[r].service \in Version
    /\ req[r].pc \in Selected => req[r].current \in Node \cap DOMAIN Config[req[r].service]
    /\ req[r].pc \in {"idle", "chain", "body"} => req[r].tried = {}
    /\ req[r].pc \in {"attempt", "copy", "release", "mark"} => req[r].tried # {}
    /\ At(r, "proxy") => req[r].current \notin req[r].tried
    /\ req[r].answer # "none" =>
          \/ At(r, "done")
          \/ req[r].answer = "upstream" /\ Responded(r)
          \/ req[r].answer = "partial" /\ FailedAfterHeader(r)

Structure == TypeOK /\ \A r \in Request : RequestInv(r)

\* A request keeps its invariant through the steps of others: its locals and its
\* slice stay, and the objects of the slice keep their shape.
LEMMA OthersKeepRequestInv ==
    ASSUME NEW q \in Request, TypeOK, RequestInv(q),
           req'[q] = req[q], slice'[q] = slice[q],
           At(q, "select") =>
              /\ DOMAIN heap'[slice[q]] = DOMAIN heap[slice[q]]
              /\ \A m \in DOMAIN heap[slice[q]] :
                    Shape(heap'[slice[q]][m].conf) = Shape(heap[slice[q]][m].conf)
    PROVE  RequestInv(q)'
<1>1. At(q, "select") => runtimeNodesMatch(heap'[slice'[q]], req'[q].service)
  BY DEF RequestInv, runtimeNodesMatch
<1>2. QED
  BY <1>1 DEF RequestInv, At, Responded, FailedAfterHeader

\* A finished request is well formed and asks for nothing more.
LEMMA FinishedRequest ==
    ASSUME req \in [Request -> Locals], NEW r \in Request, NEW a \in Answers, Finish(r, a)
    PROVE  /\ req' \in [Request -> Locals]
           /\ req'[r] \in Locals
           /\ \A q \in Request \ {r} : req'[q] = req[q]
           /\ req'[r].pc = "done" /\ req'[r].answer = a
           /\ RequestInv(r)'
<1> DEFINE o == req[r].outcome
           y == [Idle EXCEPT !.pc = "done", !.answer = a, !.outcome = o]
<1>1. req' = [req EXCEPT ![r] = y]
  BY DEF Finish
<1>2. "done" \in Stages /\ o \in Outcomes
  BY ConstantMembers, RecordFields
<1>3. y \in Locals /\ y.pc = "done" /\ y.answer = a
  <2> HIDE DEF o
  <2> QED BY <1>2, ConstantMembers DEF Locals, Idle
<1> HIDE DEF y
<1>4. /\ req' \in [Request -> Locals] /\ req'[r] = y
      /\ \A q \in Request \ {r} : req'[q] = req[q]
  BY <1>1, <1>3
<1>5. RequestInv(r)'
  BY <1>3, <1>4 DEF RequestInv, At, Matched, Selected
<1>6. QED
  BY <1>3, <1>4, <1>5

\* The assignments to the locals of r that keep its service.
LEMMA GotoRequest ==
    ASSUME req \in [Request -> Locals], NEW r \in Request, NEW stage \in Stages, Goto(r, stage)
    PROVE  /\ req' \in [Request -> Locals] /\ req'[r] \in Locals
           /\ \A q \in Request \ {r} : req'[q] = req[q]
           /\ req'[r].pc = stage /\ req'[r].service = req[r].service
           /\ req'[r].current = req[r].current /\ req'[r].tried = req[r].tried
           /\ req'[r].outcome = req[r].outcome /\ req'[r].answer = req[r].answer
           /\ req'[r].wrote = req[r].wrote
<1> DEFINE y == [req[r] EXCEPT !.pc = stage]
<1>1. req[r] \in Locals
  OBVIOUS
<1>2. /\ y \in Locals /\ y.pc = stage /\ y.service = req[r].service
      /\ y.current = req[r].current /\ y.tried = req[r].tried
      /\ y.outcome = req[r].outcome /\ y.answer = req[r].answer /\ y.wrote = req[r].wrote
  BY <1>1 DEF Locals
<1>3. req' = [req EXCEPT ![r] = y]
  BY DEF Goto
<1> HIDE DEF y
<1>4. QED
  BY <1>2, <1>3

\* A request past the selection has a service version and a node of it.
LEMMA CurrentRequest ==
    ASSUME req \in [Request -> Locals], NEW r \in Request, NEW stage \in Stages,
           NEW n \in Node \cup {NoNode},
           req' = [req EXCEPT ![r] = [req[r] EXCEPT !.pc = stage, !.current = n]]
    PROVE  /\ req' \in [Request -> Locals]
           /\ \A q \in Request \ {r} : req'[q] = req[q]
           /\ req'[r].pc = stage /\ req'[r].service = req[r].service
           /\ req'[r].current = n /\ req'[r].tried = req[r].tried
           /\ req'[r].outcome = req[r].outcome /\ req'[r].answer = req[r].answer
           /\ req'[r].wrote = req[r].wrote
<1> DEFINE y == [req[r] EXCEPT !.pc = stage, !.current = n]
<1>1. req[r] \in Locals
  OBVIOUS
<1>2. /\ y \in Locals /\ y.pc = stage /\ y.service = req[r].service
      /\ y.current = n /\ y.tried = req[r].tried
      /\ y.outcome = req[r].outcome /\ y.answer = req[r].answer /\ y.wrote = req[r].wrote
  BY <1>1 DEF Locals
<1>3. req' = [req EXCEPT ![r] = y]
  OBVIOUS
<1> HIDE DEF y
<1>4. QED
  BY <1>2, <1>3

\* The steps of r that leave the load balancer alone.
LocalStep(r) ==
    \/ Reject(r) \/ EnterProxy(r) \/ SnapshotFails(r) \/ Snapshot(r) \/ TotalTimeout(r)
    \/ BeginAttempt(r) \/ AttemptFails(r) \/ ResponseBegins(r)
    \/ AttemptSucceeds(r) \/ AttemptAborts(r)
    \/ \E version \in Version : Arrive(r, version) \/ ArriveWithoutNodes(r, version)

\* Steps that change only the locals of one request (arrival, rejection, timeouts,
\* the attempt) keep the structure.
LEMMA LocalStepKeepsStructure ==
    ASSUME Structure, NEW r \in Request, LocalStep(r)
    PROVE  Structure'
<1> DEFINE x == req'[r]
<1>1. UNCHANGED lbVars /\ req' = [req EXCEPT ![r] = x]
  BY DEF LocalStep, Reject, SnapshotFails, Snapshot, EnterProxy, TotalTimeout, BeginAttempt,
         ResponseBegins, AttemptSucceeds, AttemptFails, AttemptAborts, Arrive, ArriveWithoutNodes,
         Finish, Goto, Structure, TypeOK
<1>2. RequestInv(r) /\ LBTypeOK
  BY DEF Structure, TypeOK
<1>0. req[r] \in Locals
  BY DEF Structure, TypeOK
<1>3. /\ leaked' \in [Node -> Nat]
      /\ x \in Locals
      /\ RequestInv(r)'
  <2>1. CASE Reject(r) \/ SnapshotFails(r) \/ TotalTimeout(r) \/ AttemptAborts(r)
    <3>1. req[r].current \in Node
      BY <1>2, <2>1 DEF RequestInv, Selected, Reject, SnapshotFails, TotalTimeout, AttemptAborts, At
    <3>2. leaked' \in [Node -> Nat]
      BY <2>1, <3>1 DEF Reject, SnapshotFails, TotalTimeout, AttemptAborts, Leak, Structure, TypeOK
    <3>3. PICK a \in Answers : Finish(r, a)
      BY <2>1 DEF Reject, SnapshotFails, TotalTimeout, AttemptAborts, Answers
    <3>4. QED
      BY <1>2, <3>2, <3>3, FinishedRequest DEF Structure, TypeOK
  <2>2. ASSUME NEW version \in Version, Arrive(r, version)
        PROVE  leaked' \in [Node -> Nat] /\ x \in Locals /\ RequestInv(r)'
    <3>1. /\ leaked' = leaked /\ req[r].pc = "idle" /\ req[r].answer = "none"
          /\ req[r].tried = {}
      BY <1>2, <2>2 DEF Arrive, At, RequestInv, Responded, FailedAfterHeader
    <3>2. x = [req[r] EXCEPT !.pc = "fetch", !.service = version]
      BY <2>2 DEF Arrive, Structure, TypeOK
    <3>3. x \in Locals /\ x.pc = "fetch" /\ x.service = version /\ x.answer = "none"
      BY <1>0, <3>1, <3>2, ConstantMembers DEF Locals
    <3>4. QED
      BY <3>1, <3>3 DEF RequestInv, At, Matched, Selected, Structure, TypeOK
  <2>3. ASSUME NEW version \in Version, ArriveWithoutNodes(r, version)
        PROVE  leaked' \in [Node -> Nat] /\ x \in Locals /\ RequestInv(r)'
    BY <1>2, <2>3, FinishedRequest DEF ArriveWithoutNodes, Answers, Structure, TypeOK
  <2>4. CASE EnterProxy(r) \/ Snapshot(r)
    <3>1. PICK stage \in {"body", "proxy"} :
             /\ Goto(r, stage)
             /\ req[r].pc \in {"chain", "body"} /\ leaked' = leaked
      BY <2>4 DEF EnterProxy, Snapshot, At
    <3>2. /\ x \in Locals /\ x.pc = stage /\ x.service = req[r].service
          /\ x.current = req[r].current /\ x.tried = req[r].tried /\ x.answer = req[r].answer
      BY <3>1, ConstantMembers, GotoRequest DEF Structure, TypeOK
    <3>3. req[r].tried = {} /\ req[r].answer = "none"
      BY <1>2, <3>1 DEF RequestInv, At, Responded, FailedAfterHeader
    <3>4. QED
      BY <1>2, <3>1, <3>2, <3>3 DEF RequestInv, At, Matched, Selected, Structure, TypeOK
  <2>5. CASE BeginAttempt(r)
    <3>1. /\ x = [req[r] EXCEPT !.pc = "attempt", !.tried = req[r].tried \cup {req[r].current},
                                !.wrote = "nothing", !.outcome = "none"]
          /\ req[r].pc = "proxy" /\ leaked' = leaked
      BY <2>5 DEF BeginAttempt, At, Structure, TypeOK
    <3> DEFINE t == req[r].tried \cup {req[r].current}
    <3>2. t \in SUBSET Node
      BY <1>0, <1>2, <3>1, RecordFields DEF RequestInv, Selected
    <3>3. "attempt" \in Stages /\ "none" \in Outcomes /\ "nothing" \in Written
      BY ConstantMembers
    <3>4. x = [req[r] EXCEPT !.pc = "attempt", !.tried = t, !.wrote = "nothing", !.outcome = "none"]
      BY <3>1
    <3> HIDE DEF t
    <3>5. /\ x \in Locals /\ x.pc = "attempt" /\ x.service = req[r].service
          /\ x.current = req[r].current /\ x.answer = req[r].answer /\ x.tried = t
      BY <1>0, <3>2, <3>3, <3>4 DEF Locals
    <3>6. req[r].answer = "none" /\ t # {}
      BY <1>2, <3>1 DEF RequestInv, At, Responded, FailedAfterHeader, t
    <3>7. QED
      BY <1>2, <3>1, <3>5, <3>6 DEF RequestInv, At, Matched, Selected, Structure, TypeOK
  <2>6. CASE ResponseBegins(r)
    <3>1. /\ x = [req[r] EXCEPT !.pc = "copy", !.wrote = "header", !.answer = "upstream"]
          /\ req[r].pc = "attempt" /\ leaked' = leaked
      BY <2>6 DEF ResponseBegins, At, Structure, TypeOK
    <3>2. "copy" \in Stages /\ "header" \in Written /\ "upstream" \in Answers
      BY ConstantMembers
    <3>3. /\ x \in Locals /\ x.pc = "copy" /\ x.service = req[r].service
          /\ x.current = req[r].current /\ x.tried = req[r].tried /\ x.answer = "upstream"
      BY <1>0, <3>1, <3>2 DEF Locals
    <3>4. QED
      BY <1>2, <3>1, <3>3 DEF RequestInv, At, Matched, Selected, Responded, Structure, TypeOK
  <2>7. CASE AttemptSucceeds(r)
    <3>1. /\ x = [req[r] EXCEPT !.pc = "release", !.outcome = "ok"]
          /\ req[r].pc = "copy" /\ leaked' = leaked
      BY <2>7 DEF AttemptSucceeds, At, Structure, TypeOK
    <3>2. "release" \in Stages /\ "ok" \in Outcomes
      BY ConstantMembers
    <3>3. /\ x \in Locals /\ x.pc = "release" /\ x.service = req[r].service
          /\ x.current = req[r].current /\ x.tried = req[r].tried
          /\ x.answer = req[r].answer /\ x.outcome = "ok"
      BY <1>0, <3>1, <3>2 DEF Locals
    <3>4. QED
      BY <1>2, <3>1, <3>3
      DEF RequestInv, At, Matched, Selected, Responded, FailedAfterHeader, Structure, TypeOK
  <2>8. CASE AttemptFails(r)
    <3>1. PICK o \in {"timeout", "error"}, w \in Written :
             req' = [req EXCEPT ![r] =
                [req[r] EXCEPT !.pc = "release", !.outcome = o, !.wrote = w,
                          !.answer = IF w = "header" THEN "partial" ELSE req[r].answer]]
      BY <2>8 DEF AttemptFails
    <3>2. /\ req[r].pc = "attempt" /\ leaked' = leaked /\ req[r].answer = "none"
      BY <1>2, <2>8 DEF AttemptFails, At, RequestInv, Responded, FailedAfterHeader
    <3> DEFINE a == IF w = "header" THEN "partial" ELSE req[r].answer
    <3>3. "release" \in Stages /\ o \in Outcomes /\ a \in Answers
      BY <3>2, ConstantMembers
    <3>4. x = [req[r] EXCEPT !.pc = "release", !.outcome = o, !.wrote = w, !.answer = a]
      BY <3>1 DEF Structure, TypeOK
    <3>5. a # "none" => a = "partial" /\ w = "header"
      BY <3>2
    <3> HIDE DEF a
    <3>6. /\ x \in Locals /\ x.pc = "release" /\ x.service = req[r].service
          /\ x.current = req[r].current /\ x.tried = req[r].tried
          /\ x.outcome = o /\ x.wrote = w /\ x.answer = a
      BY <1>0, <3>3, <3>4 DEF Locals
    <3>7. QED
      BY <1>2, <3>2, <3>5, <3>6
      DEF RequestInv, At, Matched, Selected, FailedAfterHeader, Structure, TypeOK
  <2>9. QED
    BY <2>1, <2>2, <2>3, <2>4, <2>5, <2>6, <2>7, <2>8 DEF LocalStep
<1>4. \A q \in Request : RequestInv(q)'
  <2> TAKE q \in Request
  <2>1. CASE q = r
    BY <1>3, <2>1
  <2>2. CASE q # r
    BY <1>1, <2>2, OthersKeepRequestInv DEF Structure, TypeOK, lbVars
  <2>3. QED
    BY <2>1, <2>2
<1>5. TypeOK'
  BY <1>1, <1>2, <1>3 DEF Structure, TypeOK, lbVars, LBTypeOK
<1>6. QED
  BY <1>4, <1>5 DEF Structure

-----------------------------------------------------------------------------
(* The steps of r that call the load balancer.                             *)

LEMMA NoneIsNotSome == \A g \in Generation : g # NoGeneration
  BY LoadBalancerConstants

\* What is left to show of a step of r once its own part is known.
LEMMA StructureFromParts ==
    ASSUME Structure, NEW r \in Request, LBTypeOK', leaked' \in [Node -> Nat],
           req' \in [Request -> Locals], RequestInv(r)',
           \A q \in Request \ {r} :
              /\ req'[q] = req[q] /\ slice'[q] = slice[q]
              /\ slice[q] \in Generation =>
                    /\ DOMAIN heap'[slice[q]] = DOMAIN heap[slice[q]]
                    /\ \A m \in DOMAIN heap[slice[q]] :
                          Shape(heap'[slice[q]][m].conf) = Shape(heap[slice[q]][m].conf)
    PROVE  Structure'
<1>1. \A q \in Request \ {r} : RequestInv(q)'
  <2> TAKE q \in Request \ {r}
  <2>1. TypeOK /\ RequestInv(q)
    BY DEF Structure
  <2>2. At(q, "select") => slice[q] \in Generation
    BY <2>1 DEF RequestInv
  <2>3. QED
    BY <2>1, <2>2, OthersKeepRequestInv
<1>2. QED
  BY <1>1 DEF Structure, TypeOK

\* Fetching or rebuilding the table keeps the structure of every live generation.
LEMMA FetchKeepsStructure ==
    ASSUME Structure, NEW r \in Request, Fetch(r)
    PROVE  Structure'
<1>1. req \in [Request -> Locals] /\ RequestInv(r) /\ LBTypeOK /\ leaked' = leaked
  BY DEF Structure, TypeOK, Fetch
<1>2. req[r].pc = "fetch" /\ req[r].service \in Version /\ getRuntimeNodes(r, req[r].service)
  BY <1>1 DEF Fetch, At, RequestInv, Matched
<1>3. /\ LBTypeOK' /\ table' \in Generation
      /\ slice' = [slice EXCEPT ![r] = table']
      /\ runtimeNodesMatch(heap'[table'], req[r].service)
      /\ \A q \in Request : q # r /\ slice[q] # NoGeneration =>
            heap'[slice[q]] = heap[slice[q]]
  BY <1>1, <1>2, GetRuntimeNodes
<1>4. "select" \in Stages /\ Goto(r, "select")
  BY ConstantMembers DEF Fetch
<1>5. /\ req' \in [Request -> Locals]
      /\ \A q \in Request \ {r} : req'[q] = req[q]
      /\ req'[r].pc = "select" /\ req'[r].service = req[r].service
      /\ req'[r].tried = req[r].tried /\ req'[r].wrote = req[r].wrote
      /\ req'[r].answer = req[r].answer
  BY <1>1, <1>4, GotoRequest
<1>6. slice'[r] = table' /\ \A q \in Request \ {r} : slice'[q] = slice[q]
  BY <1>1, <1>3 DEF LBTypeOK
<1>7. RequestInv(r)'
  <2>1. req[r].answer # "none" => req[r].answer = "partial" /\ FailedAfterHeader(r)
    BY <1>1, <1>2 DEF RequestInv, At, Responded
  <2>2. runtimeNodesMatch(heap'[slice'[r]], req'[r].service)
    BY <1>3, <1>5, <1>6
  <2>3. QED
    BY <1>2, <1>3, <1>5, <1>6, <2>1, <2>2
    DEF RequestInv, At, Matched, Selected, FailedAfterHeader, runtimeNodesMatch
<1>8. QED
  BY <1>1, <1>3, <1>5, <1>6, <1>7, NoneIsNotSome, StructureFromParts DEF Structure, TypeOK

\* A selection leaves the slices of the others in shape.
LEMMA SelectionKeepsOthers ==
    ASSUME Structure, NEW r \in Request, req[r].pc = "select", NEW excluded,
           \/ SelectNothing(r, excluded)
           \/ \E n \in Node : SelectNode(r, excluded, n)
    PROVE  /\ LBTypeOK'
           /\ \A q \in Request \ {r} :
              /\ slice'[q] = slice[q]
              /\ slice[q] \in Generation =>
                    /\ DOMAIN heap'[slice[q]] = DOMAIN heap[slice[q]]
                    /\ \A m \in DOMAIN heap[slice[q]] :
                          Shape(heap'[slice[q]][m].conf) = Shape(heap[slice[q]][m].conf)
<1>1. LBTypeOK /\ slice[r] \in Generation
  BY DEF Structure, TypeOK, RequestInv, At
<1>2. CASE SelectNothing(r, excluded)
  <2>1. /\ LBTypeOK' /\ slice' = [slice EXCEPT ![r] = NoGeneration]
        /\ \A g \in Generation : g = table \/ (\E q \in Request \ {r} : g = slice[q]) =>
                 heap'[g] = heap[g]
    BY <1>1, <1>2, SelectNothingEffect
  <2>2. QED
    BY <1>1, <2>1 DEF LBTypeOK
<1>3. ASSUME NEW n \in Node, SelectNode(r, excluded, n)
      PROVE  LBTypeOK'
           /\ \A q \in Request \ {r} :
              /\ slice'[q] = slice[q]
              /\ slice[q] \in Generation =>
                    /\ DOMAIN heap'[slice[q]] = DOMAIN heap[slice[q]]
                    /\ \A m \in DOMAIN heap[slice[q]] :
                          heap'[slice[q]][m].conf = heap[slice[q]][m].conf
  <2>1. /\ LBTypeOK' /\ slice' = [slice EXCEPT ![r] = NoGeneration]
        /\ \A g \in Generation : g = table \/ (\E q \in Request \ {r} : g = slice[q]) =>
                 /\ DOMAIN heap'[g] = DOMAIN heap[g]
                 /\ \A m \in DOMAIN heap[g] : heap'[g][m].conf = heap[g][m].conf
    BY <1>1, <1>3, NoneIsNotSome, SelectNodeEffect
  <2>2. QED
    BY <1>1, <2>1 DEF LBTypeOK
<1>4. QED
  BY <1>2, <1>3

\* A selection, or finding no node, keeps the structure.
LEMMA SelectKeepsStructure ==
    ASSUME Structure, NEW r \in Request, Select(r)
    PROVE  Structure'
<1>1. req \in [Request -> Locals] /\ RequestInv(r) /\ LBTypeOK /\ leaked' = leaked
  BY DEF Structure, TypeOK, Select
<1>2. PICK n \in Node :
         /\ SelectNode(r, req[r].tried, n)
         /\ req' = [req EXCEPT ![r] =
                [req[r] EXCEPT !.pc = IF IsRetry(r) THEN "proxy" ELSE "chain", !.current = n]]
  BY DEF Select
<1>3. /\ req[r].pc = "select" /\ req[r].answer = "none" /\ req[r].service \in Version
      /\ slice[r] \in Generation /\ slice[r] # NoGeneration
      /\ DOMAIN heap[slice[r]] = DOMAIN Config[req[r].service]
  <2>1. req[r].pc = "select" /\ ~CannotRetry(r)
    BY DEF Select, At
  <2>2. req[r].answer = "none"
    BY <1>1, <2>1 DEF RequestInv, At, Responded, FailedAfterHeader, CannotRetry, IsRetry
  <2>3. QED
    BY <1>1, <2>1, <2>2, NoneIsNotSome DEF At, RequestInv, Matched, runtimeNodesMatch
<1>4. /\ LBTypeOK'
      /\ \A q \in Request \ {r} :
              /\ slice'[q] = slice[q]
              /\ slice[q] \in Generation =>
                    /\ DOMAIN heap'[slice[q]] = DOMAIN heap[slice[q]]
                    /\ \A m \in DOMAIN heap[slice[q]] :
                          Shape(heap'[slice[q]][m].conf) = Shape(heap[slice[q]][m].conf)
  BY <1>2, <1>3, SelectionKeepsOthers
<1>5. n \in DOMAIN Config[req[r].service] \ req[r].tried
  <2>1. SelectNode(r, req[r].tried, n)
    BY <1>2
  <2>2. n \in DOMAIN heap[slice[r]] \ req[r].tried
    BY <1>1, <1>3, <2>1, SelectNodeEffect
  <2>3. QED
    BY <1>3, <2>2
<1>6. PICK stage \in {"proxy", "chain"} :
         /\ stage = "chain" => req[r].tried = {}
         /\ req' = [req EXCEPT ![r] = [req[r] EXCEPT !.pc = stage, !.current = n]]
  <2>1. CASE IsRetry(r)
    <3>1. req' = [req EXCEPT ![r] = [req[r] EXCEPT !.pc = "proxy", !.current = n]]
      BY <1>2, <2>1
    <3>2. QED
      BY <3>1
  <2>2. CASE ~IsRetry(r)
    <3>1. req' = [req EXCEPT ![r] = [req[r] EXCEPT !.pc = "chain", !.current = n]]
      BY <1>2, <2>2
    <3>2. QED
      BY <2>2, <3>1 DEF IsRetry
  <2>3. QED
    BY <2>1, <2>2
<1>7. stage \in Stages /\ n \in Node \cup {NoNode}
  BY ConstantMembers
<1>8. /\ req' \in [Request -> Locals]
      /\ \A q \in Request \ {r} : req'[q] = req[q]
      /\ req'[r].pc = stage /\ req'[r].service = req[r].service
      /\ req'[r].current = n /\ req'[r].tried = req[r].tried
      /\ req'[r].answer = req[r].answer
  <2>1. /\ req \in [Request -> Locals]
        /\ req' = [req EXCEPT ![r] = [req[r] EXCEPT !.pc = stage, !.current = n]]
    BY <1>1, <1>6
  <2> DEFINE y == [req[r] EXCEPT !.pc = stage, !.current = n]
  <2>2. req[r] \in Locals
    BY <2>1
  <2>3. /\ y \in Locals /\ y.pc = stage /\ y.service = req[r].service
        /\ y.current = n /\ y.tried = req[r].tried /\ y.answer = req[r].answer
    BY <1>7, <2>2 DEF Locals
  <2>4. req' = [req EXCEPT ![r] = y]
    BY <2>1
  <2> HIDE DEF y
  <2>5. QED
    BY <2>1, <2>3, <2>4
<1>9. RequestInv(r)'
  BY <1>3, <1>5, <1>6, <1>8 DEF RequestInv, At, Matched, Selected
<1>10. QED
  BY <1>1, <1>4, <1>8, <1>9, StructureFromParts DEF Structure, TypeOK

\* The steps that answer after a selection, with or without a node.
LEMMA SelectionEndsKeepsStructure ==
    ASSUME Structure, NEW r \in Request, SelectFails(r) \/ GiveUp(r)
    PROVE  Structure'
<1>1. req \in [Request -> Locals] /\ LBTypeOK /\ leaked \in [Node -> Nat]
  BY DEF Structure, TypeOK
<1>2. /\ req[r].pc = "select"
      /\ \/ SelectNothing(r, req[r].tried)
         \/ \E n \in Node : SelectNode(r, req[r].tried, n)
  BY DEF SelectFails, GiveUp, At
<1>3. leaked' \in [Node -> Nat]
  BY <1>1 DEF SelectFails, GiveUp, Leak
<1>4. PICK a \in Answers : Finish(r, a)
  BY ConstantMembers DEF SelectFails, GiveUp
<1>5. /\ LBTypeOK'
      /\ \A q \in Request \ {r} :
              /\ slice'[q] = slice[q]
              /\ slice[q] \in Generation =>
                    /\ DOMAIN heap'[slice[q]] = DOMAIN heap[slice[q]]
                    /\ \A m \in DOMAIN heap[slice[q]] :
                          Shape(heap'[slice[q]][m].conf) = Shape(heap[slice[q]][m].conf)
  BY <1>2, SelectionKeepsOthers
<1>6. /\ req' \in [Request -> Locals] /\ RequestInv(r)'
      /\ \A q \in Request \ {r} : req'[q] = req[q]
  BY <1>1, <1>4, FinishedRequest
<1>7. QED
  BY <1>3, <1>5, <1>6, StructureFromParts

\* Releasing and marking a node of the table of the moment keeps the structure.
LEMMA ReleaseAndMarkKeepStructure ==
    ASSUME Structure, NEW r \in Request, Release(r) \/ MarkSuccess(r) \/ MarkFailed(r)
    PROVE  Structure'
<1>1. /\ req \in [Request -> Locals] /\ RequestInv(r) /\ LBTypeOK
      /\ leaked \in [Node -> Nat] /\ leaked' = leaked
  BY DEF Structure, TypeOK, Release, MarkSuccess, MarkFailed
<1> DEFINE n == req[r].current
<1>2. n \in Node /\ req[r].service \in Version /\ n \in DOMAIN Config[req[r].service]
  BY <1>1 DEF RequestInv, At, Release, MarkSuccess, MarkFailed, Matched, Selected
<1>3. /\ LBTypeOK'
      /\ slice' = slice
      /\ \A g \in Generation :
            /\ DOMAIN heap'[g] = DOMAIN heap[g]
            /\ \A m \in DOMAIN heap[g] : Shape(heap'[g][m].conf) = Shape(heap[g][m].conf)
  BY <1>1, <1>2, ReleaseAndMarkEffect DEF Release, MarkSuccess, MarkFailed
<1>4. /\ req' \in [Request -> Locals] /\ RequestInv(r)'
      /\ \A q \in Request \ {r} : req'[q] = req[q]
  <2>1. CASE Release(r)
    <3>1. /\ req' \in [Request -> Locals]
          /\ \A q \in Request \ {r} : req'[q] = req[q]
          /\ req'[r].pc = "mark" /\ req'[r].service = req[r].service
          /\ req'[r].current = req[r].current /\ req'[r].answer = req[r].answer
          /\ req'[r].outcome = req[r].outcome /\ req'[r].tried = req[r].tried
          /\ req'[r].wrote = req[r].wrote
      BY <1>1, <2>1, ConstantMembers, GotoRequest DEF Release
    <3>2. req[r].pc = "release"
      BY <2>1 DEF Release, At
    <3>3. req[r].answer # "none" =>
             \/ req[r].answer = "upstream" /\ req[r].outcome = "ok"
             \/ /\ req[r].answer = "partial" /\ req[r].outcome \in {"timeout", "error"}
                /\ req[r].wrote = "header"
      BY <1>1, <3>2 DEF RequestInv, At, Responded, FailedAfterHeader
    <3>4. req[r].tried # {}
      BY <1>1, <3>2 DEF RequestInv
    <3>5. QED
      BY <1>2, <3>1, <3>3, <3>4
      DEF RequestInv, At, Matched, Selected, Responded, FailedAfterHeader
  <2>2. CASE MarkSuccess(r)
    <3>1. req[r].answer \in Answers
      BY <1>1, RecordFields
    <3>2. Finish(r, req[r].answer)
      BY <2>2 DEF MarkSuccess
    <3>3. QED
      BY <1>1, <3>1, <3>2, FinishedRequest
  <2>3. CASE MarkFailed(r)
    <3>1. req' = [req EXCEPT ![r] = [req[r] EXCEPT !.pc = "fetch", !.current = NoNode]]
      BY <2>3 DEF MarkFailed
    <3>2. "fetch" \in Stages /\ NoNode \in Node \cup {NoNode}
      BY ConstantMembers
    <3>3. /\ req' \in [Request -> Locals]
          /\ \A q \in Request \ {r} : req'[q] = req[q]
          /\ req'[r].pc = "fetch" /\ req'[r].service = req[r].service
          /\ req'[r].tried = req[r].tried /\ req'[r].wrote = req[r].wrote
          /\ req'[r].answer = req[r].answer
      BY <1>1, <3>1, <3>2, CurrentRequest
    <3>4. req[r].answer # "none" =>
             req[r].answer = "partial" /\ req[r].tried # {} /\ req[r].wrote = "header"
      BY <1>1, <2>3 DEF MarkFailed, At, RequestInv, Responded, FailedAfterHeader
    <3>5. QED
      BY <1>2, <3>3, <3>4 DEF RequestInv, At, Matched, Selected, FailedAfterHeader
  <2>4. QED
    BY <2>1, <2>2, <2>3
<1>5. QED
  BY <1>1, <1>3, <1>4, StructureFromParts DEF LBTypeOK

\* Cooldowns running down keep the structure.
LEMMA TimeKeepsStructure ==
    ASSUME Structure, TimePasses
    PROVE  Structure'
<1>1. TypeOK /\ Tick /\ req' = req /\ leaked' = leaked
  BY DEF Structure, TimePasses
<1>2. /\ LBTypeOK' /\ slice' = slice
      /\ \A g \in Generation : DOMAIN heap'[g] = DOMAIN heap[g]
      /\ \A g \in Generation : \A m \in DOMAIN heap[g] : heap'[g][m].conf = heap[g][m].conf
  BY <1>1, TickEffect DEF TypeOK
<1>3. \A q \in Request : RequestInv(q)'
  <2> TAKE q \in Request
  <2>1. RequestInv(q) /\ (At(q, "select") => slice[q] \in Generation)
    BY DEF Structure, RequestInv
  <2>2. QED
    BY <1>1, <1>2, <2>1, OthersKeepRequestInv
<1>4. QED
  BY <1>1, <1>2, <1>3 DEF Structure, TypeOK

\* The initial state is well structured.
LEMMA InitialStructure == Init => Structure
<1> SUFFICES ASSUME Init PROVE Structure
  OBVIOUS
<1>1. table = NoGeneration /\ heap = [g \in Generation |-> NoObjects]
  BY DEF Init, LBInit
<1>2. slice = [r \in Request |-> NoGeneration] /\ queue = [n \in Node |-> NotQueued]
  BY DEF Init, LBInit
<1>3. \A g \in Generation : IsTableOf(heap[g], NodeState)
  BY <1>1 DEF IsTableOf, NoObjects
<1>4. LBTypeOK
  BY <1>1, <1>2, <1>3 DEF LBTypeOK, NotQueued, FullAvailability
<1>5. req = [r \in Request |-> Idle] /\ leaked \in [Node -> Nat]
  BY DEF Init
<1>6. TypeOK
  BY <1>4, <1>5, IdleIsLocals DEF TypeOK
<1>7. \A r \in Request : RequestInv(r)
  BY <1>5 DEF RequestInv, At, Idle, Matched, Selected
<1>8. QED
  BY <1>6, <1>7 DEF Structure

\* Every step keeps the structure.
LEMMA StructureIsInductive == Structure /\ [Next]_vars => Structure'
<1> SUFFICES ASSUME Structure, [Next]_vars PROVE Structure'
  OBVIOUS
<1>1. ASSUME NEW r \in Request, NEW version \in Version,
             Arrive(r, version) \/ ArriveWithoutNodes(r, version)
      PROVE  Structure'
  BY <1>1, LocalStepKeepsStructure DEF LocalStep
<1>2. ASSUME NEW r \in Request, Step(r)
      PROVE  Structure'
  <2>1. \/ LocalStep(r) \/ Fetch(r) \/ Select(r) \/ SelectFails(r) \/ GiveUp(r)
        \/ Release(r) \/ MarkSuccess(r) \/ MarkFailed(r)
    BY <1>2 DEF Step, GatewayStep, ClientStep, LocalStep
  <2>2. QED
    BY <2>1, LocalStepKeepsStructure, FetchKeepsStructure, SelectKeepsStructure,
       SelectionEndsKeepsStructure, ReleaseAndMarkKeepStructure
<1>3. CASE TimePasses
  BY <1>3, TimeKeepsStructure
<1>4. CASE UNCHANGED vars
  BY <1>4 DEF vars, Structure, TypeOK, LBTypeOK, RequestInv, At, Responded,
              FailedAfterHeader, runtimeNodesMatch
<1>5. QED
  BY <1>1, <1>2, <1>3, <1>4 DEF Next, AllDone

\* The structure the other theorems rest on: in particular the slice a request
\* holds outside the lock always has the nodes of its own version.
THEOREM StructureHolds == Spec => []Structure
<1>1. QED
  BY InitialStructure, StructureIsInductive, PTL DEF Spec

\* The model is type correct: counters of the runtime nodes never go below
\* zero and availabilities stay between 0% and 100%.
THEOREM ProxyTypes == Spec => []TypeOK
<1>1. Structure => TypeOK
  BY DEF Structure
<1>2. QED
  BY <1>1, StructureHolds, PTL

\* The failover loop of Proxy never attempts a node twice for one request.
THEOREM RetriesAreFresh == Spec => []RetriesUseFreshNodes
<1>1. Structure => RetriesUseFreshNodes
  BY DEF Structure, RequestInv, RetriesUseFreshNodes
<1>2. QED
  BY <1>1, StructureHolds, PTL

\* SelectNode and the calls after it keep a request among the nodes of the
\* version it was matched to, whoever replaces the table meanwhile.
THEOREM NodesOfOwnVersion == Spec => []ServedByOwnVersion
<1>1. Structure => ServedByOwnVersion
  <2> SUFFICES ASSUME Structure, NEW r \in Request, NEW n \in Node, Holds(r, n)
               PROVE  n \in DOMAIN Config[req[r].service]
    BY DEF ServedByOwnVersion
  <2>1. req[r].pc \in Selected /\ req[r].current = n
    BY DEF Holds, Selected
  <2>2. QED
    BY <2>1 DEF Structure, RequestInv
<1>2. QED
  BY <1>1, StructureHolds, PTL

-----------------------------------------------------------------------------
(* The counters of the runtime nodes.                                      *)

\* A step of r changes the holders of a node by r alone.
LEMMA HolderCount ==
    ASSUME NEW r \in Request, NEW n \in Node, \A q \in Request \ {r} : req'[q] = req[q]
    PROVE  /\ Cardinality(Holders(n)) \in Nat
           /\ Cardinality(Holders(n))' \in Nat
           /\ (Holds(r, n)' <=> Holds(r, n)) =>
                  Cardinality(Holders(n))' = Cardinality(Holders(n))
           /\ ~Holds(r, n) /\ Holds(r, n)' =>
                  Cardinality(Holders(n))' = Cardinality(Holders(n)) + 1
           /\ Holds(r, n) /\ ~Holds(r, n)' =>
                  Cardinality(Holders(n))' = Cardinality(Holders(n)) - 1
<1> DEFINE H == Holders(n)
           others == {q \in Request \ {r} : Holds(q, n)}
<1>1. IsFiniteSet(Request)
  BY LoadBalancerConstants
<1>2. IsFiniteSet(others) /\ Cardinality(others) \in Nat
  BY <1>1, FS_Subset, FS_CardinalityType
<1>3. r \notin others
  OBVIOUS
<1>4. Cardinality(others \cup {r}) = Cardinality(others) + 1
  BY <1>2, <1>3, FS_AddElement
<1>5. H = IF Holds(r, n) THEN others \cup {r} ELSE others
  BY DEF Holders
<1>6. \A q \in Request \ {r} : Holds(q, n)' <=> Holds(q, n)
  BY DEF Holds
<1>7. H' = IF Holds(r, n)' THEN others \cup {r} ELSE others
  BY <1>6 DEF Holders
<1> HIDE DEF others
<1>8. Cardinality(H) = IF Holds(r, n) THEN Cardinality(others) + 1 ELSE Cardinality(others)
  BY <1>4, <1>5
<1>9. Cardinality(H') = IF Holds(r, n)' THEN Cardinality(others) + 1 ELSE Cardinality(others)
  BY <1>4, <1>7
<1> HIDE DEF H
<1>10. QED
  BY <1>2, <1>8, <1>9 DEF H

One(holds) == IF holds THEN 1 ELSE 0

\* It is enough that a step raises a counter no more than it adds to what
\* occupies the node.
LEMMA CountersFromParts ==
    ASSUME Structure, Structure', CountersNeverExceedHolders, NEW r \in Request,
           \A q \in Request \ {r} : req'[q] = req[q],
           \A n \in Node : InTable(n)' =>
              \/ heap'[table'][n].active = 0
              \/ /\ InTable(n)
                 /\ heap'[table'][n].active + leaked[n] + One(Holds(r, n))
                       <= heap[table][n].active + leaked'[n] + One(Holds(r, n)')
    PROVE  CountersNeverExceedHolders'
<1> SUFFICES ASSUME HasTable', NEW n \in DOMAIN heap'[table']
             PROVE  heap'[table'][n].active <= leaked'[n] + Cardinality(Holders(n))'
  BY DEF CountersNeverExceedHolders
<1>1. InTable(n)' /\ n \in Node /\ heap'[table'][n].active \in Nat
  BY DEF InTable, HasTable, Structure, TypeOK, LBTypeOK, IsTableOf, NodeState
<1>2. leaked[n] \in Nat /\ leaked'[n] \in Nat
  BY <1>1 DEF Structure, TypeOK
<1> DEFINE h == Cardinality(Holders(n))
           h2 == Cardinality(Holders(n))'
<1>3. /\ h \in Nat /\ h2 \in Nat
      /\ h2 + One(Holds(r, n)) = h + One(Holds(r, n)')
  BY <1>1, HolderCount DEF One
<1>4. CASE heap'[table'][n].active = 0
  BY <1>2, <1>3, <1>4
<1>5. CASE /\ InTable(n)
           /\ heap'[table'][n].active + leaked[n] + One(Holds(r, n))
                 <= heap[table][n].active + leaked'[n] + One(Holds(r, n)')
  <2>1. heap[table][n].active \in Nat /\ heap[table][n].active <= leaked[n] + h
    BY <1>5 DEF InTable, HasTable, Structure, TypeOK, LBTypeOK, IsTableOf, NodeState,
                CountersNeverExceedHolders
  <2>2. One(Holds(r, n)) \in Nat /\ One(Holds(r, n)') \in Nat
    BY DEF One
  <2> HIDE DEF h, h2
  <2>3. heap'[table'][n].active <= leaked'[n] + h2
    BY <1>1, <1>2, <1>3, <1>5, <2>1, <2>2
  <2>4. QED
    BY <2>3 DEF h2
<1>6. QED
  BY <1>1, <1>4, <1>5

\* A request that ends without releasing its node leaks it.
LEMMA LocalStepOccupies ==
    ASSUME Structure, NEW r \in Request, LocalStep(r), NEW n \in Node
    PROVE  leaked[n] + One(Holds(r, n)) <= leaked'[n] + One(Holds(r, n)')
<1>1. req \in [Request -> Locals] /\ leaked \in [Node -> Nat] /\ RequestInv(r)
  BY DEF Structure, TypeOK
<1>2. leaked[n] \in Nat
  BY <1>1
<1>3. CASE Reject(r) \/ SnapshotFails(r) \/ TotalTimeout(r) \/ AttemptAborts(r)
  <2>1. req[r].current \in Node /\ leaked' = [leaked EXCEPT ![req[r].current] = @ + 1]
    BY <1>1, <1>3 DEF RequestInv, At, Selected, Leak, Reject, SnapshotFails, TotalTimeout, AttemptAborts
  <2>2. leaked'[n] = leaked[n] + One(n = req[r].current)
    BY <1>1, <2>1 DEF One
  <2>3. Holds(r, n) => n = req[r].current
    BY DEF Holds
  <2>4. QED
    BY <1>2, <2>2, <2>3 DEF One
<1>4. CASE ~(Reject(r) \/ SnapshotFails(r) \/ TotalTimeout(r) \/ AttemptAborts(r))
  <2>1. leaked' = leaked
    BY <1>4 DEF LocalStep, EnterProxy, Snapshot, BeginAttempt, ResponseBegins,
                AttemptSucceeds, AttemptFails, Arrive, ArriveWithoutNodes
  <2>2. Holds(r, n) => Holds(r, n)'
    <3> SUFFICES ASSUME Holds(r, n) PROVE Holds(r, n)'
      OBVIOUS
    <3>1. req[r] \in Locals
      BY <1>1
    <3>2. \/ EnterProxy(r) \/ Snapshot(r) \/ BeginAttempt(r) \/ ResponseBegins(r)
          \/ AttemptSucceeds(r) \/ AttemptFails(r)
      BY <1>4 DEF LocalStep, Arrive, ArriveWithoutNodes, Holds, At
    <3>3. /\ req'[r].current = req[r].current
          /\ req'[r].pc \in {"body", "proxy", "attempt", "copy", "release"}
      <4>1. CASE EnterProxy(r) \/ Snapshot(r)
        BY <1>1, <3>1, <4>1 DEF EnterProxy, Snapshot, Goto, Locals
      <4>2. CASE BeginAttempt(r)
        BY <1>1, <3>1, <4>2 DEF BeginAttempt, Locals
      <4>3. CASE AttemptSucceeds(r) \/ ResponseBegins(r)
        BY <1>1, <3>1, <4>3 DEF AttemptSucceeds, ResponseBegins, Locals
      <4>4. CASE AttemptFails(r)
        BY <1>1, <3>1, <4>4 DEF AttemptFails, Locals
      <4>5. QED
        BY <3>2, <4>1, <4>2, <4>3, <4>4
    <3>4. QED
      BY <3>3 DEF Holds
  <2>3. QED
    BY <1>2, <2>1, <2>2 DEF One
<1>5. QED
  BY <1>3, <1>4

\* The objects of the table are typed.
LEMMA TableNodes ==
    ASSUME Structure, NEW n, InTable(n)
    PROVE  /\ table \in Generation /\ n \in Node /\ n \in DOMAIN heap[table]
           /\ heap[table][n].active \in Nat
  BY DEF InTable, HasTable, Structure, TypeOK, LBTypeOK, IsTableOf, NodeState

\* A step without a call of the load balancer either keeps what a request holds
\* or records it as leaked.
LEMMA LocalStepKeepsCounters ==
    ASSUME Structure, Structure', CountersNeverExceedHolders, NEW r \in Request, LocalStep(r)
    PROVE  CountersNeverExceedHolders'
<1>1. table' = table /\ heap' = heap /\ \A q \in Request \ {r} : req'[q] = req[q]
  BY DEF LocalStep, Reject, SnapshotFails, Snapshot, EnterProxy, TotalTimeout, BeginAttempt,
         ResponseBegins, AttemptSucceeds, AttemptFails, AttemptAborts, Arrive, ArriveWithoutNodes,
         Finish, Goto, Structure, TypeOK, lbVars
<1>2. ASSUME NEW n \in Node, InTable(n)'
      PROVE  /\ InTable(n)
             /\ heap'[table'][n].active + leaked[n] + One(Holds(r, n))
                   <= heap[table][n].active + leaked'[n] + One(Holds(r, n)')
  <2>1. InTable(n)
    BY <1>1, <1>2 DEF InTable, HasTable
  <2>2. heap[table][n].active \in Nat /\ leaked[n] \in Nat /\ leaked'[n] \in Nat
    BY <2>1, TableNodes DEF Structure, TypeOK
  <2>3. leaked[n] + One(Holds(r, n)) <= leaked'[n] + One(Holds(r, n)')
    BY LocalStepOccupies
  <2>4. One(Holds(r, n)) \in Nat /\ One(Holds(r, n)') \in Nat
    BY DEF One
  <2>5. QED
    BY <1>1, <2>1, <2>2, <2>3, <2>4
<1>3. QED
  BY <1>1, <1>2, CountersFromParts

\* A rebuilt table copies the counters, and nobody's hold changes.
LEMMA FetchKeepsCounters ==
    ASSUME Structure, Structure', CountersNeverExceedHolders, NEW r \in Request, Fetch(r)
    PROVE  CountersNeverExceedHolders'
<1>1. req \in [Request -> Locals] /\ RequestInv(r) /\ LBTypeOK /\ leaked' = leaked
  BY DEF Structure, TypeOK, Fetch
<1>2. req[r].pc = "fetch" /\ req[r].service \in Version /\ getRuntimeNodes(r, req[r].service)
  BY <1>1 DEF Fetch, At, RequestInv, Matched
<1>3. \/ table' = table /\ heap' = heap
      \/ \A n \in DOMAIN heap'[table'] :
            heap'[table'][n].active = IF InTable(n) THEN heap[table][n].active ELSE 0
  BY <1>1, <1>2, GetRuntimeNodes
<1>4. "select" \in Stages /\ Goto(r, "select")
  BY ConstantMembers DEF Fetch
<1>5. req'[r].pc = "select" /\ \A q \in Request \ {r} : req'[q] = req[q]
  BY <1>1, <1>4, GotoRequest
<1>6. ASSUME NEW n \in Node, InTable(n)'
      PROVE  \/ heap'[table'][n].active = 0
             \/ /\ InTable(n)
                /\ heap'[table'][n].active + leaked[n] + One(Holds(r, n))
                      <= heap[table][n].active + leaked'[n] + One(Holds(r, n)')
  <2>1. One(Holds(r, n)) = 0 /\ One(Holds(r, n)') = 0
    BY <1>2, <1>5 DEF One, Holds
  <2>2. CASE ~InTable(n)
    BY <1>3, <1>6, <2>2 DEF InTable, HasTable
  <2>3. CASE InTable(n)
    <3>1. heap'[table'][n].active = heap[table][n].active
      BY <1>3, <1>6, <2>3 DEF InTable
    <3>2. heap[table][n].active \in Nat /\ leaked[n] \in Nat
      BY <2>3, TableNodes DEF Structure, TypeOK
    <3>3. QED
      BY <1>1, <2>1, <2>3, <3>1, <3>2
  <2>4. QED
    BY <2>2, <2>3
<1>7. QED
  BY <1>5, <1>6, CountersFromParts

\* A selection raises the counter of the node it returns, by one at most: by
\* none when the slice was no longer the table.
LEMMA SelectionCounts ==
    ASSUME Structure, NEW r \in Request, req[r].pc = "select", NEW excluded, NEW n \in Node,
           SelectNode(r, excluded, n), NEW m \in Node, InTable(m)'
    PROVE  /\ InTable(m)
           /\ heap'[table'][m].active \in Nat
           /\ heap'[table'][m].active <= heap[table][m].active + One(m = n)
<1>1. LBTypeOK /\ slice[r] \in Generation /\ slice[r] # NoGeneration
  BY NoneIsNotSome DEF Structure, TypeOK, RequestInv, At
<1>2. /\ table' = table
      /\ \A g \in Generation : g = table =>
            /\ DOMAIN heap'[g] = DOMAIN heap[g]
            /\ \A k \in DOMAIN heap[g] :
                  heap'[g][k].active = IF g = slice[r] /\ k = n
                                       THEN heap[g][k].active + 1 ELSE heap[g][k].active
  BY <1>1, SelectNodeEffect
<1>3. table \in Generation /\ m \in DOMAIN heap[table]
  BY <1>1, <1>2 DEF InTable, HasTable, LBTypeOK
<1>4. InTable(m)
  BY <1>2, <1>3 DEF InTable, HasTable
<1>5. heap[table][m].active \in Nat
  BY <1>4, TableNodes
<1>6. heap'[table][m].active = IF table = slice[r] /\ m = n
                               THEN heap[table][m].active + 1 ELSE heap[table][m].active
  BY <1>2, <1>3
<1>7. QED
  BY <1>2, <1>4, <1>5, <1>6 DEF One

\* A selection raises one counter, at most, of the table of the moment, and the
\* request holds that node.
LEMMA SelectKeepsCounters ==
    ASSUME Structure, Structure', CountersNeverExceedHolders, NEW r \in Request, Select(r)
    PROVE  CountersNeverExceedHolders'
<1>1. req \in [Request -> Locals] /\ leaked' = leaked /\ leaked \in [Node -> Nat]
  BY DEF Structure, TypeOK, Select
<1>2. PICK n \in Node :
         /\ SelectNode(r, req[r].tried, n)
         /\ req' = [req EXCEPT ![r] =
                [req[r] EXCEPT !.pc = IF IsRetry(r) THEN "proxy" ELSE "chain", !.current = n]]
  BY DEF Select
<1>3. req[r].pc = "select" /\ req[r] \in Locals
  BY <1>1 DEF Select, At
<1>4. req'[r] = [req[r] EXCEPT !.pc = IF IsRetry(r) THEN "proxy" ELSE "chain", !.current = n]
  BY <1>1, <1>2
<1>5. req'[r].current = n /\ req'[r].pc \in {"proxy", "chain"}
  BY <1>3, <1>4 DEF Locals
<1>6. \A q \in Request \ {r} : req'[q] = req[q]
  BY <1>1, <1>2
<1>7. ASSUME NEW m \in Node, InTable(m)'
      PROVE  /\ InTable(m)
             /\ heap'[table'][m].active + leaked[m] + One(Holds(r, m))
                   <= heap[table][m].active + leaked'[m] + One(Holds(r, m)')
  <2>1. One(Holds(r, m)) = 0 /\ One(Holds(r, m)') = One(m = n)
    BY <1>3, <1>5 DEF One, Holds
  <2>2. /\ InTable(m) /\ heap'[table'][m].active \in Nat
        /\ heap'[table'][m].active <= heap[table][m].active + One(m = n)
    BY <1>2, <1>3, <1>7, SelectionCounts
  <2>3. heap[table][m].active \in Nat /\ leaked[m] \in Nat /\ One(m = n) \in Nat
    BY <1>1, <2>2, TableNodes DEF One
  <2>4. QED
    BY <1>1, <2>1, <2>2, <2>3
<1>8. QED
  BY <1>6, <1>7, CountersFromParts

\* Answering 502 changes no counter; giving up with a node selected leaks it.
LEMMA SelectionEndsKeepsCounters ==
    ASSUME Structure, Structure', CountersNeverExceedHolders, NEW r \in Request,
           SelectFails(r) \/ GiveUp(r)
    PROVE  CountersNeverExceedHolders'
<1>1. req \in [Request -> Locals] /\ leaked \in [Node -> Nat] /\ LBTypeOK
  BY DEF Structure, TypeOK
<1>2. req[r].pc = "select"
  BY DEF SelectFails, GiveUp, At
<1>3. PICK a \in Answers : Finish(r, a)
  BY ConstantMembers DEF SelectFails, GiveUp
<1>4. req'[r].pc = "done" /\ \A q \in Request \ {r} : req'[q] = req[q]
  BY <1>1, <1>3, FinishedRequest
<1>5. ASSUME NEW m \in Node, InTable(m)'
      PROVE  /\ InTable(m)
             /\ heap'[table'][m].active + leaked[m] + One(Holds(r, m))
                   <= heap[table][m].active + leaked'[m] + One(Holds(r, m)')
  <2>1. One(Holds(r, m)) = 0 /\ One(Holds(r, m)') = 0
    BY <1>2, <1>4 DEF One, Holds
  <2>2. CASE SelectNothing(r, req[r].tried) /\ leaked' = leaked
    <3>1. /\ table' = table
          /\ \A g \in Generation : g = table => heap'[g] = heap[g]
      BY <1>1, <2>2, SelectNothingEffect
    <3>2. table \in Generation
      BY <1>1, <1>5, <3>1 DEF InTable, HasTable, LBTypeOK
    <3>3. InTable(m) /\ heap'[table'][m].active = heap[table][m].active
      BY <1>5, <3>1, <3>2 DEF InTable, HasTable
    <3>4. heap[table][m].active \in Nat /\ leaked[m] \in Nat
      BY <1>1, <3>3, TableNodes
    <3>5. QED
      BY <2>1, <2>2, <3>3, <3>4
  <2>3. ASSUME NEW n \in Node, SelectNode(r, req[r].tried, n), Leak(n)
        PROVE  /\ InTable(m)
               /\ heap'[table'][m].active + leaked[m] + One(Holds(r, m))
                     <= heap[table][m].active + leaked'[m] + One(Holds(r, m)')
    <3>1. /\ InTable(m) /\ heap'[table'][m].active \in Nat
          /\ heap'[table'][m].active <= heap[table][m].active + One(m = n)
      BY <1>2, <1>5, <2>3, SelectionCounts
    <3>2. leaked[m] \in Nat /\ leaked'[m] = leaked[m] + One(m = n)
      BY <1>1, <2>3 DEF Leak, One
    <3>3. heap[table][m].active \in Nat /\ One(m = n) \in Nat
      BY <3>1, TableNodes DEF One
    <3>4. QED
      BY <2>1, <3>1, <3>2, <3>3
  <2>4. QED
    BY <2>2, <2>3 DEF SelectFails, GiveUp
<1>6. QED
  BY <1>4, <1>5, CountersFromParts

\* A release lowers the counter of the node it stops holding unless that is 0;
\* the marks, with no hold left, only lower counters.
LEMMA ReleaseAndMarkKeepCounters ==
    ASSUME Structure, Structure', CountersNeverExceedHolders, NEW r \in Request,
           Release(r) \/ MarkSuccess(r) \/ MarkFailed(r)
    PROVE  CountersNeverExceedHolders'
<1>1. /\ req \in [Request -> Locals] /\ RequestInv(r) /\ LBTypeOK
      /\ leaked \in [Node -> Nat] /\ leaked' = leaked
  BY DEF Structure, TypeOK, Release, MarkSuccess, MarkFailed
<1> DEFINE n == req[r].current
<1>2. n \in Node
  BY <1>1 DEF RequestInv, At, Release, MarkSuccess, MarkFailed, Selected
<1>3. /\ table' = table
      /\ \A g \in Generation :
            /\ DOMAIN heap'[g] = DOMAIN heap[g]
            /\ \A m \in DOMAIN heap[g] : heap'[g][m].active <= heap[g][m].active
      /\ ReleaseNodeRequest(n) /\ InTable(n) =>
            heap'[table][n].active = Decremented(heap[table][n].active)
  BY <1>1, <1>2, ReleaseAndMarkEffect DEF Release, MarkSuccess, MarkFailed
<1>4. \A q \in Request \ {r} : req'[q] = req[q]
  BY <1>1 DEF Release, MarkSuccess, MarkFailed, Goto, Finish
<1>5. ASSUME NEW m \in Node, InTable(m)'
      PROVE  \/ heap'[table'][m].active = 0
             \/ /\ InTable(m)
                /\ heap'[table'][m].active + leaked[m] + One(Holds(r, m))
                      <= heap[table][m].active + leaked'[m] + One(Holds(r, m)')
  <2>1. table \in Generation
    BY <1>1, <1>3, <1>5 DEF InTable, HasTable, LBTypeOK
  <2>2. InTable(m) /\ heap'[table'][m].active <= heap[table][m].active
    BY <1>3, <1>5, <2>1 DEF InTable, HasTable
  <2>3. heap[table][m].active \in Nat /\ leaked[m] \in Nat
    BY <1>1, <2>2, TableNodes
  <2>4. heap'[table'][m].active \in Nat
    BY <1>5 DEF Structure, TypeOK, LBTypeOK, IsTableOf, NodeState, InTable, HasTable
  <2>5. One(Holds(r, m)') \in Nat
    BY DEF One
  <2>6. CASE ~Holds(r, m)
    BY <1>1, <2>2, <2>3, <2>4, <2>5, <2>6 DEF One
  <2>7. CASE Holds(r, m)
    <3>1. m = n /\ ReleaseNodeRequest(n)
      BY <2>7 DEF Holds, Release, MarkSuccess, MarkFailed, At
    <3>2. heap'[table'][m].active = Decremented(heap[table][m].active)
      BY <1>3, <2>2, <3>1
    <3>3. CASE heap[table][m].active = 0
      BY <3>2, <3>3 DEF Decremented
    <3>4. CASE heap[table][m].active > 0
      <4>1. heap'[table'][m].active = heap[table][m].active - 1
        BY <3>2, <3>4 DEF Decremented
      <4>2. One(Holds(r, m)) = 1
        BY <2>7 DEF One
      <4>3. QED
        BY <1>1, <2>2, <2>3, <2>5, <4>1, <4>2
    <3>5. QED
      BY <2>3, <3>3, <3>4
  <2>8. QED
    BY <2>6, <2>7
<1>6. QED
  BY <1>4, <1>5, CountersFromParts

\* Cooldowns running down change neither counters nor holds.
LEMMA TimeKeepsCounters ==
    ASSUME Structure, CountersNeverExceedHolders, TimePasses
    PROVE  CountersNeverExceedHolders'
<1>1. LBTypeOK /\ Tick /\ req' = req /\ leaked' = leaked
  BY DEF Structure, TypeOK, TimePasses
<1>2. /\ table' = table
      /\ \A g \in Generation : DOMAIN heap'[g] = DOMAIN heap[g]
      /\ \A g \in Generation : \A m \in DOMAIN heap[g] : heap'[g][m].active = heap[g][m].active
  BY <1>1, TickEffect
<1>3. \A n : Cardinality(Holders(n))' = Cardinality(Holders(n))
  BY <1>1 DEF Holders, Holds
<1>4. HasTable' => HasTable /\ table \in Generation
  BY <1>1, <1>2 DEF HasTable, LBTypeOK
<1>5. QED
  BY <1>1, <1>2, <1>3, <1>4 DEF CountersNeverExceedHolders

\* Every step keeps the counters at or below the holders and the leaks.
LEMMA CountersAreInductive ==
    Structure /\ Structure' /\ CountersNeverExceedHolders /\ [Next]_vars
        => CountersNeverExceedHolders'
<1> SUFFICES ASSUME Structure, Structure', CountersNeverExceedHolders, [Next]_vars
             PROVE  CountersNeverExceedHolders'
  OBVIOUS
<1>1. ASSUME NEW r \in Request, NEW version \in Version,
             Arrive(r, version) \/ ArriveWithoutNodes(r, version)
      PROVE  CountersNeverExceedHolders'
  BY <1>1, LocalStepKeepsCounters DEF LocalStep
<1>2. ASSUME NEW r \in Request, Step(r)
      PROVE  CountersNeverExceedHolders'
  <2>1. \/ LocalStep(r) \/ Fetch(r) \/ Select(r) \/ SelectFails(r) \/ GiveUp(r)
        \/ Release(r) \/ MarkSuccess(r) \/ MarkFailed(r)
    BY <1>2 DEF Step, GatewayStep, ClientStep, LocalStep
  <2>2. QED
    BY <2>1, LocalStepKeepsCounters, FetchKeepsCounters, SelectKeepsCounters,
       SelectionEndsKeepsCounters, ReleaseAndMarkKeepCounters
<1>3. CASE TimePasses
  BY <1>3, TimeKeepsCounters
<1>4. CASE UNCHANGED vars
  BY <1>4 DEF vars, CountersNeverExceedHolders, HasTable, Holders, Holds
<1>5. QED
  BY <1>1, <1>2, <1>3, <1>4 DEF Next, AllDone

\* The counter a selection is decided on never exceeds what really occupies the
\* node: the requests that hold it and the selections nobody gave back.
THEOREM CountersAreHonest == Spec => []CountersNeverExceedHolders
<1>1. Init => CountersNeverExceedHolders
  BY DEF Init, LBInit, CountersNeverExceedHolders, HasTable
<1>2. QED
  BY <1>1, StructureHolds, CountersAreInductive, PTL DEF Spec

-----------------------------------------------------------------------------
(* Answers.                                                                *)

\* What may still happen to a client that was answered.
KeepsAnswer(r) ==
    /\ req'[r].pc # "attempt"
    /\ \/ req'[r].answer = req[r].answer
       \/ req[r].answer = "upstream" /\ req'[r].answer = "mixed"
       \/ req[r].answer = "partial" /\ req'[r].answer = "implicit200"

\* The steps of an answered request: of its copy, and from the failure after an
\* informational response to the end of the loop, which finds it cannot retry.
LEMMA AnsweredStep ==
    ASSUME Structure, NEW r \in Request, req[r].answer # "none", Step(r)
    PROVE  \/ AttemptSucceeds(r) \/ AttemptAborts(r) \/ Release(r)
           \/ MarkSuccess(r) \/ MarkFailed(r) \/ Fetch(r) \/ GiveUp(r)
<1>1. /\ RequestInv(r)
      /\ \/ req[r].pc \in {"done", "copy"}
         \/ req[r].pc \in {"release", "mark"}
         \/ /\ req[r].pc \in {"fetch", "select"}
            /\ req[r].tried # {} /\ req[r].wrote = "header"
  BY DEF Structure, RequestInv, At, Responded, FailedAfterHeader
<1>2. CASE req[r].pc \in {"fetch", "select"}
  BY <1>1, <1>2 DEF Step, GatewayStep, ClientStep, At, Select, SelectFails, CannotRetry, IsRetry,
       Reject, EnterProxy, SnapshotFails, Snapshot, TotalTimeout, BeginAttempt, AttemptFails,
       ResponseBegins, AttemptSucceeds, AttemptAborts, Release, MarkSuccess, MarkFailed
<1>3. CASE req[r].pc \in {"done", "copy", "release", "mark"}
  BY <1>3 DEF Step, GatewayStep, ClientStep, At, Fetch, Select, SelectFails, GiveUp,
       Reject, EnterProxy, SnapshotFails, Snapshot, TotalTimeout, BeginAttempt, AttemptFails,
       ResponseBegins
<1>4. QED
  BY <1>1, <1>2, <1>3

\* After anything was written to a client, nothing but what the loop's end and
\* the code around it add reaches it.
LEMMA AnswersAreKept ==
    ASSUME Structure, [Next]_vars, NEW r \in Request, req[r].answer # "none"
    PROVE  KeepsAnswer(r)
<1>1. /\ req \in [Request -> Locals] /\ req[r] \in Locals /\ RequestInv(r)
      /\ req[r].answer \in Answers
  BY RecordFields DEF Structure, TypeOK
<1>2. req[r].pc \notin {"idle", "attempt"}
  BY <1>1 DEF RequestInv, At, Responded, FailedAfterHeader
<1>3. ASSUME NEW q \in Request, q # r,
             \/ Step(q)
             \/ \E version \in Version : Arrive(q, version) \/ ArriveWithoutNodes(q, version)
      PROVE  req'[r] = req[r]
  BY <1>1, <1>3 DEF Step, GatewayStep, ClientStep, Arrive, ArriveWithoutNodes, Fetch, Select,
       SelectFails, GiveUp, Reject, SnapshotFails, Snapshot, EnterProxy, TotalTimeout,
       BeginAttempt, ResponseBegins, AttemptSucceeds, AttemptFails, AttemptAborts, Release,
       MarkSuccess, MarkFailed, Goto, Finish
<1>4. CASE Step(r)
  <2>1. \/ AttemptSucceeds(r) \/ AttemptAborts(r) \/ Release(r)
        \/ MarkSuccess(r) \/ MarkFailed(r) \/ Fetch(r) \/ GiveUp(r)
    BY <1>4, AnsweredStep
  <2>2. CASE Release(r) \/ Fetch(r)
    <3>1. PICK stage \in {"mark", "select"} : Goto(r, stage)
      BY <2>2 DEF Release, Fetch
    <3>2. req'[r].pc = stage /\ req'[r].answer = req[r].answer
      BY <1>1, <3>1, ConstantMembers, GotoRequest
    <3>3. QED
      BY <3>2 DEF KeepsAnswer
  <2>3. CASE MarkSuccess(r)
    BY <1>1, <2>3, FinishedRequest DEF MarkSuccess, KeepsAnswer
  <2>4. CASE AttemptAborts(r)
    <3>1. req[r].answer = "upstream" /\ Finish(r, "mixed") /\ "mixed" \in Answers
      BY <1>1, <2>4, ConstantMembers
      DEF AttemptAborts, At, RequestInv, Responded, FailedAfterHeader
    <3>2. QED
      BY <1>1, <3>1, FinishedRequest DEF KeepsAnswer
  <2>5. CASE GiveUp(r)
    <3>1. req[r].answer = "partial" /\ Finish(r, "implicit200") /\ "implicit200" \in Answers
      BY <1>1, <2>5, ConstantMembers DEF GiveUp, At, RequestInv, Responded, FailedAfterHeader
    <3>2. QED
      BY <1>1, <3>1, FinishedRequest DEF KeepsAnswer
  <2>6. CASE MarkFailed(r)
    <3>1. req' = [req EXCEPT ![r] = [req[r] EXCEPT !.pc = "fetch", !.current = NoNode]]
      BY <2>6 DEF MarkFailed
    <3>2. "fetch" \in Stages /\ NoNode \in Node \cup {NoNode}
      BY ConstantMembers
    <3>3. req'[r].pc = "fetch" /\ req'[r].answer = req[r].answer
      BY <1>1, <3>1, <3>2, CurrentRequest
    <3>4. QED
      BY <3>3 DEF KeepsAnswer
  <2>7. CASE AttemptSucceeds(r)
    <3>1. req'[r] = [req[r] EXCEPT !.pc = "release", !.outcome = "ok"]
      BY <1>1, <2>7 DEF AttemptSucceeds
    <3>2. req'[r].pc = "release" /\ req'[r].answer = req[r].answer
      BY <1>1, <3>1 DEF Locals
    <3>3. QED
      BY <3>2 DEF KeepsAnswer
  <2>8. QED
    BY <2>1, <2>2, <2>3, <2>4, <2>5, <2>6, <2>7
<1>5. ~ \E version \in Version : Arrive(r, version) \/ ArriveWithoutNodes(r, version)
  BY <1>2 DEF Arrive, ArriveWithoutNodes, At
<1>6. req'[r] = req[r] => KeepsAnswer(r)
  BY <1>2 DEF KeepsAnswer
<1>7. CASE TimePasses \/ UNCHANGED vars
  BY <1>6, <1>7 DEF TimePasses, vars
<1>8. QED
  BY <1>3, <1>4, <1>5, <1>6, <1>7 DEF Next, AllDone

\* The failover loop answers a client once: after anything an attempt wrote, an
\* informational response included, neither another attempt nor a 502 follows.
THEOREM OneAnswer == Spec => AnswersOnce
<1>1. Structure /\ [Next]_vars =>
        [\A r \in Request : req[r].answer # "none" =>
          /\ req'[r].pc # "attempt"
          /\ \/ req'[r].answer = req[r].answer
             \/ req[r].answer = "upstream" /\ req'[r].answer = "mixed"
             \/ req[r].answer = "partial" /\ req'[r].answer = "implicit200"]_vars
  BY AnswersAreKept DEF KeepsAnswer
<1>2. QED
  BY <1>1, StructureHolds, PTL DEF Spec, AnswersOnce

-----------------------------------------------------------------------------
(* Rebuilding the table.                                                   *)

\* Only getRuntimeNodes replaces the table.
LEMMA OnlyFetchRebuilds ==
    ASSUME Structure, [Next]_vars, table' # table
    PROVE  \E r \in Request : req[r].service \in Version /\ RebuildNodes(r, req[r].service)
<1>1. PICK r \in Request : Fetch(r)
  <2>1. ASSUME NEW r \in Request, NEW version \in Version,
               Arrive(r, version) \/ ArriveWithoutNodes(r, version)
        PROVE  FALSE
    BY <2>1 DEF Arrive, ArriveWithoutNodes, lbVars
  <2>2. ASSUME NEW r \in Request, Step(r), ~Fetch(r)
        PROVE  FALSE
    BY <2>2 DEF Step, GatewayStep, ClientStep, Select, SelectFails, GiveUp, Reject,
         SnapshotFails, Snapshot, EnterProxy, TotalTimeout, BeginAttempt, ResponseBegins, AttemptSucceeds, AttemptFails, AttemptAborts, Release,
         MarkSuccess, MarkFailed, SelectNode, SelectNothing, ReleaseNodeRequest,
         MarkNodeSuccess, MarkNodeFailure, MarkNodeMaxConn, Mark, lbVars
  <2>3. ~TimePasses /\ ~UNCHANGED vars
    BY DEF TimePasses, Tick, vars
  <2>4. QED
    BY <2>1, <2>2, <2>3 DEF Next, AllDone
<1>2. req[r].service \in Version
  BY <1>1 DEF Structure, RequestInv, Fetch, At, Matched
<1>3. RebuildNodes(r, req[r].service)
  BY <1>1 DEF Fetch, getRuntimeNodes, FetchNodes
<1>4. QED
  BY <1>2, <1>3

\* Every node that stays in a rebuilt table keeps all but its configuration.
LEMMA RebuiltNodesKeepState ==
    ASSUME Structure, [Next]_vars, HasTable, table' # table,
           NEW n \in DOMAIN heap[table], n \in DOMAIN heap'[table']
    PROVE  [heap'[table'][n] EXCEPT !.conf = 0] = [heap[table][n] EXCEPT !.conf = 0]
<1>1. LBTypeOK /\ table \in Generation /\ heap[table][n] \in NodeState
  BY DEF Structure, TypeOK, LBTypeOK, HasTable, IsTableOf
<1>2. PICK r \in Request : req[r].service \in Version /\ RebuildNodes(r, req[r].service)
  BY OnlyFetchRebuilds
<1> DEFINE v == req[r].service
<1>3. PICK g \in Generation :
         table' = g /\ heap' = Collected([heap EXCEPT ![g] = Rebuilt(v)], table', slice')
  BY <1>2 DEF RebuildNodes
<1>4. heap'[table'] = Rebuilt(v)
  BY <1>1, <1>3 DEF Collected, InUse, LBTypeOK
<1>5. n \in DOMAIN Config[v] /\ Current = heap[table]
  BY <1>4 DEF Rebuilt, Current
<1>6. heap'[table'][n] = [heap[table][n] EXCEPT !.conf = Config[v][n]]
  BY <1>4, <1>5 DEF Rebuilt
<1>7. \A c : \A node \in NodeState :
         [[node EXCEPT !.conf = c] EXCEPT !.conf = 0] = [node EXCEPT !.conf = 0]
  BY DEF NodeState
<1>8. QED
  BY <1>1, <1>6, <1>7

\* A configuration change does not reopen a failing node, forget the requests on
\* it or restart its round robin.
THEOREM RebuildIsSafe == Spec => RebuildKeepsNodeState
<1>1. Structure /\ [Next]_vars =>
        [ HasTable /\ table' # table =>
            \A n \in DOMAIN heap[table] \cap DOMAIN heap'[table'] :
              [heap'[table'][n] EXCEPT !.conf = 0] = [heap[table][n] EXCEPT !.conf = 0] ]_vars
  BY RebuiltNodesKeepState
<1>2. QED
  BY <1>1, StructureHolds, PTL DEF Spec, RebuildKeepsNodeState

=============================================================================
