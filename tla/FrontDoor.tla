----------------------------- MODULE FrontDoor -----------------------------
(***************************************************************************)
(* The front of the middleware chain (cmd/server/routes.go): the health    *)
(* check, then the concurrency limit, then the rest of the chain.          *)
(*                                                                         *)
(* HealthCheck (internal/middleware/healthCheck.go) asks for one           *)
(* dependency after another, while their loops change the status: a        *)
(* request may pass although no moment found all of them healthy.          *)
(***************************************************************************)
EXTENDS ConcurrencyLimiter, HealthManager, Sequences

CONSTANT Deps         \* the list of HealthCheck; one that was never registered
                      \* is not in Dep, and is not healthy

ASSUME FrontConstants == Deps \in Seq(STRING) /\ Deps # << >>

VARIABLE checked      \* how many dependencies a request has found healthy

frontVars == <<vars, healthVars, checked>>

-----------------------------------------------------------------------------
FrontInit == Init /\ HealthInit /\ checked = [r \in Request |-> 0]

\* The next dependency is healthy, or the request is answered with an error.
HealthCheck(r) ==
    /\ r \notin serving /\ checked[r] < Len(Deps)
    /\ LET d == Deps[checked[r] + 1] IN
        checked' = [checked EXCEPT ![r] = IF d \in Dep /\ IsHealthy(d) THEN @ + 1 ELSE 0]
    /\ UNCHANGED <<vars, healthVars>>

\* Bug: what the check found is kept for the next request.
ConcurrencyLimitKeepsCheckBug(r) ==
    /\ checked[r] = Len(Deps)
    /\ \/ Acquire(r) /\ UNCHANGED checked
       \/ current >= max /\ checked' = [checked EXCEPT ![r] = 0] /\ UNCHANGED vars
    /\ UNCHANGED healthVars

\* ConcurrencyLimit admits the request, or answers that the gateway is busy.
ConcurrencyLimit(r) ==
    /\ checked[r] = Len(Deps)
    /\ checked' = [checked EXCEPT ![r] = 0]
    /\ \/ Acquire(r)
       \/ current >= max /\ UNCHANGED vars
    /\ UNCHANGED healthVars

Leave(r) == Release(r) /\ UNCHANGED <<healthVars, checked>>

FrontNext ==
    \/ \E r \in Request : HealthCheck(r) \/ ConcurrencyLimit(r) \/ Leave(r)
    \/ recalculateMaxConcurrency /\ UNCHANGED <<healthVars, checked>>
    \/ HealthNext /\ UNCHANGED <<vars, checked>>

\* The ticker of the limiter and those of the loops keep firing, and an attempt
\* to send a mail ends with its timeout.  Nothing is asked of a probe that
\* hangs, nor of the requests: the server has no timeout that would end one.
FrontFairness ==
    /\ Fairness
    /\ \A d \in Dep : WF_healthVars(Report(d)) /\ WF_healthVars(SendMail(d))

FrontSpec == FrontInit /\ [][FrontNext]_frontVars /\ FrontFairness

-----------------------------------------------------------------------------
FrontTypeOK ==
    /\ HealthTypeOK
    /\ checked \in [Request -> 0 .. Len(Deps)]
    /\ \A r \in serving : checked[r] = 0

\* A dependency whose probes keep failing closes the gateway: the requests that
\* had passed the check may still come in, and then none is admitted any more,
\* even if no mail about it can be sent.  A database that hangs does not: its
\* loop reports nothing.
DoorCloses == (\E i \in DOMAIN Deps : <>[](up[Deps[i]] = "down")) => <>[][serving' \subseteq serving]_serving

\* Dependencies that stay up open it again, whatever happened before, probes
\* that hung included, and even if no mail about it can be sent.
DoorOpens ==
    (\A i \in DOMAIN Deps : <>[](up[Deps[i]] = "up")) => <>[](\A i \in DOMAIN Deps : IsHealthy(Deps[i]))
=============================================================================
