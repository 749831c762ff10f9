--------------------------- MODULE HealthManager ---------------------------
(***************************************************************************)
(* The health manager (internal/service/healthManager), the loops that     *)
(* probe the dependencies (internal/storage) and the mail a loop sends     *)
(* when the status changes (internal/service/email).                       *)
(*                                                                         *)
(* A dependency has one loop, the only caller of Report for it, and a      *)
(* reader sees nothing but the status, which changes in one step: Report   *)
(* is one action.  The mail is sent by the loop itself, so that it probes  *)
(* nothing until the mail is sent or given up.  A loop whose probe does    *)
(* not return reports nothing: the database is pinged without a context    *)
(* and its connections have no timeouts (db.go), Redis has two seconds.    *)
(***************************************************************************)
EXTENDS Integers

CONSTANTS
    Dep,                              \* "DB", "Redis", "IPDB"
    Untimed,                          \* those whose probe has no timeout: "DB"
    FailThreshold, OKThreshold,       \* of each
    MaxRetry,                         \* email max-retry, 3 when not positive
    Bound                             \* a bound on the counters nobody reads

ASSUME HealthConstants ==
    /\ Untimed \subseteq Dep
    /\ FailThreshold \in [Dep -> Int] /\ OKThreshold \in [Dep -> Int]
    /\ MaxRetry \in Int
    /\ Bound \in Nat
    /\ \A d \in Dep : Bound >= FailThreshold[d] /\ Bound >= OKThreshold[d]

VARIABLES
    up,               \* external: a probe succeeds, fails or does not return
    status,
    failCount, successCount,
    mail,             \* the attempts left to the loop that sends a mail
    probe             \* history: the last probe, and a turn each one changes

healthVars == <<up, status, failCount, successCount, mail, probe>>

Reach(d) == {"up", "down"} \cup (IF d \in Untimed THEN {"hung"} ELSE {})

Attempts == (IF MaxRetry <= 0 THEN 3 ELSE MaxRetry) + 1

\* A counter that has passed every threshold is not followed any further.
Capped(n) == IF n > Bound THEN Bound ELSE n

HealthInit ==
    /\ up \in {u \in [Dep -> {"up", "down", "hung"}] : \A d \in Dep : u[d] \in Reach(d)}
    /\ status = [d \in Dep |-> "Healthy"]
    /\ failCount = [d \in Dep |-> 0]
    /\ successCount = [d \in Dep |-> 0]
    /\ mail = [d \in Dep |-> 0]
    /\ probe = [d \in Dep |-> [ok |-> TRUE, turn |-> FALSE]]

IsHealthy(d) == status[d] = "Healthy"

\* External: the dependency fails, hangs or recovers.
Change(d) ==
    /\ \E u \in Reach(d) \ {up[d]} : up' = [up EXCEPT ![d] = u]
    /\ UNCHANGED <<status, failCount, successCount, mail, probe>>

\* The probe of d returned.
Probed(d, ok) == probe' = [probe EXCEPT ![d] = [ok |-> ok, turn |-> ~@.turn]]

\* The status of d changes, which starts the mail.
Becomes(d, s) ==
    /\ status' = [status EXCEPT ![d] = s]
    /\ mail' = [mail EXCEPT ![d] = Attempts]

ReportFailure(d) ==
    LET fails == Capped(failCount[d] + 1)
    IN  /\ mail[d] = 0 /\ up[d] = "down" /\ Probed(d, FALSE)
        /\ successCount' = [successCount EXCEPT ![d] = 0]
        /\ IF fails >= FailThreshold[d] /\ IsHealthy(d)
           THEN Becomes(d, "Unhealthy") /\ failCount' = [failCount EXCEPT ![d] = 0]
           ELSE failCount' = [failCount EXCEPT ![d] = fails] /\ UNCHANGED <<status, mail>>
        /\ UNCHANGED up

\* Bug: a success leaves the failures that were counted.
ReportSuccessKeepsFailuresBug(d) ==
    LET successes == Capped(successCount[d] + 1)
    IN  /\ mail[d] = 0 /\ up[d] = "up" /\ Probed(d, TRUE)
        /\ IF successes >= OKThreshold[d] /\ ~IsHealthy(d)
           THEN Becomes(d, "Healthy") /\ successCount' = [successCount EXCEPT ![d] = 0]
           ELSE successCount' = [successCount EXCEPT ![d] = successes] /\ UNCHANGED <<status, mail>>
        /\ UNCHANGED <<up, failCount>>

\* Bug: the count of successes is set, not incremented.
ReportSuccessSetsBug(d) ==
    /\ mail[d] = 0 /\ up[d] = "up" /\ Probed(d, TRUE)
    /\ failCount' = [failCount EXCEPT ![d] = 0]
    /\ IF 1 >= OKThreshold[d] /\ ~IsHealthy(d)
       THEN Becomes(d, "Healthy") /\ successCount' = [successCount EXCEPT ![d] = 0]
       ELSE successCount' = [successCount EXCEPT ![d] = 1] /\ UNCHANGED <<status, mail>>
    /\ UNCHANGED up

ReportSuccess(d) ==
    LET successes == Capped(successCount[d] + 1)
    IN  /\ mail[d] = 0 /\ up[d] = "up" /\ Probed(d, TRUE)
        /\ failCount' = [failCount EXCEPT ![d] = 0]
        /\ IF successes >= OKThreshold[d] /\ ~IsHealthy(d)
           THEN Becomes(d, "Healthy") /\ successCount' = [successCount EXCEPT ![d] = 0]
           ELSE successCount' = [successCount EXCEPT ![d] = successes] /\ UNCHANGED <<status, mail>>
        /\ UNCHANGED up

Report(d) == ReportFailure(d) \/ ReportSuccess(d)

MailSent(d) ==
    /\ mail[d] > 0
    /\ mail' = [mail EXCEPT ![d] = 0]
    /\ UNCHANGED <<up, status, failCount, successCount, probe>>

\* Bug: after the last attempt the loop begins again.
MailFailsForEverBug(d) ==
    /\ mail[d] > 0
    /\ mail' = [mail EXCEPT ![d] = IF @ = 1 THEN Attempts ELSE @ - 1]
    /\ UNCHANGED <<up, status, failCount, successCount, probe>>

\* An attempt fails or times out; after the last the loop gives up.
MailFails(d) ==
    /\ mail[d] > 0
    /\ mail' = [mail EXCEPT ![d] = @ - 1]
    /\ UNCHANGED <<up, status, failCount, successCount, probe>>

SendMail(d) == MailSent(d) \/ MailFails(d)

HealthNext == \E d \in Dep : Change(d) \/ Report(d) \/ SendMail(d)

HealthSpec == HealthInit /\ [][HealthNext]_healthVars

-----------------------------------------------------------------------------
HealthTypeOK ==
    /\ up \in [Dep -> {"up", "down", "hung"}] /\ \A d \in Dep : up[d] \in Reach(d)
    /\ probe \in [Dep -> [ok : BOOLEAN, turn : BOOLEAN]]
    /\ status \in [Dep -> {"Healthy", "Unhealthy"}]
    /\ failCount \in [Dep -> 0 .. Bound] /\ successCount \in [Dep -> 0 .. Bound]
    /\ mail \in [Dep -> 0 .. Attempts]

Promised == INSTANCE Hysteresis WITH
    healthy <- [d \in Dep |-> IsHealthy(d)],
    contrary <- [d \in Dep |-> IF IsHealthy(d) THEN failCount[d] ELSE successCount[d]]

\* The status changes with the threshold-th probe in a row against it, and not
\* before: a probe that agrees with the status in between, whatever it is, ends
\* the row (healthManager.go:83, 105), and the two counters together keep that
\* one count.
ImplementsHysteresis == Promised!Spec
=============================================================================
