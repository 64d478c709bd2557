---------------------------- MODULE ScheduledRuns ----------------------------
(***************************************************************************)
(* Scheduled paper evaluations: hedge_desk/scheduler.py and the health     *)
(* verdict of hedge_desk/operational_health.py.  The caller keeps a ledger *)
(* of receipts, hands it to each execution and replaces it by the result.  *)
(* Between two executions a receipt of the ledger may be altered.          *)
(***************************************************************************)
EXTENDS Naturals, Sequences, FiniteSets

CONSTANTS
    Keys,          \* idempotency keys
    NoKey,         \* recovery_of of a request that recovers nothing
    Slots,         \* instants a run may be scheduled for
    MaxReceipts,   \* bound: receipts in the ledger
    MaxTampers     \* bound: alterations of the ledger

ASSUME ScheduleAssumption == /\ NoKey \notin Keys
                             /\ Slots \subseteq Nat
                             /\ MaxReceipts \in Nat
                             /\ MaxTampers \in Nat

VARIABLES
    receipts,  \* the ledger
    tampers,   \* alterations so far
    ran        \* history: for each key, its report builds

schedulerVars == <<receipts, tampers, ran>>

ScheduledRunStatus == {"COMPLETE", "FAILED_CLOSED", "DUPLICATE_SUPPRESSED"}
Request ==
    [key : Keys, at : Slots, recoveryOf : Keys \cup {NoKey}, paper : BOOLEAN]

(* What a build of the report comes to: it raises, validate_report refuses *)
(* the report, the report has no hash, or it is a report to publish.       *)
BuildOutcomes == {"RAISED", "NOT_PUBLISHABLE", "NO_HASH", "PUBLISHABLE"}

BuildRecord == [outcome : BuildOutcomes, recoveryOf : Keys \cup {NoKey}]

(* The fields a receipt's hash covers; the hash itself is the seal: what   *)
(* the fields were when the receipt was made.                              *)
Fields ==
    [key : Keys, at : Slots, status : ScheduledRunStatus, reasoned : BOOLEAN,
     report : BOOLEAN, recoveryOf : Keys \cup {NoKey}]
Receipt == [fields : Fields, seal : Fields]

MakeReceipt(request, status, reasoned, report) ==
    LET f == [key |-> request.key, at |-> request.at, status |-> status,
              reasoned |-> reasoned, report |-> report,
              recoveryOf |-> request.recoveryOf]
    IN [fields |-> f, seal |-> f]

(* Seeded fault: the hash of a receipt is not compared.                    *)
ValidUnsealed(r) ==
    /\ r.fields.recoveryOf # r.fields.key
    /\ IF r.fields.status = "COMPLETE"
         THEN r.fields.report /\ ~r.fields.reasoned
         ELSE ~r.fields.report

\* validate_scheduled_run_receipt finds nothing wrong.
ValidReceipt(r) ==
    /\ r.seal = r.fields
    /\ r.fields.recoveryOf # r.fields.key
    /\ IF r.fields.status = "COMPLETE"
         THEN r.fields.report /\ ~r.fields.reasoned
         ELSE ~r.fields.report

Ledger == {receipts[i] : i \in DOMAIN receipts}
Counts(r, key) == r.fields.key = key /\ r.fields.status # "DUPLICATE_SUPPRESSED"
CountingPlaces(key) == {i \in DOMAIN receipts : Counts(receipts[i], key)}

ValidRecovery(request) ==
    \E i \in DOMAIN receipts :
        /\ CountingPlaces(request.recoveryOf) = {i}
        /\ receipts[i].fields.status = "FAILED_CLOSED"
        /\ receipts[i].fields.at = request.at

Unpermitted(request) ==
    \/ request.recoveryOf # NoKey /\ ~ValidRecovery(request)
    \/ ~request.paper

-----------------------------------------------------------------------------
SchedulerInit ==
    /\ receipts = <<>>
    /\ tampers = 0
    /\ ran = [k \in Keys |-> <<>>]

Issue(request, status, reasoned, report) ==
    receipts' = Append(receipts, MakeReceipt(request, status, reasoned, report))

(* The branches of execute_scheduled_run, in the order of the code.        *)
PriorInvalid(request) ==
    /\ \E r \in Ledger : ~ValidReceipt(r)
    /\ Issue(request, "FAILED_CLOSED", TRUE, FALSE)
    /\ ran' = ran

DuplicateSuppressed(request) ==
    /\ \A r \in Ledger : ValidReceipt(r)
    /\ \E r \in Ledger : Counts(r, request.key)
    /\ Issue(request, "DUPLICATE_SUPPRESSED", TRUE, FALSE)
    /\ ran' = ran

Fresh(request) ==
    /\ \A r \in Ledger : ValidReceipt(r)
    /\ \A r \in Ledger : ~Counts(r, request.key)

RefusedRun(request) ==
    /\ Fresh(request)
    /\ Unpermitted(request)
    /\ Issue(request, "FAILED_CLOSED", TRUE, FALSE)
    /\ ran' = ran

BuildReport(request) ==
    /\ Fresh(request)
    /\ ~Unpermitted(request)
    /\ \E outcome \in BuildOutcomes :
          /\ IF outcome = "PUBLISHABLE"
               THEN Issue(request, "COMPLETE", FALSE, TRUE)
               ELSE Issue(request, "FAILED_CLOSED", TRUE, FALSE)
          /\ ran' = [ran EXCEPT ![request.key] =
                Append(@, [outcome |-> outcome, recoveryOf |-> request.recoveryOf])]

ExecuteScheduledRun ==
    /\ Len(receipts) < MaxReceipts
    /\ \E request \in Request :
          /\ request.recoveryOf # request.key
          /\ \/ PriorInvalid(request)
             \/ DuplicateSuppressed(request)
             \/ RefusedRun(request)
             \/ BuildReport(request)
    /\ UNCHANGED tampers

AlteredFields(f) ==
    {[f EXCEPT !.key = k] : k \in Keys}
    \cup {[f EXCEPT !.at = t] : t \in Slots}
    \cup {[f EXCEPT !.status = s] : s \in ScheduledRunStatus}
    \cup {[f EXCEPT !.reasoned = ~@], [f EXCEPT !.report = ~@]}
    \cup {[f EXCEPT !.recoveryOf = k] : k \in Keys \cup {NoKey}}

\* A field of a stored receipt is altered, or an alteration is undone.
TamperReceipt ==
    /\ tampers < MaxTampers
    /\ \E i \in DOMAIN receipts : \E f \in AlteredFields(receipts[i].fields) :
          /\ f # receipts[i].fields
          /\ receipts' = [receipts EXCEPT ![i].fields = f]
    /\ tampers' = tampers + 1
    /\ UNCHANGED ran

SchedulerNext == ExecuteScheduledRun \/ TamperReceipt

SchedulerSpec == SchedulerInit /\ [][SchedulerNext]_schedulerVars

-----------------------------------------------------------------------------
(* evaluate_paper_run_health over the last receipt, its report and the     *)
(* journal: none of its reasons applies.  The report's own checks are one  *)
(* verdict here; its age is that of the schedule it was built for.         *)
HealthyPaper(reportSound, now, maximumAge) ==
    /\ receipts # <<>>
    /\ LET r == receipts[Len(receipts)]
       IN /\ ValidReceipt(r)
          /\ r.fields.status = "COMPLETE"
          /\ r.fields.at <= now /\ now - r.fields.at <= maximumAge
    /\ reportSound

-----------------------------------------------------------------------------
SchedulerTypeOK ==
    /\ receipts \in Seq(Receipt)
    /\ tampers \in 0..MaxTampers
    /\ ran \in [Keys -> Seq(BuildRecord)]

RunsAtMostOnce == \A k \in Keys : Len(ran[k]) <= 1

Published(k) == \E i \in DOMAIN ran[k] : ran[k][i].outcome = "PUBLISHABLE"

CompleteMeansPublished ==
    \A r \in Ledger :
        ValidReceipt(r) /\ r.fields.status = "COMPLETE" => Published(r.fields.key)

RecoversAFailure ==
    \A k \in Keys : \A i \in DOMAIN ran[k] :
        ran[k][i].recoveryOf # NoKey => ~Published(ran[k][i].recoveryOf)

HealthyMeansPublished ==
    \A now \in Slots :
        HealthyPaper(TRUE, now, now) => Published(receipts[Len(receipts)].fields.key)

\* "Execute at most once and never convert an exception into a pass"
\* (scheduler.py:156), for a ledger that is handed on from run to run: however
\* receipts were altered in between, and whatever was retried or recovered, a
\* report is built once at most for a key, a receipt that validates as
\* COMPLETE (and so a HEALTHY_PAPER verdict) stands for a build that was
\* publishable, and no run recovered a run that had succeeded.
KeyRunsOnce ==
    /\ RunsAtMostOnce
    /\ CompleteMeansPublished
    /\ RecoversAFailure
    /\ HealthyMeansPublished
=============================================================================
