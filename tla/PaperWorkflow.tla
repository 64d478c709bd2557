--------------------------- MODULE PaperWorkflow ---------------------------
(***************************************************************************)
(* The rules of a paper trade, as pure operators: which human decisions,   *)
(* opens and closes hedge_desk/paper/workflow.py accepts, the operational  *)
(* action it selects for an open position, and the outcome the settler     *)
(* derives.  Nothing here has state; PaperLifecycle applies these rules to *)
(* the files the runner, the reviewers and the settler share.              *)
(*                                                                         *)
(* A plan is identified by its plan_hash.  The hash covers every material  *)
(* field of the plan (and not its authorization), so a hash determines     *)
(* those fields: Terms[h] is what the properties need of them.             *)
(***************************************************************************)
EXTENDS Integers

CONSTANTS
    PlanIds,    \* plan identities; one plan file per identity
    PlanHashes, \* every plan ever created; re-issuing an id makes a new hash
    None,       \* no hash, no identity, no outcome
    Terms,      \* [PlanHashes -> TermsRecord]
    DayLength   \* instants in a calendar day

(* The material terms of a plan.  Instants and dates are naturals.         *)
TermsRecord ==
    [ id          : PlanIds,
      machine     : {"PASS", "REJECT"},   \* risk decision is RISK_PASS or not
      compliance  : {"PASS", "BLOCK"},    \* Back Office decision
      quotedAt    : Nat,                  \* latest of the two leg quotes
      quoteMaxAge : Nat \ {0},
      expires     : Nat,                  \* approval_expires_at
      plannedExit : Nat,                  \* a date
      expiration  : Nat ]                 \* a date

ASSUME TermsAssumption == Terms \in [PlanHashes -> TermsRecord]
ASSUME NoneAssumption == None \notin PlanHashes /\ None \notin PlanIds
ASSUME DayAssumption == DayLength \in Nat \ {0}

Verdicts == {"APPROVED", "REJECTED"}
Signs == {-1, 0, 1}                \* sign of a realised profit or loss
Date(t) == t \div DayLength

-----------------------------------------------------------------------------
(* A plan is created before its approval window ends; a machine rejection  *)
(* or a compliance block still yields a (never approvable) plan, and the   *)
(* quotes' instants are not looked at.  The other refusals (event gate,    *)
(* identities, portfolio snapshot, policy version, artifact ages) speak of *)
(* terms kept out of this model: a refused plan is one never issued.       *)
CanCreate(h, now) == now < Terms[h].expires

(* Seeded fault: a decided plan may be decided again.                      *)
CanRejectAgain(h, auth, now) == now <= Terms[h].expires

(* A human decision is final, and made inside the approval window.  Only   *)
(* the approval is subject to the machine and compliance gates.            *)
CanReject(h, auth, now) == auth = "PENDING" /\ now <= Terms[h].expires

CanApprove(h, auth, now) ==
    /\ CanReject(h, auth, now)
    /\ Terms[h].machine = "PASS"
    /\ Terms[h].compliance = "PASS"

CanDecide(h, auth, verdict, now) ==
    IF verdict = "APPROVED" THEN CanApprove(h, auth, now)
                            ELSE CanReject(h, auth, now)

(* Seeded fault: quotes may be of any age.                                 *)
QuotesNotFuture(h, now) == Terms[h].quotedAt <= now

(* Age of the quotes the plan was priced with, neither future nor stale.   *)
QuotesFresh(h, now) ==
    /\ Terms[h].quotedAt <= now
    /\ now <= Terms[h].quotedAt + Terms[h].quoteMaxAge

(* The fill check: the executable market must still meet the plan's terms. *)
FillReady(h, auth, marketMeetsTerms, now) ==
    /\ auth = "APPROVED"
    /\ Terms[h].machine = "PASS"
    /\ Terms[h].compliance = "PASS"
    /\ marketMeetsTerms
    /\ QuotesFresh(h, now)

CanExecuteOpen(h, auth, now) ==
    /\ auth = "APPROVED"
    /\ Terms[h].compliance = "PASS"
    /\ now <= Terms[h].expires
    /\ QuotesFresh(h, now)

(* A close follows its open and is made under the same, approved plan.     *)
CanClose(h, auth, open, now) ==
    /\ now > open.at
    /\ auth = "APPROVED"
    /\ open.hash = h

-----------------------------------------------------------------------------
(* What the lifecycle provider reports of an open position.                *)
LifecycleFlags ==
    [ adjusting : BOOLEAN, settled : BOOLEAN, assigned : BOOLEAN,
      itm : BOOLEAN, exDividend : BOOLEAN ]

(* A provider that raises is read as an adjustment with unconfirmed terms. *)
ProviderFailed ==
    [ adjusting |-> TRUE, settled |-> FALSE, assigned |-> FALSE,
      itm |-> FALSE, exDividend |-> FALSE ]

EscalationActions ==
    { "BLOCK_AND_ESCALATE", "ASSIGNMENT_RECONCILIATION_REQUIRED",
      "EXPIRATION_RECONCILIATION_REQUIRED", "CLOSE_REVIEW_REQUIRED" }

(* The first condition that holds selects the action.                      *)
LifecycleAction(h, flags, now) ==
    IF flags.adjusting \/ ~flags.settled THEN "BLOCK_AND_ESCALATE"
    ELSE IF flags.assigned THEN "ASSIGNMENT_RECONCILIATION_REQUIRED"
    ELSE IF Date(now) >= Terms[h].expiration
         THEN "EXPIRATION_RECONCILIATION_REQUIRED"
    ELSE IF \/ flags.itm /\ flags.exDividend
            \/ Date(now) >= Terms[h].plannedExit
         THEN "CLOSE_REVIEW_REQUIRED"
    ELSE "MONITOR"

-----------------------------------------------------------------------------
Outcomes ==
    { "CLOSED_GAIN", "CLOSED_LOSS", "STOPPED",
      "EXPIRED_WORTHLESS", "ASSIGNED", "UNKNOWN" }

CloseOutcomes == {"CLOSED_GAIN", "CLOSED_LOSS", "STOPPED"}

OutcomeForRealizedPnl(pnl) ==
    IF pnl > 0 THEN "CLOSED_GAIN"
    ELSE IF pnl < 0 THEN "CLOSED_LOSS" ELSE "STOPPED"

(* What the market-data provider lets the settler observe of the short leg *)
(* at expiration: nothing usable, or the sign of its intrinsic value.      *)
Observations == {"UNAVAILABLE", "NEGATIVE", "ZERO", "POSITIVE"}

ExpirationOutcome(seen) ==
    CASE seen = "ZERO"     -> "EXPIRED_WORTHLESS"
      [] seen = "POSITIVE" -> "ASSIGNED"
      [] OTHER             -> "UNKNOWN"
=============================================================================
