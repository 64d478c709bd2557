--------------------------- MODULE MorningReport ---------------------------
(***************************************************************************)
(* The morning report of the reference desks.  A commit of the code builds *)
(* its report from the fixtures it carries; the report leaves the process  *)
(* as JSON, may be edited and sealed again before it is read back, and is  *)
(* shown or compared only when the code then deployed finds it valid.      *)
(*                                                                         *)
(* Hashes are contents: an artifact's sha256 is the inputs of the payload  *)
(* it digests, the rest of the payload being computed from them.           *)
(***************************************************************************)
EXTENDS Integers, Sequences, FiniteSetsExt, Functions

CONSTANTS
    Commits,     \* the fixtures that successive commits carry (see the ASSUME)
    MaxReports,  \* bound on the reports built
    MaxEdits,    \* bound on the edits of the stored reports
    MaxDeploys   \* bound on the commits deployed after the first

(* plan, riskInput, payload, positions and batch name artifacts; gap and   *)
(* sameMonth place the last entry; weights are percents; suites gives, by  *)
(* suite, the scenarios and how many of them end in NO_TRADE.              *)
ASSUME CommitsAssumption ==
    \A c \in Commits :
        /\ {c.plan, c.riskInput, c.payload, c.positions} \subseteq Nat
        /\ c.gap \in Int /\ c.sameMonth \in BOOLEAN
        /\ \A a \in DOMAIN c.weights : c.weights[a] \in Nat
        /\ {c.dataPass, c.riskPass, c.compliancePass} \subseteq BOOLEAN
        /\ IsFiniteSet(DOMAIN c.suites)
        /\ \A s \in DOMAIN c.suites :
               c.suites[s].scenarios \in Nat /\ c.suites[s].noTrade \in 0..c.suites[s].scenarios

VARIABLES
    deployed,   \* the commit that runs now
    deploys,    \* how often another commit was deployed
    reports,    \* the stored reports: [content, seal]
    edited,     \* how often a stored report was edited
    shown       \* what the last step showed of the reports, and by which commit
morningVars == <<deployed, deploys, reports, edited, shown>>

Unpublished == [kind |-> "NONE"]

\* the reason codes of the tests that hold
Reasons(tests) == {r \in DOMAIN tests : tests[r]}

-----------------------------------------------------------------------------
(* The gates whose results a report carries beside the layers that cite    *)
(* them; each validator evaluates the gate again from the inputs stated.   *)
Reconcile(in) ==
    LET reasons == Reasons(
            [RECONCILIATION_PLAN_HASH_INVALID |-> in.plan = 0,
             RECONCILIATION_POSITION_HASH_INVALID |-> 0 \in {in.internal, in.broker},
             POSITION_LEDGER_MISMATCH |-> 0 \notin {in.internal, in.broker}
                                          /\ in.internal # in.broker,
             CASH_LEDGER_MISMATCH |-> in.internalCash # in.brokerCash,
             UNRESOLVED_FILL_EXCEPTIONS |-> in.fills > 0,
             UNRESOLVED_LIFECYCLE_EXCEPTIONS |-> in.lifecycles > 0])
    IN [input |-> in, pass |-> reasons = {}, reasons |-> reasons,
        liveEligible |-> FALSE, artifact |-> in]
ValidReconciliation(v) == v = Reconcile(v.input)

MinimumDays == 21
EvaluateCadence(in) ==
    LET reasons == Reasons(
            [LAST_ENTRY_FROM_FUTURE |-> in.gap < 0,
             MONTHLY_NEW_ENTRY_ALREADY_EVALUATED |-> in.sameMonth,
             MINIMUM_ENTRY_INTERVAL_NOT_REACHED |-> in.gap < MinimumDays])
    IN [input |-> in, allowed |-> reasons = {}, monitoring |-> TRUE,
        reasons |-> reasons, authorized |-> FALSE, artifact |-> in]
ValidCadence(v) == v = EvaluateCadence(v.input)

ReferencePolicy == [classes |-> 4, single |-> 40, cape |-> 30, equity |-> 30]
Weight(weights, a) == IF a \in DOMAIN weights THEN weights[a] ELSE 0
Total(f) == FoldFunction(+, 0, f)
EvaluateAllocation(in) ==
    LET w == in.weights
        reasons == Reasons(
            [ALLOCATION_WEIGHT_INVALID |-> \E a \in DOMAIN w : w[a] > 100,
             ALLOCATION_WEIGHTS_DO_NOT_SUM_TO_ONE |-> Total(w) # 100,
             ALLOCATION_DIVERSIFICATION_INSUFFICIENT |->
                 Quantify(DOMAIN w, LAMBDA a : w[a] > 0) < in.policy.classes,
             ASSET_CLASS_CONCENTRATION_LIMIT |->
                 \E a \in DOMAIN w : w[a] > in.policy.single,
             PORTFOLIO_CAPE_INVALID |-> in.cape <= 0,
             HIGH_CAPE_US_EQUITY_CONCENTRATION |->
                 in.cape >= in.policy.cape
                 /\ Weight(w, "US_EQUITY") > in.policy.equity])
    IN [input |-> in, admissible |-> reasons = {}, reasons |-> reasons,
        ruinCalculated |-> FALSE, authorized |-> FALSE, artifact |-> in]
ValidAllocation(v) == v = EvaluateAllocation(v.input)

\* evidence: what is known of each requirement, [satisfied, hashed]
ReleaseRequirements == {"BROKER_ORDER_ADAPTER_CERTIFIED", "MODEL_VV_APPROVED"}
EvaluateRelease(evidence) ==
    LET open == {q \in ReleaseRequirements :
                    q \in DOMAIN evidence =>
                        ~(evidence[q].satisfied /\ evidence[q].hashed)}
    IN [evidence |-> evidence, blocked |-> open # {}, reasons |-> open,
        authorized |-> FALSE, override |-> FALSE]
ValidRelease(v) == v = EvaluateRelease(v.evidence)

-----------------------------------------------------------------------------
(* The timeline of the decision and its audit chain.                       *)
PendingOrder == <<"SOURCE_PUBLISHED", "SYSTEM_RECEIVED", "VALIDATION_COMPLETE",
                  "CANDIDATE_CREATED", "RISK_COMPLETE", "COMPLIANCE_COMPLETE",
                  "HUMAN_PENDING">>
ExecutedOrder == SubSeq(PendingOrder, 1, 6) \o <<"HUMAN_APPROVED", "PAPER_FILL", "EXIT">>

Kinds(events) == [i \in DOMAIN events |-> events[i].kind]
TimelineSound(events) ==
    /\ Kinds(events) \in {PendingOrder, ExecutedOrder}
    /\ \A i \in DOMAIN events : /\ events[i].event <= events[i].received
                                /\ events[i].artifact # <<>>
    /\ \A i \in 1 .. Len(events) - 1 : events[i].received <= events[i + 1].received

At(kind, second, artifact) ==
    [kind |-> kind, event |-> second, received |-> second, artifact |-> artifact]
ReplayArtifact(c) ==
    <<<<"chain">>, <<"chain">>, <<"payload", c.payload>>, <<"spread", c.plan>>,
      <<"risk", c.riskInput>>, <<"breaker", c.plan>>, <<"plan", c.plan>>>>
BuildReplay(c) ==
    LET events == [i \in 1..7 |-> At(PendingOrder[i], i - 1, ReplayArtifact(c)[i])]
    IN [events |-> events, valid |-> TimelineSound(events)]
ReferenceReplay ==
    [i \in 1..9 |-> At(ExecutedOrder[i], IF i = 9 THEN 3600 ELSE i - 1, <<"reference">>)]
ValidReplay(v) == v.valid = TimelineSound(v.events)

\* broken: the events whose content or place is not the one their hash names
BuildAudit(c) == [artifacts |-> ReplayArtifact(c), broken |-> {},
                  valid |-> TRUE, complete |-> TRUE]
ValidAudit(v) == /\ v.valid = (v.broken = {})
                 /\ v.complete = (v.broken = {})

-----------------------------------------------------------------------------
(* One build.                                                              *)
BuildReconciliation(c) ==
    Reconcile([plan |-> c.plan, internal |-> c.positions, broker |-> c.positions,
               internalCash |-> 100000, brokerCash |-> 100000,
               fills |-> 0, lifecycles |-> 0])
BuildCadence(c) == EvaluateCadence([gap |-> c.gap, sameMonth |-> c.sameMonth])
BuildAllocation(c) ==
    EvaluateAllocation([weights |-> c.weights, cape |-> c.cape, policy |-> ReferencePolicy])
BuildRelease ==
    EvaluateRelease([q \in ReleaseRequirements |-> [satisfied |-> FALSE, hashed |-> FALSE]])
ReferenceBatch(c) == [status |-> "READY_FOR_RESEARCH", sources |-> c.batch, manifest |-> c.batch]

Premium == "overnight-premium-desk"
ResearchOnly == {"earnings-event-desk", "arbitrage-observer", "dividend-opportunity-desk",
                 "open-quant-ai-model-lab", "event-futures-desk"}

\* the artifacts that the layers of the premium project cite
PremiumLayers(c) ==
    [OBSERVED |-> <<"payload", c.payload>>,
     BIG |-> BuildCadence(c).artifact,
     DETERMINISTIC_RISK |-> [input |-> <<"risk", c.riskInput>>,
                             allocation |-> BuildAllocation(c).artifact],
     DETERMINISTIC_COMPLIANCE |-> BuildReconciliation(c).artifact,
     HUMAN |-> <<"plan", c.plan>>]
PremiumDisposition(c) ==
    IF /\ c.dataPass
       /\ c.riskPass /\ BuildAllocation(c).admissible
       /\ c.compliancePass /\ BuildReconciliation(c).pass
    THEN "HUMAN_REVIEW" ELSE "NO_TRADE"
EvaluateProjects(c) ==
    [disposition |-> [p \in ResearchOnly \union {Premium} |->
                         IF p = Premium THEN PremiumDisposition(c) ELSE "NO_TRADE"],
     layers |-> PremiumLayers(c)]

CountOf(projects, d) ==
    Quantify(DOMAIN projects.disposition, LAMBDA p : projects.disposition[p] = d)
Summary(projects) == [evaluated |-> Cardinality(DOMAIN projects.disposition),
                      review |-> CountOf(projects, "HUMAN_REVIEW"),
                      noTrade |-> CountOf(projects, "NO_TRADE")]

GameManifest(c) == [count |-> Total([s \in DOMAIN c.suites |-> c.suites[s].scenarios]),
                fixture |-> c.suites]
WarGames(c) ==
    [manifest |-> GameManifest(c), total |-> GameManifest(c).count,
     bySuite |-> [s \in DOMAIN c.suites |-> c.suites[s].scenarios],
     noTrade |-> Total([s \in DOMAIN c.suites |-> c.suites[s].noTrade])]
StressOf(c) == [scenarios |-> 5, metrics |-> c.stress, pnl |-> 0]

BuildMorning(c) ==
    [claims |-> [paper |-> TRUE, realPnl |-> 0, realTrades |-> 0, promise |-> FALSE],
     projects |-> EvaluateProjects(c), summary |-> Summary(EvaluateProjects(c)),
     reconciliation |-> BuildReconciliation(c), cadence |-> BuildCadence(c),
     allocation |-> BuildAllocation(c), replay |-> BuildReplay(c),
     audit |-> BuildAudit(c), batch |-> ReferenceBatch(c),
     stat |-> [inferred |-> FALSE], war |-> WarGames(c), stress |-> StressOf(c),
     release |-> BuildRelease]

-----------------------------------------------------------------------------
(* validate_report, read at commit c.                                      *)
ClaimsAllowed(v) == v = [paper |-> TRUE, realPnl |-> 0, realTrades |-> 0, promise |-> FALSE]

SummaryValid(r) ==
    /\ DOMAIN r.projects.disposition = ResearchOnly \union {Premium}
    /\ \A p \in DOMAIN r.projects.disposition :
           r.projects.disposition[p] \in {"HUMAN_REVIEW", "NO_TRADE"}
    /\ r.summary = Summary(r.projects)

HasPremium(r) == Premium \in DOMAIN r.projects.disposition

ReconciliationBound(r) ==
    /\ ValidReconciliation(r.reconciliation)
    /\ HasPremium(r)
    /\ r.projects.layers.DETERMINISTIC_COMPLIANCE = r.reconciliation.artifact
    /\ ~r.reconciliation.liveEligible

CadenceBound(r) ==
    /\ ValidCadence(r.cadence)
    /\ HasPremium(r)
    /\ r.projects.layers.BIG = r.cadence.artifact
    /\ ~r.cadence.authorized

\* a seeded fault: the allocation is not looked up in the risk layer
AllocationUnbound(r) ==
    /\ ValidAllocation(r.allocation)
    /\ HasPremium(r)
    /\ ~r.allocation.ruinCalculated /\ ~r.allocation.authorized

AllocationBound(r) ==
    /\ ValidAllocation(r.allocation)
    /\ HasPremium(r)
    /\ r.projects.layers.DETERMINISTIC_RISK.allocation = r.allocation.artifact
    /\ ~r.allocation.ruinCalculated /\ ~r.allocation.authorized

\* the events that the premium project's layers must cite, by their kind
CitedBy(layers) == [VALIDATION_COMPLETE |-> layers.OBSERVED,
                    RISK_COMPLETE |-> layers.DETERMINISTIC_RISK.input,
                    HUMAN_PENDING |-> layers.HUMAN]
ReplayBound(r) ==
    LET events == r.replay.events
        cited == CitedBy(r.projects.layers)
    IN /\ r.replay.valid /\ ValidReplay(r.replay)
       /\ Len(events) > 0 /\ events[Len(events)].kind = "HUMAN_PENDING"
       /\ HasPremium(r)
       /\ \A k \in DOMAIN cited : \E i \in DOMAIN events :
              events[i].kind = k /\ events[i].artifact = cited[k]

AuditSound(v) == v.valid /\ v.complete /\ ValidAudit(v)
BatchReady(v) == v.status = "READY_FOR_RESEARCH" /\ v.manifest = v.sources
StatDisclosed(v) == ~v.inferred
WarGamesDisclosed(v, c) ==
    /\ v.bySuite["compliance-controls"] = 9
    /\ v.bySuite["candidate-pipeline-controls"] = 4
    /\ v = WarGames(c)
StressDisclosed(v, c) == v.scenarios = 5 /\ v.pnl = 0 /\ v = StressOf(c)
ReleaseDisclosed(v) == ValidRelease(v) /\ ~v.authorized /\ ~v.override

Publishable(report, c) ==
    LET r == report.content IN
    /\ report.seal = r
    /\ ClaimsAllowed(r.claims) /\ SummaryValid(r)
    /\ ReconciliationBound(r) /\ CadenceBound(r) /\ AllocationBound(r)
    /\ ReplayBound(r)
    /\ AuditSound(r.audit) /\ BatchReady(r.batch) /\ StatDisclosed(r.stat)
    /\ WarGamesDisclosed(r.war, c) /\ StressDisclosed(r.stress, c)
    /\ ReleaseDisclosed(r.release)

-----------------------------------------------------------------------------
(* What an editor may write over one section: the section of another       *)
(* stored report, a changed flag or figure, an event moved, or the gate's  *)
(* own answer to other inputs.                                             *)
Altered(r, s) ==
    CASE s = "claims" -> {[r.claims EXCEPT !.realPnl = 1]}
      [] s = "projects" ->
             {[r.projects EXCEPT !.disposition["arbitrage-observer"] = "HUMAN_REVIEW"],
              [r.projects EXCEPT !.disposition = Restrict(@, ResearchOnly)]}
      [] s = "summary" -> {[r.summary EXCEPT !.review = @ + 1, !.noTrade = @ - 1]}
      [] s = "reconciliation" -> {[r.reconciliation EXCEPT !.liveEligible = TRUE],
                                  Reconcile([r.reconciliation.input EXCEPT !.brokerCash = 1])}
      [] s = "cadence" -> {[r.cadence EXCEPT !.authorized = TRUE],
                           EvaluateCadence([gap |-> 40, sameMonth |-> FALSE])}
      [] s = "allocation" -> {[r.allocation EXCEPT !.admissible = ~@],
                              EvaluateAllocation([r.allocation.input EXCEPT !.policy.equity = 100])}
      [] s = "replay" -> {[r.replay EXCEPT !.events[2].received = 9],
                          [r.replay EXCEPT !.events[4].artifact = <<"other">>],
                          [r.replay EXCEPT !.events[5].artifact = <<"other">>],
                          [r.replay EXCEPT !.events = ReferenceReplay]}
      [] s = "audit" -> {[r.audit EXCEPT !.broken = {3}]}
      [] s = "batch" -> {[r.batch EXCEPT !.sources = 0],
                         [r.batch EXCEPT !.sources = 0, !.manifest = 0]}
      [] s = "stat" -> {[inferred |-> TRUE]}
      [] s = "war" -> {[r.war EXCEPT !.noTrade = @ + 1]}
      [] s = "stress" -> {[r.stress EXCEPT !.metrics = @ + 1]}
      [] s = "release" ->
             {[r.release EXCEPT !.authorized = TRUE],
              EvaluateRelease([q \in ReleaseRequirements |-> [satisfied |-> TRUE, hashed |-> TRUE]])}

MorningInit ==
    /\ deployed \in Commits /\ deploys = 0
    /\ reports = <<>> /\ edited = 0
    /\ shown = Unpublished

Deploy(c) ==
    /\ deploys < MaxDeploys /\ c # deployed
    /\ deployed' = c /\ deploys' = deploys + 1 /\ shown' = Unpublished
    /\ UNCHANGED <<reports, edited>>

StoreReport ==
    /\ Len(reports) < MaxReports
    /\ reports' = Append(reports, [content |-> BuildMorning(deployed),
                                   seal |-> BuildMorning(deployed)])
    /\ shown' = Unpublished
    /\ UNCHANGED <<deployed, deploys, edited>>

EditReport(i) ==
    /\ edited < MaxEdits
    /\ \E s \in DOMAIN reports[i].content :
       \E v \in Altered(reports[i].content, s)
                  \union {reports[j].content[s] : j \in DOMAIN reports \ {i}} :
           /\ reports[i].content[s] # v
           /\ reports' = [reports EXCEPT ![i].content[s] = v]
    /\ edited' = edited + 1 /\ shown' = Unpublished
    /\ UNCHANGED <<deployed, deploys>>

FinalizeReport(i) ==
    /\ reports[i].seal # reports[i].content
    /\ reports' = [reports EXCEPT ![i].seal = reports[i].content]
    /\ shown' = Unpublished
    /\ UNCHANGED <<deployed, deploys, edited>>

\* the control summary, the Markdown and the console payload
PublishReport(i) ==
    /\ Publishable(reports[i], deployed)
    /\ shown' = [kind |-> "REPORT", report |-> i, by |-> deployed]
    /\ UNCHANGED <<deployed, deploys, reports, edited>>

CompareReports(i, j) ==
    LET old == reports[i].content
        new == reports[j].content
    IN /\ Publishable(reports[i], deployed) /\ Publishable(reports[j], deployed)
       /\ shown' = [kind |-> "DELTA", old |-> i, new |-> j,
                    changed |-> {p \in DOMAIN old.projects.disposition :
                                    old.projects.disposition[p] # new.projects.disposition[p]},
                    noTradeBy |-> new.war.noTrade - old.war.noTrade,
                    fixtureChanged |-> old.war.manifest.fixture # new.war.manifest.fixture]
       /\ UNCHANGED <<deployed, deploys, reports, edited>>

MorningNext ==
    \/ \E c \in Commits : Deploy(c)
    \/ StoreReport
    \/ \E i \in DOMAIN reports :
           \/ EditReport(i)
           \/ FinalizeReport(i)
           \/ PublishReport(i)
           \/ \E j \in DOMAIN reports : CompareReports(i, j)

MorningSpec == MorningInit /\ [][MorningNext]_morningVars

-----------------------------------------------------------------------------
\* the kinds of event that a layer of the report cites
CitedArtifacts(replay) ==
    {<<e.kind, e.artifact>> : e \in {e \in Range(replay.events) :
        e.kind \in {"VALIDATION_COMPLETE", "RISK_COMPLETE", "HUMAN_PENDING"}}}

\* the premium desk's evidence is what one commit built, all of it together
OneBuild(r) ==
    \E c \in Commits :
        /\ r.projects.layers = PremiumLayers(c)
        /\ r.reconciliation = BuildReconciliation(c)
        /\ r.cadence = BuildCadence(c)
        /\ r.allocation = BuildAllocation(c)
        /\ CitedArtifacts(r.replay) = CitedArtifacts(BuildReplay(c))

(* A report that is shown, or compared, after its sections were edited,    *)
(* exchanged with another report's and sealed again carries the premium    *)
(* desk's evidence of one build (its layers, reconciliation, cadence,      *)
(* allocation and the cited replay events never come from two), counts its *)
(* own dispositions, holds only the deployed commit's war games and stress *)
(* (so a comparison never finds the fixtures changed), an unbroken audit   *)
(* chain, and no authority to trade: validate_report with the lineage      *)
(* checks of reporting.py:83-217.                                          *)
PublishableIsWhole ==
    /\ shown.kind = "REPORT" =>
           LET r == reports[shown.report].content IN
           /\ OneBuild(r)
           /\ r.summary.review = Cardinality({p \in ResearchOnly \union {Premium} :
                                     r.projects.disposition[p] = "HUMAN_REVIEW"})
           /\ r.war = WarGames(shown.by) /\ r.stress = StressOf(shown.by)
           /\ \E c \in Commits : r.audit = BuildAudit(c)
           /\ ~(r.release.authorized \/ r.cadence.authorized \/ r.allocation.authorized)
    /\ shown.kind = "DELTA" =>
           /\ OneBuild(reports[shown.old].content) /\ OneBuild(reports[shown.new].content)
           /\ ~shown.fixtureChanged /\ shown.noTradeBy = 0
=============================================================================
