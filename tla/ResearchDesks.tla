--------------------------- MODULE ResearchDesks ---------------------------
(***************************************************************************)
(* The research desks: each ranks a universe of items for a decision time  *)
(* and rejects the rest with reasons.  A decision may be evaluated again   *)
(* later, for the same decision time, on the evidence then held: restated  *)
(* earnings, payouts and CAPE, revised events and contracts, copies of     *)
(* news.  The earnings experiment draws its arm from its identity, before  *)
(* the release, and is scored after it.                                    *)
(*                                                                         *)
(* Money and ratios are small whole numbers and fractions of them.  An     *)
(* artifact's hash is good or not (hashed), a record's timestamps have a   *)
(* zone or not (aware).  Items are numbered in the order of their          *)
(* identities.                                                             *)
(***************************************************************************)
EXTENDS Integers, FiniteSetsExt, SequencesExt

CONSTANTS
    HistoryYears,    \* ten in the code
    MaxAge,          \* how old an item of news may be at the decision
    ReleaseAt,       \* the scheduled release of the experiment's event
    Trials, Salts,   \* the identities of experiments
    DrawnArm,        \* the arm that the digest of an identity selects
    LastReading,      \* bound on the clock
    MaxDecisions     \* bound on the decisions, and on the scored experiments

Arms == {"EQUITY", "DEFINED_RISK_OPTION", "HEDGED_EQUITY", "NO_TRADE"}
ASSUME ResearchConstants ==
    /\ HistoryYears \in Nat \ {0} /\ MaxAge \in Nat /\ ReleaseAt \in Nat
    /\ DrawnArm \in [Trials \X Salts -> Arms]

VARIABLES
    desk,       \* which of the desks this behaviour follows
    reading,    \* the clock; no two readings of it are equal
    evidence,   \* the items held, by number
    decisions,  \* [at, ranked, basis]: the place each decision gave, and from what
    replayed,   \* [of, ranked]: the places given again, for which decision
    plans,      \* the experiment plans, as stored
    outcomes    \* [plan, arm, net, observedAt]: the scored experiments
researchVars == <<desk, reading, evidence, decisions, replayed, plans, outcomes>>

Failing(tests) == {r \in DOMAIN tests : tests[r]}

Frac(n, d) == [n |-> n, d |-> d]
Plus(a, b) == Frac(a.n * b.d + b.n * a.d, a.d * b.d)
Quotient(a, b) == Frac(a.n * b.d, a.d * b.n)
Below(a, b) == a.n * b.d < b.n * a.d
Magnitude(i) == IF i < 0 THEN -i ELSE i

\* a ranking: the place of every admitted item, given which of two comes first
Places(admitted, First(_, _)) ==
    [i \in admitted |-> 1 + Cardinality({j \in admitted : First(j, i)})]

\* best score first, the identity decides between equals
RankedBy(score) ==
    Places(DOMAIN score, LAMBDA a, b :
        \/ Below(score[b], score[a])
        \/ ~Below(score[a], score[b]) /\ a < b)

-----------------------------------------------------------------------------
(* Earnings: the release against the consensus before it.                  *)
EarningsReasons(e, t) ==
    Failing([
        EARNINGS_TIMESTAMP_NOT_TIMEZONE_AWARE |-> ~e.aware,
        CONSENSUS_NOT_POINT_IN_TIME |-> e.aware /\ e.asOf >= e.published,
        RELEASE_RECEIVED_BEFORE_PUBLICATION |-> e.aware /\ e.received < e.published,
        DECISION_PRECEDES_RELEASE_RECEIPT |-> e.aware /\ t < e.received,
        EARNINGS_IDENTITY_MISMATCH |-> ~e.same,
        CONSENSUS_BREADTH_INSUFFICIENT |-> e.analysts < 3,
        CONSENSUS_DENOMINATOR_ZERO |-> 0 \in {e.epsConsensus, e.revenueConsensus},
        EARNINGS_SOURCE_HASH_INVALID |-> ~e.hashed])
Surprise(actual, consensus) == Frac(actual - consensus, Magnitude(consensus))
Aligned(e) ==
    \/ e.eps > e.epsConsensus /\ e.revenue > e.revenueConsensus
    \/ e.eps < e.epsConsensus /\ e.revenue < e.revenueConsensus
CombinedSurprise(e) ==
    LET eps == Surprise(e.eps, e.epsConsensus)
        revenue == Surprise(e.revenue, e.revenueConsensus)
    IN Plus([eps EXCEPT !.n = Magnitude(@)], [revenue EXCEPT !.n = Magnitude(@)])
EarningsUniverse(items, t) ==
    LET admitted == {i \in DOMAIN items : EarningsReasons(items[i], t) = {} /\ Aligned(items[i])}
    IN RankedBy([i \in admitted |-> CombinedSurprise(items[i])])

(* Arbitrage: what the legs pay at the executable sides, after all costs.  *)
EntryCashflow(p) ==
    FoldLeft(LAMBDA sum, leg :
                 sum + p.multiplier * p.quantity
                       * (IF leg.side = "SELL" THEN leg.bid ELSE -leg.ask),
             0, p.legs)
NetEdge(p) == EntryCashflow(p) + p.terminal - p.fees - p.slippage - p.financing
PackageReasons(p) ==
    LET legs == ToSet(p.legs)
    IN Failing([
        QUOTE_TIMESTAMP_NOT_TIMEZONE_AWARE |-> \E a \in legs : ~a.aware,
        QUOTES_NOT_SYNCHRONIZED |->
            /\ \A a \in legs : a.aware
            /\ \E a, b \in legs : a.quotedAt - b.quotedAt > 1,
        SETTLEMENT_MISMATCH |-> Cardinality({a.settles : a \in legs}) # 1,
        INSUFFICIENT_DEPTH |-> \E a \in legs : a.size < p.quantity,
        INVALID_EXECUTABLE_QUOTE |->
            \E a \in legs : a.bid < 0 \/ a.ask <= 0 \/ a.ask < a.bid,
        ARBITRAGE_SOURCE_HASH_INVALID |-> \E a \in legs : ~a.hashed,
        EDGE_BELOW_SAFETY_BUFFER |-> NetEdge(p) < p.buffer])
ArbitrageUniverse(items) ==
    LET admitted == {i \in DOMAIN items : PackageReasons(items[i]) = {}}
    IN RankedBy([i \in admitted |-> Frac(NetEdge(items[i]), 1)])

-----------------------------------------------------------------------------
(* Dividends: the payouts of consecutive fiscal years, and the CAPE.       *)
Years(h) == {h[i].year : i \in DOMAIN h}

\* a seeded fault: only the last of the years is looked at
LookaheadOfLast(h, t) == h # <<>> /\ h[Len(h)].availableAt > t

Lookahead(h, t) == \E i \in DOMAIN h : h[i].availableAt > t
HistoryReasons(h, t) ==
    Failing([
        TEN_YEAR_HISTORY_REQUIRED |-> Len(h) # HistoryYears,
        FISCAL_YEAR_HISTORY_NOT_CONSECUTIVE |->
            h # <<>> /\ Years(h) # Min(Years(h)) .. Min(Years(h)) + Len(h) - 1,
        DUPLICATE_FISCAL_YEAR |-> Cardinality(Years(h)) # Len(h),
        PAYOUT_TIMESTAMP_NOT_TIMEZONE_AWARE |-> \E i \in DOMAIN h : ~h[i].aware,
        PAYOUT_LOOKAHEAD_VIOLATION |->
            (\A i \in DOMAIN h : h[i].aware) /\ Lookahead(h, t),
        PAYOUT_SOURCE_HASH_INVALID |-> \E i \in DOMAIN h : ~h[i].hashed,
        PAYOUT_INPUT_INVALID |->
            \E i \in DOMAIN h : h[i].dividend < 0 \/ h[i].price <= 0 \/ h[i].cap <= 0
                                \/ h[i].buybacks < 0 \/ h[i].issuance < 0,
        PAYOUT_COVERAGE_UNAVAILABLE |-> \E i \in DOMAIN h : h[i].eps <= 0])
Cuts(h) ==
    LET o == SetToSortSeq(ToSet(h), LAMBDA a, b : a.year < b.year)
    IN Quantify(1 .. Len(o) - 1, LAMBDA i : o[i + 1].dividend < o[i].dividend)
Average(fractions) ==
    LET sum == FoldLeft(Plus, Frac(0, 1), fractions)
    IN Frac(sum.n, sum.d * Len(fractions))
DividendYield(h) == Average([i \in DOMAIN h |-> Frac(h[i].dividend, h[i].price)])
PayoutRatio(h) == Average([i \in DOMAIN h |-> Frac(h[i].dividend, h[i].eps)])
NetShareholderYield(h) ==
    Average([i \in DOMAIN h |-> Plus(Frac(h[i].dividend, h[i].price),
                                     Frac(h[i].buybacks - h[i].issuance, h[i].cap))])

\* at most three quarters paid out, no cut, nothing taken back from the owners
CompanyReasons(h, t) ==
    LET reasons == HistoryReasons(h, t)
    IN reasons \union
       (IF reasons # {} THEN {}
        ELSE Failing([
            NONPOSITIVE_AVERAGE_PAYOUT_RATIO |-> PayoutRatio(h).n <= 0,
            AVERAGE_PAYOUT_RATIO_ABOVE_POLICY |-> Below(Frac(3, 4), PayoutRatio(h)),
            DIVIDEND_CUTS_ABOVE_POLICY |-> Cuts(h) > 0,
            NET_SHAREHOLDER_YIELD_BELOW_POLICY |-> NetShareholderYield(h).n < 0]))
YieldPerPayout(h) == Quotient(DividendYield(h), PayoutRatio(h))
DividendUniverse(items, t) ==
    LET admitted == {i \in DOMAIN items : CompanyReasons(items[i].history, t) = {}}
    IN Places(admitted, LAMBDA a, b :
           LET x == items[a].history
               y == items[b].history
           IN \/ Below(YieldPerPayout(y), YieldPerPayout(x))
              \/ /\ ~Below(YieldPerPayout(x), YieldPerPayout(y))
                 /\ \/ Below(NetShareholderYield(y), NetShareholderYield(x))
                    \/ ~Below(NetShareholderYield(x), NetShareholderYield(y)) /\ a < b)

CapeReasons(c, t) ==
    Failing([
        CAPE_SYMBOL_MISMATCH |-> ~c.same,
        CAPE_TIMESTAMP_NOT_TIMEZONE_AWARE |-> ~c.aware,
        CAPE_RECEIVED_BEFORE_OBSERVED |-> c.aware /\ c.received < c.observed,
        CAPE_LOOKAHEAD_VIOLATION |-> c.aware /\ c.received > t,
        CAPE_RATIO_INVALID |-> c.ratio <= 0,
        CAPE_SOURCE_HASH_INVALID |-> ~c.hashed])
CapeUniverse(items, t) ==
    LET admitted == {i \in DOMAIN DividendUniverse(items, t) : CapeReasons(items[i].cape, t) = {}}
    IN RankedBy([i \in admitted |->
                    Quotient(YieldPerPayout(items[i].history), Frac(items[i].cape.ratio, 1))])

-----------------------------------------------------------------------------
(* Futures events: the impact that the curve has not priced yet.           *)
Residual(v) == v.impact - v.priced - v.basis - v.roll - v.cost
FuturesReasons(contract, v, t) ==
    Failing([
        EVENT_TIMESTAMP_NOT_TIMEZONE_AWARE |-> ~v.aware,
        EVENT_RECEIVED_BEFORE_OBSERVED |-> v.aware /\ v.received < v.observed,
        EVENT_NOT_POINT_IN_TIME |-> v.aware /\ t < v.received,
        FUTURES_LIQUIDITY_INSUFFICIENT |-> contract.volume < 1000,
        FUTURES_MARGIN_INVALID |-> contract.margin <= 0,
        PHYSICAL_DELIVERY_DISABLED |-> contract.physical,
        LAST_TRADE_DATE_UNKNOWN |-> ~contract.lastTradeKnown,
        FUTURES_EVENT_SOURCE_HASH_INVALID |-> ~v.hashed,
        FUTURES_COST_INPUT_INVALID |-> \E c \in {v.basis, v.roll, v.cost} : c < 0,
        EVENT_EDGE_BELOW_SAFETY_BUFFER |-> Residual(v) < 6])
FuturesUniverse(items, t) ==
    LET admitted ==
            {i \in DOMAIN items : FuturesReasons(items[i].contract, items[i].event, t) = {}}
    IN RankedBy([i \in admitted |-> Frac(Residual(items[i].event), 1)])

(* News: in the order of the identities; an item whose content or address  *)
(* an earlier one has, admitted or not, is a duplicate.                    *)
NewsReasons(items, i, t) ==
    LET n == items[i]
    IN Failing([
        NEWS_NOT_PUBLICLY_AVAILABLE |-> ~n.public,
        NEWS_PROVENANCE_OR_LICENSE_MISSING |-> ~n.licensed,
        NEWS_CONTENT_HASH_INVALID |-> ~n.hashed,
        NEWS_TIMESTAMP_NOT_TIMEZONE_AWARE |-> ~n.aware,
        NEWS_RECEIVED_BEFORE_PUBLICATION |-> n.aware /\ n.received < n.published,
        NEWS_POINT_IN_TIME_VIOLATION |-> n.aware /\ n.received > t,
        NEWS_STALE |-> n.aware /\ n.received <= t /\ t - n.received > MaxAge,
        NEWS_DUPLICATE_EVIDENCE |->
            \E j \in DOMAIN items : j < i /\ (\/ items[j].content = n.content
                                              \/ items[j].url = n.url)])
NewsBatch(items, t) ==
    Places({i \in DOMAIN items : NewsReasons(items, i, t) = {}}, <)

Universe(items, t) ==
    CASE desk = "earnings" -> EarningsUniverse(items, t)
      [] desk = "arbitrage" -> ArbitrageUniverse(items)
      [] desk = "dividend" -> DividendUniverse(items, t)
      [] desk = "cape" -> CapeUniverse(items, t)
      [] desk = "futures" -> FuturesUniverse(items, t)
      [] desk = "news" -> NewsBatch(items, t)

-----------------------------------------------------------------------------
(* The experiment.  The digest of a plan is its payload.                   *)
Payload(trial, salt, at, release) ==
    [trial |-> trial, salt |-> salt, arm |-> DrawnArm[<<trial, salt>>],
     assignedAt |-> at, releaseAt |-> release]
PlanReasons(p) ==
    LET rebuilt == Payload(p.trial, p.salt, p.assignedAt, p.releaseAt)
        sound == p.assignedAt < p.releaseAt
    IN Failing([
        EARNINGS_EXPERIMENT_POLICY_INVALID |-> ~p.current,
        EARNINGS_EXPERIMENT_AUTHORITY_FORBIDDEN |-> p.authorized,
        EARNINGS_EXPERIMENT_PLAN_INVALID |-> ~sound,
        EARNINGS_EXPERIMENT_ARM_TAMPER |-> sound /\ p.arm # rebuilt.arm,
        EARNINGS_EXPERIMENT_HASH_MISMATCH |-> sound /\ p.seal # rebuilt])

-----------------------------------------------------------------------------
(* The fixtures of the overnight evaluation, received before reading 3.    *)
ReleaseOf(analysts, eps, revenue) ==
    [same |-> TRUE, aware |-> TRUE, hashed |-> TRUE, analysts |-> analysts,
     epsConsensus |-> 10, revenueConsensus |-> 100, eps |-> eps, revenue |-> revenue,
     asOf |-> 0, published |-> 1, received |-> 2]
ReferenceEvents == <<ReleaseOf(8, 11, 102), ReleaseOf(7, 11, 99), ReleaseOf(10, 12, 105)>>

Quote(side, bid, ask) ==
    [side |-> side, bid |-> bid, ask |-> ask, size |-> 5, quotedAt |-> 3, settles |-> 1,
     aware |-> TRUE, hashed |-> TRUE]
PackageOf(terminal) ==
    [legs |-> <<Quote("BUY", 19, 20), Quote("SELL", 15, 16),
                Quote("SELL", 12, 13), Quote("BUY", 7, 8)>>,
     quantity |-> 1, multiplier |-> 10, terminal |-> terminal,
     fees |-> 5, slippage |-> 5, financing |-> 5, buffer |-> 20]
ReferencePackages == <<PackageOf(30), PackageOf(100)>>

PayoutsOf(dividend, eps) ==
    [i \in 1..HistoryYears |->
        [year |-> i, dividend |-> dividend + i, eps |-> eps, price |-> 10, buybacks |-> 4,
         issuance |-> 1, cap |-> 10, availableAt |-> 0, aware |-> TRUE, hashed |-> TRUE]]
CompanyOf(dividend, eps, ratio) ==
    [history |-> PayoutsOf(dividend, eps),
     cape |-> [same |-> TRUE, aware |-> TRUE, hashed |-> TRUE, ratio |-> ratio,
               observed |-> 2, received |-> 3]]
ReferenceCompanies == <<CompanyOf(0, 4, 4), CompanyOf(1, 8, 2)>>

EventOf(impact, priced, basis, roll, cost, observed) ==
    [contract |-> [volume |-> 5000, margin |-> 5000, physical |-> FALSE, lastTradeKnown |-> TRUE],
     event |-> [impact |-> impact, priced |-> priced, basis |-> basis, roll |-> roll,
                cost |-> cost, observed |-> observed, received |-> 2,
                aware |-> TRUE, hashed |-> TRUE]]
ReferenceFutures == <<EventOf(20, 8, 2, 1, 1, 1), EventOf(28, 24, 2, 1, 1, 0)>>

ReferenceNews == 
    <<[content |-> 1, url |-> 1, public |-> TRUE, licensed |-> TRUE, hashed |-> TRUE,
       aware |-> TRUE, published |-> 0, received |-> 1]>>

Reference ==
    [earnings |-> ReferenceEvents, arbitrage |-> ReferencePackages,
     dividend |-> ReferenceCompanies, cape |-> ReferenceCompanies,
     futures |-> ReferenceFutures, news |-> ReferenceNews, experiment |-> <<>>]

-----------------------------------------------------------------------------
(* What may be held next of an item x, at reading t: every record carries  *)
(* the time at which it came in, where it carries a time at all.           *)
Restated(x, i, v, t) ==
    [x EXCEPT !.history[i] = [@ EXCEPT !.dividend = v, !.availableAt = t]]
YearAfter(y, t) == [y EXCEPT !.year = @ + 1, !.availableAt = t]
Newer(x, t) ==
    CASE desk = "earnings" ->
           {[x EXCEPT !.eps = 5, !.revenue = 90, !.received = t],
            [x EXCEPT !.eps = 13, !.revenue = 110, !.published = t, !.received = t],
            [x EXCEPT !.epsConsensus = 5, !.asOf = t],
            [x EXCEPT !.received = t, !.analysts = 2], [x EXCEPT !.aware = FALSE]}
      [] desk = "arbitrage" ->
           {[x EXCEPT !.legs[i] = [@ EXCEPT !.bid = q, !.ask = q + w, !.quotedAt = t]] :
               i \in {1, 2}, q \in {6, 16}, w \in {0, 1}}
           \union {[x EXCEPT !.legs[1].size = 0], [x EXCEPT !.legs[1].aware = FALSE]}
      [] desk = "dividend" ->
           {Restated(x, i, v, t) : i \in DOMAIN x.history, v \in {0, 3}}
           \union {[x EXCEPT !.history = Append(Tail(@), YearAfter(Last(@), t))]}
      [] desk = "cape" ->
           {[x EXCEPT !.cape = [@ EXCEPT !.ratio = r, !.observed = t - 1, !.received = t]] :
               r \in {1, 5}}
           \union {Restated(x, 1, 1, t)}
      [] desk = "futures" ->
           {[x EXCEPT !.event = [@ EXCEPT !.impact = v, !.observed = t - 1, !.received = t]] :
               v \in {12, 40}}
           \union {[x EXCEPT !.contract.volume = v] : v \in {500, 5000}}
           \union {[x EXCEPT !.event.hashed = FALSE]}
      [] desk = "news" ->
           {[x EXCEPT !.content = c, !.url = u, !.published = t - 1, !.received = t] :
               c \in {1, 2}, u \in {1, 2}}
           \union {[x EXCEPT !.received = t, !.public = FALSE]}

\* the part of an item that carries a time; a futures contract carries none
Dated(x) == IF desk = "futures" THEN x.event ELSE x

ResearchInit ==
    /\ desk \in DOMAIN Reference /\ evidence = Reference[desk]
    /\ reading = 3
    /\ decisions = <<>> /\ replayed = [of |-> 0, ranked |-> <<>>]
    /\ plans = {} /\ outcomes = {}

Elapse ==
    /\ reading < LastReading
    /\ reading' = reading + 1
    /\ UNCHANGED desk

\* the caller holds another version of an item, or one more item
Receive ==
    /\ Elapse /\ desk # "experiment"
    /\ \E i \in 0 .. Len(Reference[desk]), x \in ToSet(Reference[desk]) \union Range(evidence) :
       \E y \in Newer(x, reading) :
           /\ IF i \in DOMAIN evidence THEN x = evidence[i] ELSE Dated(x) # Dated(y)
           /\ evidence' = [j \in DOMAIN evidence \union {i} |-> IF j = i THEN y ELSE evidence[j]]
    /\ replayed' = [of |-> 0, ranked |-> <<>>]
    /\ UNCHANGED <<decisions, plans, outcomes>>

Decide ==
    /\ Elapse /\ desk # "experiment"
    /\ Len(decisions) < MaxDecisions
    /\ decisions' = Append(decisions, [at |-> reading, basis |-> evidence,
                                       ranked |-> Universe(evidence, reading)])
    /\ replayed' = [of |-> 0, ranked |-> <<>>]
    /\ UNCHANGED <<evidence, plans, outcomes>>

\* the same decision, evaluated on what is held now
Replay(i) ==
    /\ replayed' = [of |-> i, ranked |-> Universe(evidence, decisions[i].at)]
    /\ UNCHANGED <<desk, reading, evidence, decisions, plans, outcomes>>

\* the time of the assignment is the caller's to state
AssignExperiment(trial, salt, at) ==
    /\ Elapse /\ desk = "experiment"
    /\ at < ReleaseAt
    /\ LET payload == Payload(trial, salt, at, ReleaseAt)
       IN plans' = plans \union {payload @@ [current |-> TRUE, authorized |-> FALSE,
                                             seal |-> payload]}
    /\ UNCHANGED <<evidence, decisions, replayed, outcomes>>

\* a stored plan is altered, and may be sealed again over what it then says
AlterPlan(p) ==
    /\ Elapse /\ desk = "experiment"
    /\ \E q \in {[p EXCEPT !.arm = a] : a \in Arms}
                \union {[p EXCEPT !.salt = s] : s \in Salts}
                \union {[p EXCEPT !.releaseAt = r] : r \in 0..ReleaseAt}
                \union {[p EXCEPT !.current = FALSE], [p EXCEPT !.authorized = TRUE]},
          sealed \in BOOLEAN :
           plans' = (plans \ {p}) \union
               {IF sealed THEN [q EXCEPT !.seal = Restrict(q, DOMAIN p.seal)] ELSE q}
    /\ UNCHANGED <<evidence, decisions, replayed, outcomes>>

ScoreExperiment(p, gross, costs) ==
    /\ Elapse /\ desk = "experiment"
    /\ PlanReasons(p) = {} /\ reading > p.releaseAt /\ costs >= 0
    /\ Cardinality(outcomes) < MaxDecisions
    /\ outcomes' = outcomes \union {[plan |-> p.seal, arm |-> p.arm, net |-> gross - costs,
                                     observedAt |-> reading]}
    /\ UNCHANGED <<evidence, decisions, replayed, plans>>

ResearchNext ==
    \/ Receive \/ Decide
    \/ \E i \in DOMAIN decisions : Replay(i)
    \/ \E trial \in Trials, salt \in Salts, at \in 0..ReleaseAt : AssignExperiment(trial, salt, at)
    \/ \E p \in plans : \/ AlterPlan(p)
                        \/ \E costs \in {-1, 1} : ScoreExperiment(p, 2, costs)

ResearchSpec == ResearchInit /\ [][ResearchNext]_researchVars

-----------------------------------------------------------------------------
(* A decision evaluated again, for its own time, ranks only what it had:   *)
(* the same version of every item it ranks, whatever was restated since.   *)
(* What it ranks again keeps its order.  (arbitrage.py states no decision  *)
(* time and makes no such promise.)                                        *)
ReplayFromBasis ==
    replayed.of # 0 /\ desk # "arbitrage" =>
        LET d == decisions[replayed.of]
        IN /\ \A i \in DOMAIN replayed.ranked :
                  /\ i \in DOMAIN d.basis
                  /\ Dated(evidence[i]) = Dated(d.basis[i])
                  /\ desk \notin {"futures", "news"} => i \in DOMAIN d.ranked
           /\ \A i, j \in DOMAIN replayed.ranked \intersect DOMAIN d.ranked :
                  replayed.ranked[i] < replayed.ranked[j] <=> d.ranked[i] < d.ranked[j]

(* No package is a candidate in both directions at once: bought and sold   *)
(* at the executable sides, one of the two loses.                          *)
OtherSide(leg) == [leg EXCEPT !.side = IF @ = "BUY" THEN "SELL" ELSE "BUY"]
Mirror(p) ==
    [p EXCEPT !.terminal = -@, !.legs = [i \in DOMAIN @ |-> OtherSide(@[i])]]
OneDirection ==
    desk = "arbitrage" =>
        \A i \in DOMAIN ArbitrageUniverse(evidence) : PackageReasons(Mirror(evidence[i])) # {}

(* A scored outcome is credited to the arm that the identity of its plan   *)
(* drew, of a plan that states an assignment before the release.           *)
CreditedAsDrawn ==
    \A o \in outcomes : /\ o.arm = DrawnArm[<<o.plan.trial, o.plan.salt>>]
                        /\ o.plan.assignedAt < o.plan.releaseAt
                        /\ o.plan.releaseAt < o.observedAt

(* What the research desks promise of their decisions and experiments:     *)
(* the point-in-time checks of earnings.py:106, dividends.py:161 and 312,  *)
(* futures_events.py:116 and news.py:86, the executable sides of           *)
(* arbitrage.py:122, and the locked plan of earnings_experiment.py:95.     *)
ResearchKept == ReplayFromBasis /\ OneDirection /\ CreditedAsDrawn
=============================================================================
