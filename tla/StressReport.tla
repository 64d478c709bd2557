---------------------------- MODULE StressReport ----------------------------
(***************************************************************************)
(* The portfolio stress report and the circuit breaker built from it.  The *)
(* report walks the declared scenarios from the starting capital and       *)
(* labels each with its drawdown from the peak so far; evaluate_pnl_series *)
(* walks the same results from zero and keeps the worst drawdown; the      *)
(* breaker freezes new risk on the second walk alone.  Neither walk sees   *)
(* the other's state, only the same result, so they are stepped together.  *)
(***************************************************************************)
EXTENDS Integers, Sequences

CONSTANTS
    ScenarioPnls,    \* what the strategies of a scenario may net together
    StartingCapital,
    DrawdownLimit,   \* starting capital times the maximum fraction
    MaxScenarios

ASSUME StressConstants ==
    /\ ScenarioPnls \subseteq Int
    /\ StartingCapital \in Nat \ {0}
    /\ DrawdownLimit \in Nat \ {0} /\ DrawdownLimit < StartingCapital

VARIABLES
    report,  \* [capital, peak, labels]: the scenario loop
    series,  \* [equity, peak, worst]: the metrics loop
    breaker  \* "NONE", then "CLEAR" or "FROZEN"
stressVars == <<report, series, breaker>>

Larger(a, b) == IF a >= b THEN a ELSE b

StressInit ==
    /\ report = [capital |-> StartingCapital, peak |-> StartingCapital,
                 labels |-> <<>>]
    /\ series = [equity |-> 0, peak |-> 0, worst |-> 0]
    /\ breaker = "NONE"

(* The peak includes the capital the scenario ends with.                   *)
Labelled(r, pnl) ==
    LET capital == r.capital + pnl
        peak == Larger(r.peak, capital)
    IN [ capital |-> capital, peak |-> peak,
         labels |-> Append(r.labels,
                           IF peak - capital > DrawdownLimit
                           THEN "FREEZE_NEW_RISK"
                           ELSE "WITHIN_SYNTHETIC_LIMIT") ]

(* Seeded fault: the peak starts at the first result instead of zero.      *)
MeasuredFromFirst(m, pnl) ==
    LET equity == m.equity + pnl
        peak == IF m.peak = 0 THEN equity ELSE Larger(m.peak, equity)
    IN [ equity |-> equity, peak |-> peak,
         worst |-> Larger(m.worst, peak - equity) ]

Measured(m, pnl) ==
    LET equity == m.equity + pnl
        peak == Larger(m.peak, equity)
    IN [ equity |-> equity, peak |-> peak,
         worst |-> Larger(m.worst, peak - equity) ]

RunScenario(pnl) ==
    /\ breaker = "NONE" /\ Len(report.labels) < MaxScenarios
    /\ report' = Labelled(report, pnl)
    /\ series' = Measured(series, pnl)
    /\ UNCHANGED breaker

BuildBreaker ==
    /\ breaker = "NONE" /\ report.labels # <<>>
    /\ breaker' = IF series.worst > DrawdownLimit THEN "FROZEN" ELSE "CLEAR"
    /\ UNCHANGED <<report, series>>

StressNext == (\E pnl \in ScenarioPnls : RunScenario(pnl)) \/ BuildBreaker

StressSpec == StressInit /\ [][StressNext]_stressVars

-----------------------------------------------------------------------------
(* The breaker, which reads only the metrics, freezes new risk exactly     *)
(* when the report itself labelled some scenario FREEZE_NEW_RISK, also one *)
(* the later scenarios recovered from (portfolio_stress.py:119-136,        *)
(* 160-168, metrics.py:57-63).                                             *)
FreezesOnAnyBreach ==
    breaker # "NONE" =>
        (breaker = "FROZEN" <=>
            \E i \in DOMAIN report.labels :
                report.labels[i] = "FREEZE_NEW_RISK")
=============================================================================
