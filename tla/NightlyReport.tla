--------------------------- MODULE NightlyReport ---------------------------
(***************************************************************************)
(* The nightly batch: one evening's answers of the providers become a      *)
(* report, the report is published under its date and as the latest one,   *)
(* the page is rendered from it twice (am_demo, then the Plotly build),    *)
(* and the GP records decisions bound to the report he read.  A batch may  *)
(* die between any two of its writes; a decision recorded from a report    *)
(* read earlier may be cut in the middle of its line.  The batches follow  *)
(* one another: the scheduler starts no two of them at a time.             *)
(*                                                                         *)
(* Money is in cents.  A report's sha256 stands for the number of the      *)
(* batch that built it.                                                    *)
(***************************************************************************)
EXTENDS Integers, Sequences, FiniteSetsExt, Functions

CONSTANTS
    Evenings,   \* what the providers may answer one batch (see the ASSUME)
    MaxNights,  \* bound on the batches
    MaxDate,    \* bound on the days
    MaxSheets   \* bound on the recorded decisions

(* A chain is BLOCKED or has a price, the days to its expirations and the  *)
(* bids of its puts by strike; equity 0 and VIX close 0 stand for "none".  *)
ASSUME EveningsAssumption ==
    /\ MaxDate \in Nat \ {0}
    /\ \A e \in Evenings :
        /\ e.eod \in {"READY", "REJECTED", "RAISED"}
        /\ \A s \in DOMAIN e.lastBar : e.lastBar[s] \in {-1, 0, 1}
        /\ DOMAIN e.puts = DOMAIN e.lastBar
        /\ \A s \in DOMAIN e.puts : ~ e.puts[s].blocked =>
               /\ e.puts[s].price \in Nat /\ e.puts[s].days \subseteq Nat
               /\ DOMAIN e.puts[s].bid \subseteq Nat /\ Range(e.puts[s].bid) \subseteq Nat
        /\ \A c \in DOMAIN e.filings :
               /\ e.filings[c] \in Seq(Range(e.filings[c]))
               /\ \A f \in Range(e.filings[c]) : f.end \in Nat
        /\ e.macro \subseteq {"CPI", "UNRATE", "DGS5", "DGS30"}
        /\ e.equity \in Nat /\ e.vix \in Nat
        /\ e.rates \in BOOLEAN /\ e.oil \in BOOLEAN

VARIABLES
    calendar, \* the UTC day
    night,   \* [step, night]: the batch under way and its evening
    nights,  \* history: [evening, date, report] of every batch started
    dated,   \* [date -> night] of am-report-<date>.json, 0 when there is none
    latest,  \* night of am-report-latest.json, 0 when there is none
    page,    \* [night, whole] of am-demo.html
    sheet,   \* the decision being recorded, or NoSheet
    vault    \* [sheets, torn]: the lines of yellow-sheets.jsonl
nightlyVars == <<calendar, night, nights, dated, latest, page, sheet, vault>>

NoReport == [none |-> TRUE]
NoSheet == [none |-> TRUE]
Report == nights[latest].report

NightlyInit ==
    /\ calendar = 1
    /\ night = [step |-> "IDLE", night |-> 0]
    /\ nights = <<>>
    /\ dated = [d \in 1..MaxDate |-> 0]
    /\ latest = 0
    /\ page = [night |-> 0, whole |-> TRUE]
    /\ sheet = NoSheet
    /\ vault = [sheets |-> <<>>, torn |-> FALSE]

-----------------------------------------------------------------------------
(* The cash-secured put of one chain.                                      *)
Distance(a, b) == IF a >= b THEN a - b ELSE b - a

\* the one expiration kept: closest to 34 days, of those from 14 to 45
Expirations(chain) == {d \in chain.days : 14 <= d /\ d <= 45}
ChosenExpiration(chain) ==
    CHOOSE d \in Expirations(chain) :
        \A x \in Expirations(chain) :
            \/ Distance(d, 34) < Distance(x, 34)
            \/ Distance(d, 34) = Distance(x, 34) /\ d <= x

\* executable puts within 12% of the price and not in the money
Executable(chain) ==
    {k \in DOMAIN chain.bid : /\ chain.bid[k] > 0
                              /\ 88 * chain.price <= 100 * k
                              /\ k <= chain.price}

TargetPut(chain) ==
    LET strike == CHOOSE k \in Executable(chain) :
                      \A x \in Executable(chain) :
                          Distance(10 * k, 9 * chain.price)
                              <= Distance(10 * x, 9 * chain.price)
    IN [strike |-> strike, credit |-> chain.bid[strike],
        dte |-> ChosenExpiration(chain)]

Collateral(put) == (put.strike - put.credit) * 100

\* Decimal.quantize rounds a tie to the even neighbour
NearestEven(n, d) ==
    LET up == 2 * (n % d) > d \/ (2 * (n % d) = d /\ (n \div d) % 2 = 1)
    IN n \div d + (IF up THEN 1 ELSE 0)

\* return on capital in basis points, as the scan reports it
PutReturn(put) == NearestEven(10000 * put.credit, put.strike - put.credit)

\* a credit above the strike gives a return below the band
WithoutEquity(put) ==
    /\ put.credit < put.strike
    /\ Collateral(put) <= 500000
    /\ put.dte \in 30..45
    /\ 50 <= PutReturn(put) /\ PutReturn(put) <= 200

(* With the account's equity the return is judged before it is rounded.    *)
EvaluatePremium(put, equity) ==
    /\ 50 * Collateral(put) <= equity
    /\ Collateral(put) <= 500000
    /\ put.strike - put.credit <= 200 * put.credit
    /\ 50 * put.credit <= put.strike - put.credit
    /\ put.dte \in 30..45

NoPut(mode) == [mode |-> mode]
ScanPut(chain, equity) ==
    IF chain.blocked THEN NoPut("BLOCKED")
    ELSE IF Expirations(chain) = {} \/ Executable(chain) = {}
              \/ ChosenExpiration(chain) < 30
    THEN NoPut("NO_CANDIDATE")
    ELSE LET put == TargetPut(chain) IN
         IF Collateral(put) = 0 THEN NoPut("BLOCKED") \* the return divides by it
         ELSE
         [mode |-> "CASH_SECURED_PUT", put |-> put,
          survivability |-> IF equity = 0 THEN "INDETERMINATE"
                            ELSE IF EvaluatePremium(put, equity)
                            THEN "PASS" ELSE "FAIL",
          fits |-> IF equity = 0 THEN WithoutEquity(put)
                   ELSE EvaluatePremium(put, equity)]

-----------------------------------------------------------------------------
(* The report of an evening.                                               *)
Regime(close) == CASE close = 0 -> "NONE"
                   [] close \in 1..14 -> "LOW"
                   [] close \in 15..19 -> "NORMAL"
                   [] close \in 20..29 -> "ELEVATED"
                   [] OTHER -> "HIGH"

(* Seeded fault: the regime stays context and filters nothing.             *)
Unfiltered(regime, scan) == scan

VixFiltered(regime, scan) ==
    [s \in DOMAIN scan |->
        IF regime = "HIGH" /\ scan[s].mode = "CASH_SECURED_PUT"
        THEN [scan[s] EXCEPT !.fits = FALSE] ELSE scan[s]]

Fitting(scan) ==
    {s \in DOMAIN scan : scan[s].mode = "CASH_SECURED_PUT" /\ scan[s].fits}
TopFits(scan) ==
    {s \in Fitting(scan) :
        \A x \in Fitting(scan) : PutReturn(scan[x].put) <= PutReturn(scan[s].put)}

ContractsWithin(capital, equity) == (equity \div 50) \div capital
ScaleSteps == {10000000, 25000000, 50000000, 100000000}
ScalePath(scan, s) ==
    [symbol |-> s, capital |-> Collateral(scan[s].put),
     contracts |-> [q \in ScaleSteps |-> ContractsWithin(Collateral(scan[s].put), q)]]

\* the first of the best wins, in the order the scans were completed
ScalePaths(scan) ==
    IF Fitting(scan) = {} THEN {[symbol |-> "NONE"]}
    ELSE {ScalePath(scan, s) : s \in TopFits(scan)}

\* a structure carries no liquidity, so that the gate never has its inputs
GateDecision(structure) == "INDETERMINATE"
ChainIncome(structures) ==
    [mode |-> "REAL",
     gated |-> {[id |-> x.id, gate |-> GateDecision(x)] :
                   x \in {y \in structures : y.otm}}]
ChainSection(e) ==
    [i \in DOMAIN e.chains |->
        IF e.chains[i].blocked THEN NoPut("BLOCKED")
        ELSE ChainIncome(e.chains[i].structures)]

\* a symbol that passed gives three structures at its last close
Passed(e) == {s \in DOMAIN e.lastBar : e.lastBar[s] >= 0}
PremiumCandidates(e) ==
    Passed(e) \X {"CASH_SECURED_PUT", "COVERED_CALL", "CREDIT_SPREAD"}

\* the youngest bar decides (lastBar is its age in days)
Current(e) == \E s \in Passed(e) : e.lastBar[s] = 0

RatesSection(e) == [mode |-> IF e.rates THEN "REAL_FRED_RATES" ELSE "BLOCKED",
                    keys |-> IF e.rates THEN {"fed_funds_effective_rate",
                                              "treasury_2y", "treasury_10y"}
                             ELSE {}]
MacroSection(e) == [mode |-> IF e.macro = {} THEN "BLOCKED"
                             ELSE "REAL_FRED_MACRO",
                    keys |-> e.macro]
(* A company's filings in the order of their periods; a period restated    *)
(* later counts once, with the value filed last.                           *)
Quarters(filings) == {f.end : f \in {x \in Range(filings) : x.form = "10-Q"}}
LastFiled(filings, end) ==
    filings[Max({i \in DOMAIN filings :
                    filings[i].form = "10-Q" /\ filings[i].end = end})]
EpsOf(filings, ends) ==
    IF ends = {} THEN [end |-> 0, eps |-> 0]
    ELSE [end |-> Max(ends), eps |-> LastFiled(filings, Max(ends)).eps]
EarningsDesk(filings) ==
    IF filings = <<>> THEN NoPut("BLOCKED")
    ELSE LET latestQ == EpsOf(filings, Quarters(filings))
         IN [mode |-> "REAL_EDGAR_EARNINGS", quarter |-> latestQ,
             prior |-> EpsOf(filings, Quarters(filings) \ {latestQ.end})]
EarningsSection(e) == [c \in DOMAIN e.filings |-> EarningsDesk(e.filings[c])]

Severity(section) == IF section.mode = "BLOCKED" THEN "DOWN" ELSE "OK"
EodSeverity(e) == CASE e.eod # "READY" -> "DOWN"
                    [] e.eod = "READY" /\ ~ Current(e) -> "STALE"
                    [] OTHER -> "OK"
\* a section by symbol or by company has no mode of its own
Present(section) == IF DOMAIN section = {} THEN "MISSING" ELSE "OK"
Severities(e) ==
    { Severity(RatesSection(e)), Severity(MacroSection(e)), EodSeverity(e),
      IF e.oil THEN "OK" ELSE "DOWN",
      Present(EarningsSection(e)), Present(ChainSection(e)) }
Quality(e) ==
    CASE "MISSING" \in Severities(e) -> "MISSING"
      [] "DOWN" \in Severities(e) /\ "MISSING" \notin Severities(e) -> "DOWN"
      [] Severities(e) = {"OK", "STALE"} \/ Severities(e) = {"STALE"} -> "STALE"
      [] Severities(e) = {"OK"} -> "OK"

ReportOf(e, scan, scale) ==
    [scan |-> scan, scale |-> scale, chains |-> ChainSection(e),
     candidates |-> PremiumCandidates(e),
     rates |-> RatesSection(e), macro |-> MacroSection(e),
     earnings |-> EarningsSection(e), quality |-> Quality(e)]

-----------------------------------------------------------------------------
(* What the server shows of a report.                                      *)
EodFeed(r) == r.candidates
EarningsFeed(r) ==
    {c \in DOMAIN r.earnings : r.earnings[c].mode = "REAL_EDGAR_EARNINGS"}
\* the 10-year yield is asked for under a key the rates section never has
MacroFeed(r) ==
    (r.macro.keys \cap {"UNRATE", "DGS5", "DGS30"})
    \cup {x.series : x \in
            {y \in { [series |-> "FEDFUNDS", key |-> "fed_funds_effective_rate"],
                     [series |-> "DGS10", key |-> "treasury_10y_yield"] } :
                y.key \in r.rates.keys}}

-----------------------------------------------------------------------------
(* The night.                                                              *)
NightStep(step) == night' = [night EXCEPT !.step = step]

(* A transport that raises while the bars are ingested ends the night.     *)
StartNightly(e) ==
    /\ night.step = "IDLE" /\ Len(nights) < MaxNights
    /\ nights' = Append(nights, [evening |-> e, date |-> calendar,
                                 report |-> NoReport])
    /\ night' = [step |-> IF e.eod = "RAISED" THEN "IDLE" ELSE "INGESTED",
                 night |-> Len(nights')]
    /\ UNCHANGED <<calendar, dated, latest, page, sheet, vault>>

(* A vault that does not read raises here, after everything was fetched.   *)
BuildNightly ==
    /\ night.step = "INGESTED"
    /\ IF vault.torn
       THEN NightStep("IDLE") /\ UNCHANGED nights
       ELSE LET e == nights[night.night].evening
                scan == VixFiltered(Regime(e.vix),
                            [s \in DOMAIN e.puts |-> ScanPut(e.puts[s], e.equity)])
            IN /\ \E scale \in ScalePaths(scan) :
                     nights' = [nights EXCEPT ![night.night].report =
                                    ReportOf(e, scan, scale)]
               /\ NightStep("BUILT")
    /\ UNCHANGED <<calendar, dated, latest, page, sheet, vault>>

PublishDated ==
    /\ night.step = "BUILT"
    /\ dated' = [dated EXCEPT ![nights[night.night].date] = night.night]
    /\ NightStep("DATED")
    /\ UNCHANGED <<calendar, nights, latest, page, sheet, vault>>

PublishLatest ==
    /\ night.step = "DATED"
    /\ latest' = night.night
    /\ NightStep("PUBLISHED")
    /\ UNCHANGED <<calendar, nights, dated, page, sheet, vault>>

(* am_demo and then the Plotly build truncate the page and write it.       *)
OpenPage ==
    /\ \/ night.step = "PUBLISHED" /\ NightStep("DEMO")
       \/ night.step = "DEMO WRITTEN" /\ NightStep("PLOTLY")
    /\ page' = [page EXCEPT !.whole = FALSE]
    /\ UNCHANGED <<calendar, nights, dated, latest, sheet, vault>>

\* the first page is of the report in memory, the second of the file
WritePage ==
    /\ \/ /\ night.step = "DEMO" /\ NightStep("DEMO WRITTEN")
          /\ page' = [night |-> night.night, whole |-> TRUE]
       \/ /\ night.step = "PLOTLY" /\ NightStep("IDLE")
          /\ page' = [night |-> latest, whole |-> TRUE]
    /\ UNCHANGED <<calendar, nights, dated, latest, sheet, vault>>

CrashNightly ==
    /\ night.step # "IDLE"
    /\ NightStep("IDLE")
    /\ UNCHANGED <<calendar, nights, dated, latest, page, sheet, vault>>

NextDay ==
    /\ calendar < MaxDate
    /\ calendar' = calendar + 1
    /\ UNCHANGED <<night, nights, dated, latest, page, sheet, vault>>

-----------------------------------------------------------------------------
(* The GP's decision document.                                             *)
LoadSheet(s) ==
    /\ sheet = NoSheet /\ latest # 0
    /\ Len(vault.sheets) < MaxSheets
    /\ Report.scan[s].mode = "CASH_SECURED_PUT"
    /\ sheet' = [symbol |-> s, risk |-> Report.scan[s], bound |-> latest]
    /\ UNCHANGED <<calendar, night, nights, dated, latest, page, vault>>

(* A line appended after a cut one is glued to it and reads no better.     *)
AppendSheet ==
    /\ sheet # NoSheet
    /\ \/ vault' = [vault EXCEPT !.sheets = Append(@, sheet)]
       \/ vault' = [vault EXCEPT !.torn = TRUE]
    /\ sheet' = NoSheet
    /\ UNCHANGED <<calendar, night, nights, dated, latest, page>>

NightlyNext ==
    \/ \E e \in Evenings : StartNightly(e)
    \/ BuildNightly \/ PublishDated \/ PublishLatest
    \/ OpenPage \/ WritePage \/ CrashNightly \/ NextDay
    \/ \E e \in Evenings : \E s \in DOMAIN e.puts :
          latest # 0 /\ s \in DOMAIN Report.scan /\ LoadSheet(s)
    \/ AppendSheet

NightlySpec == NightlyInit /\ [][NightlyNext]_nightlyVars

-----------------------------------------------------------------------------
(* A put the latest report presents as fitting the GP's rules does, judged *)
(* from the chain itself: capital, days, and the loss within 2% of a known *)
(* equity; the return exactly with one, else within its rounding; and none *)
(* fits in a HIGH regime (vix_regime.py: "fail-closed on the risk          *)
(* filter").  Its scale path holds the 2% rule and wastes no contract.     *)
FitWithin(chain, equity, put) ==
    LET net == put.strike - put.credit IN
    /\ ~ chain.blocked /\ chain.bid[put.strike] = put.credit
    /\ put.dte \in chain.days /\ put.dte \in 30..45
    /\ net <= 5000
    /\ equity # 0 => 100 * net <= equity \div 50
    /\ 20000 * put.credit >= (IF equity = 0 THEN 99 ELSE 100) * net
    /\ 20000 * put.credit <= (IF equity = 0 THEN 401 ELSE 400) * net
ScaleWithin(scan, scale) ==
    scale.symbol # "NONE" =>
        /\ scale.symbol \in Fitting(scan)
        /\ \A q \in ScaleSteps :
              LET n == scale.contracts[q] IN
              /\ 50 * n * scale.capital <= q
              /\ q < 50 * (n + 1) * scale.capital
FitsAreTrue(e, r) ==
    /\ \A s \in Fitting(r.scan) :
          e.vix < 30 /\ FitWithin(e.puts[s], e.equity, r.scan[s].put)
    /\ ScaleWithin(r.scan, r.scale)

(* What the worst severity of the sources does tell: OK and STALE are said *)
(* exactly when none of the watched sections failed as a whole, and which  *)
(* of the two by the youngest bar kept being of the evening or not         *)
(* (data_quality.py, quality_report).  It tells nothing of the other bars, *)
(* nor of a section that has a mode for each of its entries.               *)
NothingFailed(e) ==
    /\ e.eod = "READY" /\ e.rates /\ e.oil /\ e.macro # {}
    /\ DOMAIN e.filings # {} /\ DOMAIN e.chains # {}
SomeBarIsOfTheEvening(e) == \E s \in DOMAIN e.lastBar : e.lastBar[s] = 0
QualityIsTrue(e, r) ==
    /\ r.quality \in {"OK", "STALE"} <=> NothingFailed(e)
    /\ r.quality = "OK" => SomeBarIsOfTheEvening(e)
    /\ r.quality = "STALE" => ~ SomeBarIsOfTheEvening(e)

(* What the feeds show was observed on the evening whose report they name  *)
(* (candidates.py: "BLOCKED ... never invented values").                   *)
FeedsAreTrue(e, r) ==
    /\ \A x \in EodFeed(r) : e.lastBar[x[1]] >= 0
    /\ \A c \in EarningsFeed(r) :
          LET q == r.earnings[c].quarter
              p == r.earnings[c].prior
          IN /\ e.filings[c] # <<>>
             /\ p.end # 0 => p.end < q.end
             /\ \A i \in DOMAIN e.filings[c] :
                   e.filings[c][i].form = "10-Q" =>
                       e.filings[c][i].end \in {p.end, q.end} \cup 0..p.end
    /\ \A x \in MacroFeed(r) : x \in e.macro \/ (x = "FEDFUNDS" /\ e.rates)

(* The page, the latest report and the dated one are of one batch or each  *)
(* of an older one than the next, wherever a batch died.                   *)
PublishedInOrder ==
    /\ page.whole => page.night <= latest
    /\ latest # 0 => /\ latest <= dated[nights[latest].date]
                     /\ nights[latest].report # NoReport

(* A decision is bound to the report its risk was read in, though a later  *)
(* batch may have replaced that report while the GP was deciding.          *)
SheetsBound ==
    \A i \in DOMAIN vault.sheets :
        LET x == vault.sheets[i]
        IN nights[x.bound].report.scan[x.symbol] = x.risk

(* What the desk reads in the morning is true of one evening.              *)
NightlyTrue ==
    /\ latest # 0 => /\ FitsAreTrue(nights[latest].evening, Report)
                     /\ QualityIsTrue(nights[latest].evening, Report)
                     /\ FeedsAreTrue(nights[latest].evening, Report)
    /\ PublishedInOrder
    /\ SheetsBound

-----------------------------------------------------------------------------
(* A report whose quality is OK proposes structures of symbols whose bar   *)
(* is of the evening, and no company or chain of it was BLOCKED            *)
(* (data_quality.py: "OK: source is current and healthy", "DOWN: source    *)
(* failed this run (BLOCKED"; freshness.py: "never silently present        *)
(* yesterday's bar as today's").                                           *)
OkIsHealthy ==
    latest # 0 /\ Report.quality = "OK" =>
        /\ \A x \in Report.candidates : nights[latest].evening.lastBar[x[1]] = 0
        /\ \A c \in DOMAIN Report.earnings : Report.earnings[c].mode # "BLOCKED"
        /\ \A c \in DOMAIN Report.chains : Report.chains[c].mode # "BLOCKED"
=============================================================================
