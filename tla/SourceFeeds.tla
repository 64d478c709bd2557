----------------------------- MODULE SourceFeeds -----------------------------
(***************************************************************************)
(* The adapters of the public data sources (hedge_desk/data: open_market_  *)
(* feeds, institutional_feeds, public_signal_feeds), the market context    *)
(* built of them (market_context.py) and the probe of the sources page     *)
(* (web_app.py).  An adapter asks its provider once or several times, each *)
(* time as often as its transport retries, and returns rows or raises.     *)
(* The sources share no state but FRED's cache, modelled in SeriesCache:   *)
(* one task at a time is every interleaving of them.                       *)
(***************************************************************************)
EXTENDS Naturals, Sequences, FiniteSets

CONSTANTS
    Tenors,      \* number of TREASURY_DGS_TENORS
    Watchlist,   \* number of symbols asked for quotes
    MaxRows      \* bound: usable rows of an answer

ASSUME SourceAssumption == {Tenors, Watchlist, MaxRows} \subseteq Nat \ {0}

VARIABLES
    credentials, \* the keyed sources the environment has credentials for
    task,        \* the source being read, for whom, and what it gave so far
    tally,       \* sources of the context under construction, by status
    lost,        \* history: of these, one did not answer or was not understood
    mark,        \* the last judgement: by whom, on what, the status and the count
    context      \* the context built last: its status, live sources, and what was lost

sourceVars == <<credentials, task, tally, lost, mark, context>>

\* build_market_context, in its order
ContextSources ==
    << "fred", "nyfed-markets", "treasury-fiscaldata", "treasury-rates", "fdic",
       "world-bank", "bis", "bls", "ecb-fx", "imf", "oecd", "eurostat", "usgs",
       "nasa-eonet", "bank-of-canada", "frankfurter", "nws", "cftc-cot", "bea",
       "usda-nass", "eia-open-data", "finra", "nasdaq-quotes", "nasdaq-earnings",
       "coinbase-exchange" >>

\* build_data_source_status
ProbedSources ==
    {"fred", "nyfed-markets", "treasury-fiscaldata", "treasury-rates", "fdic",
     "world-bank", "bls", "ecb-fx", "cftc-cot", "sec-edgar", "eia-open-data", "finra"}

Keyed == {"bea", "usda-nass", "eia-open-data", "finra"}

Statuses == {"LIVE", "BLOCKED", "UNCONFIGURED"}
NoTask == [for |-> "nobody", source |-> "none", number |-> 0, read |-> 1, attempt |-> 1, rows |-> 0]

-----------------------------------------------------------------------------
(* What an adapter makes of an answer: of the form it expects or not, with *)
(* so many rows that it can use and so many that it cannot.                *)
Answers == [whole : BOOLEAN, good : 0..MaxRows, odd : 0..1]
Refused == MaxRows + 1

\* every row must be an object, and there may be none
RowList(a) == IF a.whole /\ a.odd = 0 THEN a.good ELSE Refused
\* what is no row is passed over, and there may be none
AnyRows(a) == IF a.whole THEN a.good ELSE Refused
\* what is no observation is passed over, and there must be one
SomeRows(a) == IF a.whole /\ a.good > 0 THEN a.good ELSE Refused
\* every row must have its fields, and there must be one
OnlyRows(a) == IF a.whole /\ a.odd = 0 /\ a.good > 0 THEN a.good ELSE Refused

TreasuryLatestAuctions(a) == RowList(a)
CftcCot(a) == RowList(a)
NyfedReferenceRates(a) == RowList(a)
EiaV2(a) == RowList(a)
FinraToken(a) == IF a.whole THEN 0 ELSE Refused
FinraFixedIncome(a) == RowList(a)
FinraEquity(a) == RowList(a)
UsgsEarthquakes(a) == AnyRows(a)
NasaEonetEvents(a) == AnyRows(a)
NwsActiveAlerts(a) == AnyRows(a)
BeaNipaTable(a) == AnyRows(a)
UsdaNassCropProgress(a) == AnyRows(a)
NasdaqEarningsCalendar(a) == AnyRows(a)
BlsLatestSeries(a) == IF a.whole /\ a.good + a.odd > 0 THEN a.good ELSE Refused
EcbExchangeRates(a) == SomeRows(a)
FdicFailures(a) == SomeRows(a)
WorldBankIndicator(a) == SomeRows(a)
ImfGdpGrowth(a) == SomeRows(a)
OecdCompositeLeadingIndicator(a) == SomeRows(a)
EurostatQuarterlyGdp(a) == SomeRows(a)
BankOfCanadaFx(a) == SomeRows(a)
FrankfurterFx(a) == SomeRows(a)
FredSeries(a) == SomeRows(a)
TreasuryYieldCurve(a) == FredSeries(a)
BisGlobalLiquidity(a) == OnlyRows(a)
CoinbaseProductTrades(a) == OnlyRows(a)
\* a row for the symbol, whatever fields it lacks
NasdaqQuote(a) == IF a.whole THEN 1 ELSE Refused
\* a mapping with the field asked for
SecFilings(a) == IF a.whole THEN 1 ELSE Refused

RowsOf(source, read, a) ==
    CASE source = "fred"                -> FredSeries(a)
      [] source = "nyfed-markets"       -> NyfedReferenceRates(a)
      [] source = "treasury-fiscaldata" -> TreasuryLatestAuctions(a)
      [] source = "treasury-rates"      -> TreasuryYieldCurve(a)
      [] source = "fdic"                -> FdicFailures(a)
      [] source = "world-bank"          -> WorldBankIndicator(a)
      [] source = "bis"                 -> BisGlobalLiquidity(a)
      [] source = "bls"                 -> BlsLatestSeries(a)
      [] source = "ecb-fx"              -> EcbExchangeRates(a)
      [] source = "imf"                 -> ImfGdpGrowth(a)
      [] source = "oecd"                -> OecdCompositeLeadingIndicator(a)
      [] source = "eurostat"            -> EurostatQuarterlyGdp(a)
      [] source = "usgs"                -> UsgsEarthquakes(a)
      [] source = "nasa-eonet"          -> NasaEonetEvents(a)
      [] source = "bank-of-canada"      -> BankOfCanadaFx(a)
      [] source = "frankfurter"         -> FrankfurterFx(a)
      [] source = "nws"                 -> NwsActiveAlerts(a)
      [] source = "cftc-cot"            -> CftcCot(a)
      [] source = "bea"                 -> BeaNipaTable(a)
      [] source = "usda-nass"           -> UsdaNassCropProgress(a)
      [] source = "eia-open-data"       -> EiaV2(a)
      [] source = "finra"               -> IF read \in {1, 3} THEN FinraToken(a)
                                           ELSE IF read = 2 THEN FinraFixedIncome(a)
                                           ELSE FinraEquity(a)
      [] source = "nasdaq-quotes"       -> NasdaqQuote(a)
      [] source = "nasdaq-earnings"     -> NasdaqEarningsCalendar(a)
      [] source = "coinbase-exchange"   -> CoinbaseProductTrades(a)
      [] source = "sec-edgar"           -> SecFilings(a)

\* the reads of an adapter: each dataset of FINRA takes a token of its own,
\* and the probe asks for one of them
ReadsOf(for, source) ==
    CASE source = "treasury-rates" -> Tenors
      [] source = "nasdaq-quotes"  -> Watchlist
      [] source = "finra"          -> IF for = "context" THEN 4 ELSE 2
      [] OTHER                     -> 1

\* the transports: _fetch_json, _fetch_bytes, _fetch_request_json and
\* _json_request retry twice, fred_series_rows three times but for the probe
TriesOf(for, source) ==
    CASE source \in {"bis", "coinbase-exchange"} -> 1
      [] source = "fred" /\ for = "probe"        -> 1
      [] source \in {"fred", "treasury-rates"}   -> 4
      [] OTHER                                   -> 3

\* fred_series_rows retries any failure, the others the transient ones
Retried(source, transient) == transient \/ source \in {"fred", "treasury-rates"}

-----------------------------------------------------------------------------
NoContext == [status |-> "none", live |-> 0, lost |-> FALSE]
NoTally == [s \in Statuses |-> 0]

SourceInit ==
    /\ credentials \in SUBSET Keyed
    /\ task = NoTask
    /\ tally = NoTally
    /\ lost = FALSE
    /\ mark = [by |-> "nobody", source |-> "none", status |-> "BLOCKED", count |-> 0]
    /\ context = NoContext

Unconfigured(source) == source \in Keyed \ credentials

ContextTask(n) ==
    [NoTask EXCEPT !.for = "context", !.number = n, !.source = ContextSources[n]]

\* The judgement on a source; the context goes on with the next.
Judge(status, count) ==
    /\ mark' = [by |-> task.for, source |-> task.source, status |-> status, count |-> count]
    /\ IF task.for = "context"
       THEN /\ tally' = [tally EXCEPT ![status] = @ + 1]
            /\ lost' = (lost \/ status = "BLOCKED")
            /\ task' = IF task.number < Len(ContextSources) THEN ContextTask(task.number + 1)
                       ELSE [NoTask EXCEPT !.for = "summary"]
       ELSE /\ task' = NoTask
            /\ UNCHANGED <<tally, lost>>

StartContext ==
    /\ task = NoTask
    /\ task' = ContextTask(1)
    /\ context' = NoContext
    /\ UNCHANGED <<credentials, tally, lost, mark>>

StartProbe(source) ==
    /\ task = NoTask
    /\ task' = [NoTask EXCEPT !.for = "probe", !.source = source]
    /\ UNCHANGED <<credentials, tally, lost, mark, context>>

Reading == task.for \in {"context", "probe"} /\ ~Unconfigured(task.source)

SkipUnconfigured ==
    /\ task.for \in {"context", "probe"} /\ Unconfigured(task.source)
    /\ Judge("UNCONFIGURED", 0)
    /\ UNCHANGED <<credentials, context>>

\* The adapter raises: for filings the probe then asks for the company facts.
Raised ==
    IF task.source = "sec-edgar" /\ task.read = 1
    THEN /\ task' = [task EXCEPT !.read = 2, !.attempt = 1]
         /\ UNCHANGED <<tally, lost, mark>>
    ELSE Judge("BLOCKED", 0)

ReadFails ==
    /\ Reading
    /\ \E transient \in BOOLEAN :
          IF Retried(task.source, transient) /\ task.attempt < TriesOf(task.for, task.source)
          THEN /\ task' = [task EXCEPT !.attempt = @ + 1]
               /\ UNCHANGED <<tally, lost, mark>>
          ELSE Raised
    /\ UNCHANGED <<credentials, context>>

\* _live of the context, and _probe_source, which wants a row
Accepted(rows) ==
    IF task.for = "probe" /\ rows = 0 THEN Judge("BLOCKED", 0) ELSE Judge("LIVE", rows)

ReadAnswers ==
    /\ Reading
    /\ \E a \in Answers :
          LET rows == RowsOf(task.source, task.read, a)
          IN CASE rows = Refused -> Raised
               [] rows # Refused /\ task.read < ReadsOf(task.for, task.source) ->
                     /\ task' = [task EXCEPT !.read = @ + 1, !.attempt = 1, !.rows = @ + rows]
                     /\ UNCHANGED <<tally, lost, mark>>
               [] OTHER -> Accepted(task.rows + rows)
    /\ UNCHANGED <<credentials, context>>

Overall ==
    CASE tally["LIVE"] > 0 /\ tally["BLOCKED"] = 0 -> "LIVE"
      [] tally["LIVE"] > 0 /\ tally["BLOCKED"] > 0 -> "DEGRADED"
      [] OTHER                                     -> "BLOCKED"

Summarize ==
    /\ task.for = "summary"
    /\ context' = [status |-> Overall, live |-> tally["LIVE"], lost |-> lost]
    /\ task' = NoTask
    /\ tally' = NoTally /\ lost' = FALSE
    /\ UNCHANGED <<credentials, mark>>

SourceNext ==
    \/ StartContext
    \/ \E source \in ProbedSources : StartProbe(source)
    \/ SkipUnconfigured
    \/ ReadFails
    \/ ReadAnswers
    \/ Summarize

SourceSpec == SourceInit /\ [][SourceNext]_sourceVars

-----------------------------------------------------------------------------
\* The sources whose adapters are content with no row.
MayBeEmpty ==
    {"nyfed-markets", "treasury-fiscaldata", "cftc-cot", "eia-open-data", "finra", "usgs",
     "nasa-eonet", "nws", "bea", "usda-nass", "nasdaq-earnings", "bls"}

(* What the desk says of its data: the sources page never calls a source   *)
(* live that has no row, the market context does so only for those whose   *)
(* adapters accept an empty answer, and a context called live has lost no  *)
(* source it has credentials for, nor one called degraded all of them.     *)
ContextHonest ==
    /\ mark.status = "LIVE" /\ mark.count = 0 =>
          mark.by = "context" /\ mark.source \in MayBeEmpty
    /\ context.status = "LIVE" => ~context.lost /\ context.live > 0
    /\ context.status = "DEGRADED" => context.lost /\ context.live > 0
=============================================================================
