------------------------------- MODULE MCDesk -------------------------------
(* The components of the desk that share no state, each on a small         *)
(* instance.  A behaviour takes the steps of one of them, the part it      *)
(* starts with; the others stay as they were initialized.                  *)
EXTENDS AuditJournal, ScheduledRuns, MarketContext, MCSignIn, ResponseCache,
        PremiumTrade, RiskBook, StressReport, EodBatch, Console, QuoteFeed,
        SeriesCache, SourceFeeds, MCNightly, MorningReport, ResearchDesks, TLC

VARIABLE part

vars == <<journalVars, schedulerVars, contextVars, signInVars,
          cacheVars, tradeVars, bookVars, stressVars,
          eodVars, consoleVars, quoteVars, seriesVars, sourceVars, nightlyVars, morningVars,
          researchVars,
          part>>

Parts == {"journal", "scheduler", "context", "sign-in", "cache",
          "trade", "book", "stress", "eod", "console",
          "quotes", "series", "sources", "nightly", "morning", "research"}

DeskInit ==
    /\ part \in Parts
    /\ JournalInit /\ SchedulerInit /\ ContextInit /\ SignInInit /\ CacheInit
    /\ PremiumInit /\ BookInit /\ StressInit /\ EodInit /\ ConsoleInit
    /\ QuoteInit /\ SeriesInit /\ SourceInit
    /\ NightlyInit
    /\ MorningInit
    /\ ResearchInit
    /\ part # "sign-in" => locked
    /\ part # "trade" => chain.snap = CHOOSE s \in Snapshots : TRUE
    /\ part # "console" => role[Gp] = "GP"
    /\ part # "series" => observed = 0
    /\ part # "research" => desk = "news"
    /\ deployed.gap = 30
    /\ credentials \in IF part = "sources" THEN {{}, {"bea", "finra"}, Keyed} ELSE {{}}

\* The parts that are not p stay as they are.
Only(p) ==
    /\ UNCHANGED part
    /\ IF p = "journal" THEN TRUE ELSE UNCHANGED journalVars
    /\ IF p = "scheduler" THEN TRUE ELSE UNCHANGED schedulerVars
    /\ IF p = "context" THEN TRUE ELSE UNCHANGED contextVars
    /\ IF p = "sign-in" THEN TRUE ELSE UNCHANGED signInVars
    /\ IF p = "cache" THEN TRUE ELSE UNCHANGED cacheVars
    /\ IF p = "trade" THEN TRUE ELSE UNCHANGED tradeVars
    /\ IF p = "book" THEN TRUE ELSE UNCHANGED bookVars
    /\ IF p = "stress" THEN TRUE ELSE UNCHANGED stressVars
    /\ IF p = "eod" THEN TRUE ELSE UNCHANGED eodVars
    /\ IF p = "console" THEN TRUE ELSE UNCHANGED consoleVars
    /\ IF p = "quotes" THEN TRUE ELSE UNCHANGED quoteVars
    /\ IF p = "series" THEN TRUE ELSE UNCHANGED seriesVars
    /\ IF p = "sources" THEN TRUE ELSE UNCHANGED sourceVars
    /\ IF p = "nightly" THEN TRUE ELSE UNCHANGED nightlyVars
    /\ IF p = "morning" THEN TRUE ELSE UNCHANGED morningVars
    /\ IF p = "research" THEN TRUE ELSE UNCHANGED researchVars

DeskNext ==
    \/ part = "journal" /\ JournalNext /\ Only("journal")
    \/ part = "scheduler" /\ SchedulerNext /\ Only("scheduler")
    \/ part = "context" /\ ContextNext /\ Only("context")
    \/ part = "sign-in" /\ SignInNext /\ Only("sign-in")
    \/ part = "cache" /\ CacheNext /\ Only("cache")
    \/ part = "trade" /\ PremiumNext /\ Only("trade")
    \/ part = "book" /\ BookNext /\ Only("book")
    \/ part = "stress" /\ StressNext /\ Only("stress")
    \/ part = "eod" /\ EodNext /\ Only("eod")
    \/ part = "console" /\ ConsoleNext /\ Only("console")
    \/ part = "quotes" /\ QuoteNext /\ Only("quotes")
    \/ part = "series" /\ SeriesNext /\ Only("series")
    \/ part = "sources" /\ SourceNext /\ Only("sources")
    \/ part = "nightly" /\ NightlyNext /\ Only("nightly")
    \/ part = "morning" /\ MorningNext /\ Only("morning")
    \/ part = "research" /\ ResearchNext /\ Only("research")

\* Two states of one part differ in the variables of that part only, and not
\* when they differ in which thread does what, or which client address called
\* when: no property and no step tells them apart.
Anonymous(doing) ==
    [d \in {doing[t] : t \in DOMAIN doing} |->
        Cardinality({t \in DOMAIN doing : doing[t] = d})]
AtLimiter(l, key) ==
    <<key \in DOMAIN events[l], IF key \in DOMAIN events[l] THEN events[l][key] ELSE <<>>,
      grants[l][key]>>

PartView ==
    <<part,
      CASE part = "journal" -> journalVars
        [] part = "scheduler" -> schedulerVars
        [] part = "context" -> contextVars
        [] part = "sign-in" ->
             <<now, Anonymous([i \in ClientIps |-> AtLimiter("request_per_ip", i)]),
               [l \in Limiters \ {"request_per_ip"} |-> [e \in Emails |-> AtLimiter(l, e)]],
               locked, codes, guest, Anonymous(handler), restarted, spent, late>>
        [] part = "cache" -> cacheVars
        [] part = "trade" -> tradeVars
        [] part = "book" -> bookVars
        [] part = "stress" -> stressVars
        [] part = "eod" -> eodVars
        [] part = "console" -> <<role, session, consents, redeemed, linked, Anonymous(visit),
                                 unearned, links>>
        [] part = "quotes" -> quoteVars
        [] part = "series" -> <<today, observed, files, names, Anonymous(caller), opening,
                                fetched, unheard, outdated>>
        [] part = "sources" -> sourceVars
        [] part = "nightly" -> nightlyVars
        [] part = "morning" -> morningVars
        [] part = "research" -> researchVars>>

DeskSpec == DeskInit /\ [][DeskNext]_vars

-----------------------------------------------------------------------------
Put(k) == [type |-> "PUT", strike |-> k, expiration |-> 3]
Call(k) == [type |-> "CALL", strike |-> k, expiration |-> 5]
MCContracts == {Put(12), Put(20), Call(12), Call(20)}
Quoted(b, a) == [bid |-> b, ask |-> a]
ChainOf(p20, p12, c12, c20, u, al) ==
    [quote |-> (Put(20) :> p20 @@ Put(12) :> p12 @@ Call(12) :> c12 @@ Call(20) :> c20),
     underlying |-> u, aligned |-> al, liquid |-> MCContracts]
MCSnapshots ==
    { ChainOf(Quoted(6,7), Quoted(3,3), Quoted(9,9), Quoted(6,6), Quoted(17,18), TRUE),
      ChainOf(Quoted(3,4), Quoted(3,3), Quoted(2,2), Quoted(1,1), Quoted(21,22), FALSE),
      ChainOf(Quoted(10,10), Quoted(3,3), Quoted(2,2), Quoted(1,1), Quoted(11,11), TRUE) }
MCSessions == {[open |-> 2*d, close |-> 2*d+1, received |-> 0] : d \in 0..6}
MCEvents == {[type |-> "EARNINGS", date |-> 1], [type |-> "EARNINGS", date |-> 3],
             [type |-> "EX_DIVIDEND", date |-> 4]}

Candidate(s, l) ==
    [symbol |-> s, loss |-> l, eligible |-> TRUE, liquid |-> TRUE, ruin |-> TRUE]
MCFacts == "a" :> Candidate("S", 1) @@ "b" :> Candidate("S", 2) @@ "c" :> Candidate("T", 2)

MCDrawnArm == <<1, 1>> :> "EQUITY" @@ <<1, 2>> :> "NO_TRADE"

MCDesks == {{1}, {1, 2}}

MCPnls == {-3, -1, 2}

Weights(us, cash) ==
    "US_EQUITY" :> us @@ "FIXED_INCOME" :> 25 @@ "REAL_ASSET" :> 25 @@ "CASH" :> cash
Suites(n) == "premium" :> [scenarios |-> 3, noTrade |-> 0]
             @@ "compliance-controls" :> [scenarios |-> 9, noTrade |-> n]
             @@ "candidate-pipeline-controls" :> [scenarios |-> 4, noTrade |-> 2]
FirstCommit ==
    [plan |-> 1, riskInput |-> 1, payload |-> 1, positions |-> 1, batch |-> 1,
     gap |-> 30, sameMonth |-> FALSE, weights |-> Weights(25, 25), cape |-> 35,
     dataPass |-> TRUE, riskPass |-> TRUE, compliancePass |-> TRUE,
     suites |-> Suites(8), stress |-> 10]
MCCommits ==
    { FirstCommit,
      [FirstCommit EXCEPT !.plan = 2, !.riskInput = 2, !.positions = 2, !.gap = 45,
                          !.weights = Weights(40, 10)],
      [FirstCommit EXCEPT !.payload = 3, !.gap = 12, !.sameMonth = TRUE, !.batch = 3,
                          !.suites = Suites(7), !.stress = 11, !.compliancePass = FALSE] }
=============================================================================
