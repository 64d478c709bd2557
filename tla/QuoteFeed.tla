------------------------------ MODULE QuoteFeed ------------------------------
(***************************************************************************)
(* Quotes of the broker: the paced and cached adapter                      *)
(* (brokers/schwab_market_data.py), which the route /api/broker/quotes     *)
(* keeps for the life of the process, and the console report               *)
(* (schwab_core_data.py, live_desk_data.py), which makes an adapter of its *)
(* own each time it fetches and corroborates what it got with Yahoo.  The  *)
(* window of the calls made is the process's and shared by all of them.    *)
(***************************************************************************)
EXTENDS Naturals, Sequences, FiniteSets

CONSTANTS
    Readers,         \* threads of the server
    Batches,         \* number of batches the normalized symbols fall into
    Rpm,             \* _configured_rpm
    RateSpan,        \* the 60 seconds of the window
    CacheSeconds,    \* quote_cache_seconds
    Desks,           \* DESK_SYMBOLS: the sets of batches the desks' symbols are in
    MaxCalls,        \* bound: calls of the broker
    MaxQuoteTime     \* bound: instants

ASSUME QuoteAssumption ==
    /\ {Batches, Rpm, RateSpan} \subseteq Nat \ {0}
    /\ CacheSeconds \in Nat
    /\ Desks \subseteq SUBSET (1..Batches)

VARIABLES
    qnow,        \* time.monotonic
    rateWindow,  \* _RATE_WINDOW
    admissions,  \* history: the instants at which calls were let through
    quoteCache,  \* _quote_cache of the route's adapter: the deadline, and when each batch was read
    reader,      \* what each thread is doing
    hit          \* history: the last hit: when its thread asked, when its quotes were read

quoteVars == <<qnow, rateWindow, admissions, quoteCache, reader, hit>>

NoEntry == [deadline |-> 0, read |-> <<>>]
NoHit == [since |-> 0, read |-> <<>>]
\* for the route a thread reads "quotes", for the report "desks", then "scenarios"
Unoccupied == [at |-> "idle", reads |-> "quotes", since |-> 0, read |-> <<>>]

QuoteInit ==
    /\ qnow = 0
    /\ rateWindow = <<>> /\ admissions = <<>>
    /\ quoteCache = NoEntry
    /\ reader = [r \in Readers |-> Unoccupied]
    /\ hit = NoHit

-----------------------------------------------------------------------------
(* quotes: the thread takes the time first and may then wait for the lock  *)
(* under which it looks into the cache.  The time taken decides whether an *)
(* entry is past its deadline, and the new deadline will count from it; a  *)
(* hit is returned as it is, an entry past its deadline is dropped.        *)
Ask(r) ==
    /\ reader[r].at = "idle"
    /\ reader' = [reader EXCEPT ![r] = [Unoccupied EXCEPT !.at = "looking", !.since = qnow]]
    /\ UNCHANGED <<qnow, rateWindow, admissions, quoteCache, hit>>

Cached(r) == quoteCache.deadline > reader[r].since

ServeHit(r) ==
    /\ reader[r].at = "looking" /\ Cached(r)
    /\ hit' = [since |-> reader[r].since, read |-> quoteCache.read]
    /\ reader' = [reader EXCEPT ![r] = Unoccupied]
    /\ UNCHANGED <<qnow, rateWindow, admissions, quoteCache>>

StartMiss(r) ==
    /\ reader[r].at = "looking" /\ ~Cached(r)
    /\ quoteCache' = NoEntry
    /\ reader' = [reader EXCEPT ![r].at = "pacing"]
    /\ UNCHANGED <<qnow, rateWindow, admissions, hit>>

\* _pace: calls leave the window from the front until one is recent, and the
\* call is admitted when there is room; a thread that finds none asks again
FirstOf(calls) == CHOOSE i \in calls : \A j \in calls : i <= j
Recent ==
    LET recent == {i \in DOMAIN rateWindow : qnow - rateWindow[i] < RateSpan}
    IN IF recent = {} THEN <<>> ELSE SubSeq(rateWindow, FirstOf(recent), Len(rateWindow))

Pace(r) ==
    /\ reader[r].at = "pacing"
    /\ Len(admissions) < MaxCalls
    /\ Len(Recent) < Rpm
    /\ rateWindow' = Append(Recent, qnow)
    /\ admissions' = Append(admissions, qnow)
    /\ reader' = [reader EXCEPT ![r].at = "calling"]
    /\ UNCHANGED <<qnow, quoteCache, hit>>

(* _get: a failure of the transport, of the status or of the payload ends  *)
(* the read, and what the batches before it returned is dropped.           *)
CallFails(r) ==
    /\ reader[r].at = "calling"
    /\ reader' = [reader EXCEPT ![r] =
          IF @.reads = "quotes" THEN Unoccupied ELSE [@ EXCEPT !.at = "unread", !.read = <<>>]]
    /\ UNCHANGED <<qnow, rateWindow, admissions, quoteCache, hit>>

CallAnswers(r) ==
    /\ reader[r].at = "calling"
    /\ LET read == Append(reader[r].read, qnow)
           done == Len(read) = Batches
           report == reader[r].reads # "quotes"
       IN reader' = [reader EXCEPT
              ![r].read = IF done /\ report THEN <<>> ELSE read,
              ![r].at = IF ~done THEN "pacing" ELSE IF report THEN "read" ELSE "storing"]
    /\ UNCHANGED <<qnow, rateWindow, admissions, quoteCache, hit>>

\* Seeded fault: the deadline counts from the time of the store.
DeadlineAtStore(r) == qnow + CacheSeconds

Deadline(r) == reader[r].since + CacheSeconds

StoreQuotes(r) ==
    /\ reader[r].at = "storing"
    /\ quoteCache' = IF CacheSeconds = 0 THEN quoteCache
                     ELSE [deadline |-> Deadline(r), read |-> reader[r].read]
    /\ reader' = [reader EXCEPT ![r] = Unoccupied]
    /\ UNCHANGED <<qnow, rateWindow, admissions, hit>>

-----------------------------------------------------------------------------
(* The console report: an adapter, and with it a cache, of its own for each*)
(* fetch, and no token is the same as no quote.                            *)
FetchSnapshot(r, what) ==
    \E at \in {"pacing", "unread"} :
        reader' = [reader EXCEPT ![r] = [Unoccupied EXCEPT !.reads = what, !.at = at]]

StartReport(r) ==
    /\ reader[r].at = "idle"
    /\ FetchSnapshot(r, "desks")
    /\ UNCHANGED <<qnow, rateWindow, admissions, quoteCache, hit>>

\* _parse_quote: of the payload, what has a price; the symbols of a batch
\* share their fate
ParsedOf(r) == IF reader[r].at = "read" THEN SUBSET (1..Batches) ELSE {{}}

\* fetch_market_snapshot: the broker's quote stands unless Yahoo's differs by
\* more than the threshold, Yahoo's where the broker has none
Datum(parsed, yahoo) ==
    CASE parsed /\ yahoo # "far"   -> "schwab"
      [] parsed /\ yahoo = "far"   -> "yahoo, displacing"
      [] ~parsed /\ yahoo # "none" -> "yahoo"
      [] OTHER                     -> "unavailable"

MarketSnapshots(r) ==
    { [b \in 1..Batches |-> Datum(b \in parsed, yahoo[b])] :
          parsed \in ParsedOf(r), yahoo \in [1..Batches -> {"none", "near", "far"}] }

\* build_desk_projects: a desk is live on any of its symbols
DeskLive(desk, snap) == \E b \in desk : snap[b] # "unavailable"

\* build_live_console_report: without a live desk it raises, else it fetches
\* again for the scenarios
BuildProjects(r) ==
    /\ reader[r].at \in {"read", "unread"} /\ reader[r].reads = "desks"
    /\ \E snap \in MarketSnapshots(r) :
          IF \E desk \in Desks : DeskLive(desk, snap)
          THEN FetchSnapshot(r, "scenarios")
          ELSE reader' = [reader EXCEPT ![r] = Unoccupied]
    /\ UNCHANGED <<qnow, rateWindow, admissions, quoteCache, hit>>

\* build_real_scenarios: a symbol without a quote has no scenario
BuildScenarios(r) ==
    /\ reader[r].at \in {"read", "unread"} /\ reader[r].reads = "scenarios"
    /\ reader' = [reader EXCEPT ![r] = Unoccupied]
    /\ UNCHANGED <<qnow, rateWindow, admissions, quoteCache, hit>>

Tock ==
    /\ qnow < MaxQuoteTime
    /\ qnow' = qnow + 1
    /\ UNCHANGED <<rateWindow, admissions, quoteCache, reader, hit>>

QuoteNext ==
    \/ Tock
    \/ \E r \in Readers :
          \/ Ask(r) \/ ServeHit(r) \/ StartMiss(r) \/ Pace(r) \/ CallFails(r)
          \/ CallAnswers(r) \/ StoreQuotes(r) \/ StartReport(r) \/ BuildProjects(r) \/ BuildScenarios(r)

QuoteSpec == QuoteInit /\ [][QuoteNext]_quoteVars

-----------------------------------------------------------------------------
(* However the threads wait, at most Rpm calls are let through in any span *)
(* of RateSpan, whatever adapter they belong to.                           *)
PaceKept ==
    \A i \in DOMAIN admissions :
        i + Rpm \in DOMAIN admissions => admissions[i + Rpm] - admissions[i] >= RateSpan

(* No hit was CacheSeconds old or older when its caller asked, although a  *)
(* read of several batches may wait for its turn between two of them, a    *)
(* slow read may store its quotes over those of a faster one, and a caller *)
(* held up before the lock judges by the time it asked, not the present.   *)
HitsFresh == \A i \in DOMAIN hit.read : hit.since < hit.read[i] + CacheSeconds

QuotesKept == PaceKept /\ HitsFresh
=============================================================================
