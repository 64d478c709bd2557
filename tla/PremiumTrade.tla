---------------------------- MODULE PremiumTrade ----------------------------
(***************************************************************************)
(* The life of one premium position after another, from the option chain   *)
(* to its end: the scanner prices every vertical credit spread on the      *)
(* executable side, the session gate hands the priced ones on, the event   *)
(* calendar admits one, the exit monitor reviews it against fresh quotes,  *)
(* and a human closes it or it is held to expiration.  The cadence gate is *)
(* asked beside this path (overnight.py): it binds no entry, so entries    *)
(* are made here whether it would admit them or not, also while another    *)
(* position is held; the model follows one position at a time.             *)
(*                                                                         *)
(* Prices are integers (ticks per share), money is ticks.  A break-even is *)
(* kept per lot, as strike * Lot -+ credit, so that nothing is divided.    *)
(***************************************************************************)
EXTENDS Integers, Sequences

CONSTANTS
    Contracts,   \* listed options: [type, strike, expiration]
    Snapshots,   \* option chains: see SnapshotRecord
    Sessions,    \* exchange sessions: [open, close, received]
    Announced,   \* corporate events: [type, date]
    Horizons,    \* dates an event calendar may be complete through
    Multiplier, Quantity, Commission,
    ExitOffset,  \* planned exit, days before expiration
    LastEntry,   \* instants before the close when entries stop
    QuoteAge,    \* how old a quote the exit monitor accepts
    DayLen,      \* instants in a calendar day
    MonthLen,    \* instants in a calendar month
    MinGap,      \* least distance between two new entries
    MaxInstant, MaxEntries

Lot == Multiplier * Quantity
Price == [bid : Nat, ask : Nat]
ContractRecord == [type : {"PUT", "CALL"}, strike : Nat, expiration : Nat]
SnapshotRecord ==
    [ quote : [Contracts -> Price], underlying : Price,
      aligned : BOOLEAN,            \* leg times within the tolerance
      liquid : SUBSET Contracts ]   \* size, interest and volume suffice
EventRecord == [type : {"EARNINGS", "EX_DIVIDEND"}, date : Nat]

ASSUME TradeConstants ==
    /\ Contracts \subseteq ContractRecord
    /\ Snapshots \subseteq SnapshotRecord
    /\ Sessions \subseteq [open : Nat, close : Nat, received : Nat]
    /\ Announced \subseteq EventRecord
    /\ Multiplier \in Nat \ {0} /\ Quantity \in Nat \ {0}
    /\ Commission \in Nat /\ ExitOffset \in Nat \ {0}
    /\ LastEntry \in Nat /\ QuoteAge \in Nat
    /\ DayLen \in Nat \ {0} /\ MonthLen \in Nat \ {0} /\ MinGap \in Nat \ {0}

VARIABLES
    instant,   \* the clock
    chain,     \* [snap, at]: the last option snapshot taken and when
    announced, \* corporate events published so far
    entries,   \* instants of the new entries made, of any position
    trade      \* the position followed: the one held or last held
tradeVars == <<instant, chain, announced, entries, trade>>

DayOf(t) == t \div DayLen
Month(t) == t \div MonthLen
NonNegative(x) == IF x > 0 THEN x ELSE 0

-----------------------------------------------------------------------------
(* Every pair a credit can be sold on: the short leg nearer the money.     *)
Oriented(p) ==
    /\ p[1].expiration = p[2].expiration
    /\ p[1].type = p[2].type
    /\ \/ p[1].type = "PUT"  /\ p[1].strike > p[2].strike
       \/ p[1].type = "CALL" /\ p[1].strike < p[2].strike

OrderedPairs == {p \in Contracts \X Contracts : Oriented(p)}

Width(p) == IF p[1].type = "PUT" THEN p[1].strike - p[2].strike
                                 ELSE p[2].strike - p[1].strike

(* The ask may exceed the bid by a quarter of the ask.                     *)
Narrow(q) == 4 * (q.ask - q.bid) <= q.ask

(* The short leg is sold at its bid, the long leg bought at its ask.       *)
NetCredit(s, p) ==
    (s.quote[p[1]].bid - s.quote[p[2]].ask) * Lot - 2 * Commission * Quantity

(* Seeded fault: the commission is left out of the loss.                   *)
MaximumLossGross(s, p) ==
    Width(p) * Lot - (s.quote[p[1]].bid - s.quote[p[2]].ask) * Lot

MaximumLoss(s, p) == Width(p) * Lot - NetCredit(s, p)

BreakEven(s, p) ==
    IF p[1].type = "PUT" THEN p[1].strike * Lot - NetCredit(s, p)
                         ELSE p[1].strike * Lot + NetCredit(s, p)

Priceable(s, p, t) ==
    /\ s.aligned
    /\ p[1].expiration - DayOf(t) > ExitOffset
    /\ p[1] \in s.liquid /\ p[2] \in s.liquid
    /\ Narrow(s.quote[p[1]]) /\ Narrow(s.quote[p[2]])
    /\ s.quote[p[1]].bid > s.quote[p[2]].ask
    /\ NetCredit(s, p) > 0 /\ MaximumLoss(s, p) > 0

Spread(s, p) ==
    [ legs |-> p, credit |-> NetCredit(s, p), maxLoss |-> MaximumLoss(s, p),
      breakEven |-> BreakEven(s, p),
      plannedExit |-> p[1].expiration - ExitOffset ]

Scan(s, t) == {Spread(s, p) : p \in {q \in OrderedPairs : Priceable(s, q, t)}}

SessionAdmits(v, t) ==
    /\ v.received <= t
    /\ v.open < v.close
    /\ v.open <= t /\ t <= v.close - LastEntry

Handoffs(s, v, t) == IF SessionAdmits(v, t) THEN Scan(s, t) ELSE {}

(* The calendar reaches past expiration, and no event it lists falls       *)
(* between the day it was read and the planned exit: earnings at all, an   *)
(* ex-dividend day when the short call is in the money.                    *)
EventsAdmit(events, through, s, spread, t) ==
    LET short == spread.legs[1]
        Inside(e) == DayOf(t) <= e.date /\ e.date <= spread.plannedExit
    IN /\ through >= short.expiration
       /\ \A e \in events : Inside(e) =>
             /\ e.type # "EARNINGS"
             /\ ~(/\ e.type = "EX_DIVIDEND"
                  /\ short.type = "CALL"
                  /\ s.underlying.ask > short.strike)

(* Seeded fault: a new month is enough.                                    *)
CadenceByMonth(made, t) == made # <<>> => Month(made[Len(made)]) # Month(t)

(* evaluate_premium_cadence is given the last entry, and no other.         *)
CadenceAllows(made, t) ==
    made # <<>> =>
        LET last == made[Len(made)]
        IN /\ last <= t
           /\ Month(last) # Month(t)
           /\ t - last >= MinGap

-----------------------------------------------------------------------------
(* What buying the spread back costs at once, and what it leaves.          *)
CloseDebit(s, p) == (s.quote[p[1]].ask - s.quote[p[2]].bid) * Lot

MarkedPnl(s, spread) ==
    spread.credit - CloseDebit(s, spread.legs) - 2 * Commission * Quantity

(* Quotes the monitor accepts; otherwise it raises.                        *)
Reviewable(spread, t) ==
    /\ chain.snap.aligned
    /\ t - chain.at <= QuoteAge
    /\ CloseDebit(chain.snap, spread.legs) >= 0

(* Seeded fault: the review knows only the market.                         *)
CloseReasonsByMark(spread, escalated, t) ==
    LET pnl == MarkedPnl(chain.snap, spread)
    IN \/ 2 * pnl >= spread.credit
       \/ 2 * NonNegative(-pnl) >= spread.maxLoss

(* Half of the credit captured, half of the maximum loss incurred, or the  *)
(* planned exit reached.                                                   *)
CloseReasons(spread, escalated, t) ==
    LET pnl == MarkedPnl(chain.snap, spread)
    IN \/ escalated
       \/ spread.legs[1].expiration - DayOf(t) <= ExitOffset
       \/ 2 * pnl >= spread.credit
       \/ 2 * NonNegative(-pnl) >= spread.maxLoss

Intrinsic(c, price) ==
    NonNegative(IF c.type = "CALL" THEN price - c.strike ELSE c.strike - price)

-----------------------------------------------------------------------------
NoSpread == [legs |-> <<>>]
NoPosition ==
    [ status |-> "NONE", spread |-> NoSpread, since |-> 0, known |-> {},
      seen |-> -1, pnl |-> 0, price |-> 0 ]

Unheld == trade.status # "HELD"

PremiumInit ==
    /\ instant = 0 /\ announced = {} /\ entries = <<>>
    /\ chain \in [snap : Snapshots, at : {0}]
    /\ trade = NoPosition

Requote ==
    /\ \E s \in Snapshots : chain' = [snap |-> s, at |-> instant]
    /\ UNCHANGED <<instant, announced, entries, trade>>

(* An event is announced for a day that has not passed.                    *)
Announce ==
    /\ \E e \in Announced :
          e.date >= DayOf(instant) /\ announced' = announced \cup {e}
    /\ UNCHANGED <<instant, chain, entries, trade>>

(* One candidate taken through the gates that bind an entry, at the same   *)
(* instant.                                                                *)
EnterTrade ==
    /\ Len(entries) < MaxEntries
    /\ \E v \in Sessions, through \in Horizons :
          \E spread \in Handoffs(chain.snap, v, instant) :
             /\ EventsAdmit(announced, through, chain.snap, spread, instant)
             /\ trade' = IF Unheld
                         THEN [NoPosition EXCEPT !.status = "HELD",
                                   !.spread = spread, !.since = instant,
                                   !.known = announced]
                         ELSE trade
    /\ entries' = Append(entries, instant)
    /\ UNCHANGED <<instant, chain, announced>>

(* A review that finds no reason to close says MONITOR.                    *)
Monitor ==
    /\ trade.status = "HELD" /\ Reviewable(trade.spread, instant)
    /\ \E escalated \in BOOLEAN : ~CloseReasons(trade.spread, escalated, instant)
    /\ trade' = [trade EXCEPT !.seen = instant]
    /\ UNCHANGED <<instant, chain, announced, entries>>

(* A human closes at the executable price, whatever the review says.       *)
CloseTrade ==
    /\ trade.status = "HELD" /\ Reviewable(trade.spread, instant)
    /\ trade.since < instant
    /\ trade' = [trade EXCEPT !.status = "CLOSED",
                     !.pnl = MarkedPnl(chain.snap, trade.spread)]
    /\ UNCHANGED <<instant, chain, announced, entries>>

(* Nobody closed it: both legs end at their intrinsic value.  This is the  *)
(* market's doing, which no code here computes; it is what the economics   *)
(* fixed at entry are compared with.                                       *)
ExpireTrade ==
    /\ trade.status = "HELD"
    /\ DayOf(instant) >= trade.spread.legs[1].expiration
    /\ LET price == chain.snap.underlying.bid
           legs == trade.spread.legs
       IN trade' = [trade EXCEPT !.status = "EXPIRED", !.price = price,
                        !.pnl = trade.spread.credit
                                - (Intrinsic(legs[1], price)
                                   - Intrinsic(legs[2], price)) * Lot]
    /\ UNCHANGED <<instant, chain, announced, entries>>

PassTime ==
    /\ instant < MaxInstant
    /\ instant' = instant + 1
    /\ UNCHANGED <<chain, announced, entries, trade>>

PremiumNext ==
    \/ Requote \/ Announce \/ EnterTrade \/ Monitor
    \/ CloseTrade \/ ExpireTrade \/ PassTime

PremiumSpec == PremiumInit /\ [][PremiumNext]_tradeVars

-----------------------------------------------------------------------------
(* The economics fixed at entry bound what the position can end with: at   *)
(* expiration never less than -maximum_loss, never more than net_credit,   *)
(* and a gain exactly on the profitable side of the break-even (spreads.py:*)
(* 226-245); an early close never earns more than the credit either.       *)
ResultBounded ==
    LET t == trade
    IN /\ t.status \in {"CLOSED", "EXPIRED"} => t.pnl <= t.spread.credit
       /\ t.status = "EXPIRED" =>
             /\ -t.spread.maxLoss <= t.pnl
             /\ (t.pnl >= 0) <=>
                   IF t.spread.legs[1].type = "PUT"
                   THEN t.price * Lot >= t.spread.breakEven
                   ELSE t.price * Lot <= t.spread.breakEven

(* While the monitor answers MONITOR, no earnings date that was already    *)
(* announced at entry has been met: the event gate looks as far as the     *)
(* planned exit and the monitor stops there, in two modules that share no  *)
(* code (events.py:61-71, exit_policy.py:116).                             *)
NoEarningsWhileMonitored ==
    trade.status = "HELD" =>
        \A e \in trade.known :
            e.type = "EARNINGS" =>
                ~(DayOf(trade.since) <= e.date /\ e.date <= DayOf(trade.seen))

(* When the cadence gate would admit an entry, it is MinGap after every    *)
(* entry made so far and in another month than any of them, however the    *)
(* clock and the calendar months fall and whether or not those entries had *)
(* asked the gate, although it is shown only the last (cadence.py:56-69).  *)
AdmissionsSpaced ==
    CadenceAllows(entries, instant) =>
        \A i \in DOMAIN entries :
            /\ instant - entries[i] >= MinGap
            /\ Month(entries[i]) # Month(instant)

(* What a position is admitted under holds as long as it is held (no known *)
(* earnings date under monitoring), and what the cadence gate says of the  *)
(* last entry holds of all of them.                                        *)
EntryTermsKept == NoEarningsWhileMonitored /\ AdmissionsSpaced

(* What the trade was entered on, in money and in time, is what it gives.  *)
TradeKept == ResultBounded /\ EntryTermsKept
=============================================================================
