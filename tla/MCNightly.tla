------------------------------ MODULE MCNightly ------------------------------
(* The evenings on which TLC runs the nightly batch.                       *)
EXTENDS NightlyReport, TLC

PutChain(p, ds, b) == [blocked |-> FALSE, price |-> p, days |-> ds, bid |-> b]
NoPutChain == [blocked |-> TRUE]
Filed(end, form, eps) == [end |-> end, form |-> form, eps |-> eps]
Evening == [
    eod |-> "READY", lastBar |-> "a" :> 0 @@ "b" :> 1, equity |-> 0, vix |-> 18,
    puts |-> "a" :> PutChain(3000, {20, 34, 41}, 2700 :> 30 @@ 2800 :> 55 @@ 3100 :> 150)
             @@ "b" :> PutChain(2950, {38}, 2633 :> 13),
    chains |-> "SPY" :> [blocked |-> FALSE,
                         structures |-> {[id |-> 1, otm |-> TRUE], [id |-> 2, otm |-> FALSE]}],
    macro |-> {"CPI", "UNRATE"}, rates |-> TRUE, oil |-> TRUE,
    filings |-> "AAPL" :> <<Filed(1, "10-Q", 5), Filed(2, "10-K", 6), Filed(3, "10-Q", 7),
                            Filed(3, "10-Q", 8)>> @@ "NVDA" :> <<>>]
MCEvenings ==
    { Evening,
      [Evening EXCEPT !.vix = 31, !.rates = FALSE, !.macro = {}],
      [Evening EXCEPT !.equity = 14000000, !.vix = 0, !.lastBar["a"] = -1,
                      !.chains["SPY"] = NoPutChain],
      [Evening EXCEPT !.equity = 13000000, !.puts["b"] = NoPutChain],
      [Evening EXCEPT !.puts["a"] = PutChain(7000, {20, 41}, 6300 :> 90),
                      !.puts["b"] = PutChain(3000, {20, 29, 50}, 2700 :> 30)],
      [Evening EXCEPT !.eod = "RAISED"],
      [Evening EXCEPT !.eod = "REJECTED", !.oil = FALSE,
                      !.puts["b"] = PutChain(2950, {38}, 2633 :> 2633)] }
=============================================================================
