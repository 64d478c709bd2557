-------------------------- MODULE MCPaperLifecycle --------------------------
(***************************************************************************)
(* Instances of PaperLifecycle for TLC.                                    *)
(***************************************************************************)
EXTENDS PaperRefinement, TLC

CONSTANTS p1, p2, h1, h2, h3, h4, q1, q2

Term(id, machine, compliance, quotedAt, expires, plannedExit, expiration) ==
    [ id |-> id, machine |-> machine, compliance |-> compliance,
      quotedAt |-> quotedAt, quoteMaxAge |-> 2, expires |-> expires,
      plannedExit |-> plannedExit, expiration |-> expiration ]

(* One plan identity issued twice.                                         *)
ReissuedPlan ==
    h1 :> Term(p1, "PASS", "PASS", 0, 1, 1, 2) @@
    h2 :> Term(p1, "PASS", "PASS", 1, 3, 2, 3)

(* One plan, issued once.                                                  *)
OnePlan == h1 :> Term(p1, "PASS", "PASS", 0, 1, 1, 2)

(* One plan that expires the day after it is issued, for MaxClock = 1.     *)
ShortPlan == h1 :> Term(p1, "PASS", "PASS", 0, 1, 1, 1)

(* Two identities, the second issued again with a longer approval window.  *)
TwoPlans ==
    h1 :> Term(p1, "PASS", "PASS", 0, 1, 1, 1) @@
    h2 :> Term(p2, "PASS", "PASS", 0, 1, 1, 2) @@
    h3 :> Term(p2, "PASS", "PASS", 0, 2, 1, 2)

Flags(adjusting, settled, assigned, itm, exDividend) ==
    [ adjusting |-> adjusting, settled |-> settled, assigned |-> assigned,
      itm |-> itm, exDividend |-> exDividend ]

Quiet == { Flags(FALSE, TRUE, FALSE, FALSE, FALSE) }

(* A quiet market or a provider that raises; a provider that only raises.  *)
QuietOrFailed == Quiet \cup { ProviderFailed }
Failing == { ProviderFailed }

GainOnly == {1}
GainOrLoss == {-1, 1}

(* One identity issued up to four times: rejected by machine risk, priced  *)
(* from quotes that grow stale inside the approval window, blocked by      *)
(* compliance, and priced from quotes that lie ahead at clock 0 and are    *)
(* fresh beyond the end of the window.                                     *)
GatedPlans ==
    h1 :> Term(p1, "REJECT", "PASS", 0, 1, 1, 2) @@
    h2 :> [Term(p1, "PASS", "PASS", 0, 2, 1, 2) EXCEPT !.quoteMaxAge = 1] @@
    h3 :> Term(p1, "PASS", "BLOCK", 0, 1, 1, 2) @@
    h4 :> Term(p1, "PASS", "PASS", 1, 1, 1, 2)

Processes == Permutations(Procs)
=============================================================================
