------------------------------ MODULE RiskBook ------------------------------
(***************************************************************************)
(* The gates between a candidate and the book.  The Back Office evaluates  *)
(* eligibility, exposure and the circuit breaker against the positions it  *)
(* is shown; the risk engine decides on inputs bound to the hash of those  *)
(* positions; a plan binds one decision of each while both are fresh; and  *)
(* an approved plan opens later, when the book may no longer be the one    *)
(* that was evaluated.                                                     *)
(***************************************************************************)
EXTENDS Integers, FiniteSets

CONSTANTS
    Candidates,     \* candidate identities
    Facts,          \* [Candidates -> CandidateRecord]
    Equity,
    SinglePct, SymbolPct, AggregatePct,  \* loss limits, percent of equity
    MaxPositions

CandidateRecord ==
    [ symbol : STRING, loss : Nat,
      eligible : BOOLEAN,  \* account, disclosure and product gates pass
      liquid : BOOLEAN,    \* dollar volume suffices
      ruin : BOOLEAN ]     \* validated risk of ruin within policy

ASSUME BookConstants ==
    /\ DOMAIN Facts = Candidates
    /\ \A c \in Candidates : Facts[c].loss \in Nat
    /\ Equity \in Nat \ {0} /\ MaxPositions \in Nat \ {0}
    /\ \A pct \in {SinglePct, SymbolPct, AggregatePct} : pct \in 1..100

(* A decision that passed is the set of positions it was made for; one     *)
(* that blocked, and one too old to be bound, is NoDecision: a plan made   *)
(* of it can never be approved.                                            *)
NoDecision == {"no decision"}

VARIABLES
    backed,   \* [Candidates -> Back Office decision]
    decided,  \* [Candidates -> risk decision]
    approved, \* [Candidates -> positions the approved plan was made for]
    book      \* [candidate |-> c, fresh |-> the book was the one evaluated]
bookVars == <<backed, decided, approved, book>>

Held == {p.candidate : p \in book}

(* The sum of the losses, counted dollar by dollar.                        *)
Dollars(cs) == UNION {{c} \X (1..Facts[c].loss) : c \in cs}
LossOf(cs) == Cardinality(Dollars(cs))
Within(loss, pct) == 100 * loss <= pct * Equity

-----------------------------------------------------------------------------
(* Seeded fault: the candidate's own loss is not counted.                  *)
PortfolioAdmitsWithout(c, positions) ==
    /\ Cardinality(positions) + 1 <= MaxPositions
    /\ Within(LossOf(positions), AggregatePct)
    /\ Within(LossOf({p \in positions : Facts[p].symbol = Facts[c].symbol}),
              SymbolPct)

(* The positions and the candidate together: number, aggregate and symbol. *)
PortfolioAdmits(c, positions) ==
    /\ Cardinality(positions) + 1 <= MaxPositions
    /\ Within(LossOf(positions) + Facts[c].loss, AggregatePct)
    /\ Within(LossOf({p \in positions : Facts[p].symbol = Facts[c].symbol})
              + Facts[c].loss, SymbolPct)

RiskAdmits(c) ==
    /\ Facts[c].loss > 0
    /\ Facts[c].liquid
    /\ Within(Facts[c].loss, SinglePct)
    /\ Facts[c].ruin

BookInit ==
    /\ backed = [c \in Candidates |-> NoDecision]
    /\ decided = [c \in Candidates |-> NoDecision]
    /\ approved = [c \in Candidates |-> NoDecision]
    /\ book = {}

(* evaluate_paper_compliance over the positions held at that moment, which *)
(* blocks whatever it is shown when the circuit breaker is frozen.         *)
BackOffice(c) ==
    /\ c \notin Held
    /\ \E decision \in {NoDecision} \cup
             (IF Facts[c].eligible /\ PortfolioAdmits(c, Held) THEN {Held} ELSE {}) :
          backed' = [backed EXCEPT ![c] = decision]
    /\ UNCHANGED <<decided, approved, book>>

(* evaluate_candidate, which blocks on quotes that are not fresh: its      *)
(* inputs name the snapshot they were validated for, the Back Office's at  *)
(* that moment.                                                            *)
RiskDecision(c) ==
    /\ backed[c] # NoDecision
    /\ \E decision \in {NoDecision} \cup
             (IF Facts[c].eligible /\ RiskAdmits(c) THEN {backed[c]} ELSE {}) :
          decided' = [decided EXCEPT ![c] = decision]
    /\ UNCHANGED <<backed, approved, book>>

(* Either decision passes the age a plan may bind.                         *)
AgeOut(c) ==
    /\ \/ /\ backed[c] # NoDecision
          /\ backed' = [backed EXCEPT ![c] = NoDecision]
          /\ UNCHANGED decided
       \/ /\ decided[c] # NoDecision
          /\ decided' = [decided EXCEPT ![c] = NoDecision]
          /\ UNCHANGED backed
    /\ UNCHANGED <<approved, book>>

(* A plan binds two decisions made for the same positions, and a human     *)
(* approves it.                                                            *)
PlanAndApprove(c) ==
    /\ backed[c] # NoDecision /\ decided[c] = backed[c]
    /\ approved' = [approved EXCEPT ![c] = backed[c]]
    /\ UNCHANGED <<backed, decided, book>>

(* The open checks the plan and its quotes, never the book.                *)
OpenPlan(c) ==
    /\ approved[c] # NoDecision /\ c \notin Held
    /\ book' = book \cup {[candidate |-> c, fresh |-> approved[c] = Held]}
    /\ approved' = [approved EXCEPT ![c] = NoDecision]
    /\ UNCHANGED <<backed, decided>>

CloseBooked(c) ==
    /\ c \in Held
    /\ book' = {p \in book : p.candidate # c}
    /\ UNCHANGED <<backed, decided, approved>>

BookNext ==
    \E c \in Candidates :
        \/ BackOffice(c) \/ RiskDecision(c) \/ AgeOut(c) \/ PlanAndApprove(c)
        \/ OpenPlan(c) \/ CloseBooked(c)

BookSpec == BookInit /\ [][BookNext]_bookVars

-----------------------------------------------------------------------------
(* Whatever was evaluated early, bound late or opened out of order, the    *)
(* positions opened against the book they were evaluated for stay inside   *)
(* the aggregate, symbol and number limits (portfolio.py:105-144,          *)
(* workflow.py:284-288).  Positions opened from an outdated snapshot are   *)
(* exempt: execute_paper_open does not look at the book again, and with    *)
(* them the limits do not hold.                                            *)
FreshBookWithinLimits ==
    LET fresh == {p.candidate : p \in {q \in book : q.fresh}}
    IN /\ Cardinality(fresh) <= MaxPositions
       /\ Within(LossOf(fresh), AggregatePct)
       /\ \A c \in fresh :
             Within(LossOf({d \in fresh : Facts[d].symbol = Facts[c].symbol}),
                    SymbolPct)
=============================================================================
