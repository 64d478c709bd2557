----------------------------- MODULE RiskProofs -----------------------------
(***************************************************************************)
(* What holds of the risk controls, each for any values of their limits:   *)
(* the stress report and its circuit breaker, the book of positions, the   *)
(* end-of-day batch, and the premium trade.                                *)
(***************************************************************************)
EXTENDS StressReport, RiskBook, EodBatch, PremiumTrade, FiniteSetTheorems, TLAPS

(***************************************************************************)
(* The circuit breaker freezes on the report's own breaches, for every set *)
(* of results, capital, limit and number of scenarios.                     *)
(***************************************************************************)
Labels == {"FREEZE_NEW_RISK", "WITHIN_SYNTHETIC_LIMIT"}
Breached ==
    \E i \in DOMAIN report.labels : report.labels[i] = "FREEZE_NEW_RISK"

StressTypeOK ==
    /\ report \in [capital : Int, peak : Int, labels : Seq(Labels)]
    /\ series \in [equity : Int, peak : Int, worst : Int]
    /\ breaker \in {"NONE", "CLEAR", "FROZEN"}

\* The two walks are one walk, seen from the starting capital and from zero.
WalksAgree ==
    /\ report.capital = StartingCapital + series.equity
    /\ report.peak = StartingCapital + series.peak

\* The worst drawdown remembers what the labels say of each scenario.
WorstIsABreach == series.worst > DrawdownLimit <=> Breached

StressIInv ==
    /\ StressTypeOK
    /\ WalksAgree
    /\ WorstIsABreach
    /\ FreezesOnAnyBreach

-----------------------------------------------------------------------------
(* Larger is the maximum of two integers (the running peak and the running *)
(* worst of metrics.py): it exceeds a limit when either does, and moves    *)
(* with them.                                                              *)
LEMMA LargerIsMax ==
    ASSUME NEW a \in Int, NEW b \in Int
    PROVE  Larger(a, b) \in Int
BY DEF Larger

LEMMA LargerExceeds ==
    ASSUME NEW a \in Int, NEW b \in Int, NEW l \in Int
    PROVE  Larger(a, b) > l <=> a > l \/ b > l
<1>1. CASE a >= b
  BY <1>1 DEF Larger
<1>2. CASE b > a
  BY <1>2 DEF Larger
<1> QED
  BY <1>1, <1>2

LEMMA LargerShifts ==
    ASSUME NEW a \in Int, NEW b \in Int, NEW s \in Int
    PROVE  Larger(s + a, s + b) = s + Larger(a, b)
<1>1. CASE a >= b
  <2>1. s + a >= s + b
    BY <1>1
  <2> QED
    BY <1>1, <2>1 DEF Larger
<1>2. CASE b > a
  <2>1. ~(s + a >= s + b) /\ ~(a >= b)
    BY <1>2
  <2> QED
    BY <2>1 DEF Larger
<1> QED
  BY <1>1, <1>2

\* Appending a label records a breach exactly when there was one or it is one.
LEMMA BreachOfAppend ==
    ASSUME NEW s \in Seq(Labels), NEW l \in Labels
    PROVE  (\E i \in DOMAIN Append(s, l) : Append(s, l)[i] = "FREEZE_NEW_RISK")
             <=> \/ \E i \in DOMAIN s : s[i] = "FREEZE_NEW_RISK"
                 \/ l = "FREEZE_NEW_RISK"
<1> DEFINE t == Append(s, l)
<1>1. /\ t \in Seq(Labels) /\ Len(t) = Len(s) + 1 /\ t[Len(s) + 1] = l
      /\ \A i \in 1..Len(s) : t[i] = s[i]
  OBVIOUS
<1>2. DOMAIN s = 1..Len(s) /\ DOMAIN t = 1..(Len(s) + 1) /\ Len(s) \in Nat
  BY <1>1
<1>3. DOMAIN t = DOMAIN s \cup {Len(s) + 1}
  BY <1>2
<1> QED
  BY <1>1, <1>2, <1>3

\* The initial report has no scenario and no breach (portfolio_stress.py).
LEMMA StressInitIInv == StressInit => StressIInv
<1> SUFFICES ASSUME StressInit PROVE StressIInv
  OBVIOUS
<1>1. StressTypeOK
  BY StressConstants DEF StressInit, StressTypeOK, Labels
<1>2. WalksAgree
  BY StressConstants DEF StressInit, WalksAgree
<1>3. WorstIsABreach
  BY StressConstants DEF StressInit, WorstIsABreach, Breached
<1>4. FreezesOnAnyBreach
  BY DEF StressInit, FreezesOnAnyBreach
<1> QED
  BY <1>1, <1>2, <1>3, <1>4 DEF StressIInv

\* A scenario keeps the walks together and the worst drawdown true.
LEMMA ScenarioIInv ==
    ASSUME StressIInv, NEW pnl \in ScenarioPnls, RunScenario(pnl)
    PROVE  StressIInv'
<1> DEFINE capital == report.capital + pnl
           equity == series.equity + pnl
           rpeak == Larger(report.peak, capital)
           speak == Larger(series.peak, equity)
           label == IF rpeak - capital > DrawdownLimit
                      THEN "FREEZE_NEW_RISK" ELSE "WITHIN_SYNTHETIC_LIMIT"
<1>1. /\ pnl \in Int /\ StartingCapital \in Int /\ DrawdownLimit \in Int
      /\ report.capital \in Int /\ report.peak \in Int
      /\ report.labels \in Seq(Labels)
      /\ series.equity \in Int /\ series.peak \in Int /\ series.worst \in Int
  BY StressConstants DEF StressIInv, StressTypeOK
<1>2. capital \in Int /\ equity \in Int /\ capital = StartingCapital + equity
  <2>1. report.capital = StartingCapital + series.equity
    BY DEF StressIInv, WalksAgree
  <2> QED
    BY <1>1, <2>1
<1>3. rpeak \in Int /\ speak \in Int /\ rpeak = StartingCapital + speak
  <2>1. report.peak = StartingCapital + series.peak
    BY DEF StressIInv, WalksAgree
  <2>2. speak \in Int
    <3> HIDE DEF equity
    <3> QED
      BY <1>1, <1>2, LargerIsMax
  <2>3. rpeak = Larger(StartingCapital + series.peak, StartingCapital + equity)
    BY <1>2, <2>1
  <2>4. rpeak = StartingCapital + speak
    <3> HIDE DEF equity, rpeak
    <3> QED
      BY <1>1, <1>2, <2>3, LargerShifts
  <2> HIDE DEF rpeak, speak
  <2> QED
    BY <1>1, <2>2, <2>4
<1>4. /\ report' = [capital |-> capital, peak |-> rpeak,
                    labels |-> Append(report.labels, label)]
      /\ series' = [equity |-> equity, peak |-> speak,
                    worst |-> Larger(series.worst, speak - equity)]
      /\ breaker' = "NONE" /\ breaker = "NONE"
  BY DEF RunScenario, Labelled, Measured
<1>5. label \in Labels /\ (label = "FREEZE_NEW_RISK" <=> speak - equity > DrawdownLimit)
  <2>1. rpeak - capital = speak - equity
    <3> HIDE DEF capital, equity, rpeak, speak
    <3> QED BY <1>1, <1>2, <1>3
  <2> DEFINE over == rpeak - capital > DrawdownLimit
  <2>2. over <=> speak - equity > DrawdownLimit
    BY <2>1
  <2> HIDE DEF over, rpeak, speak, capital, equity
  <2>3. CASE over
    BY <2>2, <2>3 DEF Labels, over
  <2>4. CASE ~over
    BY <2>2, <2>4 DEF Labels, over
  <2> QED BY <2>3, <2>4
<1>6. Breached' <=> Breached \/ label = "FREEZE_NEW_RISK"
  <2>1. report'.labels = Append(report.labels, label)
    BY <1>4
  <2> HIDE DEF label
  <2>2. (\E i \in DOMAIN Append(report.labels, label) :
            Append(report.labels, label)[i] = "FREEZE_NEW_RISK")
          <=> Breached \/ label = "FREEZE_NEW_RISK"
    BY <1>1, <1>5, BreachOfAppend DEF Breached
  <2> QED
    BY <2>1, <2>2 DEF Breached
<1>7. /\ Larger(series.worst, speak - equity) \in Int
      /\ Larger(series.worst, speak - equity) > DrawdownLimit
           <=> series.worst > DrawdownLimit \/ speak - equity > DrawdownLimit
  <2> HIDE DEF equity, speak
  <2>1. speak - equity \in Int
    BY <1>2, <1>3
  <2> QED
    BY <1>1, <2>1, LargerIsMax, LargerExceeds
<1> HIDE DEF capital, equity, rpeak, speak, label
<1>8. StressTypeOK'
  BY <1>1, <1>2, <1>3, <1>4, <1>5, <1>7 DEF StressTypeOK
<1>9. WalksAgree'
  BY <1>2, <1>3, <1>4 DEF WalksAgree
<1>10. WorstIsABreach'
  BY <1>4, <1>5, <1>6, <1>7 DEF WorstIsABreach, StressIInv
<1>11. FreezesOnAnyBreach'
  BY <1>4 DEF FreezesOnAnyBreach
<1> QED
  BY <1>8, <1>9, <1>10, <1>11 DEF StressIInv

\* The breaker is read from the worst drawdown (portfolio_stress.py:160-168).
LEMMA BreakerIInv ==
    ASSUME StressIInv, BuildBreaker
    PROVE  StressIInv'
<1>1. report' = report /\ series' = series
      /\ breaker' = IF series.worst > DrawdownLimit THEN "FROZEN" ELSE "CLEAR"
  BY DEF BuildBreaker
<1>2. StressTypeOK' /\ WalksAgree' /\ WorstIsABreach'
  BY <1>1 DEF StressIInv, StressTypeOK, WalksAgree, WorstIsABreach, Breached
<1>3. breaker' = "FROZEN" <=> Breached'
  BY <1>1 DEF StressIInv, WorstIsABreach, Breached
<1>4. FreezesOnAnyBreach'
  BY <1>3 DEF FreezesOnAnyBreach, Breached
<1> QED
  BY <1>2, <1>4 DEF StressIInv

-----------------------------------------------------------------------------
\* The breaker, which reads only the metrics, freezes new risk exactly when
\* the report labelled some scenario a breach, whatever the scenarios were and
\* however many of them later recovered.
THEOREM FreezesTheorem == StressSpec => []FreezesOnAnyBreach
<1>1. StressInit => StressIInv
  BY StressInitIInv
<1>2. StressIInv /\ [StressNext]_stressVars => StressIInv'
  <2> SUFFICES ASSUME StressIInv, [StressNext]_stressVars PROVE StressIInv'
    OBVIOUS
  <2>1. ASSUME NEW pnl \in ScenarioPnls, RunScenario(pnl) PROVE StressIInv'
    BY <2>1, ScenarioIInv
  <2>2. CASE BuildBreaker
    BY <2>2, BreakerIInv
  <2>3. CASE UNCHANGED stressVars
    BY <2>3 DEF stressVars, StressIInv, StressTypeOK, WalksAgree, WorstIsABreach,
                Breached, FreezesOnAnyBreach
  <2> QED
    BY <2>1, <2>2, <2>3 DEF StressNext
<1>3. StressIInv => FreezesOnAnyBreach
  BY DEF StressIInv
<1> QED
  BY <1>1, <1>2, <1>3, PTL DEF StressSpec
-----------------------------------------------------------------------------
(***************************************************************************)
(* The book.  A decision names the positions it was made for, so a position*)
(* that is opened against those very positions leaves the book within the  *)
(* limits, and the fresh positions are some of the book.                   *)
(***************************************************************************)
LEMMA LossBounded ==
    ASSUME NEW cs \in SUBSET Candidates, IsFiniteSet(cs)
    PROVE  IsFiniteSet(Dollars(cs)) /\ LossOf(cs) \in Nat
<1> DEFINE parts == {{c} \X (1..Facts[c].loss) : c \in cs}
           f == [c \in cs |-> {c} \X (1..Facts[c].loss)]
<1>1. f \in Surjection(cs, parts)
  <2>1. f \in [cs -> parts] /\ \A t \in parts : \E c \in cs : f[c] = t
    OBVIOUS
  <2> QED
    BY <2>1 DEF Surjection
<1>2. IsFiniteSet(parts)
  <2> HIDE DEF f, parts
  <2> QED
    BY <1>1, FS_Surjection
<1>3. ASSUME NEW c \in cs PROVE IsFiniteSet({c} \X (1..Facts[c].loss))
  <2>1. IsFiniteSet({c}) /\ IsFiniteSet(1..Facts[c].loss)
    <3>1. Facts[c].loss \in Int /\ 1 \in Int
      BY BookConstants
    <3> QED
      BY <3>1, FS_Singleton, FS_Interval
  <2> QED
    BY <2>1, FS_Product
<1>4. IsFiniteSet(UNION parts)
  <2>1. \A p \in parts : IsFiniteSet(p)
    BY <1>3
  <2> HIDE DEF parts
  <2> QED
    BY <1>2, <2>1, FS_UNION
<1> QED
  BY <1>4, FS_CardinalityType DEF Dollars, LossOf

LEMMA LossMonotone ==
    ASSUME NEW cs \in SUBSET Candidates, IsFiniteSet(cs), NEW ds \in SUBSET cs
    PROVE  IsFiniteSet(ds) /\ LossOf(ds) \in Nat /\ LossOf(ds) <= LossOf(cs)
<1>1. IsFiniteSet(ds) /\ ds \in SUBSET Candidates
  BY FS_Subset
<1>2. Dollars(ds) \subseteq Dollars(cs)
  BY DEF Dollars
<1> QED
  BY <1>1, <1>2, LossBounded, FS_Subset DEF LossOf

LEMMA LossAdds ==
    ASSUME NEW cs \in SUBSET Candidates, IsFiniteSet(cs), NEW c \in Candidates, c \notin cs
    PROVE  LossOf(cs \cup {c}) = LossOf(cs) + Facts[c].loss
<1> DEFINE new == {c} \X (1..Facts[c].loss)
<1>1. Dollars(cs \cup {c}) = Dollars(cs) \cup new
  BY DEF Dollars
<1>2. Dollars(cs) \cap new = {}
  BY DEF Dollars
<1>3. IsFiniteSet(new) /\ Cardinality(new) = Facts[c].loss
  <2>1. /\ IsFiniteSet({c}) /\ Cardinality({c}) = 1
        /\ IsFiniteSet(1..Facts[c].loss) /\ Cardinality(1..Facts[c].loss) = Facts[c].loss
    <3>1. Facts[c].loss \in Nat
      BY BookConstants
    <3> QED
      <4>1. /\ IsFiniteSet(1..Facts[c].loss)
            /\ Cardinality(1..Facts[c].loss)
                 = IF 1 > Facts[c].loss THEN 0 ELSE Facts[c].loss - 1 + 1
        BY <3>1, FS_Interval
      <4>2. IsFiniteSet({c}) /\ Cardinality({c}) = 1
        BY FS_Singleton
      <4>3. Cardinality(1..Facts[c].loss) = Facts[c].loss
        BY <3>1, <4>1
      <4> QED
        BY <4>1, <4>2, <4>3
  <2>2. PICK one, dollars : one = {c} /\ dollars = 1..Facts[c].loss
    OBVIOUS
  <2>3. /\ IsFiniteSet(one \X dollars)
        /\ Cardinality(one \X dollars) = Cardinality(one) * Cardinality(dollars)
    BY <2>1, <2>2, FS_Product
  <2>4. Cardinality(one) = 1 /\ Cardinality(dollars) = Facts[c].loss /\ new = one \X dollars
    BY <2>1, <2>2
  <2> HIDE DEF new
  <2> QED
    BY <2>3, <2>4, BookConstants
<1>4. IsFiniteSet(Dollars(cs)) /\ LossOf(cs) \in Nat
  BY LossBounded
<1> HIDE DEF new
<1>5. LossOf(cs \cup {c}) = LossOf(cs) + Facts[c].loss - Cardinality({})
  BY <1>1, <1>2, <1>3, <1>4, FS_Union DEF LossOf
<1> QED
  BY <1>4, <1>5, FS_EmptySet, BookConstants

LEMMA WithinMonotone ==
    ASSUME NEW a \in Nat, NEW b \in Nat, a <= b, NEW pct \in {SinglePct, SymbolPct, AggregatePct},
           Within(b, pct)
    PROVE  Within(a, pct)
<1>1. PICK cap \in Int : cap = pct * Equity
  BY BookConstants
<1> QED
  BY <1>1 DEF Within

Fresh == {p.candidate : p \in {q \in book : q.fresh}}
SameSymbol(c, positions) == {p \in positions : Facts[p].symbol = Facts[c].symbol}

BookInv ==
    /\ approved = [c \in Candidates |-> approved[c]]
    /\ backed = [c \in Candidates |-> backed[c]]
    /\ \A p \in book : p.candidate \in Candidates
    /\ IsFiniteSet(Held)
    /\ \A c \in Candidates :
          /\ backed[c] # NoDecision => PortfolioAdmits(c, backed[c])
          /\ approved[c] # NoDecision => PortfolioAdmits(c, approved[c])
    /\ FreshBookWithinLimits

(* Fewer positions stay within the limits.                                 *)
LEMMA FewerWithinLimits ==
    ASSUME BookInv, NEW book2, book' = book2, book2 \subseteq book
    PROVE  FreshBookWithinLimits' /\ IsFiniteSet(Held)' /\ \A p \in book' : p.candidate \in Candidates
<1>1. Fresh' \subseteq Fresh /\ Fresh \subseteq Held /\ Held' \subseteq Held /\ Held \subseteq Candidates
  BY DEF Fresh, Held, BookInv
<1>2. IsFiniteSet(Held) /\ IsFiniteSet(Fresh)
  BY <1>1, FS_Subset DEF BookInv
<1>3. PICK f, g : f = Fresh /\ g = Fresh' /\ g \subseteq f /\ f \subseteq Candidates /\ IsFiniteSet(f)
  BY <1>1, <1>2
<1>4. /\ Cardinality(f) <= MaxPositions /\ Within(LossOf(f), AggregatePct)
      /\ \A c \in f : Within(LossOf(SameSymbol(c, f)), SymbolPct)
  BY <1>3 DEF BookInv, FreshBookWithinLimits, Fresh, SameSymbol
<1>5. Cardinality(g) <= MaxPositions
  <2>1. IsFiniteSet(g) /\ Cardinality(g) <= Cardinality(f)
    BY <1>3, FS_Subset
  <2>2. Cardinality(g) \in Nat /\ Cardinality(f) \in Nat /\ MaxPositions \in Nat
    BY <1>3, <2>1, FS_CardinalityType, BookConstants
  <2> QED
    BY <1>4, <2>1, <2>2
<1>6. Within(LossOf(g), AggregatePct)
  BY <1>3, <1>4, LossMonotone, LossBounded, WithinMonotone
<1>7. ASSUME NEW c \in g PROVE Within(LossOf(SameSymbol(c, g)), SymbolPct)
  <2>1. SameSymbol(c, g) \subseteq SameSymbol(c, f) /\ SameSymbol(c, f) \subseteq f /\ c \in f
    BY <1>3 DEF SameSymbol
  <2>2. IsFiniteSet(SameSymbol(c, f))
    BY <1>3, <2>1, FS_Subset
  <2> QED
    BY <1>3, <1>4, <2>1, <2>2, LossMonotone, LossBounded, WithinMonotone
<1>8. FreshBookWithinLimits'
  BY <1>3, <1>5, <1>6, <1>7 DEF FreshBookWithinLimits, Fresh, SameSymbol
<1>9. IsFiniteSet(Held)'
  <2>1. PICK h : h = Held' /\ h \subseteq Held
    BY <1>1
  <2> QED
    BY <1>2, <2>1, FS_Subset
<1> QED
  BY <1>8, <1>9 DEF BookInv

LEMMA DecisionsInv ==
    ASSUME BookInv, NEW c \in Candidates,
           BackOffice(c) \/ RiskDecision(c) \/ AgeOut(c) \/ PlanAndApprove(c)
    PROVE  BookInv'
<1>1. book' = book
  BY DEF BackOffice, RiskDecision, AgeOut, PlanAndApprove
<1>2. /\ FreshBookWithinLimits' /\ IsFiniteSet(Held)'
      /\ \A p \in book' : p.candidate \in Candidates
  BY <1>1, FewerWithinLimits
<1>3. /\ approved' = [d \in Candidates |-> approved'[d]]
      /\ backed' = [d \in Candidates |-> backed'[d]]
  BY DEF BackOffice, RiskDecision, AgeOut, PlanAndApprove, BookInv
<1>4. ASSUME NEW d \in Candidates
      PROVE  /\ backed'[d] # NoDecision => PortfolioAdmits(d, backed'[d])
             /\ approved'[d] # NoDecision => PortfolioAdmits(d, approved'[d])
  <2>1. /\ backed[d] # NoDecision => PortfolioAdmits(d, backed[d])
        /\ approved[d] # NoDecision => PortfolioAdmits(d, approved[d])
    BY DEF BookInv
  <2>2. CASE BackOffice(c)
    <3>1. approved' = approved
      BY <2>2 DEF BackOffice
    <3>2. PICK decision : /\ backed' = [backed EXCEPT ![c] = decision]
                          /\ decision # NoDecision => PortfolioAdmits(c, decision)
      BY <2>2 DEF BackOffice
    <3>3. backed'[d] = IF d = c THEN decision ELSE backed[d]
      BY <3>2 DEF BookInv
    <3> QED
      BY <2>1, <3>1, <3>2, <3>3
  <2>3. CASE RiskDecision(c)
    BY <2>1, <2>3 DEF RiskDecision
  <2>4. CASE AgeOut(c)
    <3>1. approved' = approved /\ (backed' = backed \/ backed' = [backed EXCEPT ![c] = NoDecision])
      BY <2>4 DEF AgeOut
    <3>2. backed'[d] = backed[d] \/ backed'[d] = NoDecision
      BY <3>1 DEF BookInv
    <3> QED
      BY <2>1, <3>1, <3>2
  <2>5. CASE PlanAndApprove(c)
    <3>1. backed' = backed /\ approved' = [approved EXCEPT ![c] = backed[c]]
      BY <2>5 DEF PlanAndApprove
    <3>2. approved'[d] = IF d = c THEN backed[d] ELSE approved[d]
      BY <3>1 DEF BookInv
    <3> QED
      BY <2>1, <3>1, <3>2
  <2> QED
    BY <2>2, <2>3, <2>4, <2>5
<1>5. \A d \in Candidates :
        /\ (backed[d] # NoDecision => PortfolioAdmits(d, backed[d]))'
        /\ (approved[d] # NoDecision => PortfolioAdmits(d, approved[d]))'
  BY <1>4 DEF PortfolioAdmits, Within, LossOf, Dollars, NoDecision
<1> QED
  BY <1>2, <1>3, <1>5 DEF BookInv
\* The admitted position joins the positions it was admitted for.
LEMMA AdmittedWithinLimits ==
    ASSUME NEW held \in SUBSET Candidates, IsFiniteSet(held),
           NEW c \in Candidates, c \notin held, PortfolioAdmits(c, held),
           NEW f \in SUBSET held, NEW g, g = f \cup {c},
           \A d \in f : Within(LossOf(SameSymbol(d, f)), SymbolPct)
    PROVE  /\ Cardinality(g) <= MaxPositions /\ Within(LossOf(g), AggregatePct)
           /\ \A d \in g : Within(LossOf(SameSymbol(d, g)), SymbolPct)
<1>1. Facts[c].loss \in Nat /\ MaxPositions \in Nat
  BY BookConstants
<1>2. Cardinality(g) <= MaxPositions
  <2>1. /\ IsFiniteSet(f) /\ Cardinality(f) <= Cardinality(held)
        /\ Cardinality(f) \in Nat /\ Cardinality(held) \in Nat
    BY FS_Subset, FS_CardinalityType
  <2>2. Cardinality(g) = Cardinality(f) + 1
    BY <2>1, FS_AddElement
  <2>3. Cardinality(held) + 1 <= MaxPositions
    BY DEF PortfolioAdmits
  <2> QED
    BY <1>1, <2>1, <2>2, <2>3
<1>3. ASSUME NEW some \in SUBSET held, NEW pct \in {SymbolPct, AggregatePct},
             NEW all \in SUBSET held, some \subseteq all,
             Within(LossOf(all) + Facts[c].loss, pct)
      PROVE  Within(LossOf(some \cup {c}), pct)
  <2>1. IsFiniteSet(all) /\ IsFiniteSet(some)
    BY FS_Subset
  <2>2. /\ LossOf(some) \in Nat /\ LossOf(all) \in Nat /\ LossOf(some) <= LossOf(all)
    BY <1>3, <2>1, LossMonotone, LossBounded
  <2>3. LossOf(some \cup {c}) = LossOf(some) + Facts[c].loss
    BY <2>1, LossAdds
  <2>4. /\ LossOf(some) + Facts[c].loss \in Nat /\ LossOf(all) + Facts[c].loss \in Nat
        /\ LossOf(some) + Facts[c].loss <= LossOf(all) + Facts[c].loss
    BY <1>1, <2>2
  <2> QED
    BY <1>3, <2>3, <2>4, WithinMonotone
<1>4. Within(LossOf(g), AggregatePct)
  BY <1>3 DEF PortfolioAdmits
<1>5. ASSUME NEW d \in g PROVE Within(LossOf(SameSymbol(d, g)), SymbolPct)
  <2>1. CASE Facts[d].symbol = Facts[c].symbol
    <3>1. SameSymbol(d, g) = SameSymbol(c, f) \cup {c}
      BY <2>1 DEF SameSymbol
    <3>2. SameSymbol(c, f) \subseteq SameSymbol(c, held) /\ SameSymbol(c, held) \subseteq held
      BY DEF SameSymbol
    <3>3. Within(LossOf(SameSymbol(c, held)) + Facts[c].loss, SymbolPct)
      BY DEF PortfolioAdmits, SameSymbol
    <3> QED
      BY <1>3, <3>1, <3>2, <3>3
  <2>2. CASE Facts[d].symbol # Facts[c].symbol
    <3>1. SameSymbol(d, g) = SameSymbol(d, f) /\ d \in f
      BY <2>2 DEF SameSymbol
    <3> QED
      BY <3>1
  <2> QED
    BY <2>1, <2>2
<1> QED
  BY <1>2, <1>4, <1>5

LEMMA OpenPlanInv ==
    ASSUME BookInv, NEW c \in Candidates, OpenPlan(c)
    PROVE  BookInv'
<1>1. /\ c \notin Held /\ approved[c] # NoDecision /\ PortfolioAdmits(c, approved[c])
      /\ IsFiniteSet(Held) /\ Held \subseteq Candidates
  BY DEF OpenPlan, BookInv, Held
<1>2. PICK entry : /\ entry = [candidate |-> c, fresh |-> approved[c] = Held]
                   /\ book' = book \cup {entry}
  BY DEF OpenPlan
<1>3. entry.candidate = c /\ (entry.fresh <=> approved[c] = Held)
  BY <1>2
<1>4. Held' = Held \cup {c} /\ IsFiniteSet(Held)'
  <2>1. Held' = Held \cup {c}
    BY <1>2, <1>3 DEF Held
  <2> QED
    BY <1>1, <2>1, FS_AddElement
<1>5. \A p \in book' : p.candidate \in Candidates
  BY <1>2, <1>3 DEF BookInv
<1>6. FreshBookWithinLimits'
  <2>1. CASE approved[c] # Held
    <3>1. {q \in book' : q.fresh} = {q \in book : q.fresh}
      BY <1>2, <1>3, <2>1
    <3> QED
      BY <3>1 DEF FreshBookWithinLimits, BookInv
  <2>2. CASE approved[c] = Held
    <3>1. {q \in book' : q.fresh} = {q \in book : q.fresh} \cup {entry}
      BY <1>2, <1>3, <2>2
    <3>2. Fresh' = Fresh \cup {c} /\ Fresh \subseteq Held
      BY <1>3, <3>1 DEF Fresh, Held
    <3>3. PICK f, g, held : /\ f = Fresh /\ g = Fresh' /\ held = Held /\ g = f \cup {c}
                            /\ f \subseteq held
      BY <3>2
    <3>4. \A d \in f : Within(LossOf(SameSymbol(d, f)), SymbolPct)
      BY <3>3 DEF BookInv, FreshBookWithinLimits, Fresh, SameSymbol
    <3>5. /\ Cardinality(g) <= MaxPositions /\ Within(LossOf(g), AggregatePct)
          /\ \A d \in g : Within(LossOf(SameSymbol(d, g)), SymbolPct)
      BY <1>1, <2>2, <3>3, <3>4, AdmittedWithinLimits
    <3> QED
      BY <3>3, <3>5 DEF FreshBookWithinLimits, Fresh, SameSymbol
  <2> QED
    BY <2>1, <2>2
<1>7. /\ approved' = [d \in Candidates |-> approved'[d]] /\ backed' = backed
      /\ \A d \in Candidates : approved'[d] = IF d = c THEN NoDecision ELSE approved[d]
  BY DEF OpenPlan, BookInv
<1>8. \A d \in Candidates :
        /\ (backed[d] # NoDecision => PortfolioAdmits(d, backed[d]))'
        /\ (approved[d] # NoDecision => PortfolioAdmits(d, approved[d]))'
  <2>1. ASSUME NEW d \in Candidates
        PROVE  /\ backed'[d] # NoDecision => PortfolioAdmits(d, backed'[d])
               /\ approved'[d] # NoDecision => PortfolioAdmits(d, approved'[d])
    BY <1>7 DEF BookInv
  <2> QED
    BY <2>1 DEF PortfolioAdmits, Within, LossOf, Dollars, NoDecision
<1> QED
  BY <1>4, <1>5, <1>6, <1>7, <1>8 DEF BookInv

LEMMA CloseBookedInv ==
    ASSUME BookInv, NEW c \in Candidates, CloseBooked(c)
    PROVE  BookInv'
<1>1. book' \subseteq book /\ UNCHANGED <<backed, decided, approved>>
  BY DEF CloseBooked
<1>2. /\ FreshBookWithinLimits' /\ IsFiniteSet(Held)'
      /\ \A p \in book' : p.candidate \in Candidates
  BY <1>1, FewerWithinLimits
<1> QED
  BY <1>1, <1>2
  DEF BookInv, PortfolioAdmits, Within, LossOf, Dollars, NoDecision

(* Whatever was evaluated early, bound late or opened out of order, the    *)
(* positions opened against the book they were evaluated for stay inside   *)
(* the number, aggregate and symbol limits (portfolio.py,                  *)
(* evaluate_portfolio_gate).                                               *)
THEOREM FreshBookTheorem == BookSpec => []FreshBookWithinLimits
<1>1. BookInit => BookInv
  <2> SUFFICES ASSUME BookInit PROVE BookInv
    OBVIOUS
  <2>1. Held = {} /\ IsFiniteSet(Held) /\ Fresh = {}
    BY FS_EmptySet DEF BookInit, Held, Fresh
  <2>2. FreshBookWithinLimits
    <3>1. IsFiniteSet({}) /\ Cardinality({}) = 0 /\ Dollars({}) = {}
      BY FS_EmptySet DEF Dollars
    <3>2. Cardinality({}) <= MaxPositions /\ LossOf({}) = 0
      <4>1. MaxPositions \in Nat
        BY BookConstants
      <4> QED
        BY <3>1, <4>1 DEF LossOf
    <3>3. PICK cap \in Nat : cap = AggregatePct * Equity
      BY BookConstants
    <3>4. Within(0, AggregatePct)
      BY <3>3 DEF Within
    <3> QED
      BY <2>1, <3>2, <3>4 DEF FreshBookWithinLimits, Fresh
  <2> QED
    BY <2>1, <2>2 DEF BookInv, BookInit
<1>2. BookInv /\ [BookNext]_bookVars => BookInv'
  <2> SUFFICES ASSUME BookInv, [BookNext]_bookVars PROVE BookInv'
    OBVIOUS
  <2>1. CASE UNCHANGED bookVars
    <3>1. book' = book /\ UNCHANGED <<backed, decided, approved>>
      BY <2>1 DEF bookVars
    <3>2. /\ FreshBookWithinLimits' /\ IsFiniteSet(Held)'
          /\ \A p \in book' : p.candidate \in Candidates
      BY <3>1, FewerWithinLimits
    <3> QED
      BY <3>1, <3>2
      DEF BookInv, PortfolioAdmits, Within, LossOf, Dollars, NoDecision
  <2> QED
    BY <2>1, DecisionsInv, OpenPlanInv, CloseBookedInv DEF BookNext
<1>3. BookInv => FreshBookWithinLimits
  BY DEF BookInv
<1> QED
  BY <1>1, <1>2, <1>3, PTL DEF BookSpec

-----------------------------------------------------------------------------
(***************************************************************************)
(* The end-of-day batch.  The rows of a stored manifest, whatever field of *)
(* it was changed, still hash only what was fetched in time, and either    *)
(* its rows or its required symbols are the ones the batch was built with. *)
(***************************************************************************)
Fetched(s) == fetch[s].stage = "DONE"
InTime(s) == fetch[s].stage = "DONE" /\ fetch[s].status = "PASS" => fetch[s].last <= Cutoff

TrueRows(rows) ==
    \A r \in rows : r.source \in Symbols /\ (r.hashed <=> fetch[r.source].status = "PASS")

AllRows(rows) == \A s \in Symbols : \E r \in rows : r.source = s

RecordOf(m) ==
    m = [status |-> m.status, required |-> m.required, rows |-> m.rows, hash |-> m.hash]

Whole(m) == RecordOf(m) /\ TrueRows(m.rows) /\ m.required = Symbols /\ AllRows(m.rows)

Covers(m) ==
    /\ RecordOf(m)
    /\ TrueRows(m.rows)
    /\ m.required = Symbols \/ AllRows(m.rows)

EodInv ==
    /\ fetch = [s \in Symbols |-> fetch[s]]
    /\ \A s \in Symbols : InTime(s)
    /\ manifest = NoManifest => paper = NoManifest
    /\ manifest # NoManifest =>
          /\ \A s \in Symbols : Fetched(s)
          /\ Whole(manifest) /\ Covers(paper)

LEMMA FetchInv ==
    ASSUME EodInv, NEW s \in Symbols, StartFetch(s) \/ AskYahoo(s) \/ AskStooq(s)
    PROVE  EodInv'
<1>1. fetch[s].stage # "DONE" /\ UNCHANGED <<manifest, paper>>
  BY DEF StartFetch, AskYahoo, AskStooq
<1>2. manifest = NoManifest /\ paper = NoManifest
  BY <1>1 DEF EodInv, Fetched
<1>3. PICK f : /\ fetch' = [fetch EXCEPT ![s] = f]
               /\ f.stage = "DONE" /\ f.status = "PASS" => f.last <= Cutoff
  <2>1. ASSUME NEW last \in Dates
        PROVE  Judged(last).status = "PASS" => Judged(last).last <= Cutoff
    BY EodConstants DEF Judged, FetchResult, Dates
  <2>2. /\ \A stage : stage # "DONE" => FetchStage(stage).stage # "DONE"
        /\ \A status : status # "PASS" => FetchResult(status, -1).status # "PASS"
    BY DEF FetchStage, FetchResult
  <2>3. CASE StartFetch(s)
    BY <2>2, <2>3 DEF StartFetch
  <2>4. CASE AskYahoo(s)
    BY <2>1, <2>2, <2>4 DEF AskYahoo
  <2>5. CASE AskStooq(s)
    BY <2>1, <2>2, <2>5 DEF AskStooq
  <2> QED
    BY <2>3, <2>4, <2>5
<1>4. /\ fetch' = [t \in Symbols |-> fetch'[t]]
      /\ \A t \in Symbols : fetch'[t] = IF t = s THEN f ELSE fetch[t]
  BY <1>3 DEF EodInv
<1>5. \A t \in Symbols : InTime(t)'
  BY <1>3, <1>4 DEF EodInv, InTime
<1> QED
  BY <1>1, <1>2, <1>4, <1>5 DEF EodInv, NoManifest

LEMMA BuildManifestInv ==
    ASSUME EodInv, BuildManifest
    PROVE  EodInv'
<1> DEFINE rows == {SourceRow(s) : s \in Symbols}
<1>1. /\ \A s \in Symbols : Fetched(s)
      /\ manifest' = Manifest(Symbols, rows) /\ paper' = manifest' /\ fetch' = fetch
  BY DEF BuildManifest, Fetched
<1>2. TrueRows(rows) /\ AllRows(rows)
  <2>1. \A s \in Symbols : /\ SourceRow(s).source = s
                           /\ SourceRow(s).hashed <=> fetch[s].status = "PASS"
    BY DEF SourceRow
  <2>2. \A s \in Symbols : SourceRow(s) \in rows
    OBVIOUS
  <2>3. \A r \in rows : \E s \in Symbols : r = SourceRow(s)
    OBVIOUS
  <2> HIDE DEF rows
  <2> QED
    BY <2>1, <2>2, <2>3 DEF TrueRows, AllRows
<1>3. PICK m : m = Manifest(Symbols, rows)
  OBVIOUS
<1>4. /\ m # NoManifest /\ Whole(m)
  <2>1. RecordOf(m) /\ m.required = Symbols /\ m.rows = rows
    BY <1>3 DEF Manifest, RecordOf
  <2>2. m # NoManifest
    BY <1>3 DEF Manifest, NoManifest
  <2> QED
    BY <1>2, <2>1, <2>2 DEF Whole
<1>5. manifest' = m /\ paper' = m
  BY <1>1, <1>3
<1>6. Whole(m)' /\ Covers(m)'
  BY <1>1, <1>4 DEF Whole, Covers, RecordOf, TrueRows, AllRows
<1>7. Whole(manifest)' /\ Covers(paper)' /\ manifest' # NoManifest
  BY <1>4, <1>5, <1>6 DEF Whole, Covers, RecordOf, TrueRows, AllRows
<1>8. \A s \in Symbols : Fetched(s)' /\ InTime(s)'
  BY <1>1 DEF Fetched, InTime, EodInv
<1> QED
  BY <1>1, <1>7, <1>8 DEF EodInv, NoManifest

\* One change leaves the rows true, and the other list complete.
LEMMA AlteredCovers ==
    ASSUME NEW p, Whole(p), NEW m \in AlteredManifests(p)
    PROVE  Covers(m) /\ Covers(Rehashed(m))
<1>1. /\ p = [status |-> p.status, required |-> p.required, rows |-> p.rows, hash |-> p.hash]
      /\ TrueRows(p.rows) /\ p.required = Symbols /\ AllRows(p.rows)
  BY DEF Whole, RecordOf
<1>2. /\ RecordOf(m) /\ TrueRows(m.rows)
      /\ m.required = Symbols \/ AllRows(m.rows)
  <2>1. CASE \E v \in {"READY_FOR_RESEARCH", "INCOMPLETE", "QUARANTINED", "REJECTED"} :
                m = [p EXCEPT !.status = v]
    BY <1>1, <2>1 DEF RecordOf
  <2>2. CASE \E s \in Symbols : m = [p EXCEPT !.required = @ \ {s}]
    BY <1>1, <2>2 DEF RecordOf
  <2>3. CASE \E r \in p.rows : m = [p EXCEPT !.rows = @ \ {r}]
    <3>1. PICK r \in p.rows : m = [p EXCEPT !.rows = @ \ {r}]
      BY <2>3
    <3>2. RecordOf(m) /\ m.required = Symbols /\ m.rows = p.rows \ {r}
      BY <1>1, <3>1 DEF RecordOf
    <3> QED
      BY <1>1, <3>2 DEF TrueRows
  <2>4. CASE \E r \in p.rows, v \in {"PASS", "QUARANTINE"} :
                m = [p EXCEPT !.rows = (@ \ {r}) \cup {[r EXCEPT !.status = v]}]
    <3>1. PICK r \in p.rows, v \in {"PASS", "QUARANTINE"} :
             m = [p EXCEPT !.rows = (@ \ {r}) \cup {[r EXCEPT !.status = v]}]
      BY <2>4
    <3> DEFINE t == [r EXCEPT !.status = v]
    <3>2. RecordOf(m) /\ m.required = Symbols /\ m.rows = (p.rows \ {r}) \cup {t}
      BY <1>1, <3>1 DEF RecordOf
    <3>3. t.source = r.source /\ t.hashed = r.hashed
      OBVIOUS
    <3> HIDE DEF t
    <3>4. r.source \in Symbols /\ (t.hashed <=> fetch[r.source].status = "PASS")
      BY <1>1, <3>3 DEF TrueRows
    <3> QED
      BY <1>1, <3>2, <3>3, <3>4 DEF TrueRows
  <2> QED
    BY <2>1, <2>2, <2>3, <2>4 DEF AlteredManifests
<1>3. /\ RecordOf(Rehashed(m)) /\ Rehashed(m).rows = m.rows
      /\ Rehashed(m).required = m.required
  BY <1>2 DEF Rehashed, RecordOf
<1> QED
  BY <1>2, <1>3 DEF Covers

LEMMA AlterStoredInv ==
    ASSUME EodInv, AlterStored
    PROVE  EodInv'
<1>1. /\ manifest # NoManifest /\ UNCHANGED <<fetch, manifest>>
      /\ Whole(manifest) /\ paper = manifest
  BY DEF AlterStored, EodInv
<1>2. PICK m \in AlteredManifests(paper) : paper' = m \/ paper' = Rehashed(m)
  BY DEF AlterStored
<1>3. PICK n : paper' = n /\ Covers(n)
  BY <1>1, <1>2, AlteredCovers
<1>4. Covers(n)'
  BY <1>1, <1>3 DEF Covers, RecordOf, TrueRows, AllRows
<1>5. Covers(paper)'
  BY <1>3, <1>4 DEF Covers, RecordOf, TrueRows, AllRows
<1>6. /\ Whole(manifest)' /\ \A s \in Symbols : Fetched(s)' /\ InTime(s)'
  BY <1>1 DEF Whole, RecordOf, TrueRows, AllRows, Fetched, InTime, EodInv
<1> QED
  BY <1>1, <1>5, <1>6 DEF EodInv, NoManifest

\* A manifest that rebuilds as READY covers every symbol with fetched bars.
LEMMA ReadyCovers ==
    ASSUME EodInv, AcceptedManifest(paper), paper.status = "READY_FOR_RESEARCH"
    PROVE  \A s \in Symbols : fetch[s].status = "PASS" /\ fetch[s].last <= Cutoff
<1>1. /\ paper # NoManifest /\ paper = Manifest(paper.required, paper.rows)
  BY DEF AcceptedManifest
<1>2. /\ \A s \in Symbols : Fetched(s) /\ InTime(s)
      /\ Covers(paper)
  BY <1>1 DEF EodInv
<1>3. BatchStatus(paper.required, paper.rows) = "READY_FOR_RESEARCH"
  <2>1. PICK required, rows : required = paper.required /\ rows = paper.rows
    OBVIOUS
  <2>2. Manifest(required, rows).status = BatchStatus(required, rows)
    BY DEF Manifest
  <2> QED
    BY <1>1, <2>1, <2>2
<1>4. /\ \A r \in paper.rows : r.hashed
      /\ paper.required \subseteq {r.source : r \in paper.rows}
  BY <1>3 DEF BatchStatus
<1>5. AllRows(paper.rows)
  BY <1>2, <1>4 DEF Covers, AllRows
<1>6. \A s \in Symbols : fetch[s].status = "PASS"
  BY <1>2, <1>4, <1>5 DEF Covers, TrueRows, AllRows
<1> QED
  BY <1>2, <1>6 DEF InTime, Fetched

(* A batch is READY, and a stored manifest is believed to be READY after a *)
(* change of its status, of one required source, of one row's presence or  *)
(* of one row's status, only when every symbol was answered with bars of   *)
(* its own up to the cutoff, for any symbols, workers and dates            *)
(* (eod_ingest.py and batch.py).                                           *)
THEOREM ReadyTheorem == EodSpec => []ReadyIsComplete
<1>1. EodInit => EodInv
  BY DEF EodInit, EodInv, InTime, FetchStage
<1>2. EodInv /\ [EodNext]_eodVars => EodInv'
  <2> SUFFICES ASSUME EodInv, [EodNext]_eodVars PROVE EodInv'
    OBVIOUS
  <2>1. CASE UNCHANGED eodVars
    BY <2>1 DEF eodVars, EodInv, Whole, Covers, RecordOf, TrueRows, AllRows, Fetched,
                InTime, NoManifest
  <2> QED
    BY <2>1, FetchInv, BuildManifestInv, AlterStoredInv DEF EodNext
<1>3. EodInv => ReadyIsComplete
  BY ReadyCovers DEF ReadyIsComplete
<1> QED
  BY <1>1, <1>2, <1>3, PTL DEF EodSpec

(***************************************************************************)
(* The premium trade.  A spread that was entered has a credit and a loss   *)
(* that add up to its width, whatever chain they were read off; a review   *)
(* that goes on comes before the planned exit.                             *)
(***************************************************************************)
SpreadSound(sp) ==
    /\ sp.legs \in OrderedPairs
    /\ sp.credit \in Int /\ sp.credit > 0
    /\ sp.maxLoss = Width(sp.legs) * Lot - sp.credit /\ sp.maxLoss > 0
    /\ sp.breakEven = IF sp.legs[1].type = "PUT" THEN sp.legs[1].strike * Lot - sp.credit
                                                 ELSE sp.legs[1].strike * Lot + sp.credit
    /\ sp.plannedExit = sp.legs[1].expiration - ExitOffset

\* What the event gate saw, and that the monitor has stopped at the exit.
Watched(t) ==
    /\ t.since \in Nat /\ t.seen \in Int /\ t.known \subseteq Announced
    /\ DayOf(t.seen) < t.spread.plannedExit
    /\ \A e \in t.known : e.type = "EARNINGS" =>
          ~(DayOf(t.since) <= e.date /\ e.date <= t.spread.plannedExit)

HasFields(t) ==
    t = [ status |-> t.status, spread |-> t.spread, since |-> t.since, known |-> t.known,
          seen |-> t.seen, pnl |-> t.pnl, price |-> t.price ]

\* The order the clock gives: the last entry made is the latest.
EntriesInOrder ==
    \A i, j \in DOMAIN entries : i < j => entries[i] <= entries[j]

TradeInv ==
    /\ instant \in Nat /\ announced \subseteq Announced
    /\ chain.snap \in Snapshots
    /\ entries \in Seq(Nat) /\ \A i \in DOMAIN entries : entries[i] <= instant
    /\ HasFields(trade)
    /\ trade.status \in {"NONE", "HELD", "CLOSED", "EXPIRED"}
    /\ trade.status = "HELD" => SpreadSound(trade.spread) /\ Watched(trade)
    /\ ResultBounded /\ EntriesInOrder

-----------------------------------------------------------------------------
LEMMA Division ==
    ASSUME NEW a \in Int, NEW b \in Int, NEW m \in Nat \ {0}, a <= b
    PROVE  a \div m \in Int /\ b \div m \in Int /\ a \div m <= b \div m
<1>1. a \div m \in Int /\ b \div m \in Int
  OBVIOUS
<1>2. PICK p \in Int, q \in Int : p = a \div m /\ q = b \div m
  BY <1>1
<1>3. m * p <= a /\ b < m * q + m
  <2>1. a = m * (a \div m) + (a % m) /\ a % m \in Nat
    OBVIOUS
  <2>2. b = m * (b \div m) + (b % m) /\ b % m \in Nat /\ b % m < m
    OBVIOUS
  <2> QED
    BY <1>2, <2>1, <2>2
<1>4. p <= q
  <2> SUFFICES ASSUME p >= q + 1 PROVE FALSE
    BY <1>2
  <2>1. m * p >= m * (q + 1)
    BY <1>2
  <2>2. m * (q + 1) = m * q + m
    BY <1>2
  <2>3. m * q \in Int /\ m * p \in Int /\ m * (q + 1) \in Int
    BY <1>2
  <2> QED
    BY <1>3, <2>1, <2>2, <2>3
<1> QED
  BY <1>1, <1>2, <1>4

LEMMA Days ==
    ASSUME NEW a \in Int, NEW b \in Int, a <= b
    PROVE  DayOf(a) \in Int /\ DayOf(b) \in Int /\ DayOf(a) <= DayOf(b)
           /\ Month(a) \in Int /\ Month(b) \in Int /\ Month(a) <= Month(b)
BY Division, TradeConstants DEF DayOf, Month

\* A part of the width, for as many shares.
LEMMA Product ==
    ASSUME NEW x \in Int, NEW y \in Int, NEW l \in Int, l > 0
    PROVE  /\ x * l \in Int /\ y * l \in Int
           /\ x <= y => x * l <= y * l
           /\ (y - x) * l = y * l - x * l
OBVIOUS

(* What a spread leaves at expiration, far = 0 standing for the strike of  *)
(* the short leg and width for that of the long one.                       *)
LEMMA Expiry ==
    ASSUME NEW width \in Int, NEW far \in Int, NEW l \in Int, NEW credit \in Int,
           width > 0, l > 0, credit > 0, width * l - credit > 0,
           NEW pnl \in Int,
           pnl = credit - (NonNegative(far) - NonNegative(far - width)) * l
    PROVE  /\ pnl <= credit /\ -(width * l - credit) <= pnl
           /\ pnl >= 0 <=> far * l <= credit
<1>1. CASE far <= 0
  <2>1. NonNegative(far) = 0 /\ NonNegative(far - width) = 0
    BY <1>1 DEF NonNegative
  <2>2. pnl = credit
    BY <2>1
  <2>3. far * l <= 0
    BY <1>1
  <2>4. far * l \in Int /\ width * l \in Int
    OBVIOUS
  <2> QED
    BY <2>2, <2>3, <2>4
<1>2. CASE far > 0 /\ far <= width
  <2>1. NonNegative(far) = far /\ NonNegative(far - width) = 0
    BY <1>2 DEF NonNegative
  <2>2. pnl = credit - far * l
    BY <2>1
  <2>3. far * l <= width * l /\ far * l >= 0 /\ far * l \in Int /\ width * l \in Int
    BY <1>2, Product
  <2> QED
    BY <2>2, <2>3
<1>3. CASE far > width
  <2>1. NonNegative(far) = far /\ NonNegative(far - width) = far - width
    BY <1>3 DEF NonNegative
  <2>2. pnl = credit - width * l
    BY <2>1
  <2>3. far * l >= width * l /\ far * l \in Int /\ width * l \in Int
    BY <1>3, Product
  <2> QED
    BY <2>2, <2>3
<1> QED
  BY <1>1, <1>2, <1>3
LEMMA LegsAre ==
    ASSUME NEW p \in OrderedPairs
    PROVE  /\ p[1] \in Contracts /\ p[2] \in Contracts /\ Oriented(p)
           /\ p[1].strike \in Nat /\ p[2].strike \in Nat /\ p[1].expiration \in Nat
           /\ p[1].type \in {"PUT", "CALL"} /\ p[2].type = p[1].type
           /\ Width(p) \in Nat /\ Width(p) > 0
<1>1. p[1] \in Contracts /\ p[2] \in Contracts /\ Oriented(p)
  BY DEF OrderedPairs
<1>2. p[1] \in ContractRecord /\ p[2] \in ContractRecord
  BY <1>1, TradeConstants
<1>3. /\ p[1].strike \in Nat /\ p[2].strike \in Nat /\ p[1].expiration \in Nat
      /\ p[1].type \in {"PUT", "CALL"}
  BY <1>2 DEF ContractRecord
<1>4. p[2].type = p[1].type /\ Width(p) \in Nat /\ Width(p) > 0
  BY <1>1, <1>3 DEF Oriented, Width
<1> QED
  BY <1>1, <1>3, <1>4

LEMMA LotIs == Lot \in Nat /\ Lot > 0
<1>1. PICK m \in Nat \ {0}, q \in Nat \ {0} : m = Multiplier /\ q = Quantity
  BY TradeConstants
<1>2. m * q \in Nat /\ m * q > 0
  BY <1>1
<1> QED
  BY <1>1, <1>2 DEF Lot

LEMMA QuotesAre ==
    ASSUME NEW s \in Snapshots, NEW c \in Contracts
    PROVE  s.quote[c].bid \in Nat /\ s.quote[c].ask \in Nat
<1>1. s \in SnapshotRecord
  BY TradeConstants
<1>2. s.quote \in [Contracts -> Price]
  BY <1>1 DEF SnapshotRecord
<1>3. s.quote[c] \in Price
  BY <1>2
<1> QED
  BY <1>3 DEF Price

LEMMA UnderlyingIs ==
    ASSUME NEW s \in Snapshots
    PROVE  s.underlying.bid \in Nat
<1>1. s \in SnapshotRecord
  BY TradeConstants
<1> QED
  BY <1>1 DEF SnapshotRecord, Price

LEMMA CreditIs ==
    ASSUME NEW s \in Snapshots, NEW p \in OrderedPairs
    PROVE  NetCredit(s, p) \in Int
<1>1. PICK bid \in Nat, ask \in Nat : bid = s.quote[p[1]].bid /\ ask = s.quote[p[2]].ask
  BY LegsAre, QuotesAre
<1>2. PICK lot \in Nat, fee \in Nat, n \in Nat : lot = Lot /\ fee = Commission /\ n = Quantity
  BY LotIs, TradeConstants
<1>3. NetCredit(s, p) = (bid - ask) * lot - 2 * fee * n
  BY <1>1, <1>2 DEF NetCredit
<1>4. (bid - ask) * lot \in Int /\ 2 * fee * n \in Int
  BY <1>1, <1>2
<1> QED
  BY <1>3, <1>4

(* What the scanner prices is sound, and ends after the day it is priced.  *)
LEMMA ScannedIs ==
    ASSUME NEW s \in Snapshots, NEW t \in Nat, NEW sp \in Scan(s, t)
    PROVE  SpreadSound(sp) /\ DayOf(t) < sp.plannedExit
<1>1. PICK p \in OrderedPairs : Priceable(s, p, t) /\ sp = Spread(s, p)
  BY DEF Scan
<1>2. PICK credit \in Int : credit = NetCredit(s, p)
  BY CreditIs
<1>3. /\ sp.legs = p /\ sp.credit = credit /\ sp.maxLoss = MaximumLoss(s, p)
      /\ sp.breakEven = BreakEven(s, p) /\ sp.plannedExit = p[1].expiration - ExitOffset
  BY <1>1, <1>2 DEF Spread
<1>4. credit > 0 /\ MaximumLoss(s, p) > 0 /\ p[1].expiration - DayOf(t) > ExitOffset
  BY <1>1, <1>2 DEF Priceable
<1>5. SpreadSound(sp)
  BY <1>1, <1>2, <1>3, <1>4 DEF SpreadSound, MaximumLoss, BreakEven
<1>6. DayOf(t) < sp.plannedExit
  <2>1. DayOf(t) \in Int /\ p[1].expiration \in Nat /\ ExitOffset \in Nat
    BY Days, LegsAre, TradeConstants
  <2> QED
    BY <1>3, <1>4, <2>1
<1> QED
  BY <1>5, <1>6

(* Held to expiration, the spread ends inside what it was entered on.      *)
LEMMA ExpiredIs ==
    ASSUME NEW sp, SpreadSound(sp), NEW price \in Nat, NEW pnl,
           pnl = sp.credit - (Intrinsic(sp.legs[1], price) - Intrinsic(sp.legs[2], price)) * Lot
    PROVE  /\ pnl <= sp.credit /\ -sp.maxLoss <= pnl
           /\ pnl >= 0 <=> IF sp.legs[1].type = "PUT" THEN price * Lot >= sp.breakEven
                                                     ELSE price * Lot <= sp.breakEven
<1>1. PICK short \in Nat, long \in Nat, width \in Nat, lot \in Nat, credit \in Int :
         /\ short = sp.legs[1].strike /\ long = sp.legs[2].strike /\ width = Width(sp.legs)
         /\ lot = Lot /\ credit = sp.credit /\ width > 0 /\ lot > 0 /\ credit > 0
  BY LegsAre, LotIs DEF SpreadSound
<1>2. sp.maxLoss = width * lot - credit /\ width * lot - credit > 0
  BY <1>1 DEF SpreadSound
<1>3. sp.legs[2].type = sp.legs[1].type /\ sp.legs[1].type \in {"PUT", "CALL"}
  BY LegsAre DEF SpreadSound
<1>4. CASE sp.legs[1].type = "PUT"
  <2>1. PICK far \in Int : far = short - price
    BY <1>1
  <2>2. far - width = long - price
    BY <1>1, <1>4, <2>1 DEF Width
  <2>3. /\ Intrinsic(sp.legs[1], price) = NonNegative(far)
        /\ Intrinsic(sp.legs[2], price) = NonNegative(far - width)
    BY <1>1, <1>3, <1>4, <2>1, <2>2 DEF Intrinsic
  <2>4. pnl = credit - (NonNegative(far) - NonNegative(far - width)) * lot
    BY <1>1, <2>3
  <2>5. pnl \in Int
    <3>1. PICK d \in Int : d = NonNegative(far) - NonNegative(far - width)
      BY <1>1, <2>1 DEF NonNegative
    <3>2. d * lot \in Int
      BY <1>1, <3>1
    <3> QED
      BY <1>1, <2>4, <3>1, <3>2
  <2>6. /\ pnl <= credit /\ -(width * lot - credit) <= pnl
        /\ pnl >= 0 <=> far * lot <= credit
    <3>1. width \in Int /\ lot \in Int /\ width > 0 /\ lot > 0 /\ credit > 0
      BY <1>1
    <3> QED
      BY <1>2, <2>4, <2>5, <3>1, Expiry
  <2>7. far * lot <= credit <=> price * lot >= short * lot - credit
    <3>2. short \in Int /\ price \in Int /\ lot \in Int /\ lot > 0
      BY <1>1
    <3>3. (short - price) * lot = short * lot - price * lot
      BY <3>2, Product
    <3>1. /\ far * lot = short * lot - price * lot
          /\ short * lot \in Int /\ price * lot \in Int
      BY <2>1, <3>2, <3>3, Product
    <3> QED
      BY <1>1, <3>1
  <2>8. sp.breakEven = short * lot - credit
    BY <1>1, <1>4 DEF SpreadSound
  <2> QED
    BY <1>1, <1>2, <1>4, <2>6, <2>7, <2>8
<1>5. CASE sp.legs[1].type = "CALL"
  <2>1. PICK far \in Int : far = price - short
    BY <1>1
  <2>2. far - width = price - long
    BY <1>1, <1>5, <2>1 DEF Width
  <2>3. /\ Intrinsic(sp.legs[1], price) = NonNegative(far)
        /\ Intrinsic(sp.legs[2], price) = NonNegative(far - width)
    BY <1>1, <1>3, <1>5, <2>1, <2>2 DEF Intrinsic
  <2>4. pnl = credit - (NonNegative(far) - NonNegative(far - width)) * lot
    BY <1>1, <2>3
  <2>5. pnl \in Int
    <3>1. PICK d \in Int : d = NonNegative(far) - NonNegative(far - width)
      BY <1>1, <2>1 DEF NonNegative
    <3>2. d * lot \in Int
      BY <1>1, <3>1
    <3> QED
      BY <1>1, <2>4, <3>1, <3>2
  <2>6. /\ pnl <= credit /\ -(width * lot - credit) <= pnl
        /\ pnl >= 0 <=> far * lot <= credit
    <3>1. width \in Int /\ lot \in Int /\ width > 0 /\ lot > 0 /\ credit > 0
      BY <1>1
    <3> QED
      BY <1>2, <2>4, <2>5, <3>1, Expiry
  <2>7. far * lot <= credit <=> price * lot <= short * lot + credit
    <3>2. short \in Int /\ price \in Int /\ lot \in Int /\ lot > 0
      BY <1>1
    <3>3. (price - short) * lot = price * lot - short * lot
      BY <3>2, Product
    <3>1. /\ far * lot = price * lot - short * lot
          /\ short * lot \in Int /\ price * lot \in Int
      BY <2>1, <3>2, <3>3, Product
    <3> QED
      BY <1>1, <3>1
  <2>8. sp.breakEven = short * lot + credit
    BY <1>1, <1>5 DEF SpreadSound
  <2> QED
    BY <1>1, <1>2, <1>5, <2>6, <2>7, <2>8
<1> QED
  BY <1>3, <1>4, <1>5

-----------------------------------------------------------------------------
LEMMA ReasonsOff ==
    ASSUME TradeInv, trade.status = "HELD", NEW escalated \in BOOLEAN,
           ~CloseReasons(trade.spread, escalated, instant)
    PROVE  DayOf(instant) < trade.spread.plannedExit
<1>1. ~(trade.spread.legs[1].expiration - DayOf(instant) <= ExitOffset)
  BY DEF CloseReasons
<1>2. SpreadSound(trade.spread) /\ instant \in Nat
  BY DEF TradeInv
<1>3. /\ trade.spread.plannedExit = trade.spread.legs[1].expiration - ExitOffset
      /\ trade.spread.legs[1].expiration \in Nat
  BY <1>2, LegsAre DEF SpreadSound
<1>4. DayOf(instant) \in Int /\ ExitOffset \in Nat
  BY <1>2, Days, TradeConstants
<1> QED
  BY <1>1, <1>3, <1>4

LEMMA MonitorInv ==
    ASSUME TradeInv, Monitor
    PROVE  TradeInv'
<1>1. /\ trade.status = "HELD" /\ trade' = [trade EXCEPT !.seen = instant]
      /\ UNCHANGED <<instant, chain, announced, entries>>
      /\ \E escalated \in BOOLEAN : ~CloseReasons(trade.spread, escalated, instant)
      /\ HasFields(trade) /\ instant \in Nat
  BY DEF Monitor, TradeInv
<1>2. DayOf(instant) < trade.spread.plannedExit
  BY <1>1, ReasonsOff
<1>3. /\ HasFields(trade') /\ trade'.status = "HELD" /\ trade'.spread = trade.spread
      /\ trade'.since = trade.since /\ trade'.known = trade.known /\ trade'.seen = instant
  BY <1>1 DEF HasFields
<1>4. Watched(trade')
  BY <1>1, <1>2, <1>3 DEF TradeInv, Watched
<1> QED
  BY <1>1, <1>3, <1>4 DEF TradeInv, ResultBounded, EntriesInOrder, HasFields, SpreadSound, Watched

\* The trade ends, within what it was entered on.
LEMMA EndInv ==
    ASSUME TradeInv, UNCHANGED <<instant, chain, announced, entries>>,
           HasFields(trade'), trade'.status \in {"CLOSED", "EXPIRED"}, ResultBounded'
    PROVE  TradeInv'
BY DEF TradeInv, EntriesInOrder, HasFields

LEMMA CloseInv ==
    ASSUME TradeInv, CloseTrade
    PROVE  TradeInv'
<1>1. /\ trade.status = "HELD" /\ Reviewable(trade.spread, instant)
      /\ trade' = [trade EXCEPT !.status = "CLOSED", !.pnl = MarkedPnl(chain.snap, trade.spread)]
      /\ UNCHANGED <<instant, chain, announced, entries>>
      /\ HasFields(trade) /\ SpreadSound(trade.spread) /\ chain.snap \in Snapshots
  BY DEF CloseTrade, TradeInv
<1>2. MarkedPnl(chain.snap, trade.spread) <= trade.spread.credit
  <2>1. PICK p \in OrderedPairs, credit \in Int : p = trade.spread.legs /\ credit = trade.spread.credit
    BY <1>1 DEF SpreadSound
  <2>2. PICK ask \in Nat, bid \in Nat :
           ask = chain.snap.quote[p[1]].ask /\ bid = chain.snap.quote[p[2]].bid
    BY <1>1, LegsAre, QuotesAre
  <2>3. PICK lot \in Nat, fee \in Nat, n \in Nat : lot = Lot /\ fee = Commission /\ n = Quantity
    BY LotIs, TradeConstants
  <2>4. PICK debit \in Int : debit = (ask - bid) * lot
    BY <2>2, <2>3
  <2>5. debit >= 0 /\ MarkedPnl(chain.snap, trade.spread) = credit - debit - 2 * fee * n
    BY <1>1, <2>1, <2>2, <2>3, <2>4 DEF Reviewable, MarkedPnl, CloseDebit
  <2>6. 2 * fee * n \in Int /\ 2 * fee * n >= 0
    BY <2>3
  <2> QED
    BY <2>1, <2>4, <2>5, <2>6
<1>3. /\ HasFields(trade') /\ trade'.status = "CLOSED" /\ trade'.spread = trade.spread
      /\ trade'.pnl = MarkedPnl(chain.snap, trade.spread)
  BY <1>1 DEF HasFields
<1>4. ResultBounded'
  BY <1>2, <1>3 DEF ResultBounded
<1> QED
  BY <1>1, <1>3, <1>4, EndInv

LEMMA ExpireInv ==
    ASSUME TradeInv, ExpireTrade
    PROVE  TradeInv'
<1>1. PICK price, pnl :
         /\ price = chain.snap.underlying.bid
         /\ pnl = trade.spread.credit - (Intrinsic(trade.spread.legs[1], price)
                                           - Intrinsic(trade.spread.legs[2], price)) * Lot
  OBVIOUS
<1>2. /\ trade' = [trade EXCEPT !.status = "EXPIRED", !.price = price, !.pnl = pnl]
      /\ UNCHANGED <<instant, chain, announced, entries>>
      /\ HasFields(trade) /\ SpreadSound(trade.spread) /\ price \in Nat
  BY <1>1, UnderlyingIs DEF ExpireTrade, TradeInv
<1>3. /\ HasFields(trade') /\ trade'.status = "EXPIRED" /\ trade'.spread = trade.spread
      /\ trade'.pnl = pnl /\ trade'.price = price
  BY <1>2 DEF HasFields
<1>4. PICK sp : sp = trade.spread
  OBVIOUS
<1>5. /\ pnl <= sp.credit /\ -sp.maxLoss <= pnl
      /\ pnl >= 0 <=> IF sp.legs[1].type = "PUT" THEN price * Lot >= sp.breakEven
                                                 ELSE price * Lot <= sp.breakEven
  BY <1>1, <1>2, <1>4, ExpiredIs
<1>6. ResultBounded'
  BY <1>3, <1>4, <1>5 DEF ResultBounded
<1> QED
  BY <1>2, <1>3, <1>6, EndInv

\* An entry is put last, and nothing made so far is later.
LEMMA OrderAfter ==
    ASSUME TradeInv, entries' = Append(entries, instant)
    PROVE  /\ entries' \in Seq(Nat) /\ \A i \in DOMAIN entries' : entries'[i] <= instant
           /\ EntriesInOrder'
<1>1. PICK n \in Nat : n = Len(entries)
  BY DEF TradeInv
<1>2. /\ entries \in Seq(Nat) /\ instant \in Nat /\ DOMAIN entries = 1..n
      /\ DOMAIN entries' = 1..(n + 1) /\ entries'[n + 1] = instant
      /\ \A i \in 1..n : entries'[i] = entries[i] /\ entries[i] \in Nat /\ entries[i] <= instant
  BY <1>1 DEF TradeInv
<1>3. \A i \in 1..(n + 1) : i \in 1..n \/ i = n + 1
  BY <1>1
<1>4. ASSUME NEW i \in 1..(n + 1), NEW j \in 1..(n + 1), i < j
      PROVE  entries'[i] <= entries'[j]
  <2>1. i \in 1..n
    BY <1>1, <1>3, <1>4
  <2>2. CASE j = n + 1
    BY <1>2, <2>1, <2>2
  <2>3. CASE j \in 1..n
    <3>1. entries[i] <= entries[j]
      BY <1>2, <1>4, <2>1, <2>3 DEF TradeInv, EntriesInOrder
    <3> QED
      BY <1>2, <2>1, <2>3, <3>1
  <2> QED
    BY <1>3, <2>2, <2>3
<1>5. EntriesInOrder'
  <2>1. \A i, j \in DOMAIN entries' : i < j => entries'[i] <= entries'[j]
    BY <1>2, <1>4
  <2> QED
    BY <2>1 DEF EntriesInOrder
<1>6. entries' \in Seq(Nat)
  BY <1>2
<1>7. \A i \in DOMAIN entries' : entries'[i] <= instant
  BY <1>2, <1>3
<1> QED
  BY <1>5, <1>6, <1>7

(* The cadence gate is shown the last entry, and the others are before it. *)
LEMMA AdmittedIsSpaced ==
    ASSUME TradeInv
    PROVE  AdmissionsSpaced
<1> SUFFICES ASSUME CadenceAllows(entries, instant), NEW i \in DOMAIN entries
             PROVE  instant - entries[i] >= MinGap /\ Month(entries[i]) # Month(instant)
  BY DEF AdmissionsSpaced
<1>1. PICK n \in Nat : n = Len(entries)
  BY DEF TradeInv
<1>2. /\ entries \in Seq(Nat) /\ instant \in Nat /\ DOMAIN entries = 1..n
  BY <1>1 DEF TradeInv
<1>3. instant - entries[i] >= MinGap /\ Month(entries[i]) # Month(instant)
  <2>1. n \in 1..n /\ entries # <<>> /\ entries[n] \in Nat /\ entries[i] \in Nat
    BY <1>1, <1>2
  <2>2. entries[n] <= instant /\ Month(entries[n]) # Month(instant) /\ instant - entries[n] >= MinGap
    BY <1>1, <2>1 DEF CadenceAllows
  <2>3. entries[i] <= entries[n]
    <3>1. CASE i = n
      BY <2>1, <3>1
    <3>2. CASE i # n
      <4>1. i < n /\ i \in DOMAIN entries /\ n \in DOMAIN entries
        BY <1>1, <1>2, <2>1, <3>2
      <4> QED
        BY <4>1 DEF TradeInv, EntriesInOrder
    <3> QED
      BY <3>1, <3>2
  <2>4. /\ Month(entries[i]) <= Month(entries[n]) /\ Month(entries[n]) <= Month(instant)
        /\ Month(entries[i]) \in Int /\ Month(entries[n]) \in Int /\ Month(instant) \in Int
    <3>1. entries[i] \in Int /\ entries[n] \in Int /\ instant \in Int
      BY <1>2, <2>1
    <3>2. /\ Month(entries[i]) <= Month(entries[n]) /\ Month(entries[i]) \in Int
          /\ Month(entries[n]) \in Int
      BY <2>3, <3>1, Days
    <3>3. Month(entries[n]) <= Month(instant) /\ Month(instant) \in Int
      BY <2>2, <3>1, Days
    <3> QED
      BY <3>2, <3>3
  <2>5. PICK a \in Int, b \in Int, ma \in Int, mb \in Int, m \in Int :
            a = entries[i] /\ b = entries[n] /\ ma = Month(entries[i]) /\ mb = Month(entries[n])
            /\ m = Month(instant)
    BY <2>1, <2>4
  <2>6. Month(entries[i]) # Month(instant)
    <3>1. ma <= mb /\ mb <= m /\ mb # m
      BY <2>2, <2>4, <2>5
    <3>2. ma # m
      BY <3>1
    <3> QED
      BY <2>5, <3>2
  <2>7. instant - entries[i] >= MinGap
    <3>1. a <= b /\ instant - b >= MinGap /\ MinGap \in Int /\ instant \in Int
      BY <1>2, <2>2, <2>3, <2>5, TradeConstants
    <3>2. instant - a >= MinGap
      BY <3>1
    <3> QED
      BY <2>5, <3>2
  <2> QED
    BY <2>6, <2>7
<1> QED
  BY <1>3

LEMMA EnterInv ==
    ASSUME TradeInv, EnterTrade
    PROVE  TradeInv'
<1>1. /\ entries' = Append(entries, instant) /\ UNCHANGED <<instant, chain, announced>>
      /\ instant \in Nat /\ chain.snap \in Snapshots /\ announced \subseteq Announced
  BY DEF EnterTrade, TradeInv
<1>2. /\ entries' \in Seq(Nat) /\ \A i \in DOMAIN entries' : entries'[i] <= instant
      /\ EntriesInOrder'
  BY <1>1, OrderAfter
<1>3. CASE ~Unheld
  <2>1. trade' = trade
    BY <1>3 DEF EnterTrade
  <2> QED
    BY <1>1, <1>2, <2>1 DEF TradeInv, ResultBounded, HasFields, SpreadSound, Watched
<1>4. CASE Unheld
  <2>1. PICK v \in Sessions, through \in Horizons :
           \E spread \in Handoffs(chain.snap, v, instant) :
              /\ EventsAdmit(announced, through, chain.snap, spread, instant)
              /\ trade' = [NoPosition EXCEPT !.status = "HELD", !.spread = spread,
                               !.since = instant, !.known = announced]
    BY <1>4 DEF EnterTrade
  <2>2. PICK spread \in Handoffs(chain.snap, v, instant) :
           /\ EventsAdmit(announced, through, chain.snap, spread, instant)
           /\ trade' = [NoPosition EXCEPT !.status = "HELD", !.spread = spread,
                            !.since = instant, !.known = announced]
    BY <2>1
  <2>3. SpreadSound(spread) /\ DayOf(instant) < spread.plannedExit
    <3>1. spread \in Scan(chain.snap, instant)
      BY <2>2 DEF Handoffs
    <3> QED
      BY <1>1, <3>1, ScannedIs
  <2>4. /\ HasFields(trade') /\ trade'.status = "HELD" /\ trade'.spread = spread
        /\ trade'.since = instant /\ trade'.known = announced /\ trade'.seen = -1
    BY <2>2 DEF NoPosition, HasFields
  <2>5. \A e \in announced : e.type = "EARNINGS" =>
           ~(DayOf(instant) <= e.date /\ e.date <= spread.plannedExit)
    BY <2>2 DEF EventsAdmit
  <2>6. DayOf(-1) < spread.plannedExit
    <3>1. DayOf(-1) <= DayOf(instant) /\ DayOf(-1) \in Int /\ DayOf(instant) \in Int
      <4>1. -1 \in Int /\ instant \in Int /\ -1 <= instant
        BY <1>1
      <4> QED
        BY <4>1, Days
    <3>2. spread.plannedExit \in Int
      <4>1. spread.legs[1].expiration \in Nat /\ ExitOffset \in Nat
        BY <2>3, LegsAre, TradeConstants DEF SpreadSound
      <4> QED
        BY <2>3, <4>1 DEF SpreadSound
    <3> QED
      BY <2>3, <3>1, <3>2
  <2>7. Watched(trade')
    BY <1>1, <2>4, <2>5, <2>6 DEF Watched
  <2>8. ResultBounded'
    BY <2>4 DEF ResultBounded
  <2> QED
    BY <1>1, <1>2, <2>3, <2>4, <2>7, <2>8 DEF TradeInv, HasFields, SpreadSound, Watched
<1> QED
  BY <1>3, <1>4

LEMMA TradeStarts == PremiumInit => TradeInv
<1> SUFFICES ASSUME PremiumInit PROVE TradeInv
  OBVIOUS
<1>1. /\ instant = 0 /\ announced = {} /\ entries = <<>> /\ trade = NoPosition
      /\ chain.snap \in Snapshots
  BY DEF PremiumInit
<1>2. HasFields(trade) /\ trade.status = "NONE"
  BY <1>1 DEF NoPosition, HasFields
<1>3. <<>> \in Seq(Nat)
  OBVIOUS
<1> QED
  BY <1>1, <1>2, <1>3 DEF TradeInv, ResultBounded, EntriesInOrder

LEMMA TradeStep == TradeInv /\ [PremiumNext]_tradeVars => TradeInv'
<1> SUFFICES ASSUME TradeInv, [PremiumNext]_tradeVars PROVE TradeInv'
  OBVIOUS
<1>1. CASE Requote
  <2>1. chain'.snap \in Snapshots /\ UNCHANGED <<instant, announced, entries, trade>>
    BY <1>1 DEF Requote
  <2> QED
    BY <2>1 DEF TradeInv, ResultBounded, EntriesInOrder, HasFields, SpreadSound, Watched
<1>2. CASE Announce
  <2>1. announced' \subseteq Announced /\ UNCHANGED <<instant, chain, entries, trade>>
    BY <1>2 DEF Announce, TradeInv
  <2> QED
    BY <2>1 DEF TradeInv, ResultBounded, EntriesInOrder, HasFields, SpreadSound, Watched
<1>3. CASE PassTime
  <2>1. /\ instant \in Nat /\ instant' = instant + 1 /\ entries \in Seq(Nat)
        /\ UNCHANGED <<chain, announced, entries, trade>>
    BY <1>3 DEF PassTime, TradeInv
  <2>2. instant' \in Nat
    BY <2>1
  <2>3. ASSUME NEW i \in DOMAIN entries PROVE entries[i] <= instant'
    <3>1. entries[i] \in Nat /\ entries[i] <= instant
      BY <2>1 DEF TradeInv
    <3> QED
      BY <2>1, <3>1
  <2> QED
    BY <2>1, <2>2, <2>3 DEF TradeInv, ResultBounded, EntriesInOrder, HasFields, SpreadSound, Watched
<1>4. CASE UNCHANGED tradeVars
  BY <1>4 DEF tradeVars, TradeInv, ResultBounded, EntriesInOrder, HasFields, SpreadSound, Watched
<1> QED
  BY <1>1, <1>2, <1>3, <1>4, EnterInv, MonitorInv, CloseInv, ExpireInv DEF PremiumNext

LEMMA EarningsAvoided ==
    ASSUME TradeInv
    PROVE  NoEarningsWhileMonitored
<1> SUFFICES ASSUME trade.status = "HELD", NEW e \in trade.known, e.type = "EARNINGS",
                    DayOf(trade.since) <= e.date, e.date <= DayOf(trade.seen)
             PROVE  FALSE
  BY DEF NoEarningsWhileMonitored
<1>1. SpreadSound(trade.spread) /\ Watched(trade)
  BY DEF TradeInv
<1>2. e.date \in Nat
  BY <1>1, TradeConstants DEF Watched, EventRecord
<1>3. DayOf(trade.seen) \in Int
  BY <1>1, Days DEF Watched
<1>4. trade.spread.plannedExit \in Int
  <2>1. trade.spread.legs[1].expiration \in Nat /\ ExitOffset \in Nat
    BY <1>1, LegsAre, TradeConstants DEF SpreadSound
  <2> QED
    BY <1>1, <2>1 DEF SpreadSound
<1>5. e.date <= trade.spread.plannedExit
  BY <1>1, <1>2, <1>3, <1>4 DEF Watched
<1> QED
  BY <1>1, <1>5 DEF Watched

(* For any chain, calendar and clock: a spread held to expiration ends     *)
(* within the loss and the credit it was entered on, gains on the side of  *)
(* its break-even it should, meets no announced earnings while the monitor *)
(* lets it go on, and an entry the cadence gate would admit is MinGap      *)
(* after, and in another month than, every entry made before it.           *)
THEOREM TradeTheorem == PremiumSpec => []TradeKept
<1>1. TradeInv => TradeKept
  BY AdmittedIsSpaced, EarningsAvoided DEF TradeInv, TradeKept, EntryTermsKept
<1> QED
  BY <1>1, TradeStarts, TradeStep, PTL DEF PremiumSpec
=============================================================================
