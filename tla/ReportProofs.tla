----------------------------- MODULE ReportProofs -----------------------------
(***************************************************************************)
(* Proofs about what the desk reads in the morning: the morning report of  *)
(* the reference desks (overnight.py and what it calls), the nightly       *)
(* report and the decisions bound to it (nightly.py), and what the         *)
(* research desks rank and credit, for every build, every answer of the    *)
(* providers, every restatement and every alteration of a stored plan.     *)
(***************************************************************************)
EXTENDS MorningReport, NightlyReport, ResearchDesks, WellFoundedInduction, SequenceTheorems,
        FiniteSetTheorems, TLAPS

-----------------------------------------------------------------------------
(* Folds over finite sets.                                                 *)

\* Among the measures of the members of a set one is the least.
LEMMA LeastMeasure ==
    ASSUME NEW S, S # {}, NEW m \in [S -> Nat]
    PROVE  \E x \in S : \A y \in S : m[x] <= m[y]
<1> DEFINE less == {p \in Nat \X Nat : p[1] < p[2]}
           M == {m[x] : x \in S}
<1>1. M \subseteq Nat /\ M # {} /\ IsWellFoundedOn(less, Nat)
  BY NatLessThanWellFounded DEF OpToRel
<1>2. PICK a \in M : \A b \in M : ~(<<b, a>> \in less)
  <2> HIDE DEF less, M
  <2> QED
    BY <1>1, WFMin
<1>3. \A b \in M : a <= b
  <2> SUFFICES ASSUME NEW b \in M, ~(a <= b) PROVE FALSE
    OBVIOUS
  <2>1. a \in Nat /\ b \in Nat /\ b < a
    BY <1>1
  <2>2. <<b, a>> \in less
    BY <2>1
  <2> QED
    BY <1>2, <2>2
<1>4. PICK x \in S : m[x] = a
  BY <1>2
<1>5. \A y \in S : m[y] \in M
  OBVIOUS
<1> QED
  BY <1>3, <1>4, <1>5

\* A set of naturals that is not empty has a least member.
LEMMA LeastCounterexample ==
    ASSUME NEW B \in SUBSET Nat, B # {}
    PROVE  \E n \in B : \A m \in B : n <= m
<1> DEFINE m == [x \in B |-> x]
<1>1. m \in [B -> Nat]
  OBVIOUS
<1>2. PICK n \in B : \A x \in B : m[n] <= m[x]
  <2> HIDE DEF m
  <2> QED
    BY <1>1, LeastMeasure
<1> QED
  BY <1>2

\* How a set is folded: an element is picked, and the rest folded before it.
FoldOf(g, S, V, base, op, term, pick) ==
    /\ g \in [SUBSET S -> V]
    /\ \A s \in SUBSET S :
           g[s] = IF s = {} THEN base ELSE op[<<term[pick[s]], g[s \ {pick[s]}]>>]

\* A fold over a finite set is defined, whichever element is taken each time,
\* and its values are of the kind that the operation returns.
LEMMA FoldExists ==
    ASSUME NEW S, IsFiniteSet(S), NEW V, NEW base \in V, NEW op \in [V \X V -> V],
           NEW term \in [S -> V], NEW pick, \A s \in SUBSET S : s # {} => pick[s] \in s
    PROVE  \E g : FoldOf(g, S, V, base, op, term, pick)
<1> DEFINE Value(g, s) == IF s = {} THEN base ELSE op[<<term[pick[s]], g[s \ {pick[s]}]>>]
           UpTo(n) == \E g \in [SUBSET S -> V] :
                          \A s \in SUBSET S : Cardinality(s) <= n => g[s] = Value(g, s)
           B == {n \in Nat : ~UpTo(n)}
<1>1. \A s \in SUBSET S : IsFiniteSet(s) /\ Cardinality(s) \in Nat /\ Cardinality(s) <= Cardinality(S)
  BY FS_Subset, FS_CardinalityType
<1>2. \A g \in [SUBSET S -> V], s \in SUBSET S : Value(g, s) \in V
  <2> SUFFICES ASSUME NEW g \in [SUBSET S -> V], NEW s \in SUBSET S, s # {}
               PROVE  op[<<term[pick[s]], g[s \ {pick[s]}]>>] \in V
    OBVIOUS
  <2>1. pick[s] \in S /\ s \ {pick[s]} \in SUBSET S
    OBVIOUS
  <2>2. <<term[pick[s]], g[s \ {pick[s]}]>> \in V \X V
    BY <2>1
  <2> QED
    BY <2>2
<1>3. UpTo(0)
  <2> DEFINE g == [s \in SUBSET S |-> base]
  <2>1. g \in [SUBSET S -> V]
    OBVIOUS
  <2>2. ASSUME NEW s \in SUBSET S, Cardinality(s) <= 0
        PROVE  g[s] = Value(g, s)
    <3>1. s = {}
      BY <1>1, <2>2, FS_EmptySet
    <3> QED
      BY <3>1
  <2> QED
    BY <2>1, <2>2
<1>4. ASSUME NEW n \in Nat, UpTo(n) PROVE UpTo(n + 1)
  <2>1. PICK g \in [SUBSET S -> V] :
              \A s \in SUBSET S : Cardinality(s) <= n => g[s] = Value(g, s)
    BY <1>4
  <2> DEFINE h == [s \in SUBSET S |-> Value(g, s)]
  <2>2. h \in [SUBSET S -> V]
    BY <1>2
  <2>3. ASSUME NEW s \in SUBSET S, Cardinality(s) <= n + 1
        PROVE  h[s] = Value(h, s)
    <3>1. CASE s = {}
      BY <3>1
    <3>2. CASE s # {}
      <4> DEFINE r == s \ {pick[s]}
      <4>1. pick[s] \in s /\ r \in SUBSET S
        BY <3>2
      <4>2. Cardinality(r) = Cardinality(s) - 1
        BY <1>1, <4>1, FS_RemoveElement
      <4>3. Cardinality(r) <= n
        BY <1>1, <2>3, <4>2
      <4>4. g[r] = h[r]
        BY <2>1, <4>1, <4>3
      <4> QED
        BY <3>2, <4>4
    <3> QED
      BY <3>1, <3>2
  <2> QED
    BY <2>2, <2>3
<1>5. \A n \in Nat : UpTo(n)
  <2> SUFFICES ASSUME B # {} PROVE FALSE
    OBVIOUS
  <2>1. PICK n \in B : \A m \in B : n <= m
    <3> HIDE DEF B
    <3>1. B \in SUBSET Nat
      BY DEF B
    <3> QED
      BY <3>1, LeastCounterexample
  <2>2. n \in Nat /\ ~UpTo(n)
    OBVIOUS
  <2> HIDE DEF UpTo
  <2>3. n # 0
    BY <1>3, <2>2
  <2>4. n - 1 \in Nat /\ ~(n <= n - 1) /\ (n - 1) + 1 = n
    BY <2>2, <2>3
  <2>5. UpTo(n - 1)
    BY <2>1, <2>4
  <2>6. UpTo((n - 1) + 1)
    BY <1>4, <2>4, <2>5
  <2> QED
    BY <2>2, <2>4, <2>6
<1>6. Cardinality(S) \in Nat
  BY FS_CardinalityType
<1>7. PICK g \in [SUBSET S -> V] :
            \A s \in SUBSET S : Cardinality(s) <= Cardinality(S) => g[s] = Value(g, s)
  BY <1>5, <1>6
<1> QED
  BY <1>1, <1>7 DEF FoldOf

\* What holds of the empty set, and of a set whenever it holds of the set
\* without one of its elements, holds of every subset of a finite set.
Inductive(S, P, pick) ==
    /\ {} \in P
    /\ \A s \in SUBSET S :
           s # {} => pick[s] \in s /\ (s \ {pick[s]} \in P => s \in P)
LEMMA SubsetInduction ==
    ASSUME NEW S, IsFiniteSet(S), NEW P, NEW pick, Inductive(S, P, pick)
    PROVE  \A s \in SUBSET S : s \in P
<1> DEFINE B == {n \in Nat : \E s \in SUBSET S : s \notin P /\ Cardinality(s) = n}
<1>1. \A s \in SUBSET S : IsFiniteSet(s) /\ Cardinality(s) \in Nat
  BY FS_Subset, FS_CardinalityType
<1>2. SUFFICES ASSUME NEW t \in SUBSET S, t \notin P PROVE FALSE
  OBVIOUS
<1>3. Cardinality(t) \in B
  BY <1>1, <1>2
<1>4. PICK n \in B : \A m \in B : n <= m
  <2> HIDE DEF B
  <2>1. B \in SUBSET Nat
    BY DEF B
  <2> QED
    BY <1>3, <2>1, LeastCounterexample
<1>5. PICK s \in SUBSET S : s \notin P /\ Cardinality(s) = n
  BY <1>4
<1>6. s # {}
  BY <1>5 DEF Inductive
<1> DEFINE r == s \ {pick[s]}
<1>7. r \in SUBSET S /\ r \notin P /\ pick[s] \in s
  BY <1>5, <1>6 DEF Inductive
<1>8. Cardinality(r) \in Nat /\ Cardinality(r) = n - 1 /\ n \in Nat
  BY <1>1, <1>5, <1>7, FS_RemoveElement
<1>9. Cardinality(r) \in B
  BY <1>7, <1>8
<1> HIDE DEF B, r
<1>10. n <= Cardinality(r)
  BY <1>4, <1>9
<1> QED
  BY <1>8, <1>10

\* A sum of naturals over a finite set is a natural.
LEMMA TotalIsNat ==
    ASSUME NEW S, IsFiniteSet(S), NEW f \in [S -> Nat]
    PROVE  Total(f) \in Nat
<1> DEFINE pick == [s \in SUBSET S |-> CHOOSE x \in s : TRUE]
           plus == [v \in Nat \X Nat |-> v[1] + v[2]]
           IsFold(g) == g = [s \in SUBSET DOMAIN f |->
                                IF s = {} THEN 0
                                ELSE f[CHOOSE x \in s : TRUE] + g[s \ {CHOOSE x \in s : TRUE}]]
<1>1. DOMAIN f = S
  OBVIOUS
<1>2. PICK g \in [SUBSET S -> Nat] : \A s \in SUBSET S :
              g[s] = IF s = {} THEN 0 ELSE plus[<<f[pick[s]], g[s \ {pick[s]}]>>]
  <2>1. \A s \in SUBSET S : s # {} => pick[s] \in s
    OBVIOUS
  <2>2. 0 \in Nat /\ plus \in [Nat \X Nat -> Nat]
    OBVIOUS
  <2> HIDE DEF pick, plus
  <2>3. \E g : FoldOf(g, S, Nat, 0, plus, f, pick)
    BY <2>1, <2>2, FoldExists
  <2> QED
    BY <2>3 DEF FoldOf
<1>3. IsFold(g)
  <2>1. ASSUME NEW s \in SUBSET S
        PROVE  g[s] = IF s = {} THEN 0
                      ELSE f[CHOOSE x \in s : TRUE] + g[s \ {CHOOSE x \in s : TRUE}]
    <3>1. CASE s = {}
      BY <1>2, <3>1
    <3>2. CASE s # {}
      <4>1. pick[s] = (CHOOSE x \in s : TRUE) /\ pick[s] \in s
        BY <3>2
      <4>2. <<f[pick[s]], g[s \ {pick[s]}]>> \in Nat \X Nat
        BY <4>1
      <4> QED
        BY <1>2, <3>2, <4>1, <4>2
    <3> QED
      BY <3>1, <3>2
  <2> QED
    BY <1>1, <2>1
<1>4. Total(f) = (CHOOSE h : IsFold(h))[DOMAIN f]
  BY DEF Total, FoldFunction, FoldFunctionOnSet, MapThenFoldSet
<1>5. PICK h : IsFold(h) /\ Total(f) = h[S]
  <2> HIDE DEF IsFold
  <2>1. IsFold(CHOOSE h : IsFold(h))
    BY <1>3, Zenon
  <2> QED
    BY <1>1, <1>4, <2>1
<1>6. S \in {s \in SUBSET S : h[s] \in Nat}
  <2> DEFINE P == {s \in SUBSET S : h[s] \in Nat}
  <2>1. {} \in P
    BY <1>1, <1>5
  <2>2. ASSUME NEW s \in SUBSET S, s # {}
        PROVE  pick[s] \in s /\ (s \ {pick[s]} \in P => s \in P)
    <3>1. pick[s] = (CHOOSE x \in s : TRUE) /\ pick[s] \in s
      BY <2>2
    <3>2. h[s] = f[pick[s]] + h[s \ {pick[s]}]
      BY <1>1, <1>5, <2>2, <3>1
    <3>3. f[pick[s]] \in Nat
      BY <3>1
    <3> QED
      BY <3>1, <3>2, <3>3
  <2> HIDE DEF P, pick
  <2>3. Inductive(S, P, pick)
    BY <2>1, <2>2 DEF Inductive
  <2>4. \A s \in SUBSET S : s \in P
    BY <2>3, SubsetInduction
  <2> QED
    BY <2>4 DEF P
<1> QED
  BY <1>5, <1>6

\* The war games of a commit end without a trade some number of times.
LEMMA GamesCounted == \A c \in Commits : WarGames(c).noTrade \in Nat
<1> SUFFICES ASSUME NEW c \in Commits PROVE WarGames(c).noTrade \in Nat
  OBVIOUS
<1>1. /\ IsFiniteSet(DOMAIN c.suites)
      /\ \A s \in DOMAIN c.suites : c.suites[s].noTrade \in Nat
  BY CommitsAssumption
<1> DEFINE ended == [s \in DOMAIN c.suites |-> c.suites[s].noTrade]
<1>2. ended \in [DOMAIN c.suites -> Nat]
  BY <1>1
<1>3. Total(ended) \in Nat
  <2> HIDE DEF ended
  <2> QED
    BY <1>1, <1>2, TotalIsNat
<1> QED
  BY <1>3 DEF WarGames

-----------------------------------------------------------------------------
(* The morning report.                                                     *)
Sections ==
    { "claims", "projects", "summary", "reconciliation", "cadence", "allocation", "replay",
      "audit", "batch", "stat", "war", "stress", "release" }

\* What no editor writes: the layers of the premium project, and the audit
\* chain but for what is broken of it, are those of a build.
Layered(p) ==
    /\ p = [disposition |-> p.disposition, layers |-> p.layers]
    /\ \E c \in Commits : p.layers = PremiumLayers(c)
Chained(v) ==
    \E c \in Commits, b \in {{}, {3}} :
        v = [artifacts |-> ReplayArtifact(c), broken |-> b, valid |-> TRUE, complete |-> TRUE]
FromBuilds(r) ==
    /\ r = [s \in Sections |-> r[s]]
    /\ Layered(r.projects) /\ Chained(r.audit)

\* What was shown was publishable, and is until the next step.
ShownSound ==
    /\ shown.kind = "REPORT" =>
           /\ shown.report \in DOMAIN reports /\ shown.by = deployed
           /\ Publishable(reports[shown.report], deployed)
    /\ shown.kind = "DELTA" =>
           /\ {shown.old, shown.new} \subseteq DOMAIN reports
           /\ Publishable(reports[shown.old], deployed)
           /\ Publishable(reports[shown.new], deployed)
           /\ shown.noTradeBy = reports[shown.new].content.war.noTrade
                                - reports[shown.old].content.war.noTrade
           /\ shown.fixtureChanged = (reports[shown.old].content.war.manifest.fixture
                                      # reports[shown.new].content.war.manifest.fixture)

MorningInv ==
    /\ deployed \in Commits
    /\ reports \in Seq(Range(reports))
    /\ \A i \in DOMAIN reports :
           /\ reports[i] = [content |-> reports[i].content, seal |-> reports[i].seal]
           /\ FromBuilds(reports[i].content)
    /\ ShownSound

-----------------------------------------------------------------------------

\* A gate's section is its answer to the inputs that the layer cites.
LEMMA GatesBound ==
    ASSUME NEW r, NEW c \in Commits, r.projects.layers = PremiumLayers(c),
           ReconciliationBound(r), CadenceBound(r), AllocationBound(r)
    PROVE  /\ r.reconciliation = BuildReconciliation(c)
           /\ r.cadence = BuildCadence(c)
           /\ r.allocation = BuildAllocation(c)
<1>1. /\ r.projects.layers.DETERMINISTIC_COMPLIANCE = BuildReconciliation(c).artifact
      /\ r.projects.layers.BIG = BuildCadence(c).artifact
      /\ r.projects.layers.DETERMINISTIC_RISK.allocation = BuildAllocation(c).artifact
  BY DEF PremiumLayers
<1>2. \A in : Reconcile(in).artifact = in
  BY DEF Reconcile
<1>3. \A in : EvaluateCadence(in).artifact = in
  BY DEF EvaluateCadence
<1>4. \A in : EvaluateAllocation(in).artifact = in
  BY DEF EvaluateAllocation
<1>5. r.reconciliation = BuildReconciliation(c)
  <2>1. PICK in : BuildReconciliation(c) = Reconcile(in)
    BY DEF BuildReconciliation
  <2>2. PICK at : /\ r.reconciliation = Reconcile(at)
                  /\ Reconcile(at).artifact = Reconcile(in).artifact
    BY <1>1, <2>1 DEF ReconciliationBound, ValidReconciliation
  <2> QED
    BY <1>2, <2>1, <2>2
<1>6. r.cadence = BuildCadence(c)
  BY <1>1, <1>3 DEF CadenceBound, ValidCadence, BuildCadence
<1>7. r.allocation = BuildAllocation(c)
  BY <1>1, <1>4 DEF AllocationBound, ValidAllocation, BuildAllocation
<1> QED
  BY <1>5, <1>6, <1>7

\* A timeline in the pending order has one event of each kind.
LEMMA PendingKinds ==
    ASSUME NEW events, Kinds(events) = PendingOrder
    PROVE  /\ DOMAIN events = 1..7
           /\ \A i \in 1..7 : events[i].kind = PendingOrder[i]
<1>1. DOMAIN PendingOrder = 1..7
  BY DEF PendingOrder
<1>2. DOMAIN events = 1..7
  BY <1>1 DEF Kinds
<1> QED
  BY <1>2 DEF Kinds

LEMMA PendingOrderIs ==
    /\ PendingOrder[1] = "SOURCE_PUBLISHED" /\ PendingOrder[2] = "SYSTEM_RECEIVED"
    /\ PendingOrder[3] = "VALIDATION_COMPLETE" /\ PendingOrder[4] = "CANDIDATE_CREATED"
    /\ PendingOrder[5] = "RISK_COMPLETE" /\ PendingOrder[6] = "COMPLIANCE_COMPLETE"
    /\ PendingOrder[7] = "HUMAN_PENDING"
BY DEF PendingOrder

\* An executed decision's timeline ends elsewhere.
LEMMA ExecutedIs == DOMAIN ExecutedOrder = 1..9 /\ ExecutedOrder[9] = "EXIT"
<1> DEFINE Names == { "SOURCE_PUBLISHED", "SYSTEM_RECEIVED", "VALIDATION_COMPLETE",
                      "CANDIDATE_CREATED", "RISK_COMPLETE", "COMPLIANCE_COMPLETE",
                      "HUMAN_PENDING", "HUMAN_APPROVED", "PAPER_FILL", "EXIT" }
<1>1. PICK p, m, e : /\ p = PendingOrder /\ m = SubSeq(p, 1, 6)
                     /\ e = <<"HUMAN_APPROVED", "PAPER_FILL", "EXIT">>
  OBVIOUS
<1>2. p \in Seq(Names) /\ Len(p) = 7
  BY <1>1 DEF PendingOrder
<1>3. e \in Seq(Names) /\ Len(e) = 3 /\ e[3] = "EXIT"
  BY <1>1
<1> HIDE DEF Names
<1>4. m \in Seq(Names) /\ Len(m) = 6
  <2>1. \A i \in 1..6 : p[i] \in Names
    <3>1. p \in [1..7 -> Names]
      BY <1>2, LenProperties
    <3> QED
      BY <3>1
  <2>2. PICK one \in Int, six \in Int : one = 1 /\ six = 6
    OBVIOUS
  <2>3. SubSeq(p, one, six) \in Seq(Names)
        /\ Len(SubSeq(p, one, six)) = IF one <= six THEN six - one + 1 ELSE 0
    BY <2>1, <2>2, SubSeqProperties
  <2> QED
    BY <1>1, <2>2, <2>3
<1>5. ExecutedOrder = m \o e
  BY <1>1 DEF ExecutedOrder
<1>6. /\ Len(m \o e) = Len(m) + Len(e) /\ m \o e \in Seq(Names)
      /\ \A i \in 1..(Len(m) + Len(e)) :
             (m \o e)[i] = IF i <= Len(m) THEN m[i] ELSE e[i - Len(m)]
  BY <1>3, <1>4, ConcatProperties
<1>7. Len(m \o e) = 9 /\ (m \o e)[9] = e[3]
  <2>1. 9 \in 1..(Len(m) + Len(e)) /\ ~(9 <= Len(m)) /\ 9 - Len(m) = 3
    BY <1>3, <1>4
  <2> QED
    BY <1>3, <1>4, <1>6, <2>1
<1>8. DOMAIN (m \o e) = 1..9
  BY <1>6, <1>7, LenProperties
<1> QED
  BY <1>3, <1>5, <1>7, <1>8

LEMMA CitedOfPending ==
    ASSUME NEW replay, Kinds(replay.events) = PendingOrder
    PROVE  CitedArtifacts(replay) =
               { <<"VALIDATION_COMPLETE", replay.events[3].artifact>>,
                 <<"RISK_COMPLETE", replay.events[5].artifact>>,
                 <<"HUMAN_PENDING", replay.events[7].artifact>> }
<1> DEFINE ev == replay.events
           cited == {e \in Range(ev) :
                        e.kind \in {"VALIDATION_COMPLETE", "RISK_COMPLETE", "HUMAN_PENDING"}}
<1>1. DOMAIN ev = 1..7 /\ \A i \in 1..7 : ev[i].kind = PendingOrder[i]
  BY PendingKinds
<1>2. /\ ev[1].kind = "SOURCE_PUBLISHED" /\ ev[2].kind = "SYSTEM_RECEIVED"
      /\ ev[3].kind = "VALIDATION_COMPLETE" /\ ev[4].kind = "CANDIDATE_CREATED"
      /\ ev[5].kind = "RISK_COMPLETE" /\ ev[6].kind = "COMPLIANCE_COMPLETE"
      /\ ev[7].kind = "HUMAN_PENDING"
  BY <1>1, PendingOrderIs
<1>3. Range(ev) = {ev[i] : i \in 1..7}
  BY <1>1 DEF Range
<1>4. \A i \in 1..7 : i \in {1, 2, 3, 4, 5, 6, 7}
  OBVIOUS
<1> HIDE DEF ev
<1>5. cited = {ev[3], ev[5], ev[7]}
  <2>1. ASSUME NEW e \in cited PROVE e \in {ev[3], ev[5], ev[7]}
    <3>1. PICK i \in 1..7 : e = ev[i]
      BY <1>3, <2>1
    <3>2. i \in {3, 5, 7}
      BY <1>2, <1>4, <2>1, <3>1
    <3> QED
      BY <3>1, <3>2
  <2>2. {ev[3], ev[5], ev[7]} \subseteq cited
    BY <1>2, <1>3
  <2> QED
    BY <2>1, <2>2
<1>6. CitedArtifacts(replay) = {<<e.kind, e.artifact>> : e \in cited}
  BY DEF CitedArtifacts, ev
<1> HIDE DEF cited
<1> QED
  BY <1>2, <1>5, <1>6 DEF ev

\* The replay's cited events are those of the build whose layers cite them.
LEMMA ReplayOneBuild ==
    ASSUME NEW r, NEW c \in Commits, r.projects.layers = PremiumLayers(c), ReplayBound(r)
    PROVE  CitedArtifacts(r.replay) = CitedArtifacts(BuildReplay(c))
<1> DEFINE ev == r.replay.events
           cited == CitedBy(r.projects.layers)
<1>1. /\ TimelineSound(ev) /\ ev[Len(ev)].kind = "HUMAN_PENDING"
      /\ \A k \in DOMAIN cited : \E i \in DOMAIN ev :
             ev[i].kind = k /\ ev[i].artifact = cited[k]
  BY DEF ReplayBound, ValidReplay
<1>2. Kinds(ev) = PendingOrder
  <2>1. SUFFICES Kinds(ev) # ExecutedOrder
    BY <1>1 DEF TimelineSound
  <2>2. ASSUME Kinds(ev) = ExecutedOrder PROVE FALSE
    <3>3. DOMAIN ev = 1..9
      BY <2>2, ExecutedIs DEF Kinds
    <3>4. Len(ev) = 9
      BY <3>3
    <3>5. Kinds(ev)[9] = ev[9].kind
      BY <3>3 DEF Kinds
    <3> QED
      BY <1>1, <2>2, <3>4, <3>5, ExecutedIs
  <2> QED
    BY <2>1, <2>2
<1>3. DOMAIN ev = 1..7 /\ \A i \in 1..7 : ev[i].kind = PendingOrder[i]
  BY <1>2, PendingKinds
<1>4. \A i \in 1..7 : i \in {1, 2, 3, 4, 5, 6, 7}
  OBVIOUS
<1>5. /\ cited.VALIDATION_COMPLETE = <<"payload", c.payload>>
      /\ cited.RISK_COMPLETE = <<"risk", c.riskInput>>
      /\ cited.HUMAN_PENDING = <<"plan", c.plan>>
      /\ DOMAIN cited = {"VALIDATION_COMPLETE", "RISK_COMPLETE", "HUMAN_PENDING"}
  BY DEF CitedBy, PremiumLayers
<1> HIDE DEF ev, cited
<1>6. /\ ev[3].artifact = <<"payload", c.payload>>
      /\ ev[5].artifact = <<"risk", c.riskInput>>
      /\ ev[7].artifact = <<"plan", c.plan>>
  <2>1. PICK i \in 1..7 : ev[i].kind = "VALIDATION_COMPLETE"
                          /\ ev[i].artifact = cited.VALIDATION_COMPLETE
    BY <1>1, <1>3, <1>5
  <2>2. PICK j \in 1..7 : ev[j].kind = "RISK_COMPLETE" /\ ev[j].artifact = cited.RISK_COMPLETE
    BY <1>1, <1>3, <1>5
  <2>3. PICK k \in 1..7 : ev[k].kind = "HUMAN_PENDING" /\ ev[k].artifact = cited.HUMAN_PENDING
    BY <1>1, <1>3, <1>5
  <2>4. i = 3 /\ j = 5 /\ k = 7
    BY <1>3, <1>4, <2>1, <2>2, <2>3, PendingOrderIs
  <2> QED
    BY <1>5, <2>1, <2>2, <2>3, <2>4
<1> DEFINE built == BuildReplay(c).events
<1>7. Kinds(built) = PendingOrder
  <2>1. built = [i \in 1..7 |-> At(PendingOrder[i], i - 1, ReplayArtifact(c)[i])]
    BY DEF BuildReplay
  <2>2. \A i \in 1..7 : built[i].kind = PendingOrder[i]
    BY <2>1 DEF At
  <2>3. Kinds(built) = [i \in 1..7 |-> PendingOrder[i]]
    BY <2>1, <2>2 DEF Kinds
  <2>4. PendingOrder = [i \in 1..7 |-> PendingOrder[i]]
    BY DEF PendingOrder
  <2> QED
    BY <2>3, <2>4
<1>8. /\ built[3].artifact = <<"payload", c.payload>>
      /\ built[5].artifact = <<"risk", c.riskInput>>
      /\ built[7].artifact = <<"plan", c.plan>>
  BY DEF BuildReplay, At, ReplayArtifact
<1> HIDE DEF built
<1> QED
  BY <1>2, <1>6, <1>7, <1>8, CitedOfPending DEF ev, built

LEMMA PublishedIsOneBuild ==
    ASSUME NEW report, NEW c, FromBuilds(report.content), Publishable(report, c)
    PROVE  OneBuild(report.content)
<1>1. PICK r : r = report.content
  OBVIOUS
<1>2. PICK b \in Commits : r.projects.layers = PremiumLayers(b)
  BY <1>1 DEF FromBuilds, Layered
<1>3. ReconciliationBound(r) /\ CadenceBound(r) /\ AllocationBound(r) /\ ReplayBound(r)
  BY <1>1 DEF Publishable
<1>4. /\ r.reconciliation = BuildReconciliation(b)
      /\ r.cadence = BuildCadence(b)
      /\ r.allocation = BuildAllocation(b)
  BY <1>2, <1>3, GatesBound
<1>5. CitedArtifacts(r.replay) = CitedArtifacts(BuildReplay(b))
  BY <1>2, <1>3, ReplayOneBuild
<1> QED
  BY <1>1, <1>2, <1>4, <1>5 DEF OneBuild

\* Of a chain, only what is broken can have been edited.
LEMMA PublishedAudit ==
    ASSUME NEW report, NEW c, FromBuilds(report.content), Publishable(report, c)
    PROVE  \E b \in Commits : report.content.audit = BuildAudit(b)
<1>1. PICK b \in Commits, x \in {{}, {3}} :
          report.content.audit = [artifacts |-> ReplayArtifact(b), broken |-> x,
                                  valid |-> TRUE, complete |-> TRUE]
  BY DEF FromBuilds, Chained
<1>2. /\ report.content.audit.valid
      /\ report.content.audit.valid = (report.content.audit.broken = {})
  BY DEF Publishable, AuditSound, ValidAudit
<1>5. report.content.audit.broken = {}
  BY <1>2, Zenon
<1>3. x = {}
  BY <1>1, <1>5
<1> QED
  BY <1>1, <1>3 DEF BuildAudit

\* The summary counts the dispositions that the report carries.
LEMMA PublishedCount ==
    ASSUME NEW report, NEW c, Publishable(report, c)
    PROVE  report.content.summary.review
               = Cardinality({p \in ResearchOnly \union {Premium} :
                     report.content.projects.disposition[p] = "HUMAN_REVIEW"})
<1>1. PICK projects, summary : /\ projects = report.content.projects
                               /\ summary = report.content.summary
  OBVIOUS
<1>2. /\ DOMAIN projects.disposition = ResearchOnly \union {Premium}
      /\ summary = Summary(projects)
  BY <1>1 DEF Publishable, SummaryValid
<1>3. summary.review = CountOf(projects, "HUMAN_REVIEW")
  BY <1>2 DEF Summary
<1> QED
  BY <1>1, <1>2, <1>3 DEF CountOf, Quantify

-----------------------------------------------------------------------------

LEMMA BuiltFromBuilds ==
    ASSUME NEW c \in Commits
    PROVE  FromBuilds(BuildMorning(c))
<1>1. BuildMorning(c) = [s \in Sections |-> BuildMorning(c)[s]]
  BY DEF BuildMorning, Sections
<1>2. BuildMorning(c).projects = EvaluateProjects(c) /\ BuildMorning(c).audit = BuildAudit(c)
  BY DEF BuildMorning
<1>3. Layered(EvaluateProjects(c))
  <2>1. EvaluateProjects(c).layers = PremiumLayers(c)
    BY DEF EvaluateProjects
  <2>2. EvaluateProjects(c) = [disposition |-> EvaluateProjects(c).disposition,
                               layers |-> EvaluateProjects(c).layers]
    BY DEF EvaluateProjects
  <2> QED
    BY <2>1, <2>2 DEF Layered
<1>4. Chained(BuildAudit(c))
  BY DEF Chained, BuildAudit
<1> QED
  BY <1>1, <1>2, <1>3, <1>4 DEF FromBuilds

\* An editor rewrites a disposition or breaks the chain, and goes no further.
LEMMA AlteredKept ==
    ASSUME NEW r, FromBuilds(r), NEW s \in Sections, NEW v \in Altered(r, s)
    PROVE  /\ s = "projects" => Layered(v)
           /\ s = "audit" => Chained(v)
<1>1. ASSUME s = "projects" PROVE Layered(v)
  <2>1. PICK d, l : r.projects = [disposition |-> d, layers |-> l]
                    /\ \E c \in Commits : l = PremiumLayers(c)
    BY DEF FromBuilds, Layered
  <2>2. v \in {[r.projects EXCEPT !.disposition["arbitrage-observer"] = "HUMAN_REVIEW"],
               [r.projects EXCEPT !.disposition = Restrict(@, ResearchOnly)]}
    BY <1>1 DEF Altered
  <2>3. \E e : v = [disposition |-> e, layers |-> l]
    BY <2>1, <2>2
  <2> QED
    BY <2>1, <2>3 DEF Layered
<1>2. ASSUME s = "audit" PROVE Chained(v)
  <2>1. v = [r.audit EXCEPT !.broken = {3}]
    BY <1>2 DEF Altered
  <2>2. PICK c \in Commits, b \in {{}, {3}} :
            r.audit = [artifacts |-> ReplayArtifact(c), broken |-> b,
                       valid |-> TRUE, complete |-> TRUE]
    BY DEF FromBuilds, Chained
  <2>3. v = [artifacts |-> ReplayArtifact(c), broken |-> {3}, valid |-> TRUE, complete |-> TRUE]
    <3>1. PICK a, three : a = ReplayArtifact(c) /\ three = {3}
      OBVIOUS
    <3>2. v = [[artifacts |-> a, broken |-> b, valid |-> TRUE, complete |-> TRUE]
                   EXCEPT !.broken = three]
      BY <2>1, <2>2, <3>1
    <3>3. v = [artifacts |-> a, broken |-> three, valid |-> TRUE, complete |-> TRUE]
      BY <3>2
    <3> QED
      BY <3>1, <3>3
  <2> QED
    BY <2>3 DEF Chained
<1> QED
  BY <1>1, <1>2

LEMMA EditedKept ==
    ASSUME NEW r, FromBuilds(r), NEW s \in Sections, NEW v,
           s = "projects" => Layered(v), s = "audit" => Chained(v)
    PROVE  FromBuilds([r EXCEPT ![s] = v])
<1>1. PICK q : q = [r EXCEPT ![s] = v]
  OBVIOUS
<1>2. q = [x \in Sections |-> IF x = s THEN v ELSE r[x]]
  BY <1>1 DEF FromBuilds
<1>3. "projects" \in Sections /\ "audit" \in Sections
  BY DEF Sections
<1>4. q.projects = (IF s = "projects" THEN v ELSE r.projects)
      /\ q.audit = (IF s = "audit" THEN v ELSE r.audit)
  BY <1>2, <1>3
<1>5. q = [x \in Sections |-> q[x]]
  BY <1>2
<1> QED
  BY <1>1, <1>4, <1>5 DEF FromBuilds
-----------------------------------------------------------------------------

\* Two reports that are valid at one commit hold its war games both.
LEMMA ShownIsWhole ==
    ASSUME MorningInv
    PROVE  PublishableIsWhole
<1>1. ASSUME shown.kind = "REPORT"
      PROVE  LET r == reports[shown.report].content IN
             /\ OneBuild(r)
             /\ r.summary.review = Cardinality({p \in ResearchOnly \union {Premium} :
                                       r.projects.disposition[p] = "HUMAN_REVIEW"})
             /\ r.war = WarGames(shown.by) /\ r.stress = StressOf(shown.by)
             /\ \E c \in Commits : r.audit = BuildAudit(c)
             /\ ~(r.release.authorized \/ r.cadence.authorized \/ r.allocation.authorized)
  <2>1. PICK report : report = reports[shown.report]
    OBVIOUS
  <2>2. /\ FromBuilds(report.content) /\ Publishable(report, deployed)
        /\ shown.by = deployed
    BY <1>1, <2>1 DEF MorningInv, ShownSound
  <2>3. OneBuild(report.content) /\ \E c \in Commits : report.content.audit = BuildAudit(c)
    BY <2>2, PublishedIsOneBuild, PublishedAudit
  <2>4. report.content.summary.review
            = Cardinality({p \in ResearchOnly \union {Premium} :
                  report.content.projects.disposition[p] = "HUMAN_REVIEW"})
    BY <2>2, PublishedCount
  <2>5. /\ report.content.war = WarGames(deployed)
        /\ report.content.stress = StressOf(deployed)
    BY <2>2 DEF Publishable, WarGamesDisclosed, StressDisclosed
  <2>6. /\ ~report.content.release.authorized
        /\ ~report.content.cadence.authorized
        /\ ~report.content.allocation.authorized
    BY <2>2 DEF Publishable, ReleaseDisclosed, CadenceBound, AllocationBound
  <2> QED
    BY <2>1, <2>2, <2>3, <2>4, <2>5, <2>6, Zenon
<1>2. ASSUME shown.kind = "DELTA"
      PROVE  /\ OneBuild(reports[shown.old].content) /\ OneBuild(reports[shown.new].content)
             /\ ~shown.fixtureChanged /\ shown.noTradeBy = 0
  <2>1. PICK old, new : old = reports[shown.old] /\ new = reports[shown.new]
    OBVIOUS
  <2>2. /\ FromBuilds(old.content) /\ Publishable(old, deployed)
        /\ FromBuilds(new.content) /\ Publishable(new, deployed)
    BY <1>2, <2>1 DEF MorningInv, ShownSound
  <2>3. OneBuild(old.content) /\ OneBuild(new.content)
    BY <2>2, PublishedIsOneBuild
  <2>4. old.content.war = WarGames(deployed) /\ new.content.war = WarGames(deployed)
    BY <2>2 DEF Publishable, WarGamesDisclosed
  <2>5. PICK n \in Nat : n = WarGames(deployed).noTrade
    BY GamesCounted DEF MorningInv
  <2>6. shown.noTradeBy = 0
    <3>1. shown.noTradeBy = new.content.war.noTrade - old.content.war.noTrade
      BY <1>2, <2>1 DEF MorningInv, ShownSound
    <3>2. shown.noTradeBy = n - n
      BY <2>4, <2>5, <3>1
    <3> QED
      BY <3>2
  <2>7. ~shown.fixtureChanged
    <3>1. shown.fixtureChanged
              = (old.content.war.manifest.fixture # new.content.war.manifest.fixture)
      BY <1>2, <2>1 DEF MorningInv, ShownSound
    <3>2. old.content.war.manifest.fixture = new.content.war.manifest.fixture
      BY <2>4
    <3> QED
      BY <3>1, <3>2, Zenon
  <2> QED
    BY <2>1, <2>3, <2>6, <2>7
<1> QED
  BY <1>1, <1>2 DEF PublishableIsWhole

LEMMA IndexedIsSeq ==
    ASSUME NEW f, NEW n \in Nat, f = [i \in 1..n |-> f[i]]
    PROVE  f \in Seq(Range(f))
<1>1. f \in [1..n -> Range(f)]
  BY DEF Range
<1> QED
  BY <1>1, SeqDef

\* A step that shows nothing, and leaves every report one of builds.
LEMMA UnpublishedStep ==
    ASSUME NEW n \in Nat, reports' = [i \in 1..n |-> reports'[i]], deployed' \in Commits,
           shown' = Unpublished,
           \A i \in 1..n :
               /\ reports'[i] = [content |-> reports'[i].content, seal |-> reports'[i].seal]
               /\ FromBuilds(reports'[i].content)
    PROVE  MorningInv'
<1>1. PICK f, d, u : f = reports' /\ d = deployed' /\ u = shown'
  OBVIOUS
<1>2. f \in Seq(Range(f)) /\ DOMAIN f = 1..n
  BY <1>1, IndexedIsSeq
<1>3. u.kind = "NONE"
  BY <1>1 DEF Unpublished
<1>4. ShownSound'
  BY <1>1, <1>3 DEF ShownSound
<1>5. \A i \in DOMAIN f : /\ f[i] = [content |-> f[i].content, seal |-> f[i].seal]
                          /\ FromBuilds(f[i].content)
  BY <1>1, <1>2
<1>6. reports' \in Seq(Range(reports'))
  BY <1>1, <1>2
<1>7. \A i \in DOMAIN reports' :
          /\ reports'[i] = [content |-> reports'[i].content, seal |-> reports'[i].seal]
          /\ FromBuilds(reports'[i].content)
  BY <1>1, <1>5
<1> QED
  BY <1>4, <1>6, <1>7 DEF MorningInv, FromBuilds, Layered, Chained, Range

\* The reports are an indexed list of contents and seals.
LEMMA Listed ==
    ASSUME MorningInv
    PROVE  \E n \in Nat : /\ n = Len(reports) /\ DOMAIN reports = 1..n
                          /\ reports = [i \in 1..n |-> reports[i]]
<1>1. Len(reports) \in Nat /\ reports \in [1..Len(reports) -> Range(reports)]
  BY LenProperties DEF MorningInv
<1> QED
  BY <1>1

LEMMA DeployStep ==
    ASSUME MorningInv, NEW c \in Commits, Deploy(c)
    PROVE  MorningInv'
<1>1. PICK n \in Nat : DOMAIN reports = 1..n /\ reports = [i \in 1..n |-> reports[i]]
  BY Listed
<1>2. reports' = reports /\ deployed' \in Commits /\ shown' = Unpublished
  BY DEF Deploy
<1>3. \A i \in 1..n : /\ reports[i] = [content |-> reports[i].content, seal |-> reports[i].seal]
                      /\ FromBuilds(reports[i].content)
  BY <1>1 DEF MorningInv
<1> QED
  BY <1>1, <1>2, <1>3, UnpublishedStep

LEMMA StoreStep ==
    ASSUME MorningInv, StoreReport
    PROVE  MorningInv'
<1>1. PICK n \in Nat : /\ n = Len(reports) /\ DOMAIN reports = 1..n
                       /\ reports = [i \in 1..n |-> reports[i]]
  BY Listed
<1>2. PICK built : built = BuildMorning(deployed)
  OBVIOUS
<1>3. PICK entry : entry = [content |-> built, seal |-> built]
  OBVIOUS
<1>4. /\ reports' = Append(reports, entry)
      /\ deployed' \in Commits /\ shown' = Unpublished
  BY <1>2, <1>3 DEF StoreReport, MorningInv
<1>5. PICK S : reports \in Seq(S) /\ entry \in S
  <2>1. reports \in Seq(Range(reports)) /\ Range(reports) \subseteq Range(reports) \union {entry}
    BY DEF MorningInv
  <2>2. reports \in Seq(Range(reports) \union {entry})
    BY <2>1, SeqMonotonic
  <2> QED
    BY <2>2
<1>6. /\ reports' \in Seq(S) /\ Len(reports') = n + 1
      /\ \A i \in 1..n : reports'[i] = reports[i]
      /\ reports'[n + 1] = entry
  BY <1>1, <1>4, <1>5, AppendProperties
<1>7. reports' = [i \in 1..(n + 1) |-> reports'[i]]
  <2>1. reports' \in [1..(n + 1) -> S]
    BY <1>6, LenProperties
  <2> QED
    BY <2>1
<1>8. \A i \in 1..(n + 1) :
          /\ reports'[i] = [content |-> reports'[i].content, seal |-> reports'[i].seal]
          /\ FromBuilds(reports'[i].content)
  <2>1. ASSUME NEW i \in 1..n
        PROVE  /\ reports'[i] = [content |-> reports'[i].content, seal |-> reports'[i].seal]
               /\ FromBuilds(reports'[i].content)
    BY <1>1, <1>6 DEF MorningInv
  <2>2. FromBuilds(built)
    BY <1>2, BuiltFromBuilds DEF MorningInv
  <2>3. /\ reports'[n + 1] = [content |-> reports'[n + 1].content, seal |-> reports'[n + 1].seal]
        /\ FromBuilds(reports'[n + 1].content)
    BY <1>3, <1>6, <2>2
  <2>4. \A i \in 1..(n + 1) : i \in 1..n \/ i = n + 1
    OBVIOUS
  <2> QED
    BY <2>1, <2>3, <2>4
<1> QED
  BY <1>4, <1>7, <1>8, UnpublishedStep

\* An edit and a new seal rewrite one entry of the list.
LEMMA RewrittenStep ==
    ASSUME MorningInv, NEW i \in DOMAIN reports, NEW entry,
           reports' = [reports EXCEPT ![i] = entry], deployed' = deployed, shown' = Unpublished,
           entry = [content |-> entry.content, seal |-> entry.seal], FromBuilds(entry.content)
    PROVE  MorningInv'
<1>1. PICK n \in Nat : DOMAIN reports = 1..n /\ reports = [k \in 1..n |-> reports[k]]
  BY Listed
<1>2. reports' = [k \in 1..n |-> IF k = i THEN entry ELSE reports[k]]
  BY <1>1
<1>3. reports' = [k \in 1..n |-> reports'[k]]
  BY <1>2
<1>4. ASSUME NEW k \in 1..n
      PROVE  /\ reports'[k] = [content |-> reports'[k].content, seal |-> reports'[k].seal]
             /\ FromBuilds(reports'[k].content)
  <2>1. CASE k = i
    BY <1>2, <2>1
  <2>2. CASE k # i
    BY <1>1, <1>2, <2>2 DEF MorningInv
  <2> QED
    BY <2>1, <2>2
<1>5. deployed' \in Commits
  BY DEF MorningInv
<1> QED
  BY <1>3, <1>4, <1>5, UnpublishedStep

LEMMA EditStep ==
    ASSUME MorningInv, NEW i \in DOMAIN reports, EditReport(i)
    PROVE  MorningInv'
<1>1. PICK r, seal : /\ reports[i] = [content |-> r, seal |-> seal]
                     /\ FromBuilds(r)
  BY DEF MorningInv
<1>2. DOMAIN reports[i].content = Sections /\ reports[i].content = r
  BY <1>1 DEF FromBuilds
<1>3. PICK s \in Sections :
          \E v \in Altered(r, s) \union {reports[j].content[s] : j \in DOMAIN reports \ {i}} :
              reports' = [reports EXCEPT ![i].content[s] = v]
  BY <1>2 DEF EditReport
<1>4. PICK v \in Altered(r, s) \union {reports[j].content[s] : j \in DOMAIN reports \ {i}} :
          reports' = [reports EXCEPT ![i].content[s] = v]
  BY <1>3
<1>5. (s = "projects" => Layered(v)) /\ (s = "audit" => Chained(v))
  <2>1. CASE v \in Altered(r, s)
    BY <1>1, <2>1, AlteredKept
  <2>2. CASE v \in {reports[j].content[s] : j \in DOMAIN reports \ {i}}
    <3>1. PICK j \in DOMAIN reports : v = reports[j].content[s]
      BY <2>2
    <3>2. Layered(reports[j].content.projects) /\ Chained(reports[j].content.audit)
      BY DEF MorningInv, FromBuilds
    <3> QED
      BY <3>1, <3>2
  <2> QED
    BY <1>4, <2>1, <2>2
<1>6. PICK q : q = [r EXCEPT ![s] = v] /\ FromBuilds(q)
  BY <1>1, <1>5, EditedKept
<1>7. PICK entry : entry = [content |-> q, seal |-> seal]
  OBVIOUS
<1>8. reports' = [reports EXCEPT ![i] = entry]
  <2>1. [reports[i] EXCEPT !.content = q] = entry
    BY <1>1, <1>7
  <2> QED
    BY <1>2, <1>4, <1>6, <2>1
<1>9. deployed' = deployed /\ shown' = Unpublished
  BY DEF EditReport
<1>10. entry = [content |-> entry.content, seal |-> entry.seal] /\ FromBuilds(entry.content)
  BY <1>6, <1>7
<1> QED
  BY <1>8, <1>9, <1>10, RewrittenStep

LEMMA FinalizeStep ==
    ASSUME MorningInv, NEW i \in DOMAIN reports, FinalizeReport(i)
    PROVE  MorningInv'
<1>1. PICK r, seal : reports[i] = [content |-> r, seal |-> seal] /\ FromBuilds(r)
  BY DEF MorningInv
<1>2. PICK entry : entry = [content |-> r, seal |-> r]
  OBVIOUS
<1>3. reports' = [reports EXCEPT ![i] = entry]
  <2>1. [reports[i] EXCEPT !.seal = r] = entry /\ reports[i].content = r
    BY <1>1, <1>2
  <2> QED
    BY <2>1 DEF FinalizeReport
<1>4. deployed' = deployed /\ shown' = Unpublished
  BY DEF FinalizeReport
<1>5. entry = [content |-> entry.content, seal |-> entry.seal] /\ FromBuilds(entry.content)
  BY <1>1, <1>2
<1> QED
  BY <1>3, <1>4, <1>5, RewrittenStep

LEMMA PublishStep ==
    ASSUME MorningInv, NEW i \in DOMAIN reports, PublishReport(i)
    PROVE  MorningInv'
<1>1. /\ Publishable(reports[i], deployed)
      /\ shown' = [kind |-> "REPORT", report |-> i, by |-> deployed]
      /\ deployed' = deployed /\ reports' = reports
  BY DEF PublishReport
<1>2. PICK u : u = shown'
  OBVIOUS
<1>3. u.kind = "REPORT" /\ u.report = i /\ u.by = deployed
  BY <1>1, <1>2
<1>4. ShownSound'
  BY <1>1, <1>2, <1>3 DEF ShownSound
<1> QED
  BY <1>1, <1>4 DEF MorningInv

LEMMA CompareStep ==
    ASSUME MorningInv, NEW i \in DOMAIN reports, NEW j \in DOMAIN reports, CompareReports(i, j)
    PROVE  MorningInv'
<1>1. PICK old, new : old = reports[i].content /\ new = reports[j].content
  OBVIOUS
<1>2. PICK changed, difference, moved :
          /\ difference = new.war.noTrade - old.war.noTrade
          /\ moved = (old.war.manifest.fixture # new.war.manifest.fixture)
          /\ shown' = [kind |-> "DELTA", old |-> i, new |-> j, changed |-> changed,
                       noTradeBy |-> difference, fixtureChanged |-> moved]
  BY <1>1 DEF CompareReports
<1>3. /\ Publishable(reports[i], deployed) /\ Publishable(reports[j], deployed)
      /\ deployed' = deployed /\ reports' = reports
  BY DEF CompareReports
<1>4. PICK u : u = shown'
  OBVIOUS
<1>5. /\ u.kind = "DELTA" /\ u.old = i /\ u.new = j
      /\ u.noTradeBy = difference /\ u.fixtureChanged = moved
  BY <1>2, <1>4
<1>6. u.fixtureChanged = (reports[u.old].content.war.manifest.fixture
                          # reports[u.new].content.war.manifest.fixture)
  BY <1>1, <1>2, <1>5
<1>7. u.noTradeBy = reports[u.new].content.war.noTrade - reports[u.old].content.war.noTrade
  BY <1>1, <1>2, <1>5
<1>8. ShownSound'
  BY <1>3, <1>4, <1>5, <1>6, <1>7 DEF ShownSound
<1> QED
  BY <1>3, <1>8 DEF MorningInv

LEMMA MorningStep ==
    ASSUME MorningInv, [MorningNext]_morningVars
    PROVE  MorningInv'
<1>1. CASE UNCHANGED morningVars
  BY <1>1 DEF morningVars, MorningInv, ShownSound
<1>2. CASE MorningNext
  BY <1>2, DeployStep, StoreStep, EditStep, FinalizeStep, PublishStep, CompareStep
     DEF MorningNext
<1> QED
  BY <1>1, <1>2

(* A report that is shown or compared is whole, for whatever fixtures the  *)
(* commits carry, and however many reports were built, edited, sealed      *)
(* again and read at another commit (reporting.py, validate_report).       *)

THEOREM MorningTheorem == MorningSpec => []PublishableIsWhole
<1>1. MorningInit => MorningInv
  <2> SUFFICES ASSUME MorningInit PROVE MorningInv
    OBVIOUS
  <2>1. reports = <<>> /\ deployed \in Commits /\ shown.kind = "NONE"
    BY DEF MorningInit, Unpublished
  <2>2. <<>> \in Seq(Range(<<>>))
    BY EmptySeq
  <2>3. DOMAIN reports = {}
    BY <2>1
  <2>4. ShownSound
    BY <2>1 DEF ShownSound
  <2> QED
    BY <2>1, <2>2, <2>3, <2>4 DEF MorningInv
<1>2. MorningInv /\ [MorningNext]_morningVars => MorningInv'
  BY MorningStep
<1>3. MorningInv => PublishableIsWhole
  BY ShownIsWhole
<1> QED
  BY <1>1, <1>2, <1>3, PTL DEF MorningSpec

-----------------------------------------------------------------------------
(* The nightly report.  Numbers.                                           *)

LEMMA Quotients ==
    ASSUME NEW n \in Nat, NEW d \in Nat \ {0}
    PROVE  /\ n \div d \in Nat /\ n % d \in Nat
           /\ n = d * (n \div d) + (n % d) /\ n % d < d
OBVIOUS

\* A product grows with one of its factors.
LEMMA Growing ==
    ASSUME NEW d \in Nat, NEW x \in Int, NEW y \in Int, x <= y
    PROVE  d * x \in Int /\ d * y \in Int /\ d * x <= d * y
OBVIOUS

\* A rate that was rounded to n is within half a unit of it.
LEMMA Rounded ==
    ASSUME NEW n \in Nat, NEW d \in Nat \ {0}
    PROVE  /\ NearestEven(n, d) \in Nat
           /\ 50 <= NearestEven(n, d) => 99 * d <= 2 * n
           /\ NearestEven(n, d) <= 200 => 2 * n <= 401 * d
<1>1. PICK q \in Nat, r \in Nat : q = n \div d /\ r = n % d /\ n = d * q + r /\ r < d
  BY Quotients
<1>2. PICK w \in {0, 1} : /\ NearestEven(n, d) = q + w
                          /\ w = 1 => 2 * r >= d
                          /\ w = 0 => 2 * r <= d
  <2>1. NearestEven(n, d)
            = q + (IF 2 * r > d \/ (2 * r = d /\ q % 2 = 1) THEN 1 ELSE 0)
    BY <1>1 DEF NearestEven
  <2>2. CASE 2 * r > d \/ (2 * r = d /\ q % 2 = 1)
    <3>1. NearestEven(n, d) = q + 1 /\ 2 * r >= d
      BY <2>1, <2>2
    <3> QED
      BY <3>1
  <2>3. CASE ~(2 * r > d \/ (2 * r = d /\ q % 2 = 1))
    <3>1. NearestEven(n, d) = q + 0 /\ 2 * r <= d
      BY <2>1, <2>3
    <3> QED
      BY <3>1
  <2> QED
    BY <2>2, <2>3
<1>3. PICK p \in Int : p = d * q
  OBVIOUS
<1>4. ASSUME 50 <= q + w PROVE 99 * d <= 2 * n
  <2>1. CASE w = 0
    <3>1. d * 50 <= p
      BY <1>3, <1>4, <2>1, Growing
    <3> QED
      BY <1>1, <1>3, <3>1
  <2>2. CASE w = 1
    <3>1. d * 49 <= p
      BY <1>3, <1>4, <2>2, Growing
    <3> QED
      BY <1>1, <1>2, <1>3, <2>2, <3>1
  <2> QED
    BY <2>1, <2>2
<1>5. ASSUME q + w <= 200 PROVE 2 * n <= 401 * d
  <2>1. CASE w = 0
    <3>1. p <= d * 200
      BY <1>3, <1>5, <2>1, Growing
    <3> QED
      BY <1>1, <1>2, <1>3, <2>1, <3>1
  <2>2. CASE w = 1
    <3>1. p <= d * 199
      BY <1>3, <1>5, <2>2, Growing
    <3> QED
      BY <1>1, <1>3, <3>1
  <2> QED
    BY <2>1, <2>2
<1> QED
  BY <1>2, <1>4, <1>5

\* The contracts that two percent of an account secure, and not one more.
LEMMA Contracts ==
    ASSUME NEW capital \in Nat \ {0}, NEW q \in ScaleSteps
    PROVE  LET n == ContractsWithin(capital, q) IN
           /\ 50 * n * capital <= q
           /\ q < 50 * (n + 1) * capital
<1>1. PICK a \in Nat : a = q \div 50 /\ q = 50 * a
  BY DEF ScaleSteps
<1>2. PICK n \in Nat, r \in Nat : /\ n = a \div capital /\ r = a % capital
                                  /\ a = capital * n + r /\ r < capital
  BY Quotients
<1>3. ContractsWithin(capital, q) = n
  BY <1>1, <1>2 DEF ContractsWithin
<1>4. PICK p \in Int : p = capital * n
  OBVIOUS
<1>5. 50 * n * capital = 50 * p /\ 50 * (n + 1) * capital = 50 * p + 50 * capital
  BY <1>4
<1> QED
  BY <1>1, <1>2, <1>3, <1>4, <1>5

LEMMA Bounded ==
    ASSUME NEW len \in Nat, NEW at \in [1..len -> Nat]
    PROVE  \E b \in Nat : \A i \in 1..len : at[i] <= b
<1> DEFINE bounded(n) == \E b \in Nat : \A i \in 1..n : at[i] <= b
           U == {n \in 0..len : ~bounded(n)}
<1>1. SUFFICES ASSUME ~bounded(len) PROVE FALSE
  OBVIOUS
<1>2. U \subseteq Nat /\ U # {}
  <2> HIDE DEF bounded
  <2>1. len \in U
    BY <1>1
  <2> QED
    BY <2>1
<1>3. PICK n \in U : \A k \in U : n <= k
  <2>1. PICK m \in [U -> Nat] : \A k \in U : m[k] = k
    <3>1. [k \in U |-> k] \in [U -> Nat]
      BY <1>2
    <3> QED
      BY <3>1
  <2>2. PICK n \in U : \A k \in U : m[n] <= m[k]
    <3> HIDE DEF U
    <3> QED
      BY <1>2, <2>1, LeastMeasure
  <2> HIDE DEF U
  <2> QED
    BY <2>1, <2>2
<1>4. n \in 0..len /\ ~bounded(n)
  OBVIOUS
<1>5. n # 0
  <2>1. bounded(0)
    <3>1. \A i \in 1..0 : at[i] <= 0
      OBVIOUS
    <3> QED
      BY <3>1
  <2> HIDE DEF bounded
  <2> QED
    BY <1>4, <2>1
<1>6. PICK last \in Nat : /\ n = last + 1 /\ last \in 0..len /\ ~(n <= last)
                         /\ \A i \in 1..n : i \in 1..last \/ i = n
  <2>1. n - 1 \in Nat /\ n = (n - 1) + 1 /\ n - 1 \in 0..len /\ ~(n <= n - 1)
        /\ \A i \in 1..n : i \in 1..(n - 1) \/ i = n
    <3> HIDE DEF U, bounded
    <3> QED
      BY <1>4, <1>5
  <2> QED
    BY <2>1
<1>7. ~(last \in U)
  <2> HIDE DEF U
  <2> QED
    BY <1>3, <1>6
<1>8. bounded(last)
  BY <1>6, <1>7
<1>9. PICK b \in Nat : \A i \in 1..last : at[i] <= b
  BY <1>8
<1>10. n \in 1..len /\ at[n] \in Nat /\ 1..last \subseteq 1..len
  <2> HIDE DEF U, bounded
  <2> QED
    BY <1>4, <1>5, <1>6
<1>11. PICK x \in Nat : x = at[n]
  BY <1>10
<1>12. PICK top \in Nat : b <= top /\ x <= top
  <2>1. b \in Nat /\ x \in Nat /\ b <= b /\ x <= x
    BY <1>9, <1>11
  <2>2. b <= x \/ x <= b
    BY <2>1
  <2> QED
    BY <2>1, <2>2
<1>13. \A i \in 1..n : at[i] <= top
  <2>1. ASSUME NEW i \in 1..last PROVE at[i] <= top
    <3>1. PICK y \in Nat : y = at[i]
      BY <1>10
    <3>2. y <= b
      BY <1>9, <3>1
    <3> QED
      BY <1>12, <3>1, <3>2
  <2>2. at[n] <= top
    BY <1>11, <1>12
  <2> HIDE DEF U, bounded
  <2> QED
    BY <1>6, <2>1, <2>2
<1>14. bounded(n)
  BY <1>13
<1> HIDE DEF bounded
<1> QED
  BY <1>4, <1>14

\* The last of the periods of a company's filings.
LEMMA Latest ==
    ASSUME NEW filings, filings \in Seq(Range(filings)),
           \A f \in Range(filings) : f.end \in Nat,
           NEW ends \in SUBSET Quarters(filings), ends # {}
    PROVE  Max(ends) \in ends /\ \A x \in ends : x \in Nat /\ x <= Max(ends)
<1>1. PICK len \in Nat : len = Len(filings) /\ DOMAIN filings = 1..len
  BY LenProperties
<1>2. PICK at \in [1..len -> Nat] : \A i \in 1..len : at[i] = filings[i].end
  <2>1. \A i \in 1..len : filings[i].end \in Nat
    BY <1>1 DEF Range
  <2>2. [i \in 1..len |-> filings[i].end] \in [1..len -> Nat]
    BY <2>1
  <2> QED
    BY <2>2
<1>3. PICK b \in Nat : \A i \in 1..len : at[i] <= b
  BY Bounded
<1>4. \A x \in ends : x \in Nat /\ x <= b
  <2>1. ASSUME NEW x \in ends PROVE x \in Nat /\ x <= b
    <3>1. PICK f \in Range(filings) : x = f.end
      BY DEF Quarters
    <3>2. PICK i \in 1..len : f = filings[i]
      BY <1>1, <3>1 DEF Range
    <3>3. x = at[i]
      BY <1>2, <3>1, <3>2
    <3> QED
      BY <1>3, <3>3
  <2> QED
    BY <2>1
<1>5. PICK x \in ends : \A y \in ends : x >= y
  <2> DEFINE m == [x \in ends |-> b - x]
  <2>1. m \in [ends -> Nat]
    BY <1>4
  <2>2. PICK x \in ends : \A y \in ends : m[x] <= m[y]
    <3> HIDE DEF m
    <3> QED
      BY <2>1, LeastMeasure
  <2>3. ASSUME NEW y \in ends PROVE x >= y
    <3>1. b - x <= b - y /\ x \in Nat /\ y \in Nat
      BY <1>4, <2>2
    <3> QED
      BY <3>1
  <2> QED
    BY <2>3
<1>6. Max(ends) \in ends /\ \A y \in ends : Max(ends) >= y
  BY <1>5 DEF Max
<1> QED
  BY <1>4, <1>6
-----------------------------------------------------------------------------
(* The put of a chain.                                                     *)
ChainSound(chain) ==
    ~ chain.blocked =>
        /\ chain.price \in Nat /\ chain.days \subseteq Nat
        /\ DOMAIN chain.bid \subseteq Nat /\ Range(chain.bid) \subseteq Nat

LEMMA Distances ==
    ASSUME NEW a \in Nat, NEW b \in Nat
    PROVE  Distance(a, b) \in Nat
BY DEF Distance

LEMMA ChosenIs ==
    ASSUME NEW chain, chain.days \subseteq Nat, Expirations(chain) # {}
    PROVE  ChosenExpiration(chain) \in Expirations(chain)
<1> DEFINE E == Expirations(chain)
<1>1. \A d \in E : d \in 14..45
  BY DEF Expirations
<1>2. ASSUME NEW d \in 14..45 PROVE Distance(d, 34) \in Nat /\ d \in Nat
  BY DEF Distance
<1>3. PICK m \in [E -> Nat] : \A d \in E : m[d] = 100 * Distance(d, 34) + d
  <2>1. [d \in E |-> 100 * Distance(d, 34) + d] \in [E -> Nat]
    BY <1>1, <1>2
  <2> QED
    BY <2>1
<1>4. PICK d \in E : \A x \in E : m[d] <= m[x]
  <2> HIDE DEF E
  <2> QED
    BY <1>3, LeastMeasure DEF E
<1>5. ASSUME NEW x \in E
      PROVE  \/ Distance(d, 34) < Distance(x, 34)
             \/ Distance(d, 34) = Distance(x, 34) /\ d <= x
  <2>1. PICK a \in Nat, b \in Nat : a = Distance(d, 34) /\ b = Distance(x, 34)
    BY <1>1, <1>2
  <2>2. 100 * a + d <= 100 * b + x
    BY <1>3, <1>4, <2>1
  <2>3. d \in 14..45 /\ x \in 14..45
    BY <1>1
  <2>4. a < b \/ (a = b /\ d <= x)
    <3> HIDE DEF E
    <3> QED
      BY <2>2, <2>3
  <2> QED
    BY <2>1, <2>4
<1> QED
  BY <1>5 DEF ChosenExpiration

LEMMA TargetIs ==
    ASSUME NEW chain, chain.price \in Nat, DOMAIN chain.bid \subseteq Nat,
           Executable(chain) # {}
    PROVE  /\ TargetPut(chain).strike \in Executable(chain)
           /\ TargetPut(chain).credit = chain.bid[TargetPut(chain).strike]
           /\ TargetPut(chain).dte = ChosenExpiration(chain)
<1> DEFINE X == Executable(chain)
           away(k) == Distance(10 * k, 9 * chain.price)
<1>1. \A k \in X : away(k) \in Nat
  <2>1. ASSUME NEW k \in X PROVE away(k) \in Nat
    <3>1. PICK a \in Nat, b \in Nat : a = 10 * k /\ b = 9 * chain.price
      BY DEF Executable
    <3> QED
      BY <3>1, Distances
  <2> QED
    BY <2>1
<1>2. PICK m \in [X -> Nat] : \A k \in X : m[k] = away(k)
  <2>1. [k \in X |-> away(k)] \in [X -> Nat]
    BY <1>1
  <2> QED
    BY <2>1
<1>3. PICK k \in X : \A x \in X : m[k] <= m[x]
  <2> HIDE DEF X
  <2> QED
    BY LeastMeasure DEF X
<1>4. PICK strike : strike = CHOOSE y \in X : \A x \in X : away(y) <= away(x)
  OBVIOUS
<1>5. strike \in X
  BY <1>2, <1>3, <1>4
<1>6. TargetPut(chain) = [strike |-> strike, credit |-> chain.bid[strike],
                          dte |-> ChosenExpiration(chain)]
  BY <1>4 DEF TargetPut
<1> QED
  BY <1>5, <1>6

\* A put that the scan lets through is within the rules, judged from its chain.
LEMMA FitIsTrue ==
    ASSUME NEW chain, ChainSound(chain), NEW equity \in Nat,
           NEW r, r = ScanPut(chain, equity), r.mode = "CASH_SECURED_PUT", r.fits
    PROVE  /\ FitWithin(chain, equity, r.put)
           /\ r.put.strike \in Nat /\ r.put.credit \in Nat
           /\ r.put.credit < r.put.strike
<1>1. PICK put : put = TargetPut(chain)
  OBVIOUS
<1>2. /\ ~ chain.blocked /\ Expirations(chain) # {} /\ Executable(chain) # {}
      /\ ~ (ChosenExpiration(chain) < 30)
  BY DEF ScanPut, NoPut
<1>3. /\ chain.price \in Nat /\ chain.days \subseteq Nat
      /\ DOMAIN chain.bid \subseteq Nat /\ Range(chain.bid) \subseteq Nat
  BY <1>2 DEF ChainSound
<1>4. /\ put.strike \in Executable(chain) /\ put.credit = chain.bid[put.strike]
      /\ put.dte = ChosenExpiration(chain)
  BY <1>1, <1>2, <1>3, TargetIs
<1>5. put.dte \in chain.days /\ put.dte \in 30..45
  <2>1. put.dte \in Expirations(chain)
    BY <1>2, <1>3, <1>4, ChosenIs
  <2>2. put.dte \in Nat /\ 14 <= put.dte /\ put.dte <= 45 /\ put.dte \in chain.days
    BY <1>3, <2>1 DEF Expirations
  <2> QED
    BY <1>2, <1>4, <2>2
<1>6. put.strike \in Nat /\ put.credit \in Nat /\ put.credit > 0
  <2>1. put.strike \in DOMAIN chain.bid /\ chain.bid[put.strike] > 0
    BY <1>4 DEF Executable
  <2>2. chain.bid[put.strike] \in Range(chain.bid)
    BY <2>1 DEF Range
  <2> QED
    BY <1>3, <1>4, <2>1, <2>2
<1>7. /\ r.put = put
      /\ r.fits = (IF equity = 0 THEN WithoutEquity(put) ELSE EvaluatePremium(put, equity))
  BY <1>1, <1>2 DEF ScanPut, NoPut
<1>8. PICK k \in Nat, c \in Nat : k = put.strike /\ c = put.credit /\ c > 0
  BY <1>6
<1>9. CASE equity = 0
  <2>1. WithoutEquity(put)
    BY <1>7, <1>9
  <2>2. c < k /\ (k - c) * 100 <= 500000
    BY <1>8, <2>1 DEF WithoutEquity, Collateral
  <2>3. 50 <= NearestEven(10000 * c, k - c) /\ NearestEven(10000 * c, k - c) <= 200
    BY <1>8, <2>1 DEF WithoutEquity, PutReturn
  <2>4. PICK d \in Nat \ {0}, n \in Nat : d = k - c /\ n = 10000 * c
    BY <2>2
  <2>5. 99 * d <= 2 * n /\ 2 * n <= 401 * d
    BY <2>3, <2>4, Rounded
  <2>6. k - c <= 5000 /\ 20000 * c >= 99 * (k - c) /\ 20000 * c <= 401 * (k - c)
    BY <2>2, <2>4, <2>5
  <2> QED
    BY <1>2, <1>4, <1>5, <1>7, <1>8, <1>9, <2>2, <2>6 DEF FitWithin
<1>10. CASE equity # 0
  <2>1. EvaluatePremium(put, equity)
    BY <1>7, <1>10
  <2>2. /\ 50 * ((k - c) * 100) <= equity /\ (k - c) * 100 <= 500000
        /\ k - c <= 200 * c /\ 50 * c <= k - c
    BY <1>8, <2>1 DEF EvaluatePremium, Collateral
  <2>3. /\ c < k /\ k - c <= 5000
        /\ 20000 * c >= 100 * (k - c) /\ 20000 * c <= 400 * (k - c)
    BY <1>8, <2>2
  <2>4. 100 * (k - c) <= equity \div 50
    <3>1. PICK a \in Int : a = 100 * (k - c) /\ 50 * a <= equity
      BY <2>2
    <3> QED
      BY <3>1
  <2> QED
    BY <1>2, <1>4, <1>5, <1>7, <1>8, <1>10, <2>3, <2>4 DEF FitWithin
<1> QED
  BY <1>9, <1>10
-----------------------------------------------------------------------------
(* The report of an evening.                                               *)
ScanOf(e) ==
    VixFiltered(Regime(e.vix), [s \in DOMAIN e.puts |-> ScanPut(e.puts[s], e.equity)])
Reported(e, r) ==
    \E scale \in ScalePaths(ScanOf(e)) : r = ReportOf(e, ScanOf(e), scale)

LEMMA EveningIs ==
    ASSUME NEW e \in Evenings
    PROVE  /\ DOMAIN e.puts = DOMAIN e.lastBar /\ e.equity \in Nat /\ e.vix \in Nat
           /\ \A s \in DOMAIN e.puts : ChainSound(e.puts[s])
           /\ \A s \in DOMAIN e.lastBar : e.lastBar[s] \in {-1, 0, 1}
BY EveningsAssumption DEF ChainSound

\* What fits was let through by the scan, and not in a HIGH regime.
LEMMA FittingIs ==
    ASSUME NEW e \in Evenings, NEW s \in Fitting(ScanOf(e))
    PROVE  /\ s \in DOMAIN e.puts /\ e.vix < 30
           /\ ScanOf(e)[s] = ScanPut(e.puts[s], e.equity)
           /\ ScanOf(e)[s].mode = "CASH_SECURED_PUT" /\ ScanOf(e)[s].fits
<1> DEFINE scan == [x \in DOMAIN e.puts |-> ScanPut(e.puts[x], e.equity)]
<1>1. ScanOf(e) = [x \in DOMAIN scan |->
          IF Regime(e.vix) = "HIGH" /\ scan[x].mode = "CASH_SECURED_PUT"
          THEN [scan[x] EXCEPT !.fits = FALSE] ELSE scan[x]]
  BY DEF ScanOf, VixFiltered
<1>2. DOMAIN scan = DOMAIN e.puts /\ \A x \in DOMAIN scan : scan[x] = ScanPut(e.puts[x], e.equity)
  OBVIOUS
<1> HIDE DEF scan
<1>3. s \in DOMAIN scan /\ ScanOf(e)[s].mode = "CASH_SECURED_PUT" /\ ScanOf(e)[s].fits
  BY <1>1 DEF Fitting
<1>4. ASSUME NEW x \in DOMAIN scan, scan[x].mode = "CASH_SECURED_PUT"
      PROVE  "fits" \in DOMAIN scan[x]
  <2>1. PICK chain, equity : chain = e.puts[x] /\ equity = e.equity
    OBVIOUS
  <2>2. scan[x] = ScanPut(chain, equity) /\ ScanPut(chain, equity).mode = "CASH_SECURED_PUT"
    BY <1>2, <1>4, <2>1
  <2>3. PICK put, v, f : scan[x] = [mode |-> "CASH_SECURED_PUT", put |-> put,
                                    survivability |-> v, fits |-> f]
    BY <2>2, Zenon DEF ScanPut, NoPut
  <2> QED
    BY <2>3
<1>5. Regime(e.vix) # "HIGH"
  <2>1. SUFFICES ASSUME Regime(e.vix) = "HIGH" PROVE FALSE
    OBVIOUS
  <2>2. CASE scan[s].mode = "CASH_SECURED_PUT"
    <3>1. ScanOf(e)[s] = [scan[s] EXCEPT !.fits = FALSE]
      BY <1>1, <1>3, <2>1, <2>2
    <3>2. ScanOf(e)[s].fits = FALSE
      BY <1>3, <1>4, <2>2, <3>1
    <3> QED
      BY <1>3, <3>2
  <2>3. CASE scan[s].mode # "CASH_SECURED_PUT"
    BY <1>1, <1>3, <2>1, <2>3
  <2> QED
    BY <2>2, <2>3
<1>6. ScanOf(e)[s] = scan[s]
  BY <1>1, <1>3, <1>5
<1>7. e.vix < 30
  <2>1. e.vix \in Nat
    BY EveningIs
  <2>2. ASSUME e.vix >= 30 PROVE Regime(e.vix) = "HIGH"
    <3>1. /\ ~ (e.vix = 0) /\ ~ (e.vix \in 1..14) /\ ~ (e.vix \in 15..19)
          /\ ~ (e.vix \in 20..29)
      BY <2>1, <2>2
    <3> QED
      BY <3>1 DEF Regime
  <2> QED
    BY <1>5, <2>1, <2>2
<1> QED
  BY <1>2, <1>3, <1>6, <1>7

LEMMA FitsTrue ==
    ASSUME NEW e \in Evenings, NEW r, Reported(e, r)
    PROVE  FitsAreTrue(e, r)
<1>1. PICK scale \in ScalePaths(ScanOf(e)) :
          r.scan = ScanOf(e) /\ r.scale = scale
  BY DEF Reported, ReportOf
<1>2. ASSUME NEW s \in Fitting(r.scan)
      PROVE  /\ e.vix < 30
             /\ FitWithin(e.puts[s], e.equity, r.scan[s].put)
             /\ r.scan[s].put.strike \in Nat /\ r.scan[s].put.credit \in Nat
             /\ r.scan[s].put.credit < r.scan[s].put.strike
  <2>1. /\ s \in DOMAIN e.puts /\ e.vix < 30
        /\ ScanOf(e)[s] = ScanPut(e.puts[s], e.equity)
        /\ ScanOf(e)[s].mode = "CASH_SECURED_PUT" /\ ScanOf(e)[s].fits
    BY <1>1, FittingIs
  <2>2. ChainSound(e.puts[s]) /\ e.equity \in Nat
    BY <2>1, EveningIs
  <2> QED
    BY <1>1, <2>1, <2>2, FitIsTrue
<1>3. ScaleWithin(r.scan, r.scale)
  <2> SUFFICES ASSUME r.scale.symbol # "NONE" PROVE ScaleWithin(r.scan, r.scale)
    BY DEF ScaleWithin
  <2>1. PICK s \in TopFits(ScanOf(e)) : scale = ScalePath(ScanOf(e), s)
    <3>1. ScalePaths(ScanOf(e)) = {ScalePath(ScanOf(e), x) : x \in TopFits(ScanOf(e))}
      BY <1>1 DEF ScalePaths
    <3> QED
      BY <1>1, <3>1
  <2>2. s \in Fitting(ScanOf(e))
    BY DEF TopFits
  <2>3. PICK capital \in Nat \ {0} : capital = Collateral(ScanOf(e)[s].put)
    <3>1. PICK k \in Nat, c \in Nat : /\ k = ScanOf(e)[s].put.strike
                                      /\ c = ScanOf(e)[s].put.credit /\ c < k
      BY <1>1, <1>2, <2>2
    <3>2. (k - c) * 100 \in Nat \ {0}
      BY <3>1
    <3> QED
      BY <3>1, <3>2 DEF Collateral
  <2>4. /\ scale.symbol = s /\ scale.capital = capital
        /\ \A q \in ScaleSteps : scale.contracts[q] = ContractsWithin(capital, q)
    BY <2>1, <2>3 DEF ScalePath
  <2>5. ASSUME NEW q \in ScaleSteps
        PROVE  /\ 50 * scale.contracts[q] * scale.capital <= q
               /\ q < 50 * (scale.contracts[q] + 1) * scale.capital
    BY <2>4, Contracts
  <2> QED
    BY <1>1, <2>2, <2>4, <2>5 DEF ScaleWithin
<1> QED
  BY <1>2, <1>3 DEF FitsAreTrue

\* The worst of the six severities tells which there were.
LEMMA QualityTrue ==
    ASSUME NEW e \in Evenings, NEW r, Reported(e, r)
    PROVE  QualityIsTrue(e, r)
<1>1. r.quality = Quality(e)
  BY DEF Reported, ReportOf
<1> DEFINE all == Severities(e)
           rates == Severity(RatesSection(e))
           macro == Severity(MacroSection(e))
           eod == EodSeverity(e)
           oil == IF e.oil THEN "OK" ELSE "DOWN"
           earnings == Present(EarningsSection(e))
           chains == Present(ChainSection(e))
<1>2. all = {rates, macro, eod, oil, earnings, chains}
  BY DEF Severities
<1>3. /\ rates \in {"OK", "DOWN"} /\ (rates = "OK" <=> e.rates)
      /\ macro \in {"OK", "DOWN"} /\ (macro = "OK" <=> e.macro # {})
  <2>1. e.rates \in BOOLEAN
    BY EveningsAssumption
  <2>2. /\ RatesSection(e).mode = IF e.rates THEN "REAL_FRED_RATES" ELSE "BLOCKED"
        /\ MacroSection(e).mode = IF e.macro = {} THEN "BLOCKED" ELSE "REAL_FRED_MACRO"
    BY DEF RatesSection, MacroSection
  <2> QED
    BY <2>1, <2>2 DEF Severity
<1>4. oil \in {"OK", "DOWN"} /\ (oil = "OK" <=> e.oil)
  <2>1. e.oil \in BOOLEAN
    BY EveningsAssumption
  <2> QED
    BY <2>1
<1>5. /\ earnings \in {"OK", "MISSING"} /\ (earnings = "OK" <=> DOMAIN e.filings # {})
      /\ chains \in {"OK", "MISSING"} /\ (chains = "OK" <=> DOMAIN e.chains # {})
  BY DEF Present, EarningsSection, ChainSection
<1>6. /\ eod \in {"OK", "STALE", "DOWN"}
      /\ eod = "DOWN" <=> e.eod # "READY"
      /\ eod = "STALE" => ~ Current(e)
      /\ eod = "OK" => Current(e)
  BY DEF EodSeverity
<1> HIDE DEF all, rates, macro, eod, oil, earnings, chains
<1>7. Current(e) <=> SomeBarIsOfTheEvening(e)
  BY DEF Current, Passed, SomeBarIsOfTheEvening
<1>8. NothingFailed(e) <=> ~("MISSING" \in all) /\ ~("DOWN" \in all)
  BY <1>2, <1>3, <1>4, <1>5, <1>6 DEF NothingFailed
<1>9. Quality(e) = CASE "MISSING" \in all -> "MISSING"
                      [] "DOWN" \in all /\ "MISSING" \notin all -> "DOWN"
                      [] all = {"OK", "STALE"} \/ all = {"STALE"} -> "STALE"
                      [] all = {"OK"} -> "OK"
  BY DEF Quality, all
<1>10. /\ "MISSING" \in all => Quality(e) = "MISSING"
       /\ ("DOWN" \in all /\ ~("MISSING" \in all)) => Quality(e) = "DOWN"
  BY <1>2, <1>3, <1>4, <1>5, <1>6, <1>9
<1>11. ASSUME ~("MISSING" \in all), ~("DOWN" \in all)
       PROVE  Quality(e) = eod /\ eod \in {"OK", "STALE"}
  <2>1. rates = "OK" /\ macro = "OK" /\ oil = "OK" /\ earnings = "OK" /\ chains = "OK"
        /\ eod \in {"OK", "STALE"}
    BY <1>2, <1>3, <1>4, <1>5, <1>6, <1>11
  <2>2. all = {"OK", eod}
    BY <1>2, <2>1
  <2>3. CASE eod = "OK"
    <3>1. all = {"OK"} /\ all # {"OK", "STALE"} /\ all # {"STALE"}
      BY <2>2, <2>3
    <3> QED
      BY <1>11, <1>9, <2>3, <3>1
  <2>4. CASE eod = "STALE"
    <3>1. all = {"OK", "STALE"} /\ all # {"OK"}
      BY <2>2, <2>4
    <3> QED
      BY <1>11, <1>9, <2>4, <3>1
  <2> QED
    BY <2>1, <2>3, <2>4
<1>12. CASE NothingFailed(e)
  <2>1. r.quality = eod /\ eod \in {"OK", "STALE"}
    BY <1>1, <1>8, <1>11, <1>12
  <2> QED
    BY <1>6, <1>7, <1>12, <2>1 DEF QualityIsTrue
<1>13. CASE ~ NothingFailed(e)
  <2>1. r.quality \in {"MISSING", "DOWN"}
    BY <1>1, <1>8, <1>10, <1>13
  <2> QED
    BY <1>13, <2>1 DEF QualityIsTrue
<1> QED
  BY <1>12, <1>13

\* The two periods that an earnings section shows are its last ones.
LEMMA PeriodsTrue ==
    ASSUME NEW filings, filings \in Seq(Range(filings)), filings # <<>>,
           \A f \in Range(filings) : f.end \in Nat
    PROVE  LET q == EarningsDesk(filings).quarter
               p == EarningsDesk(filings).prior
           IN /\ p.end # 0 => p.end < q.end
              /\ \A i \in DOMAIN filings :
                    filings[i].form = "10-Q" => filings[i].end \in {p.end, q.end} \cup 0..p.end
<1>1. PICK all : all = Quarters(filings)
  OBVIOUS
<1>2. PICK q : q = EpsOf(filings, all)
  OBVIOUS
<1>3. PICK rest : rest = all \ {q.end}
  OBVIOUS
<1>4. PICK p : p = EpsOf(filings, rest)
  OBVIOUS
<1>5. EarningsDesk(filings).quarter = q /\ EarningsDesk(filings).prior = p
  BY <1>1, <1>2, <1>3, <1>4 DEF EarningsDesk
<1>6. \A i \in DOMAIN filings : filings[i].form = "10-Q" => filings[i].end \in all
  BY <1>1 DEF Quarters, Range
<1>7. CASE all = {}
  <2>1. rest = {} /\ p.end = 0
    <3>1. rest = {}
      BY <1>3, <1>7
    <3> QED
      BY <1>4, <3>1 DEF EpsOf
  <2> QED
    BY <1>5, <1>6, <1>7, <2>1
<1>8. CASE all # {}
  <2>1. q.end = Max(all)
    BY <1>2, <1>8 DEF EpsOf
  <2>2. q.end \in all /\ \A x \in all : x \in Nat /\ x <= q.end
    BY <1>1, <1>8, <2>1, Latest
  <2>3. CASE rest = {}
    <3>1. p.end = 0
      BY <1>4, <2>3 DEF EpsOf
    <3>2. all = {q.end}
      BY <1>3, <2>2, <2>3
    <3> QED
      BY <1>5, <1>6, <3>1, <3>2
  <2>4. CASE rest # {}
    <3>1. p.end = Max(rest)
      BY <1>4, <2>4 DEF EpsOf
    <3>2. p.end \in rest /\ \A x \in rest : x \in Nat /\ x <= p.end
      <4>1. rest \in SUBSET Quarters(filings)
        BY <1>1, <1>3
      <4> QED
        BY <2>4, <3>1, <4>1, Latest
    <3>3. PICK a \in Nat, b \in Nat : a = p.end /\ b = q.end
      BY <2>2, <3>2
    <3>4. a < b
      BY <1>3, <2>2, <3>2, <3>3
    <3>5. \A x \in all : x = b \/ x \in 0..a
      <4>1. ASSUME NEW x \in all PROVE x = b \/ x \in 0..a
        BY <1>3, <3>2, <3>3
      <4> QED
        BY <4>1
    <3> QED
      BY <1>5, <1>6, <3>3, <3>4, <3>5
  <2> QED
    BY <2>3, <2>4
<1> QED
  BY <1>7, <1>8

LEMMA FeedsTrue ==
    ASSUME NEW e \in Evenings, NEW r, Reported(e, r)
    PROVE  FeedsAreTrue(e, r)
<1>1. /\ r.candidates = PremiumCandidates(e) /\ r.earnings = EarningsSection(e)
      /\ r.macro = MacroSection(e) /\ r.rates = RatesSection(e)
  BY DEF Reported, ReportOf
<1>2. ASSUME NEW x \in EodFeed(r) PROVE e.lastBar[x[1]] >= 0
  <2>1. PICK s \in Passed(e) : x[1] = s
    BY <1>1 DEF EodFeed, PremiumCandidates
  <2> QED
    BY <2>1 DEF Passed
<1>3. ASSUME NEW c \in EarningsFeed(r)
      PROVE  LET q == r.earnings[c].quarter
                 p == r.earnings[c].prior
             IN /\ e.filings[c] # <<>>
                /\ p.end # 0 => p.end < q.end
                /\ \A i \in DOMAIN e.filings[c] :
                      e.filings[c][i].form = "10-Q" =>
                          e.filings[c][i].end \in {p.end, q.end} \cup 0..p.end
  <2>1. /\ c \in DOMAIN e.filings /\ r.earnings[c] = EarningsDesk(e.filings[c])
        /\ r.earnings[c].mode = "REAL_EDGAR_EARNINGS"
    BY <1>1 DEF EarningsFeed, EarningsSection
  <2>2. PICK filings : filings = e.filings[c]
    OBVIOUS
  <2>3. filings # <<>>
    BY <2>1, <2>2 DEF EarningsDesk, NoPut
  <2>4. filings \in Seq(Range(filings)) /\ \A f \in Range(filings) : f.end \in Nat
    BY <2>1, <2>2, EveningsAssumption
  <2> QED
    BY <2>1, <2>2, <2>3, <2>4, PeriodsTrue
<1>4. ASSUME NEW x \in MacroFeed(r)
      PROVE  x \in e.macro \/ (x = "FEDFUNDS" /\ e.rates)
  <2>1. r.macro.keys = e.macro
    BY <1>1 DEF MacroSection
  <2>2. ~("treasury_10y_yield" \in r.rates.keys)
    BY <1>1 DEF RatesSection
  <2>3. "fed_funds_effective_rate" \in r.rates.keys => e.rates
    BY <1>1 DEF RatesSection
  <2>4. \/ x \in r.macro.keys
        \/ x = "FEDFUNDS" /\ "fed_funds_effective_rate" \in r.rates.keys
        \/ x = "DGS10" /\ "treasury_10y_yield" \in r.rates.keys
    BY DEF MacroFeed
  <2> QED
    BY <2>1, <2>2, <2>3, <2>4
<1> QED
  BY <1>2, <1>3, <1>4, Zenon DEF FeedsAreTrue

-----------------------------------------------------------------------------
(* The nights.                                                             *)
Steps == {"IDLE", "INGESTED", "BUILT", "DATED", "PUBLISHED", "DEMO", "DEMO WRITTEN", "PLOTLY"}
HasReport == {"BUILT", "DATED", "PUBLISHED", "DEMO", "DEMO WRITTEN", "PLOTLY"}
IsDated == HasReport \ {"BUILT"}
IsLatest == IsDated \ {"DATED"}

\* A batch holds the report of its own evening, or none yet.
NightSound(n) ==
    /\ n = [evening |-> n.evening, date |-> n.date, report |-> n.report]
    /\ n.evening \in Evenings /\ n.date \in 1..MaxDate
    /\ n.report # NoReport => Reported(n.evening, n.report)
Bound(x) ==
    /\ x.bound \in 1..Len(nights) /\ nights[x.bound].report # NoReport
    /\ nights[x.bound].report.scan[x.symbol] = x.risk

NightTypes ==
    /\ calendar \in 1..MaxDate
    /\ nights \in Seq(Range(nights))
    /\ \A i \in 1..Len(nights) : NightSound(nights[i])
    /\ night = [step |-> night.step, night |-> night.night] /\ night.step \in Steps
    /\ dated \in [1..MaxDate -> 0..Len(nights)]
    /\ latest \in 0..Len(nights)
    /\ page = [night |-> page.night, whole |-> page.whole] /\ page.night \in 0..latest
    /\ vault = [sheets |-> vault.sheets, torn |-> vault.torn]
    /\ vault.sheets \in Seq(Range(vault.sheets))

\* The batch under way is the last one that was started.
UnderWay ==
    /\ night.step # "IDLE" => night.night = Len(nights) /\ night.night > 0
    /\ night.step = "INGESTED" => nights[night.night].report = NoReport
    /\ night.step \in HasReport => nights[night.night].report # NoReport
    /\ night.step \in IsDated => dated[nights[night.night].date] = night.night
    /\ night.step \in IsLatest => latest = night.night

LatestSound ==
    latest # 0 => /\ nights[latest].report # NoReport
                  /\ latest <= dated[nights[latest].date]

SheetsSound ==
    /\ sheet # NoSheet => Bound(sheet)
    /\ \A i \in DOMAIN vault.sheets : Bound(vault.sheets[i])

NightlyInv == NightTypes /\ UnderWay /\ LatestSound /\ SheetsSound

LEMMA NightlyIsTrue ==
    ASSUME NightlyInv
    PROVE  NightlyTrue
<1>1. /\ latest \in Nat /\ page.night \in Nat /\ page.night <= latest
      /\ Len(nights) \in Nat
  BY LenProperties DEF NightlyInv, NightTypes
<1>2. ASSUME latest # 0
      PROVE  /\ FitsAreTrue(nights[latest].evening, Report)
             /\ QualityIsTrue(nights[latest].evening, Report)
             /\ FeedsAreTrue(nights[latest].evening, Report)
  <2>1. NightSound(nights[latest]) /\ nights[latest].report # NoReport
    BY <1>1, <1>2 DEF NightlyInv, NightTypes, LatestSound
  <2>2. PICK e, r : /\ e = nights[latest].evening /\ r = Report
                     /\ e \in Evenings /\ Reported(e, r)
    BY <2>1 DEF NightSound, Report
  <2> QED
    BY <2>2, FitsTrue, QualityTrue, FeedsTrue
<1>3. PublishedInOrder
  BY <1>1 DEF NightlyInv, LatestSound, PublishedInOrder
<1>4. SheetsBound
  BY DEF NightlyInv, SheetsSound, Bound, SheetsBound
<1> QED
  BY <1>2, <1>3, <1>4 DEF NightlyTrue

\* The nights are a list that is counted.
LEMMA NightsListed ==
    ASSUME NightlyInv
    PROVE  \E n \in Nat : /\ n = Len(nights) /\ DOMAIN nights = 1..n
                          /\ nights = [i \in 1..n |-> nights[i]]
<1>1. Len(nights) \in Nat /\ nights \in [1..Len(nights) -> Range(nights)]
  BY LenProperties DEF NightlyInv, NightTypes
<1> QED
  BY <1>1

LEMMA ListIsSeq ==
    ASSUME NEW f, NEW n \in Nat, f = [i \in 1..n |-> f[i]]
    PROVE  f \in Seq(Range(f)) /\ Len(f) = n
<1>1. f \in [1..n -> Range(f)]
  BY DEF Range
<1>2. f \in Seq(Range(f))
  BY <1>1, SeqDef
<1>3. Len(f) \in Nat /\ DOMAIN f = 1..Len(f)
  BY <1>2, LenProperties
<1>4. 1..n = 1..Len(f)
  BY <1>1, <1>3
<1>5. Len(f) = n
  BY <1>3, <1>4
<1> QED
  BY <1>2, <1>5

\* The nights change only at their end, where nothing was decided yet.
LEMMA BoundKept ==
    ASSUME NightlyInv, NEW n \in Nat, n = Len(nights), Len(nights') \in Nat, n <= Len(nights'),
           \A i \in 1..n : nights[i].report # NoReport => nights'[i] = nights[i],
           NEW x, Bound(x)
    PROVE  /\ x.bound \in 1..Len(nights') /\ nights'[x.bound].report # NoReport
           /\ nights'[x.bound].report.scan[x.symbol] = x.risk
<1>1. x.bound \in 1..n /\ nights[x.bound].report # NoReport
      /\ nights[x.bound].report.scan[x.symbol] = x.risk
  BY DEF Bound
<1>2. nights'[x.bound] = nights[x.bound]
  BY <1>1
<1> QED
  BY <1>1, <1>2

LEMMA SheetsKept ==
    ASSUME NightlyInv, NEW n \in Nat, n = Len(nights), Len(nights') \in Nat, n <= Len(nights'),
           \A i \in 1..n : nights[i].report # NoReport => nights'[i] = nights[i],
           UNCHANGED <<sheet, vault>>
    PROVE  SheetsSound'
<1>1. ASSUME NEW x, Bound(x)
      PROVE  /\ x.bound \in 1..Len(nights') /\ nights'[x.bound].report # NoReport
             /\ nights'[x.bound].report.scan[x.symbol] = x.risk
  BY <1>1, BoundKept
<1>2. /\ sheet' # NoSheet => Bound(sheet)
      /\ \A i \in DOMAIN vault'.sheets : Bound(vault.sheets[i])
  BY DEF NightlyInv, SheetsSound
<1> QED
  BY <1>1, <1>2 DEF SheetsSound, Bound

\* A step that leaves the nights and the sheets alone.
LEMMA SheetsUnchanged ==
    ASSUME NightlyInv, UNCHANGED <<nights, sheet, vault>>
    PROVE  SheetsSound'
BY DEF NightlyInv, SheetsSound, Bound

LEMMA StartStep ==
    ASSUME NightlyInv, NEW e \in Evenings, StartNightly(e)
    PROVE  NightlyInv'
<1>1. PICK n \in Nat : /\ n = Len(nights) /\ DOMAIN nights = 1..n
                       /\ nights = [i \in 1..n |-> nights[i]]
  BY NightsListed
<1>2. PICK new : new = [evening |-> e, date |-> calendar, report |-> NoReport]
  OBVIOUS
<1>3. /\ nights' = Append(nights, new)
      /\ UNCHANGED <<calendar, dated, latest, page, sheet, vault>>
  BY <1>2 DEF StartNightly
<1>4. nights' = [i \in 1..(n + 1) |-> IF i \in 1..n THEN nights[i] ELSE new]
  <2>1. nights \in Seq(Range(nights) \union {new})
    <3>1. nights \in Seq(Range(nights)) /\ Range(nights) \subseteq Range(nights) \union {new}
      BY DEF NightlyInv, NightTypes
    <3> QED
      BY <3>1, SeqMonotonic
  <2>2. PICK S : nights \in Seq(S) /\ new \in S
    BY <2>1
  <2>3. /\ nights' \in Seq(S) /\ Len(nights') = n + 1
        /\ \A i \in 1..n : nights'[i] = nights[i]
        /\ nights'[n + 1] = new
    BY <1>1, <1>3, <2>2, AppendProperties
  <2>4. nights' \in [1..(n + 1) -> S]
    BY <2>3, LenProperties
  <2>5. \A i \in 1..(n + 1) : i \in 1..n \/ (i = n + 1 /\ ~(i \in 1..n))
    BY <1>1
  <2> QED
    BY <2>3, <2>4, <2>5
<1>5. /\ nights' \in Seq(Range(nights')) /\ Len(nights') = n + 1
      /\ \A i \in 1..n : nights'[i] = nights[i]
      /\ nights'[n + 1] = new
      /\ \A i \in 1..(n + 1) : i \in 1..n \/ i = n + 1
  <2>1. PICK f : f = nights' /\ f = [i \in 1..(n + 1) |-> f[i]]
    BY <1>4
  <2>2. f \in Seq(Range(f)) /\ Len(f) = n + 1
    BY <2>1, ListIsSeq
  <2> QED
    BY <1>4, <2>1, <2>2
<1>6. night' = [step |-> night'.step, night |-> n + 1] /\ night'.step \in {"IDLE", "INGESTED"}
  BY <1>5 DEF StartNightly
<1>7. \A i \in 1..(n + 1) : NightSound(nights'[i])
  <2>1. NightSound(new)
    BY <1>2 DEF NightSound, NightlyInv, NightTypes
  <2> QED
    BY <1>1, <1>5, <2>1 DEF NightlyInv, NightTypes
<1>8. NightTypes'
  <2>1. dated \in [1..MaxDate -> 0..(n + 1)] /\ latest \in 0..(n + 1)
    BY <1>1 DEF NightlyInv, NightTypes
  <2>2. night'.step \in Steps /\ night' = [step |-> night'.step, night |-> night'.night]
    BY <1>6 DEF Steps
  <2>3. \A i \in 1..Len(nights') : NightSound(nights'[i])
    BY <1>5, <1>7
  <2> QED
    BY <1>3, <1>5, <2>1, <2>2, <2>3 DEF NightlyInv, NightTypes, NightSound, Reported, ScanOf
<1>9. UnderWay'
  <2>1. PICK step : step = night'.step
    OBVIOUS
  <2>5. PICK last \in Nat : last = night'.night /\ last = n + 1
    <3>1. n + 1 \in Nat /\ night'.night = n + 1
      BY <1>6
    <3> QED
      BY <3>1
  <2>2. step \in {"IDLE", "INGESTED"} /\ last = Len(nights') /\ last > 0
    BY <1>5, <1>6, <2>1, <2>5
  <2>3. step \notin HasReport /\ step \notin IsDated /\ step \notin IsLatest
    BY <2>2 DEF HasReport, IsDated, IsLatest
  <2>4. nights'[last].report = NoReport
    BY <1>2, <1>5, <2>5
  <2> QED
    BY <2>1, <2>2, <2>3, <2>4, <2>5 DEF UnderWay
<1>10. LatestSound'
  <2>1. latest # 0 => latest \in 1..n
    BY <1>1 DEF NightlyInv, NightTypes
  <2> QED
    BY <1>3, <1>5, <2>1 DEF NightlyInv, LatestSound
<1>11. SheetsSound'
  <2>1. Len(nights') \in Nat /\ n <= Len(nights')
    BY <1>5
  <2> QED
    BY <1>1, <1>3, <1>5, <2>1, SheetsKept
<1> QED
  BY <1>8, <1>9, <1>10, <1>11 DEF NightlyInv

\* A batch that builds its report writes it where none was.
LEMMA BuildStep ==
    ASSUME NightlyInv, BuildNightly
    PROVE  NightlyInv'
<1>1. PICK n \in Nat : /\ n = Len(nights) /\ DOMAIN nights = 1..n
                       /\ nights = [i \in 1..n |-> nights[i]]
  BY NightsListed
<1>2. night.step = "INGESTED" /\ UNCHANGED <<calendar, dated, latest, page, sheet, vault>>
  BY DEF BuildNightly
<1>3. /\ night.night = n /\ n \in 1..n /\ nights[n].report = NoReport
      /\ night = [step |-> night.step, night |-> night.night]
  BY <1>1, <1>2 DEF NightlyInv, NightTypes, UnderWay
<1>4. CASE vault.torn
  <2>1. night' = [step |-> "IDLE", night |-> n] /\ UNCHANGED nights
    BY <1>2, <1>3, <1>4 DEF BuildNightly, NightStep
  <2>2. NightTypes'
    BY <1>2, <2>1 DEF NightlyInv, NightTypes, NightSound, Reported, ScanOf, Steps
  <2>3. UnderWay'
    BY <2>1 DEF UnderWay, HasReport, IsDated, IsLatest
  <2>4. LatestSound'
    BY <1>2, <2>1 DEF NightlyInv, LatestSound
  <2>5. SheetsSound'
    BY <1>2, <2>1, SheetsUnchanged
  <2> QED
    BY <2>2, <2>3, <2>4, <2>5 DEF NightlyInv
<1>5. CASE ~ vault.torn
  <2>13. PICK e, d : e = nights[n].evening /\ d = nights[n].date
    OBVIOUS
  <2>14. night' = [step |-> "BUILT", night |-> n]
    BY <1>3, <1>5 DEF BuildNightly, NightStep
  <2>15. PICK scale \in ScalePaths(ScanOf(e)) :
              nights' = [nights EXCEPT ![n].report = ReportOf(e, ScanOf(e), scale)]
    <3>1. PICK m, f : m = night.night /\ f = nights[m].evening
      OBVIOUS
    <3>2. \E scale \in ScalePaths(ScanOf(f)) :
              nights' = [nights EXCEPT ![m].report = ReportOf(f, ScanOf(f), scale)]
      BY <1>5, <3>1 DEF BuildNightly, ScanOf
    <3>3. m = n /\ f = e
      BY <1>3, <2>13, <3>1
    <3> QED
      BY <3>2, <3>3
  <2>1. PICK r : /\ Reported(e, r) /\ nights' = [nights EXCEPT ![n].report = r]
                 /\ e = nights[n].evening /\ d = nights[n].date
                 /\ night' = [step |-> "BUILT", night |-> n]
    BY <2>13, <2>14, <2>15, Zenon DEF Reported
  <2>2. /\ nights[n] = [evening |-> e, date |-> d, report |-> NoReport]
        /\ e \in Evenings /\ d \in 1..MaxDate
    BY <1>1, <1>3, <2>1 DEF NightlyInv, NightTypes, NightSound
  <2>3. PICK new : new = [evening |-> e, date |-> d, report |-> r]
    OBVIOUS
  <2>4. nights' = [nights EXCEPT ![n] = new]
    <3>1. [nights[n] EXCEPT !.report = r] = new
      BY <2>2, <2>3
    <3>2. [nights EXCEPT ![n].report = r] = [nights EXCEPT ![n] = [nights[n] EXCEPT !.report = r]]
      BY Zenon
    <3> QED
      BY <2>1, <3>1, <3>2
  <2>5. r # NoReport
    BY <2>1 DEF Reported, ReportOf, NoReport
  <2>6. NightSound(new)
    BY <2>1, <2>2, <2>3 DEF NightSound
  <2>7. /\ nights' = [i \in 1..n |-> nights'[i]]
        /\ \A i \in 1..n : nights'[i] = IF i = n THEN new ELSE nights[i]
    BY <1>1, <2>4
  <2>8. nights' \in Seq(Range(nights')) /\ Len(nights') = n
    <3>1. PICK f : f = nights' /\ f = [i \in 1..n |-> f[i]]
      BY <2>7
    <3>2. f \in Seq(Range(f)) /\ Len(f) = n
      BY <3>1, ListIsSeq
    <3> QED
      BY <3>1, <3>2
  <2>9. NightTypes'
    <3>1. \A i \in 1..n : NightSound(nights'[i])
      BY <1>1, <2>6, <2>7 DEF NightlyInv, NightTypes
    <3>2. dated \in [1..MaxDate -> 0..n] /\ latest \in 0..n
      BY <1>1 DEF NightlyInv, NightTypes
    <3>3. night'.step \in Steps /\ night' = [step |-> night'.step, night |-> night'.night]
      BY <2>1 DEF Steps
    <3> QED
      BY <1>2, <2>8, <3>1, <3>2, <3>3 DEF NightlyInv, NightTypes, NightSound, Reported, ScanOf
  <2>10. UnderWay'
    <3>1. night'.step = "BUILT" /\ night'.night = n /\ n > 0
      BY <1>3, <2>1
    <3>2. nights'[n].report # NoReport
      BY <1>3, <2>3, <2>5, <2>7
    <3> QED
      BY <2>8, <3>1, <3>2 DEF UnderWay, HasReport, IsDated, IsLatest
  <2>11. LatestSound'
    <3>1. latest # 0 => latest \in 1..n /\ latest # n
      BY <1>1, <1>3 DEF NightlyInv, NightTypes, LatestSound
    <3>2. latest # 0 => nights'[latest] = nights[latest]
      BY <2>7, <3>1
    <3> QED
      BY <1>2, <3>2 DEF NightlyInv, LatestSound
  <2>12. SheetsSound'
    <3>1. Len(nights') \in Nat /\ n <= Len(nights')
      BY <2>8
    <3>2. \A i \in 1..n : nights[i].report # NoReport => nights'[i] = nights[i]
      BY <1>3, <2>7
    <3> QED
      BY <1>1, <1>2, <3>1, <3>2, SheetsKept
  <2> QED
    BY <2>9, <2>10, <2>11, <2>12 DEF NightlyInv
<1> QED
  BY <1>4, <1>5

LEMMA DatedStep ==
    ASSUME NightlyInv, PublishDated
    PROVE  NightlyInv'
<1>1. PICK n \in Nat : n = Len(nights)
  BY NightsListed
<1>2. /\ night.step = "BUILT" /\ UNCHANGED <<calendar, nights, latest, page, sheet, vault>>
      /\ dated' = [dated EXCEPT ![nights[night.night].date] = night.night]
  BY DEF PublishDated
<1>3. /\ night.night = n /\ n \in 1..n /\ nights[n].report # NoReport
      /\ night = [step |-> night.step, night |-> night.night]
  BY <1>1, <1>2 DEF NightlyInv, NightTypes, UnderWay, HasReport
<1>4. night' = [step |-> "DATED", night |-> n]
  BY <1>3 DEF PublishDated, NightStep
<1>5. PICK d : d = nights[n].date /\ d \in 1..MaxDate
  BY <1>1, <1>3 DEF NightlyInv, NightTypes, NightSound
<1>6. dated \in [1..MaxDate -> 0..n] /\ latest \in 0..n
  BY <1>1 DEF NightlyInv, NightTypes
<1>7. /\ dated' \in [1..MaxDate -> 0..n]
      /\ \A x \in 1..MaxDate : dated'[x] = IF x = d THEN n ELSE dated[x]
  BY <1>2, <1>3, <1>5, <1>6
<1>8. NightTypes'
  <2>1. night'.step \in Steps /\ night' = [step |-> night'.step, night |-> night'.night]
    BY <1>4 DEF Steps
  <2>2. /\ dated' \in [1..MaxDate -> 0..Len(nights)]
        /\ UNCHANGED <<nights, latest, page, vault, calendar>>
    BY <1>1, <1>2, <1>7
  <2> QED
    BY <2>1, <2>2 DEF NightlyInv, NightTypes, NightSound, Reported, ScanOf
<1>9. UnderWay'
  <2>1. night'.step = "DATED" /\ night'.night = n /\ n > 0
    BY <1>3, <1>4
  <2>2. nights'[n].report # NoReport /\ dated'[nights'[n].date] = n /\ Len(nights') = n
    BY <1>1, <1>2, <1>3, <1>5, <1>7
  <2> QED
    BY <2>1, <2>2 DEF UnderWay, HasReport, IsDated, IsLatest
<1>10. LatestSound'
  <2>1. CASE latest # 0
    <3>4. latest \in 1..Len(nights)
      BY <1>1, <1>6, <2>1
    <3>5. NightSound(nights[latest])
      BY <3>4 DEF NightlyInv, NightTypes
    <3>1. PICK x : x = nights[latest].date /\ x \in 1..MaxDate
      BY <3>5 DEF NightSound
    <3>2. nights[latest].report # NoReport /\ latest <= dated[x]
      BY <2>1, <3>1 DEF NightlyInv, LatestSound
    <3>3. latest <= dated'[x]
      BY <1>6, <1>7, <3>1, <3>2
    <3> QED
      BY <1>2, <3>1, <3>2, <3>3 DEF LatestSound
  <2>2. CASE latest = 0
    BY <1>2, <2>2 DEF LatestSound
  <2> QED
    BY <2>1, <2>2
<1>11. SheetsSound'
  BY <1>2, SheetsUnchanged
<1> QED
  BY <1>8, <1>9, <1>10, <1>11 DEF NightlyInv

LEMMA LatestStep ==
    ASSUME NightlyInv, PublishLatest
    PROVE  NightlyInv'
<1>1. PICK n \in Nat : n = Len(nights)
  BY NightsListed
<1>2. /\ night.step = "DATED" /\ latest' = night.night
      /\ UNCHANGED <<calendar, nights, dated, page, sheet, vault>>
  BY DEF PublishLatest
<1>3. /\ night.night = n /\ n \in 1..n /\ nights[n].report # NoReport
      /\ dated[nights[n].date] = n
      /\ night = [step |-> night.step, night |-> night.night]
  BY <1>1, <1>2 DEF NightlyInv, NightTypes, UnderWay, HasReport, IsDated
<1>4. night' = [step |-> "PUBLISHED", night |-> n]
  BY <1>3 DEF PublishLatest, NightStep
<1>5. NightTypes'
  <2>1. latest \in 0..n /\ page.night \in 0..latest
    BY <1>1 DEF NightlyInv, NightTypes
  <2>2. latest' \in 0..n /\ page.night \in 0..latest'
    BY <1>2, <1>3, <2>1
  <2>3. night'.step \in Steps /\ night' = [step |-> night'.step, night |-> night'.night]
    BY <1>4 DEF Steps
  <2> QED
    BY <1>1, <1>2, <2>2, <2>3 DEF NightlyInv, NightTypes, NightSound, Reported, ScanOf
<1>6. UnderWay'
  <2>1. night'.step = "PUBLISHED" /\ night'.night = n /\ n > 0 /\ latest' = n
    BY <1>2, <1>3, <1>4
  <2>2. nights'[n].report # NoReport /\ dated'[nights'[n].date] = n /\ Len(nights') = n
    BY <1>1, <1>2, <1>3
  <2> QED
    BY <2>1, <2>2 DEF UnderWay, HasReport, IsDated, IsLatest
<1>7. LatestSound'
  BY <1>2, <1>3 DEF LatestSound
<1>8. SheetsSound'
  BY <1>2, SheetsUnchanged
<1> QED
  BY <1>5, <1>6, <1>7, <1>8 DEF NightlyInv

\* A step of the batch that publishes nothing: the page is opened or written,

\* or the batch dies.
LEMMA PageStep ==
    ASSUME NightlyInv, OpenPage \/ WritePage \/ CrashNightly
    PROVE  NightlyInv'
<1>1. PICK last : /\ night.night = last
                  /\ night = [step |-> night.step, night |-> last] /\ night.step \in Steps
  BY DEF NightlyInv, NightTypes
<1>2. PICK step : /\ night' = [step |-> step, night |-> last]
                  /\ \/ step = "IDLE"
                     \/ step \in {"DEMO", "DEMO WRITTEN", "PLOTLY"} /\ night.step \in IsLatest
  BY <1>1 DEF OpenPage, WritePage, CrashNightly, NightStep, IsLatest, IsDated, HasReport
<1>3. UNCHANGED <<calendar, nights, dated, latest, sheet, vault>>
  BY DEF OpenPage, WritePage, CrashNightly
<1>4. page'.night \in 0..latest /\ page' = [night |-> page'.night, whole |-> page'.whole]
  <2>1. /\ page.night \in 0..latest /\ latest \in Nat
        /\ page = [night |-> page.night, whole |-> page.whole]
    <3>1. PICK n \in Nat : n = Len(nights)
      BY NightsListed
    <3> QED
      BY <3>1 DEF NightlyInv, NightTypes
  <2>2. CASE WritePage
    <3>3. night.step \in {"DEMO", "PLOTLY"} /\ page'.night \in {last, latest}
      <4>1. PICK z \in {last, latest} : /\ page' = [night |-> z, whole |-> TRUE]
                                       /\ night.step \in {"DEMO", "PLOTLY"}
        BY <1>1, <2>2 DEF WritePage
      <4> QED
        BY <4>1
    <3>1. night.step \in IsLatest /\ page'.night \in {last, latest}
      BY <3>3 DEF IsLatest, IsDated, HasReport
    <3>2. last = latest
      BY <1>1, <3>1 DEF NightlyInv, UnderWay
    <3>4. page' = [night |-> page'.night, whole |-> page'.whole]
      BY <2>2 DEF WritePage
    <3> QED
      BY <2>1, <3>1, <3>2, <3>4
  <2>3. CASE OpenPage
    BY <2>1, <2>3 DEF OpenPage
  <2>4. CASE CrashNightly
    BY <2>1, <2>4 DEF CrashNightly
  <2> QED
    BY <2>2, <2>3, <2>4
<1>5. NightTypes'
  <2>1. night'.step \in Steps /\ night' = [step |-> night'.step, night |-> night'.night]
    BY <1>2 DEF Steps
  <2> QED
    BY <1>3, <1>4, <2>1 DEF NightlyInv, NightTypes, NightSound, Reported, ScanOf
<1>6. UnderWay'
  <2>1. CASE step = "IDLE"
    BY <1>2, <2>1 DEF UnderWay, HasReport, IsDated, IsLatest
  <2>2. CASE step # "IDLE"
    <3>1. night.step \in IsLatest /\ night.step \in IsDated /\ night.step \in HasReport
          /\ night.step # "IDLE" /\ step # "INGESTED"
      BY <1>2, <2>2 DEF HasReport, IsDated, IsLatest
    <3>2. /\ last = Len(nights) /\ last > 0 /\ nights[last].report # NoReport
          /\ dated[nights[last].date] = last /\ latest = last
      BY <1>1, <3>1 DEF NightlyInv, UnderWay
    <3>3. night'.step = step /\ night'.night = last
      BY <1>2
    <3> QED
      BY <1>3, <3>1, <3>2, <3>3 DEF UnderWay
  <2> QED
    BY <2>1, <2>2
<1>7. LatestSound'
  BY <1>3 DEF NightlyInv, LatestSound
<1>8. SheetsSound'
  BY <1>3, SheetsUnchanged
<1> QED
  BY <1>5, <1>6, <1>7, <1>8 DEF NightlyInv

LEMMA DayStep ==
    ASSUME NightlyInv, NextDay
    PROVE  NightlyInv'
<1>1. calendar' \in 1..MaxDate
  <2>1. MaxDate \in Nat /\ calendar \in 1..MaxDate /\ calendar < MaxDate
        /\ calendar' = calendar + 1
    BY EveningsAssumption DEF NextDay, NightlyInv, NightTypes
  <2> QED
    BY <2>1
<1>2. UNCHANGED <<night, nights, dated, latest, page, sheet, vault>>
  BY DEF NextDay
<1>3. NightTypes'
  BY <1>1, <1>2 DEF NightlyInv, NightTypes, NightSound, Reported, ScanOf
<1>4. UnderWay' /\ LatestSound'
  BY <1>2 DEF NightlyInv, UnderWay, LatestSound
<1>5. SheetsSound'
  BY <1>2, SheetsUnchanged
<1> QED
  BY <1>3, <1>4, <1>5 DEF NightlyInv

\* The GP's document holds the risk of the report it is bound to.
LEMMA LoadStep ==
    ASSUME NightlyInv, NEW s, LoadSheet(s)
    PROVE  NightlyInv'
<1>1. PICK n \in Nat : n = Len(nights)
  BY NightsListed
<1>2. /\ latest # 0 /\ UNCHANGED <<calendar, night, nights, dated, latest, page, vault>>
      /\ sheet' = [symbol |-> s, risk |-> nights[latest].report.scan[s], bound |-> latest]
  BY DEF LoadSheet, Report
<1>3. latest \in 1..n /\ nights[latest].report # NoReport
  BY <1>1, <1>2 DEF NightlyInv, NightTypes, LatestSound
<1>4. NightTypes'
  BY <1>2 DEF NightlyInv, NightTypes, NightSound, Reported, ScanOf
<1>5. UnderWay' /\ LatestSound'
  BY <1>2 DEF NightlyInv, UnderWay, LatestSound
<1>6. SheetsSound'
  <2>1. Bound(sheet')
    BY <1>1, <1>2, <1>3 DEF Bound
  <2> QED
    BY <1>2, <2>1 DEF NightlyInv, SheetsSound, Bound
<1> QED
  BY <1>4, <1>5, <1>6 DEF NightlyInv

LEMMA AppendStep ==
    ASSUME NightlyInv, AppendSheet
    PROVE  NightlyInv'
<1>1. /\ sheet # NoSheet /\ sheet' = NoSheet
      /\ UNCHANGED <<calendar, night, nights, dated, latest, page>>
  BY DEF AppendSheet
<1>2. PICK lines : lines = vault.sheets /\ lines \in Seq(Range(lines))
                   /\ vault = [sheets |-> lines, torn |-> vault.torn]
  BY DEF NightlyInv, NightTypes
<1>3. PICK new : /\ vault' = [sheets |-> new, torn |-> vault'.torn]
                 /\ new = lines \/ new = Append(lines, sheet)
  BY <1>2 DEF AppendSheet
<1>4. /\ new \in Seq(Range(new))
      /\ \A i \in DOMAIN new : Bound(new[i])
  <2>1. Bound(sheet) /\ \A i \in DOMAIN lines : Bound(lines[i])
    BY <1>1, <1>2 DEF NightlyInv, SheetsSound
  <2>2. CASE new = lines
    BY <1>2, <2>1, <2>2
  <2>3. CASE new = Append(lines, sheet)
    <3>1. lines \in Seq(Range(lines) \union {sheet})
      <4>1. lines \in Seq(Range(lines)) /\ Range(lines) \subseteq Range(lines) \union {sheet}
        BY <1>2
      <4> QED
        BY <4>1, SeqMonotonic
    <3>6. PICK S : lines \in Seq(S) /\ sheet \in S
      BY <3>1
    <3>2. PICK m \in Nat : lines \in Seq(S) /\ sheet \in S /\ m = Len(lines)
      BY <3>6, LenProperties
    <3>3. /\ new \in Seq(S) /\ Len(new) = m + 1
          /\ \A i \in 1..m : new[i] = lines[i]
          /\ new[m + 1] = sheet
      BY <2>3, <3>2, AppendProperties
    <3>4. DOMAIN lines = 1..m /\ DOMAIN new = 1..(m + 1) /\ new \in [1..(m + 1) -> S]
      BY <3>2, <3>3, LenProperties
    <3>5. \A i \in 1..(m + 1) : i \in 1..m \/ i = m + 1
      BY <3>2
    <3>7. new = [i \in 1..(m + 1) |-> new[i]] /\ m + 1 \in Nat
      BY <3>2, <3>4
    <3>8. new \in Seq(Range(new))
      BY <3>7, ListIsSeq
    <3>9. ASSUME NEW i \in 1..(m + 1) PROVE Bound(new[i])
      <4>1. CASE i \in 1..m
        <5>1. new[i] = lines[i] /\ Bound(lines[i])
          BY <2>1, <3>3, <3>4, <4>1
        <5> QED
          BY <5>1
      <4>2. CASE i = m + 1
        <5>1. new[i] = sheet
          BY <3>3, <4>2
        <5> QED
          BY <2>1, <5>1
      <4> QED
        BY <3>5, <4>1, <4>2
    <3> QED
      BY <3>4, <3>8, <3>9
  <2> QED
    BY <1>3, <2>2, <2>3
<1>5. NightTypes'
  <2>1. vault' = [sheets |-> vault'.sheets, torn |-> vault'.torn] /\ vault'.sheets = new
    BY <1>3
  <2> QED
    BY <1>1, <1>4, <2>1 DEF NightlyInv, NightTypes, NightSound, Reported, ScanOf
<1>6. UnderWay' /\ LatestSound'
  BY <1>1 DEF NightlyInv, UnderWay, LatestSound
<1>7. SheetsSound'
  <2>1. vault'.sheets = new
    BY <1>3
  <2> QED
    BY <1>1, <1>4, <2>1 DEF SheetsSound, Bound
<1> QED
  BY <1>5, <1>6, <1>7 DEF NightlyInv

\* What the desk reads in the morning is true of the evening it was built on:
\* every put that fits does by its own chain, a quality of OK or STALE is said
\* exactly when no watched section failed as a whole, the feeds show what was observed, and every recorded decision is
\* bound to the risk it was read with - wherever a batch died, for every
\* answer of the providers (overnight.py, build_am_report).
THEOREM NightlyTheorem == NightlySpec => []NightlyTrue
<1>1. NightlyInit => NightlyInv
  <2> SUFFICES ASSUME NightlyInit PROVE NightlyInv
    OBVIOUS
  <2>1. nights = <<>> /\ Len(nights) = 0 /\ nights \in Seq(Range(nights))
    <3>1. <<>> \in Seq(Range(<<>>)) /\ Len(<<>>) = 0
      BY EmptySeq
    <3> QED
      BY <3>1 DEF NightlyInit
  <2>2. NightTypes
    <3>1. calendar \in 1..MaxDate
      BY EveningsAssumption DEF NightlyInit
    <3>2. dated \in [1..MaxDate -> 0..0] /\ latest = 0
      BY DEF NightlyInit
    <3>3. night = [step |-> night.step, night |-> night.night] /\ night.step \in Steps
      BY DEF NightlyInit, Steps
    <3>4. page.night = 0 /\ page = [night |-> page.night, whole |-> page.whole]
          /\ vault = [sheets |-> vault.sheets, torn |-> vault.torn]
          /\ vault.sheets = nights
      BY DEF NightlyInit
    <3> QED
      BY <2>1, <3>1, <3>2, <3>3, <3>4 DEF NightTypes
  <2>3. UnderWay
    BY DEF NightlyInit, UnderWay, HasReport, IsDated, IsLatest
  <2>4. LatestSound /\ SheetsSound
    BY DEF NightlyInit, LatestSound, SheetsSound
  <2> QED
    BY <2>2, <2>3, <2>4 DEF NightlyInv
<1>2. NightlyInv /\ [NightlyNext]_nightlyVars => NightlyInv'
  <2> SUFFICES ASSUME NightlyInv, [NightlyNext]_nightlyVars PROVE NightlyInv'
    OBVIOUS
  <2>1. CASE \E e \in Evenings : StartNightly(e)
    BY <2>1, StartStep
  <2>2. CASE BuildNightly \/ PublishDated \/ PublishLatest
    BY <2>2, BuildStep, DatedStep, LatestStep
  <2>3. CASE OpenPage \/ WritePage \/ CrashNightly
    BY <2>3, PageStep
  <2>4. CASE NextDay
    BY <2>4, DayStep
  <2>5. CASE \E e \in Evenings : \E s \in DOMAIN e.puts :
                latest # 0 /\ s \in DOMAIN Report.scan /\ LoadSheet(s)
    BY <2>5, LoadStep
  <2>6. CASE AppendSheet
    BY <2>6, AppendStep
  <2>7. CASE UNCHANGED nightlyVars
    <3>1. UNCHANGED <<calendar, night, nights, dated, latest, page, sheet, vault>>
      BY <2>7 DEF nightlyVars
    <3>2. NightTypes'
      BY <3>1 DEF NightlyInv, NightTypes, NightSound, Reported, ScanOf
    <3>3. UnderWay' /\ LatestSound'
      BY <3>1 DEF NightlyInv, UnderWay, LatestSound
    <3>4. SheetsSound'
      BY <3>1, SheetsUnchanged
    <3> QED
      BY <3>2, <3>3, <3>4 DEF NightlyInv
  <2> QED
    BY <2>1, <2>2, <2>3, <2>4, <2>5, <2>6, <2>7 DEF NightlyNext
<1>3. NightlyInv => NightlyTrue
  BY NightlyIsTrue
<1> QED
  BY <1>1, <1>2, <1>3, PTL DEF NightlySpec

-----------------------------------------------------------------------------
(* The earnings experiment.                                                *)

\* A plan that is accepted is sealed over what it says, with the drawn arm.
LEMMA AcceptedPlan ==
    ASSUME NEW p, PlanReasons(p) = {}
    PROVE  /\ p.arm = DrawnArm[<<p.trial, p.salt>>] /\ p.assignedAt < p.releaseAt
           /\ p.seal = Payload(p.trial, p.salt, p.assignedAt, p.releaseAt)
<1>1. PICK rebuilt : rebuilt = Payload(p.trial, p.salt, p.assignedAt, p.releaseAt)
  OBVIOUS
<1>2. PICK sound : sound = (p.assignedAt < p.releaseAt)
  OBVIOUS
<1>3. PICK tests :
        /\ tests = [ EARNINGS_EXPERIMENT_POLICY_INVALID |-> ~p.current,
                     EARNINGS_EXPERIMENT_AUTHORITY_FORBIDDEN |-> p.authorized,
                     EARNINGS_EXPERIMENT_PLAN_INVALID |-> ~sound,
                     EARNINGS_EXPERIMENT_ARM_TAMPER |-> sound /\ p.arm # rebuilt.arm,
                     EARNINGS_EXPERIMENT_HASH_MISMATCH |-> sound /\ p.seal # rebuilt ]
        /\ \A r \in DOMAIN tests : ~ tests[r]
  BY <1>1, <1>2, Zenon DEF PlanReasons, Failing
<1>4. sound
  <2>1. "EARNINGS_EXPERIMENT_PLAN_INVALID" \in DOMAIN tests
    BY <1>3
  <2>2. tests["EARNINGS_EXPERIMENT_PLAN_INVALID"] = ~sound
    BY <1>3, Zenon
  <2> QED
    BY <1>3, <2>1, <2>2, Zenon
<1>5. p.arm = rebuilt.arm
  <2>1. "EARNINGS_EXPERIMENT_ARM_TAMPER" \in DOMAIN tests
    BY <1>3
  <2>2. tests["EARNINGS_EXPERIMENT_ARM_TAMPER"] = (sound /\ p.arm # rebuilt.arm)
    BY <1>3, Zenon
  <2> QED
    BY <1>3, <1>4, <2>1, <2>2, Zenon
<1>6. p.seal = rebuilt
  <2>1. "EARNINGS_EXPERIMENT_HASH_MISMATCH" \in DOMAIN tests
    BY <1>3
  <2>2. tests["EARNINGS_EXPERIMENT_HASH_MISMATCH"] = (sound /\ p.seal # rebuilt)
    BY <1>3, Zenon
  <2> QED
    BY <1>3, <1>4, <2>1, <2>2, Zenon
<1> QED
  <2>1. rebuilt.arm = DrawnArm[<<p.trial, p.salt>>]
    BY <1>1 DEF Payload
  <2>2. p.assignedAt < p.releaseAt
    BY <1>2, <1>4
  <2> QED
    BY <1>1, <1>5, <1>6, <2>1, <2>2

\* An outcome is credited to the arm that its plan's identity drew, of a plan

\* assigned before the release and scored after it, however the stored plans
\* were altered and sealed again (earnings_experiment.py,
\* score_earnings_experiment).
THEOREM CreditTheorem == ResearchSpec => []CreditedAsDrawn
<1>1. ResearchInit => CreditedAsDrawn
  BY DEF ResearchInit, CreditedAsDrawn
<1>2. CreditedAsDrawn /\ [ResearchNext]_researchVars => CreditedAsDrawn'
  <2> SUFFICES ASSUME CreditedAsDrawn, [ResearchNext]_researchVars
               PROVE  CreditedAsDrawn'
    OBVIOUS
  <2>1. CASE UNCHANGED outcomes
    BY <2>1 DEF CreditedAsDrawn
  <2>2. CASE \E p \in plans, costs \in {-1, 1} : ScoreExperiment(p, 2, costs)
    <3>1. PICK p, costs : ScoreExperiment(p, 2, costs)
      BY <2>2
    <3>2. PICK o : /\ o = [plan |-> p.seal, arm |-> p.arm, net |-> 2 - costs,
                           observedAt |-> reading]
                   /\ outcomes' = outcomes \union {o}
      BY <3>1 DEF ScoreExperiment
    <3>3. PlanReasons(p) = {} /\ p.releaseAt < reading
      BY <3>1 DEF ScoreExperiment
    <3>4. /\ o.arm = DrawnArm[<<o.plan.trial, o.plan.salt>>]
          /\ o.plan.assignedAt < o.plan.releaseAt /\ o.plan.releaseAt < o.observedAt
      <4>1. /\ p.arm = DrawnArm[<<p.trial, p.salt>>] /\ p.assignedAt < p.releaseAt
            /\ p.seal = Payload(p.trial, p.salt, p.assignedAt, p.releaseAt)
        BY <3>3, AcceptedPlan
      <4>2. /\ p.seal.trial = p.trial /\ p.seal.salt = p.salt
            /\ p.seal.assignedAt = p.assignedAt /\ p.seal.releaseAt = p.releaseAt
        BY <4>1 DEF Payload
      <4>3. o.plan = p.seal /\ o.arm = p.arm /\ o.observedAt = reading
        BY <3>2
      <4> QED
        BY <3>3, <4>1, <4>2, <4>3
    <3> QED
      BY <3>2, <3>4 DEF CreditedAsDrawn
  <2>3. CASE Receive \/ Decide \/ \E i \in DOMAIN decisions : Replay(i)
    BY <2>1, <2>3 DEF Receive, Decide, Replay
  <2>4. CASE \E trial \in Trials, salt \in Salts, at \in 0..ReleaseAt :
                AssignExperiment(trial, salt, at)
    BY <2>1, <2>4 DEF AssignExperiment
  <2>5. CASE \E p \in plans : AlterPlan(p)
    BY <2>1, <2>5 DEF AlterPlan
  <2>6. CASE UNCHANGED researchVars
    BY <2>1, <2>6 DEF researchVars
  <2> QED
    BY <2>2, <2>3, <2>4, <2>5, <2>6 DEF ResearchNext
<1> QED
  BY <1>1, <1>2, PTL DEF ResearchSpec

-----------------------------------------------------------------------------
(* The research desks: what is held of an item, by desk.                   *)
ReleaseRecords ==
    [same : BOOLEAN, aware : BOOLEAN, hashed : BOOLEAN, analysts : Int,
     epsConsensus : Int, revenueConsensus : Int, eps : Int, revenue : Int,
     asOf : Int, published : Int, received : Int]
LegRecords ==
    [side : {"BUY", "SELL"}, bid : Int, ask : Int, size : Int, quotedAt : Int, settles : Int,
     aware : BOOLEAN, hashed : BOOLEAN]
PackageRecords ==
    {p \in [legs : Seq(LegRecords), quantity : Nat, multiplier : Nat, terminal : Int,
            fees : Nat, slippage : Nat, financing : Nat, buffer : Nat \ {0}] :
        Len(p.legs) >= 2}
YearRecords ==
    [year : Int, dividend : Int, eps : Int, price : Int, buybacks : Int, issuance : Int,
     cap : Int, availableAt : Int, aware : BOOLEAN, hashed : BOOLEAN]
CapeRecords ==
    [same : BOOLEAN, aware : BOOLEAN, hashed : BOOLEAN, ratio : Int, observed : Int,
     received : Int]
CompanyRecords ==
    {c \in [history : Seq(YearRecords), cape : CapeRecords] : c.history # <<>>}
ContractRecords ==
    [volume : Int, margin : Int, physical : BOOLEAN, lastTradeKnown : BOOLEAN]
EventRecords ==
    [impact : Int, priced : Int, basis : Int, roll : Int, cost : Int, observed : Int,
     received : Int, aware : BOOLEAN, hashed : BOOLEAN]
FuturesRecords == [contract : ContractRecords, event : EventRecords]
NewsRecords ==
    [content : Int, url : Int, public : BOOLEAN, licensed : BOOLEAN, hashed : BOOLEAN,
     aware : BOOLEAN, published : Int, received : Int]

\* what is held at reading t; a release was published by then
HeldAt(k, t) ==
    CASE k = "earnings" -> {e \in ReleaseRecords : e.published <= t}
      [] k = "arbitrage" -> PackageRecords
      [] k = "dividend" -> CompanyRecords
      [] k = "cape" -> CompanyRecords
      [] k = "futures" -> FuturesRecords
      [] k = "news" -> NewsRecords

\* a version that a decision made at t cannot use
LateHistory(h, t) == \E i \in DOMAIN h : h[i].availableAt > t \/ ~h[i].aware
LateFor(k, x, t) ==
    CASE k = "earnings" -> ~x.aware \/ x.received > t \/ x.asOf >= x.published
      [] k = "arbitrage" -> TRUE
      [] k = "dividend" -> LateHistory(x.history, t)
      [] k = "cape" -> LateHistory(x.history, t) \/ ~x.cape.aware \/ x.cape.received > t
      [] k = "futures" -> ~x.event.aware \/ ~x.event.hashed \/ x.event.received > t
      [] k = "news" -> ~x.aware \/ x.received > t

\* the items held at reading t
Holding(k, items, t) ==
    /\ IsFiniteSet(DOMAIN items) /\ DOMAIN items \in SUBSET Int
    /\ \A i \in DOMAIN items : items[i] \in HeldAt(k, t)

\* A decision: made before, of what was held then, and whatever is held now of
\* an item is what it had of it or came too late for it.
DecisionSound(d) ==
    /\ d.at < reading /\ d.at \in Int /\ d.ranked = Universe(d.basis, d.at)
    /\ Holding(desk, d.basis, d.at)
    /\ \A i \in DOMAIN evidence :
           \/ i \in DOMAIN d.basis /\ Dated(evidence[i]) = Dated(d.basis[i])
           \/ LateFor(desk, evidence[i], d.at)
ResearchInv ==
    /\ desk \in DOMAIN Reference
    /\ reading \in Int /\ reading >= 3
    /\ decisions \in Seq(Range(decisions))
    /\ replayed.of # 0 =>
           /\ replayed.of \in DOMAIN decisions
           /\ replayed.ranked = Universe(evidence, decisions[replayed.of].at)
    /\ IF desk = "experiment" THEN decisions = <<>>
       ELSE /\ Holding(desk, evidence, reading)
            /\ \A i \in DOMAIN decisions : DecisionSound(decisions[i])

\* What is received next of an item comes too late for every decision made
\* before it was; a futures contract may change without its event.
LEMMA NewerRelease ==
    ASSUME desk = "earnings", NEW t \in Int, NEW at \in Int, at < t,
           NEW x \in HeldAt(desk, t), NEW y \in Newer(x, t)
    PROVE  y \in HeldAt(desk, t) /\ LateFor(desk, y, at)
<1>1. x \in ReleaseRecords /\ x.published <= t
  BY DEF HeldAt
<1>2. \/ y = [x EXCEPT !.eps = 5, !.revenue = 90, !.received = t]
      \/ y = [x EXCEPT !.eps = 13, !.revenue = 110, !.published = t, !.received = t]
      \/ y = [x EXCEPT !.epsConsensus = 5, !.asOf = t]
      \/ y = [x EXCEPT !.received = t, !.analysts = 2]
      \/ y = [x EXCEPT !.aware = FALSE]
  BY DEF Newer
<1>3. /\ y \in ReleaseRecords /\ y.published <= t
      /\ ~y.aware \/ y.received > at \/ y.asOf >= y.published
  <2>1. CASE y = [x EXCEPT !.eps = 5, !.revenue = 90, !.received = t]
    <3>1. y = [same |-> x.same, aware |-> x.aware, hashed |-> x.hashed,
               analysts |-> x.analysts, epsConsensus |-> x.epsConsensus,
               revenueConsensus |-> x.revenueConsensus, eps |-> 5,
               revenue |-> 90, asOf |-> x.asOf, published |-> x.published,
               received |-> t]
      BY <1>1, <2>1 DEF ReleaseRecords
    <3> QED
      BY <1>1, <3>1 DEF ReleaseRecords
  <2>2. CASE y = [x EXCEPT !.eps = 13, !.revenue = 110, !.published = t, !.received = t]
    <3>1. y = [same |-> x.same, aware |-> x.aware, hashed |-> x.hashed,
               analysts |-> x.analysts, epsConsensus |-> x.epsConsensus,
               revenueConsensus |-> x.revenueConsensus, eps |-> 13,
               revenue |-> 110, asOf |-> x.asOf, published |-> t, received |-> t]
      BY <1>1, <2>2 DEF ReleaseRecords
    <3> QED
      BY <1>1, <3>1 DEF ReleaseRecords
  <2>3. CASE y = [x EXCEPT !.epsConsensus = 5, !.asOf = t]
    <3>1. y = [same |-> x.same, aware |-> x.aware, hashed |-> x.hashed,
               analysts |-> x.analysts, epsConsensus |-> 5,
               revenueConsensus |-> x.revenueConsensus, eps |-> x.eps,
               revenue |-> x.revenue, asOf |-> t, published |-> x.published,
               received |-> x.received]
      BY <1>1, <2>3 DEF ReleaseRecords
    <3> QED
      BY <1>1, <3>1 DEF ReleaseRecords
  <2>4. CASE y = [x EXCEPT !.received = t, !.analysts = 2]
    <3>1. y = [same |-> x.same, aware |-> x.aware, hashed |-> x.hashed,
               analysts |-> 2, epsConsensus |-> x.epsConsensus,
               revenueConsensus |-> x.revenueConsensus, eps |-> x.eps,
               revenue |-> x.revenue, asOf |-> x.asOf, published |-> x.published,
               received |-> t]
      BY <1>1, <2>4 DEF ReleaseRecords
    <3> QED
      BY <1>1, <3>1 DEF ReleaseRecords
  <2>5. CASE y = [x EXCEPT !.aware = FALSE]
    <3>1. y \in ReleaseRecords /\ y.published = x.published
      BY <1>1, <2>5 DEF ReleaseRecords
    <3>2. ~y.aware
      BY <1>1, <2>5, Zenon DEF ReleaseRecords
    <3> QED
      BY <1>1, <3>1, <3>2
  <2> QED
    BY <1>2, <2>1, <2>2, <2>3, <2>4, <2>5
<1> QED
  BY <1>3 DEF HeldAt, LateFor

LEMMA NewerPackage ==
    ASSUME desk = "arbitrage", NEW t \in Int, NEW at \in Int, at < t,
           NEW x \in HeldAt(desk, t), NEW y \in Newer(x, t)
    PROVE  y \in HeldAt(desk, t) /\ LateFor(desk, y, at)
<1>1. x \in PackageRecords
  BY DEF HeldAt
<1>2. x.legs \in Seq(LegRecords) /\ {1, 2} \subseteq DOMAIN x.legs
  BY <1>1 DEF PackageRecords
<1>3. \E i \in {1, 2} : \E leg \in LegRecords : y = [x EXCEPT !.legs[i] = leg]
  <2>1. CASE \E i \in {1, 2} : \E q \in {6, 16} : \E w \in {0, 1} :
               y = [x EXCEPT !.legs[i] = [@ EXCEPT !.bid = q, !.ask = q + w, !.quotedAt = t]]
    <3>1. PICK i \in {1, 2} : \E q \in {6, 16} : \E w \in {0, 1} :
               y = [x EXCEPT !.legs[i] = [@ EXCEPT !.bid = q, !.ask = q + w, !.quotedAt = t]]
      BY <2>1
    <3>2. PICK q \in {6, 16} : \E w \in {0, 1} :
               y = [x EXCEPT !.legs[i] = [@ EXCEPT !.bid = q, !.ask = q + w, !.quotedAt = t]]
      BY <3>1
    <3>3. PICK w \in {0, 1} :
               y = [x EXCEPT !.legs[i] = [@ EXCEPT !.bid = q, !.ask = q + w, !.quotedAt = t]]
      BY <3>2
    <3>4. PICK leg : leg = [x.legs[i] EXCEPT !.bid = q, !.ask = q + w, !.quotedAt = t]
      OBVIOUS
    <3>5. x.legs[i] \in LegRecords
      BY <1>2
    <3>6. leg = [side |-> x.legs[i].side, bid |-> q, ask |-> q + w,
                 size |-> x.legs[i].size, quotedAt |-> t,
                 settles |-> x.legs[i].settles, aware |-> x.legs[i].aware,
                 hashed |-> x.legs[i].hashed]
      BY <3>4, <3>5 DEF LegRecords
    <3>7. leg \in LegRecords
      BY <3>5, <3>6 DEF LegRecords
    <3>8. y = [x EXCEPT !.legs[i] = leg]
      BY <3>3, <3>4
    <3> QED
      BY <3>7, <3>8
  <2>2. CASE y = [x EXCEPT !.legs[1].size = 0]
    <3>1. PICK leg : leg = [x.legs[1] EXCEPT !.size = 0]
      OBVIOUS
    <3>2. x.legs[1] \in LegRecords
      BY <1>2
    <3>3. leg \in LegRecords
      BY <3>1, <3>2 DEF LegRecords
    <3>4. y = [x EXCEPT !.legs[1] = leg]
      BY <2>2, <3>1
    <3> QED
      BY <3>3, <3>4
  <2>3. CASE y = [x EXCEPT !.legs[1].aware = FALSE]
    <3>1. PICK leg : leg = [x.legs[1] EXCEPT !.aware = FALSE]
      OBVIOUS
    <3>2. x.legs[1] \in LegRecords
      BY <1>2
    <3>3. leg \in LegRecords
      BY <3>1, <3>2 DEF LegRecords
    <3>4. y = [x EXCEPT !.legs[1] = leg]
      BY <2>3, <3>1
    <3> QED
      BY <3>3, <3>4
  <2> QED
    BY <2>1, <2>2, <2>3 DEF Newer
<1>4. PICK i \in {1, 2} : \E leg \in LegRecords : y = [x EXCEPT !.legs[i] = leg]
  BY <1>3
<1>5. PICK leg \in LegRecords : y = [x EXCEPT !.legs[i] = leg]
  BY <1>4
<1>6. PICK legs : legs = [x.legs EXCEPT ![i] = leg]
  OBVIOUS
<1>7. legs \in Seq(LegRecords) /\ Len(legs) = Len(x.legs)
  BY <1>2, <1>6
<1>8. y = [x EXCEPT !.legs = legs]
  BY <1>5, <1>6
<1>9. y \in PackageRecords
  BY <1>1, <1>7, <1>8 DEF PackageRecords
<1> QED
  BY <1>9 DEF HeldAt, LateFor

LEMMA NewerNews ==
    ASSUME desk = "news", NEW t \in Int, NEW at \in Int, at < t,
           NEW x \in HeldAt(desk, t), NEW y \in Newer(x, t)
    PROVE  y \in HeldAt(desk, t) /\ LateFor(desk, y, at)
<1>1. x \in NewsRecords
  BY DEF HeldAt
<1>2. \/ \E c \in {1, 2} : \E u \in {1, 2} :
            y = [x EXCEPT !.content = c, !.url = u, !.published = t - 1, !.received = t]
      \/ y = [x EXCEPT !.received = t, !.public = FALSE]
  BY DEF Newer
<1>3. y \in NewsRecords /\ y.received = t
  <2>1. ASSUME NEW c \in {1, 2}, NEW u \in {1, 2},
               y = [x EXCEPT !.content = c, !.url = u, !.published = t - 1, !.received = t]
        PROVE  y \in NewsRecords /\ y.received = t
    <3>1. y = [content |-> c, url |-> u, public |-> x.public,
               licensed |-> x.licensed, hashed |-> x.hashed, aware |-> x.aware,
               published |-> t - 1, received |-> t]
      BY <1>1, <2>1 DEF NewsRecords
    <3> QED
      BY <1>1, <3>1 DEF NewsRecords
  <2>2. CASE y = [x EXCEPT !.received = t, !.public = FALSE]
    <3>1. y = [content |-> x.content, url |-> x.url, public |-> FALSE,
               licensed |-> x.licensed, hashed |-> x.hashed, aware |-> x.aware,
               published |-> x.published, received |-> t]
      BY <1>1, <2>2 DEF NewsRecords
    <3> QED
      BY <1>1, <3>1 DEF NewsRecords
  <2> QED
    BY <1>2, <2>1, <2>2
<1> QED
  BY <1>3 DEF HeldAt, LateFor

LEMMA NewerFutures ==
    ASSUME desk = "futures", NEW t \in Int, NEW at \in Int, at < t,
           NEW x \in HeldAt(desk, t), NEW y \in Newer(x, t)
    PROVE  y \in HeldAt(desk, t) /\ (LateFor(desk, y, at) \/ Dated(y) = Dated(x))
<1>1. x \in FuturesRecords
  BY DEF HeldAt
<1>2. x.event \in EventRecords /\ x.contract \in ContractRecords
  BY <1>1 DEF FuturesRecords
<1>3. \/ \E v \in {12, 40} :
            y = [x EXCEPT !.event = [@ EXCEPT !.impact = v, !.observed = t - 1, !.received = t]]
      \/ \E v \in {500, 5000} : y = [x EXCEPT !.contract.volume = v]
      \/ y = [x EXCEPT !.event.hashed = FALSE]
  BY DEF Newer
<1>4. CASE \E v \in {12, 40} :
            y = [x EXCEPT !.event = [@ EXCEPT !.impact = v, !.observed = t - 1, !.received = t]]
  <2>1. PICK v \in {12, 40} :
            y = [x EXCEPT !.event = [@ EXCEPT !.impact = v, !.observed = t - 1, !.received = t]]
    BY <1>4
  <2>2. PICK e : e = [x.event EXCEPT !.impact = v, !.observed = t - 1, !.received = t]
    OBVIOUS
  <2>3. e \in EventRecords /\ e.received = t
    <3>1. e = [impact |-> v, priced |-> x.event.priced, basis |-> x.event.basis,
               roll |-> x.event.roll, cost |-> x.event.cost, observed |-> t - 1,
               received |-> t, aware |-> x.event.aware,
               hashed |-> x.event.hashed]
      BY <1>2, <2>2 DEF EventRecords
    <3> QED
      BY <1>2, <3>1 DEF EventRecords
  <2>4. y = [x EXCEPT !.event = e]
    BY <2>1, <2>2
  <2>5. y \in FuturesRecords /\ y.event.received = t
    BY <1>1, <2>3, <2>4 DEF FuturesRecords
  <2> QED
    BY <2>5 DEF HeldAt, LateFor
<1>5. CASE \E v \in {500, 5000} : y = [x EXCEPT !.contract.volume = v]
  <2>1. PICK v \in {500, 5000} : y = [x EXCEPT !.contract.volume = v]
    BY <1>5
  <2> DEFINE c == [x.contract EXCEPT !.volume = v]
  <2>2. c \in ContractRecords
    BY <1>2 DEF ContractRecords
  <2>3. y = [x EXCEPT !.contract = c]
    BY <2>1
  <2> HIDE DEF c
  <2>5. y \in FuturesRecords /\ y.event = x.event
    BY <1>1, <2>2, <2>3 DEF FuturesRecords
  <2> QED
    BY <2>5 DEF HeldAt, Dated
<1>6. CASE y = [x EXCEPT !.event.hashed = FALSE]
  <2>1. PICK e : e = [x.event EXCEPT !.hashed = FALSE]
    OBVIOUS
  <2>2. e \in EventRecords /\ ~e.hashed
    BY <1>2, <2>1 DEF EventRecords
  <2>3. y = [x EXCEPT !.event = e]
    BY <1>6, <2>1
  <2>4. y \in FuturesRecords /\ y.event = e
    BY <1>1, <2>2, <2>3 DEF FuturesRecords
  <2> QED
    BY <2>2, <2>4 DEF HeldAt, LateFor
<1> QED
  BY <1>3, <1>4, <1>5, <1>6

\* One year of a history restated at t.
Restates(k, h, i, v, t) ==
    k = [h EXCEPT ![i] = [h[i] EXCEPT !.dividend = v, !.availableAt = t]]
LEMMA RestatedYear ==
    ASSUME NEW h \in Seq(YearRecords), h # <<>>, NEW i \in DOMAIN h, NEW v \in Int,
           NEW t \in Int, NEW at \in Int, at < t,
           NEW k, Restates(k, h, i, v, t)
    PROVE  k \in Seq(YearRecords) /\ k # <<>> /\ LateHistory(k, at)
<1>1. PICK year : year = [h[i] EXCEPT !.dividend = v, !.availableAt = t]
  OBVIOUS
<1>2. year \in YearRecords /\ year.availableAt = t
  <2>1. h[i] \in YearRecords
    OBVIOUS
  <2>2. year = [year |-> h[i].year, dividend |-> v, eps |-> h[i].eps,
                price |-> h[i].price, buybacks |-> h[i].buybacks,
                issuance |-> h[i].issuance, cap |-> h[i].cap, availableAt |-> t,
                aware |-> h[i].aware, hashed |-> h[i].hashed]
    BY <1>1, <2>1 DEF YearRecords
  <2> QED
    BY <2>1, <2>2 DEF YearRecords
<1>3. k = [h EXCEPT ![i] = year]
  BY <1>1 DEF Restates
<1>4. k \in Seq(YearRecords) /\ DOMAIN k = DOMAIN h /\ k[i] = year
  BY <1>2, <1>3
<1>5. k # <<>>
  BY <1>4
<1>6. LateHistory(k, at)
  BY <1>2, <1>4 DEF LateHistory
<1> QED
  BY <1>4, <1>5, <1>6

LEMMA NewerDividend ==
    ASSUME desk = "dividend", NEW t \in Int, NEW at \in Int, at < t,
           NEW x \in HeldAt(desk, t), NEW y \in Newer(x, t)
    PROVE  y \in HeldAt(desk, t) /\ LateFor(desk, y, at)
<1>1. x \in CompanyRecords
  BY DEF HeldAt
<1>2. x.history \in Seq(YearRecords) /\ x.history # <<>>
  BY <1>1 DEF CompanyRecords
<1>3. PICK k \in Seq(YearRecords) :
        y = [x EXCEPT !.history = k] /\ k # <<>> /\ LateHistory(k, at)
  <2>1. CASE \E i \in DOMAIN x.history : \E v \in {0, 3} : y = Restated(x, i, v, t)
    <3>1. PICK i \in DOMAIN x.history : \E v \in {0, 3} : y = Restated(x, i, v, t)
      BY <2>1
    <3>2. PICK v \in {0, 3} :
               y = [x EXCEPT !.history[i] = [@ EXCEPT !.dividend = v, !.availableAt = t]]
      BY <3>1 DEF Restated
    <3>3. PICK h : h = x.history
      OBVIOUS
    <3>4. PICK k : k = [h EXCEPT ![i] = [h[i] EXCEPT !.dividend = v, !.availableAt = t]]
      OBVIOUS
    <3>5. k \in Seq(YearRecords) /\ k # <<>> /\ LateHistory(k, at)
      <4>1. v \in Int /\ h \in Seq(YearRecords) /\ h # <<>> /\ i \in DOMAIN h
        BY <1>2, <3>3
      <4>2. Restates(k, h, i, v, t)
        BY <3>4 DEF Restates
      <4> QED
        BY <4>1, <4>2, RestatedYear
    <3>6. y = [x EXCEPT !.history = k]
      BY <3>2, <3>3, <3>4
    <3> QED
      BY <3>5, <3>6
  <2>2. CASE y = [x EXCEPT !.history = Append(Tail(@), YearAfter(Last(@), t))]
    <3>1. PICK last : last = Last(x.history)
      OBVIOUS
    <3>2. last \in YearRecords
      BY <1>2, <3>1 DEF Last
    <3>3. PICK year : year = YearAfter(last, t)
      OBVIOUS
    <3>4. year \in YearRecords /\ year.availableAt = t
      <4>1. year = [year |-> last.year + 1, dividend |-> last.dividend, eps |-> last.eps,
                    price |-> last.price, buybacks |-> last.buybacks,
                    issuance |-> last.issuance, cap |-> last.cap, availableAt |-> t,
                    aware |-> last.aware, hashed |-> last.hashed]
        BY <3>2, <3>3 DEF YearRecords, YearAfter
      <4> QED
        BY <3>2, <4>1 DEF YearRecords
    <3>5. PICK rest : rest = Tail(x.history)
      OBVIOUS
    <3>6. rest \in Seq(YearRecords)
      BY <1>2, <3>5
    <3>7. PICK k : k = Append(rest, year)
      OBVIOUS
    <3>8. /\ k \in Seq(YearRecords) /\ Len(k) = Len(rest) + 1 /\ k[Len(rest) + 1] = year
          /\ Len(rest) \in Nat
      BY <3>4, <3>6, <3>7
    <3>9. Len(rest) + 1 \in DOMAIN k
      BY <3>8
    <3>10. k # <<>> /\ LateHistory(k, at)
      BY <3>4, <3>8, <3>9 DEF LateHistory
    <3>11. y = [x EXCEPT !.history = k]
      BY <2>2, <3>1, <3>3, <3>5, <3>7
    <3> QED
      BY <3>8, <3>10, <3>11
  <2>3. \/ \E i \in DOMAIN x.history : \E v \in {0, 3} : y = Restated(x, i, v, t)
        \/ y = [x EXCEPT !.history = Append(Tail(@), YearAfter(Last(@), t))]
    <3>1. y \in {Restated(x, i, v, t) : i \in DOMAIN x.history, v \in {0, 3}}
                 \union {[x EXCEPT !.history = Append(Tail(@), YearAfter(Last(@), t))]}
      BY DEF Newer
    <3> QED
      BY <3>1
  <2> QED
    BY <2>1, <2>2, <2>3
<1>4. y \in CompanyRecords /\ y.history = k
  BY <1>1, <1>3 DEF CompanyRecords
<1> QED
  BY <1>3, <1>4 DEF HeldAt, LateFor

LEMMA NewerCape ==
    ASSUME desk = "cape", NEW t \in Int, NEW at \in Int, at < t,
           NEW x \in HeldAt(desk, t), NEW y \in Newer(x, t)
    PROVE  y \in HeldAt(desk, t) /\ LateFor(desk, y, at)
<1>1. x \in CompanyRecords
  BY DEF HeldAt
<1>2. /\ x.history \in Seq(YearRecords) /\ x.history # <<>>
      /\ x.cape \in CapeRecords /\ 1 \in DOMAIN x.history
  BY <1>1 DEF CompanyRecords
<1>3. CASE \E r \in {1, 5} :
        y = [x EXCEPT !.cape = [@ EXCEPT !.ratio = r, !.observed = t - 1, !.received = t]]
  <2>1. PICK r \in {1, 5} :
          y = [x EXCEPT !.cape = [@ EXCEPT !.ratio = r, !.observed = t - 1, !.received = t]]
    BY <1>3
  <2>2. PICK c : c = [x.cape EXCEPT !.ratio = r, !.observed = t - 1, !.received = t]
    OBVIOUS
  <2>3. c \in CapeRecords /\ c.received = t
    <3>1. c = [same |-> x.cape.same, aware |-> x.cape.aware,
               hashed |-> x.cape.hashed, ratio |-> r, observed |-> t - 1,
               received |-> t]
      BY <1>2, <2>2 DEF CapeRecords
    <3> QED
      BY <1>2, <3>1 DEF CapeRecords
  <2>4. y = [x EXCEPT !.cape = c]
    BY <2>1, <2>2
  <2>5. y \in CompanyRecords /\ y.cape = c
    BY <1>1, <2>3, <2>4 DEF CompanyRecords
  <2> QED
    BY <2>3, <2>5 DEF HeldAt, LateFor
<1>4. CASE y = Restated(x, 1, 1, t)
  <2>1. PICK h : h = x.history
    OBVIOUS
  <2>2. PICK i : i = 1
    OBVIOUS
  <2>3. PICK k : k = [h EXCEPT ![i] = [h[i] EXCEPT !.dividend = i, !.availableAt = t]]
    OBVIOUS
  <2>4. k \in Seq(YearRecords) /\ k # <<>> /\ LateHistory(k, at)
    <3>1. i \in Int /\ h \in Seq(YearRecords) /\ h # <<>> /\ i \in DOMAIN h
      BY <1>2, <2>1, <2>2
    <3>2. Restates(k, h, i, i, t)
      BY <2>3 DEF Restates
    <3> QED
      BY <3>1, <3>2, RestatedYear
  <2>5. y = [x EXCEPT !.history = k]
    BY <1>4, <2>1, <2>2, <2>3 DEF Restated
  <2>6. y \in CompanyRecords /\ y.history = k
    BY <1>1, <2>4, <2>5 DEF CompanyRecords
  <2> QED
    BY <2>4, <2>6 DEF HeldAt, LateFor
<1> QED
  BY <1>3, <1>4 DEF Newer

LEMMA NewerIsLate ==
    ASSUME desk \in DOMAIN Reference, desk # "experiment",
           NEW t \in Int, NEW at \in Int, at < t,
           NEW x \in HeldAt(desk, t), NEW y \in Newer(x, t)
    PROVE  y \in HeldAt(desk, t) /\ (LateFor(desk, y, at) \/ (desk = "futures" /\ Dated(y) = Dated(x)))
<1>1. desk \in {"earnings", "arbitrage", "dividend", "cape", "futures", "news"}
  BY DEF Reference
<1> QED
  BY <1>1, NewerRelease, NewerPackage, NewerNews, NewerFutures, NewerDividend, NewerCape

LEMMA HeldStays ==
    ASSUME desk \in DOMAIN Reference, desk # "experiment",
           NEW t \in Int, NEW u \in Int, t <= u, NEW x \in HeldAt(desk, t)
    PROVE  x \in HeldAt(desk, u)
<1>1. desk \in {"earnings", "arbitrage", "dividend", "cape", "futures", "news"}
  BY DEF Reference
<1>2. CASE desk = "earnings"
  <2>1. x \in ReleaseRecords /\ x.published <= t
    BY <1>2 DEF HeldAt
  <2>2. x.published \in Int
    BY <2>1 DEF ReleaseRecords
  <2> QED
    BY <1>2, <2>1, <2>2 DEF HeldAt
<1>3. CASE desk # "earnings"
  BY <1>1, <1>3 DEF HeldAt
<1> QED
  BY <1>2, <1>3

\* The fixtures of the overnight evaluation are held at reading 3.
LEMMA ReferenceHeld ==
    ASSUME desk \in DOMAIN Reference, desk # "experiment"
    PROVE  /\ \A i \in DOMAIN Reference[desk] : Reference[desk][i] \in HeldAt(desk, 3)
           /\ ToSet(Reference[desk]) = {Reference[desk][i] : i \in DOMAIN Reference[desk]}
<1> SUFFICES \A i \in DOMAIN Reference[desk] : Reference[desk][i] \in HeldAt(desk, 3)
  BY DEF ToSet
<1>1. desk \in {"earnings", "arbitrage", "dividend", "cape", "futures", "news"}
  BY DEF Reference
<1>2. CASE desk = "earnings"
  <2>1. Reference[desk] = ReferenceEvents
    BY <1>2 DEF Reference
  <2>2. \A i \in DOMAIN ReferenceEvents : ReferenceEvents[i] \in ReleaseRecords
                                          /\ ReferenceEvents[i].published = 1
    <3>1. DOMAIN ReferenceEvents = {1, 2, 3}
      BY DEF ReferenceEvents
    <3>2. /\ ReferenceEvents[1] = ReleaseOf(8, 11, 102)
          /\ ReferenceEvents[2] = ReleaseOf(7, 11, 99)
          /\ ReferenceEvents[3] = ReleaseOf(10, 12, 105)
      BY DEF ReferenceEvents
    <3>3. /\ ReleaseOf(8, 11, 102) \in ReleaseRecords
          /\ ReleaseOf(7, 11, 99) \in ReleaseRecords
          /\ ReleaseOf(10, 12, 105) \in ReleaseRecords
      BY DEF ReleaseOf, ReleaseRecords
    <3>4. /\ ReleaseOf(8, 11, 102).published = 1
          /\ ReleaseOf(7, 11, 99).published = 1
          /\ ReleaseOf(10, 12, 105).published = 1
      BY DEF ReleaseOf
    <3> QED
      BY <3>1, <3>2, <3>3, <3>4
  <2> QED
    BY <1>2, <2>1, <2>2 DEF HeldAt
<1>3. CASE desk = "arbitrage"
  <2>1. Reference[desk] = ReferencePackages
    BY <1>3 DEF Reference
  <2>2. \A side \in {"BUY", "SELL"}, a, b \in Int : Quote(side, a, b) \in LegRecords
    BY DEF Quote, LegRecords
  <2>3. \A c \in Int : PackageOf(c) \in PackageRecords
    <3> SUFFICES ASSUME NEW c \in Int PROVE PackageOf(c) \in PackageRecords
      OBVIOUS
    <3>1. PICK legs : legs = <<Quote("BUY", 19, 20), Quote("SELL", 15, 16),
                               Quote("SELL", 12, 13), Quote("BUY", 7, 8)>>
      OBVIOUS
    <3>2. legs \in Seq(LegRecords) /\ Len(legs) >= 2
      BY <2>2, <3>1
    <3>3. PackageOf(c) = [legs |-> legs, quantity |-> 1, multiplier |-> 10, terminal |-> c,
                          fees |-> 5, slippage |-> 5, financing |-> 5, buffer |-> 20]
      BY <3>1 DEF PackageOf
    <3> QED
      BY <3>2, <3>3 DEF PackageRecords
  <2>4. \A i \in DOMAIN ReferencePackages : ReferencePackages[i] \in PackageRecords
    BY <2>3 DEF ReferencePackages
  <2> QED
    BY <1>3, <2>1, <2>4 DEF HeldAt
<1>4. CASE desk \in {"dividend", "cape"}
  <2>1. Reference[desk] = ReferenceCompanies
    BY <1>4 DEF Reference
  <2>2. \A a, b \in Int : PayoutsOf(a, b) \in Seq(YearRecords) /\ PayoutsOf(a, b) # <<>>
    <3> SUFFICES ASSUME NEW a \in Int, NEW b \in Int
                 PROVE  PayoutsOf(a, b) \in Seq(YearRecords) /\ PayoutsOf(a, b) # <<>>
      OBVIOUS
    <3>1. \A i \in 1..HistoryYears :
            [year |-> i, dividend |-> a + i, eps |-> b, price |-> 10, buybacks |-> 4,
             issuance |-> 1, cap |-> 10, availableAt |-> 0, aware |-> TRUE, hashed |-> TRUE]
                \in YearRecords
      BY DEF YearRecords
    <3>2. HistoryYears \in Nat /\ 1 \in 1..HistoryYears
      BY ResearchConstants
    <3>3. PayoutsOf(a, b) \in [1..HistoryYears -> YearRecords]
      BY <3>1 DEF PayoutsOf
    <3>4. DOMAIN PayoutsOf(a, b) # {}
      BY <3>2, <3>3
    <3> QED
      BY <3>2, <3>3, <3>4
  <2>3. \A a, b, c \in Int : CompanyOf(a, b, c) \in CompanyRecords
    <3> SUFFICES ASSUME NEW a \in Int, NEW b \in Int, NEW c \in Int
                 PROVE  CompanyOf(a, b, c) \in CompanyRecords
      OBVIOUS
    <3>1. [same |-> TRUE, aware |-> TRUE, hashed |-> TRUE, ratio |-> c,
           observed |-> 2, received |-> 3] \in CapeRecords
      BY DEF CapeRecords
    <3> QED
      BY <2>2, <3>1 DEF CompanyOf, CompanyRecords
  <2>4. \A i \in DOMAIN ReferenceCompanies : ReferenceCompanies[i] \in CompanyRecords
    BY <2>3 DEF ReferenceCompanies
  <2> QED
    BY <1>4, <2>1, <2>4 DEF HeldAt
<1>5. CASE desk = "futures"
  <2>1. Reference[desk] = ReferenceFutures
    BY <1>5 DEF Reference
  <2>2. \A a, b, c, d, e, f \in Int : EventOf(a, b, c, d, e, f) \in FuturesRecords
    <3> SUFFICES ASSUME NEW a \in Int, NEW b \in Int, NEW c \in Int, NEW d \in Int,
                        NEW e \in Int, NEW f \in Int
                 PROVE  EventOf(a, b, c, d, e, f) \in FuturesRecords
      OBVIOUS
    <3>1. [volume |-> 5000, margin |-> 5000, physical |-> FALSE, lastTradeKnown |-> TRUE]
              \in ContractRecords
      BY DEF ContractRecords
    <3>2. [impact |-> a, priced |-> b, basis |-> c, roll |-> d, cost |-> e, observed |-> f,
           received |-> 2, aware |-> TRUE, hashed |-> TRUE] \in EventRecords
      BY DEF EventRecords
    <3> QED
      BY <3>1, <3>2 DEF EventOf, FuturesRecords
  <2>3. \A i \in DOMAIN ReferenceFutures : ReferenceFutures[i] \in FuturesRecords
    <3>1. DOMAIN ReferenceFutures = {1, 2}
      BY DEF ReferenceFutures
    <3>2. /\ ReferenceFutures[1] = EventOf(20, 8, 2, 1, 1, 1)
          /\ ReferenceFutures[2] = EventOf(28, 24, 2, 1, 1, 0)
      BY DEF ReferenceFutures
    <3>3. /\ EventOf(20, 8, 2, 1, 1, 1) \in FuturesRecords
          /\ EventOf(28, 24, 2, 1, 1, 0) \in FuturesRecords
      BY <2>2
    <3> QED
      BY <3>1, <3>2, <3>3
  <2> QED
    BY <1>5, <2>1, <2>3 DEF HeldAt
<1>6. CASE desk = "news"
  <2>1. Reference[desk] = ReferenceNews
    BY <1>6 DEF Reference
  <2>2. \A i \in DOMAIN ReferenceNews : ReferenceNews[i] \in NewsRecords
    <3>1. DOMAIN ReferenceNews = {1}
      BY DEF ReferenceNews
    <3>2. ReferenceNews[1] =
            [content |-> 1, url |-> 1, public |-> TRUE, licensed |-> TRUE, hashed |-> TRUE,
             aware |-> TRUE, published |-> 0, received |-> 1]
      BY DEF ReferenceNews
    <3>3. ReferenceNews[1] \in NewsRecords
      BY <3>2 DEF NewsRecords
    <3> QED
      BY <3>1, <3>3
  <2> QED
    BY <1>6, <2>1, <2>2 DEF HeldAt
<1> QED
  BY <1>1, <1>2, <1>3, <1>4, <1>5, <1>6

LEMMA ReferenceListed ==
    ASSUME desk \in DOMAIN Reference, desk # "experiment"
    PROVE  Holding(desk, Reference[desk], 3)
<1>1. desk \in {"earnings", "arbitrage", "dividend", "cape", "futures", "news"}
  BY DEF Reference
<1>2. PICK n \in Nat : DOMAIN Reference[desk] = 1..n
  <2>1. CASE desk = "earnings"
    BY <2>1 DEF Reference, ReferenceEvents
  <2>2. CASE desk = "arbitrage"
    BY <2>2 DEF Reference, ReferencePackages
  <2>3. CASE desk \in {"dividend", "cape"}
    <3>1. Reference[desk] = ReferenceCompanies
      BY <2>3 DEF Reference
    <3>2. DOMAIN ReferenceCompanies = 1..2
      BY DEF ReferenceCompanies
    <3> QED
      BY <3>1, <3>2
  <2>4. CASE desk = "futures"
    BY <2>4 DEF Reference, ReferenceFutures
  <2>5. CASE desk = "news"
    BY <2>5 DEF Reference, ReferenceNews
  <2> QED
    BY <1>1, <2>1, <2>2, <2>3, <2>4, <2>5
<1>3. IsFiniteSet(1..n) /\ 1..n \in SUBSET Int
  BY FS_Interval
<1> QED
  BY <1>2, <1>3, ReferenceHeld DEF Holding

-----------------------------------------------------------------------------
(* What a desk ranks.                                                      *)

\* A test that holds is a reason.
LEMMA FailingIs == ASSUME NEW tests, NEW r \in DOMAIN tests, tests[r] PROVE Failing(tests) # {}
BY DEF Failing

\* What came too late is rejected for it.
LEMMA LateRelease ==
    ASSUME NEW e, NEW t, ~e.aware \/ e.received > t \/ e.asOf >= e.published
    PROVE  EarningsReasons(e, t) # {}
<1>1. PICK late : late = (e.received > t)
  OBVIOUS
<1>2. PICK tests :
        /\ tests = [
             EARNINGS_TIMESTAMP_NOT_TIMEZONE_AWARE |-> ~e.aware,
             CONSENSUS_NOT_POINT_IN_TIME |-> e.aware /\ e.asOf >= e.published,
             RELEASE_RECEIVED_BEFORE_PUBLICATION |-> e.aware /\ e.received < e.published,
             DECISION_PRECEDES_RELEASE_RECEIPT |-> e.aware /\ t < e.received,
             EARNINGS_IDENTITY_MISMATCH |-> ~e.same,
             CONSENSUS_BREADTH_INSUFFICIENT |-> e.analysts < 3,
             CONSENSUS_DENOMINATOR_ZERO |-> 0 \in {e.epsConsensus, e.revenueConsensus},
             EARNINGS_SOURCE_HASH_INVALID |-> ~e.hashed]
        /\ EarningsReasons(e, t) = Failing(tests)
  BY Zenon DEF EarningsReasons
<1>3. CASE ~e.aware
  <2>1. /\ "EARNINGS_TIMESTAMP_NOT_TIMEZONE_AWARE" \in DOMAIN tests
        /\ tests["EARNINGS_TIMESTAMP_NOT_TIMEZONE_AWARE"]
    BY <1>2, <1>3, Zenon
  <2> QED
    BY <1>2, <2>1, FailingIs
<1>4. CASE e.aware /\ t < e.received
  <2>1. /\ "DECISION_PRECEDES_RELEASE_RECEIPT" \in DOMAIN tests
        /\ tests["DECISION_PRECEDES_RELEASE_RECEIPT"]
    BY <1>2, <1>4, Zenon
  <2> QED
    BY <1>2, <2>1, FailingIs
<1>5. CASE e.aware /\ e.asOf >= e.published
  <2>1. /\ "CONSENSUS_NOT_POINT_IN_TIME" \in DOMAIN tests
        /\ tests["CONSENSUS_NOT_POINT_IN_TIME"]
    BY <1>2, <1>5, Zenon
  <2> QED
    BY <1>2, <2>1, FailingIs
<1> QED
  BY <1>3, <1>4, <1>5

LEMMA LateYear ==
    ASSUME NEW h, NEW t, LateHistory(h, t)
    PROVE  CompanyReasons(h, t) # {}
<1>1. PICK aware : aware = \A i \in DOMAIN h : h[i].aware
  BY Zenon
<1>2. PICK tests :
        /\ tests = [
             TEN_YEAR_HISTORY_REQUIRED |-> Len(h) # HistoryYears,
             FISCAL_YEAR_HISTORY_NOT_CONSECUTIVE |->
                 h # <<>> /\ Years(h) # Min(Years(h)) .. Min(Years(h)) + Len(h) - 1,
             DUPLICATE_FISCAL_YEAR |-> Cardinality(Years(h)) # Len(h),
             PAYOUT_TIMESTAMP_NOT_TIMEZONE_AWARE |-> \E i \in DOMAIN h : ~h[i].aware,
             PAYOUT_LOOKAHEAD_VIOLATION |->
                 (\A i \in DOMAIN h : h[i].aware) /\ Lookahead(h, t),
             PAYOUT_SOURCE_HASH_INVALID |-> \E i \in DOMAIN h : ~h[i].hashed,
             PAYOUT_INPUT_INVALID |->
                 \E i \in DOMAIN h : h[i].dividend < 0 \/ h[i].price <= 0 \/ h[i].cap <= 0
                                     \/ h[i].buybacks < 0 \/ h[i].issuance < 0,
             PAYOUT_COVERAGE_UNAVAILABLE |-> \E i \in DOMAIN h : h[i].eps <= 0]
        /\ HistoryReasons(h, t) = Failing(tests)
  BY Zenon DEF HistoryReasons
<1>3. HistoryReasons(h, t) # {}
  <2>1. CASE \E i \in DOMAIN h : ~h[i].aware
    <3>1. /\ "PAYOUT_TIMESTAMP_NOT_TIMEZONE_AWARE" \in DOMAIN tests
          /\ tests["PAYOUT_TIMESTAMP_NOT_TIMEZONE_AWARE"]
      BY <1>2, <2>1, Zenon
    <3> QED
      BY <1>2, <3>1, FailingIs
  <2>2. CASE \A i \in DOMAIN h : h[i].aware
    <3>1. Lookahead(h, t)
      BY <2>2 DEF LateHistory, Lookahead
    <3>2. /\ "PAYOUT_LOOKAHEAD_VIOLATION" \in DOMAIN tests
          /\ tests["PAYOUT_LOOKAHEAD_VIOLATION"]
      BY <1>2, <2>2, <3>1, Zenon
    <3> QED
      BY <1>2, <3>2, FailingIs
  <2> QED
    BY <2>1, <2>2
<1> QED
  BY <1>3 DEF CompanyReasons

LEMMA LateCape ==
    ASSUME NEW c, NEW t, ~c.aware \/ c.received > t
    PROVE  CapeReasons(c, t) # {}
<1>1. PICK tests :
        /\ tests = [
             CAPE_SYMBOL_MISMATCH |-> ~c.same,
             CAPE_TIMESTAMP_NOT_TIMEZONE_AWARE |-> ~c.aware,
             CAPE_RECEIVED_BEFORE_OBSERVED |-> c.aware /\ c.received < c.observed,
             CAPE_LOOKAHEAD_VIOLATION |-> c.aware /\ c.received > t,
             CAPE_RATIO_INVALID |-> c.ratio <= 0,
             CAPE_SOURCE_HASH_INVALID |-> ~c.hashed]
        /\ CapeReasons(c, t) = Failing(tests)
  BY Zenon DEF CapeReasons
<1>2. CASE ~c.aware
  <2>1. /\ "CAPE_TIMESTAMP_NOT_TIMEZONE_AWARE" \in DOMAIN tests
        /\ tests["CAPE_TIMESTAMP_NOT_TIMEZONE_AWARE"]
    BY <1>1, <1>2, Zenon
  <2> QED
    BY <1>1, <2>1, FailingIs
<1>3. CASE c.aware /\ c.received > t
  <2>1. /\ "CAPE_LOOKAHEAD_VIOLATION" \in DOMAIN tests
        /\ tests["CAPE_LOOKAHEAD_VIOLATION"]
    BY <1>1, <1>3, Zenon
  <2> QED
    BY <1>1, <2>1, FailingIs
<1> QED
  BY <1>2, <1>3

LEMMA LateEvent ==
    ASSUME NEW contract, NEW v, NEW t, ~v.aware \/ ~v.hashed \/ v.received > t
    PROVE  FuturesReasons(contract, v, t) # {}
<1>1. PICK tests :
        /\ tests = [
             EVENT_TIMESTAMP_NOT_TIMEZONE_AWARE |-> ~v.aware,
             EVENT_RECEIVED_BEFORE_OBSERVED |-> v.aware /\ v.received < v.observed,
             EVENT_NOT_POINT_IN_TIME |-> v.aware /\ t < v.received,
             FUTURES_LIQUIDITY_INSUFFICIENT |-> contract.volume < 1000,
             FUTURES_MARGIN_INVALID |-> contract.margin <= 0,
             PHYSICAL_DELIVERY_DISABLED |-> contract.physical,
             LAST_TRADE_DATE_UNKNOWN |-> ~contract.lastTradeKnown,
             FUTURES_EVENT_SOURCE_HASH_INVALID |-> ~v.hashed,
             FUTURES_COST_INPUT_INVALID |-> \E c \in {v.basis, v.roll, v.cost} : c < 0,
             EVENT_EDGE_BELOW_SAFETY_BUFFER |-> Residual(v) < 6]
        /\ FuturesReasons(contract, v, t) = Failing(tests)
  BY DEF FuturesReasons
<1>2. CASE ~v.aware
  <2>1. /\ "EVENT_TIMESTAMP_NOT_TIMEZONE_AWARE" \in DOMAIN tests
        /\ tests["EVENT_TIMESTAMP_NOT_TIMEZONE_AWARE"]
    BY <1>1, <1>2, Zenon
  <2> QED
    BY <1>1, <2>1, FailingIs
<1>3. CASE ~v.hashed
  <2>1. /\ "FUTURES_EVENT_SOURCE_HASH_INVALID" \in DOMAIN tests
        /\ tests["FUTURES_EVENT_SOURCE_HASH_INVALID"]
    BY <1>1, <1>3, Zenon
  <2> QED
    BY <1>1, <2>1, FailingIs
<1>4. CASE v.aware /\ t < v.received
  <2>1. /\ "EVENT_NOT_POINT_IN_TIME" \in DOMAIN tests
        /\ tests["EVENT_NOT_POINT_IN_TIME"]
    BY <1>1, <1>4, Zenon
  <2> QED
    BY <1>1, <2>1, FailingIs
<1> QED
  BY <1>2, <1>3, <1>4

LEMMA LateNews ==
    ASSUME NEW items, NEW i, NEW t, ~items[i].aware \/ items[i].received > t
    PROVE  NewsReasons(items, i, t) # {}
<1>1. PICK n : n = items[i]
  OBVIOUS
<1>2. PICK copied : copied = \E j \in DOMAIN items : j < i /\ (\/ items[j].content = n.content
                                                                \/ items[j].url = n.url)
  BY Zenon
<1>3. PICK tests :
        /\ tests = [
             NEWS_NOT_PUBLICLY_AVAILABLE |-> ~n.public,
             NEWS_PROVENANCE_OR_LICENSE_MISSING |-> ~n.licensed,
             NEWS_CONTENT_HASH_INVALID |-> ~n.hashed,
             NEWS_TIMESTAMP_NOT_TIMEZONE_AWARE |-> ~n.aware,
             NEWS_RECEIVED_BEFORE_PUBLICATION |-> n.aware /\ n.received < n.published,
             NEWS_POINT_IN_TIME_VIOLATION |-> n.aware /\ n.received > t,
             NEWS_STALE |-> n.aware /\ n.received <= t /\ t - n.received > MaxAge,
             NEWS_DUPLICATE_EVIDENCE |-> copied]
        /\ NewsReasons(items, i, t) = Failing(tests)
  BY <1>1, <1>2, ZenonT(30) DEF NewsReasons
<1>4. CASE ~n.aware
  <2>1. /\ "NEWS_TIMESTAMP_NOT_TIMEZONE_AWARE" \in DOMAIN tests
        /\ tests["NEWS_TIMESTAMP_NOT_TIMEZONE_AWARE"]
    BY <1>3, <1>4, Zenon
  <2> QED
    BY <1>3, <2>1, FailingIs
<1>5. CASE n.aware /\ n.received > t
  <2>1. /\ "NEWS_POINT_IN_TIME_VIOLATION" \in DOMAIN tests
        /\ tests["NEWS_POINT_IN_TIME_VIOLATION"]
    BY <1>3, <1>5, Zenon
  <2> QED
    BY <1>3, <2>1, FailingIs
<1> QED
  BY <1>1, <1>4, <1>5

\* What a desk ranks at t of the items it is given.
Admitted(items, t) ==
    CASE desk = "earnings" ->
           {i \in DOMAIN items : EarningsReasons(items[i], t) = {} /\ Aligned(items[i])}
      [] desk = "arbitrage" -> {i \in DOMAIN items : PackageReasons(items[i]) = {}}
      [] desk = "dividend" -> {i \in DOMAIN items : CompanyReasons(items[i].history, t) = {}}
      [] desk = "cape" ->
           {i \in {j \in DOMAIN items : CompanyReasons(items[j].history, t) = {}} :
                CapeReasons(items[i].cape, t) = {}}
      [] desk = "futures" ->
           {i \in DOMAIN items : FuturesReasons(items[i].contract, items[i].event, t) = {}}
      [] desk = "news" -> {i \in DOMAIN items : NewsReasons(items, i, t) = {}}

LEMMA RankedAre ==
    ASSUME desk \in DOMAIN Reference, desk # "experiment", NEW items, NEW t
    PROVE  DOMAIN Universe(items, t) = Admitted(items, t)
<1>1. desk \in {"earnings", "arbitrage", "dividend", "cape", "futures", "news"}
  BY DEF Reference
<1>2. DOMAIN DividendUniverse(items, t)
          = {i \in DOMAIN items : CompanyReasons(items[i].history, t) = {}}
  BY DEF DividendUniverse, Places
<1>3. CASE desk = "earnings"
  BY <1>3 DEF Universe, EarningsUniverse, RankedBy, Places, Admitted
<1>4. CASE desk = "arbitrage"
  BY <1>4 DEF Universe, ArbitrageUniverse, RankedBy, Places, Admitted
<1>5. CASE desk = "dividend"
  BY <1>2, <1>5 DEF Universe, Admitted
<1>6. CASE desk = "cape"
  BY <1>2, <1>6 DEF Universe, CapeUniverse, RankedBy, Places, Admitted
<1>7. CASE desk = "futures"
  BY <1>7 DEF Universe, FuturesUniverse, RankedBy, Places, Admitted
<1>8. CASE desk = "news"
  BY <1>8 DEF Universe, NewsBatch, Places, Admitted
<1> QED
  BY <1>1, <1>3, <1>4, <1>5, <1>6, <1>7, <1>8

\* What is ranked at t did not come too late for it.
LEMMA RankedInTime ==
    ASSUME desk \in DOMAIN Reference, desk \notin {"experiment", "arbitrage"}, NEW items, NEW t,
           NEW i \in Admitted(items, t)
    PROVE  i \in DOMAIN items /\ ~LateFor(desk, items[i], t)
<1>1. desk \in {"earnings", "dividend", "cape", "futures", "news"}
  BY DEF Reference
<1>2. CASE desk = "earnings"
  <2>1. i \in DOMAIN items /\ EarningsReasons(items[i], t) = {}
    BY <1>2 DEF Admitted
  <2> QED
    BY <1>2, <2>1, LateRelease DEF LateFor
<1>3. CASE desk = "dividend"
  <2>1. i \in DOMAIN items /\ CompanyReasons(items[i].history, t) = {}
    BY <1>3 DEF Admitted
  <2> QED
    BY <1>3, <2>1, LateYear DEF LateFor
<1>4. CASE desk = "cape"
  <2>1. /\ i \in DOMAIN items /\ CompanyReasons(items[i].history, t) = {}
        /\ CapeReasons(items[i].cape, t) = {}
    BY <1>4 DEF Admitted
  <2> QED
    BY <1>4, <2>1, LateYear, LateCape DEF LateFor
<1>5. CASE desk = "futures"
  <2>1. i \in DOMAIN items /\ FuturesReasons(items[i].contract, items[i].event, t) = {}
    BY <1>5 DEF Admitted
  <2> QED
    BY <1>5, <2>1, LateEvent DEF LateFor
<1>6. CASE desk = "news"
  <2>1. i \in DOMAIN items /\ NewsReasons(items, i, t) = {}
    BY <1>6 DEF Admitted
  <2> QED
    BY <1>6, <2>1, LateNews DEF LateFor
<1> QED
  BY <1>1, <1>2, <1>3, <1>4, <1>5, <1>6

\* An item of the evidence, given a decision.
Stands(x, i, d) ==
    \/ i \in DOMAIN d.basis /\ Dated(x) = Dated(d.basis[i])
    \/ LateFor(desk, x, d.at)

LEMMA DecisionStays ==
    ASSUME NEW d, d.at \in Int, d.at < reading, reading \in Int, reading' \in Int,
           reading <= reading', desk' = desk, d.ranked = Universe(d.basis, d.at),
           Holding(desk, d.basis, d.at),
           \A i \in DOMAIN evidence' : Stands(evidence'[i], i, d)
    PROVE  DecisionSound(d)'
<1>1. d.at < reading'
  OBVIOUS
<1>2. d.ranked = Universe(d.basis, d.at)'
  BY DEF Universe
<1>3. ASSUME NEW i \in DOMAIN evidence'
      PROVE  \/ i \in DOMAIN d.basis /\ Dated(evidence[i])' = Dated(d.basis[i])'
             \/ LateFor(desk, evidence[i], d.at)'
  <2>1. PICK e : e = evidence'[i]
    OBVIOUS
  <2>2. Stands(e, i, d)
    BY <2>1
  <2> QED
    BY <2>1, <2>2 DEF Stands, Dated
<1>4. Holding(desk, d.basis, d.at)'
  OBVIOUS
<1> QED
  BY <1>1, <1>2, <1>3, <1>4 DEF DecisionSound

LEMMA ResearchStarts == ResearchInit => ResearchInv
<1> SUFFICES ASSUME ResearchInit PROVE ResearchInv
  OBVIOUS
<1>1. /\ desk \in DOMAIN Reference /\ evidence = Reference[desk] /\ reading = 3
      /\ decisions = <<>> /\ replayed.of = 0
  BY DEF ResearchInit
<1>2. decisions \in Seq(Range(decisions))
  BY <1>1 DEF Range
<1>3. ASSUME desk # "experiment"
      PROVE  /\ Holding(desk, evidence, reading)
             /\ \A i \in DOMAIN decisions : DecisionSound(decisions[i])
  BY <1>1, <1>3, ReferenceListed
<1> QED
  BY <1>1, <1>2, <1>3 DEF ResearchInv

LEMMA ReceiveStep == ResearchInv /\ Receive => ResearchInv'
<1> SUFFICES ASSUME ResearchInv, Receive PROVE ResearchInv'
  OBVIOUS
<1>1. /\ desk' = desk /\ desk # "experiment" /\ desk \in DOMAIN Reference
      /\ reading \in Int /\ reading >= 3 /\ reading' = reading + 1
      /\ decisions' = decisions /\ replayed'.of = 0
      /\ decisions \in Seq(Range(decisions))
  BY DEF Receive, Elapse, ResearchInv
<1>2. /\ \A i \in DOMAIN evidence : evidence[i] \in HeldAt(desk, reading)
      /\ IsFiniteSet(DOMAIN evidence) /\ DOMAIN evidence \in SUBSET Int
  BY <1>1 DEF ResearchInv, Holding
<1>3. PICK i \in 0 .. Len(Reference[desk]) :
         \E x \in ToSet(Reference[desk]) \union Range(evidence) : \E y \in Newer(x, reading) :
           /\ IF i \in DOMAIN evidence THEN x = evidence[i] ELSE Dated(x) # Dated(y)
           /\ evidence' = [j \in DOMAIN evidence \union {i} |-> IF j = i THEN y ELSE evidence[j]]
  BY Zenon DEF Receive
<1>4. PICK x \in ToSet(Reference[desk]) \union Range(evidence) : \E y \in Newer(x, reading) :
         /\ IF i \in DOMAIN evidence THEN x = evidence[i] ELSE Dated(x) # Dated(y)
         /\ evidence' = [j \in DOMAIN evidence \union {i} |-> IF j = i THEN y ELSE evidence[j]]
  BY <1>3
<1>5. PICK y \in Newer(x, reading) :
         /\ IF i \in DOMAIN evidence THEN x = evidence[i] ELSE Dated(x) # Dated(y)
         /\ evidence' = [j \in DOMAIN evidence \union {i} |-> IF j = i THEN y ELSE evidence[j]]
  BY <1>4
<1>6. x \in HeldAt(desk, reading)
  <2>1. CASE x \in ToSet(Reference[desk])
    <3>1. x \in HeldAt(desk, 3)
      BY <1>1, <2>1, ReferenceHeld
    <3>2. 3 \in Int /\ 3 <= reading
      BY <1>1
    <3> QED
      BY <1>1, <3>1, <3>2, HeldStays
  <2>2. CASE x \in Range(evidence)
    BY <1>2, <2>2 DEF Range
  <2> QED
    BY <1>4, <2>1, <2>2
<1>7. Holding(desk, evidence', reading')
  <2>1. y \in HeldAt(desk, reading)
    <3>1. reading - 1 \in Int /\ reading - 1 < reading
      BY <1>1
    <3> QED
      BY <1>1, <1>6, <3>1, NewerIsLate
  <2>2. \A j \in DOMAIN evidence' : evidence'[j] \in HeldAt(desk, reading)
    BY <1>2, <1>5, <2>1
  <2>3. reading' \in Int /\ reading <= reading'
    BY <1>1
  <2>4. \A j \in DOMAIN evidence' : evidence'[j] \in HeldAt(desk, reading')
    BY <1>1, <2>2, <2>3, HeldStays
  <2>5. DOMAIN evidence' = DOMAIN evidence \union {i} /\ i \in Int
    BY <1>5
  <2>6. IsFiniteSet(DOMAIN evidence')
    BY <1>2, <2>5, FS_AddElement
  <2> QED
    BY <1>2, <2>4, <2>5, <2>6 DEF Holding
<1>8. ASSUME NEW n \in DOMAIN decisions
      PROVE  DecisionSound(decisions[n])'
  <2>1. PICK d : d = decisions[n]
    OBVIOUS
  <2>2. /\ d.at < reading /\ d.at \in Int /\ d.ranked = Universe(d.basis, d.at)
        /\ Holding(desk, d.basis, d.at)
        /\ \A j \in DOMAIN evidence : Stands(evidence[j], j, d)
    BY <1>1, <2>1 DEF ResearchInv, DecisionSound, Stands
  <2>3. LateFor(desk, y, d.at) \/ (desk = "futures" /\ Dated(y) = Dated(x))
    BY <1>1, <1>6, <2>2, NewerIsLate
  <2>4. Stands(y, i, d)
    <3>1. CASE i \in DOMAIN evidence
      <4>1. x = evidence[i]
        BY <1>5, <3>1
      <4>2. Stands(x, i, d)
        BY <2>2, <3>1, <4>1
      <4>3. desk = "futures" /\ Dated(y) = Dated(x) =>
                (LateFor(desk, x, d.at) <=> LateFor(desk, y, d.at))
        BY DEF LateFor, Dated
      <4> QED
        BY <2>3, <4>2, <4>3 DEF Stands
    <3>2. CASE i \notin DOMAIN evidence
      BY <1>5, <2>3, <3>2 DEF Stands
    <3> QED
      BY <3>1, <3>2
  <2>5. \A j \in DOMAIN evidence' : Stands(evidence'[j], j, d)
    BY <1>5, <2>2, <2>4
  <2>6. reading' \in Int /\ reading <= reading'
    BY <1>1
  <2>7. DecisionSound(d)'
    BY <1>1, <2>2, <2>5, <2>6, DecisionStays
  <2>8. decisions'[n] = d
    BY <1>1, <2>1
  <2> QED
    BY <2>7, <2>8 DEF DecisionSound
<1> QED
  BY <1>1, <1>7, <1>8 DEF ResearchInv

LEMMA DecideStep == ResearchInv /\ Decide => ResearchInv'
<1> SUFFICES ASSUME ResearchInv, Decide PROVE ResearchInv'
  OBVIOUS
<1>1. /\ desk' = desk /\ desk # "experiment" /\ desk \in DOMAIN Reference
      /\ reading \in Int /\ reading >= 3 /\ reading' = reading + 1
      /\ evidence' = evidence /\ replayed'.of = 0
  BY DEF Decide, Elapse, ResearchInv
<1>2. PICK new : /\ new = [at |-> reading, basis |-> evidence,
                          ranked |-> Universe(evidence, reading)]
                 /\ decisions' = Append(decisions, new)
  BY DEF Decide
<1>3. PICK D : decisions \in Seq(D) /\ new \in D
  <2>1. PICK D : D = Range(decisions) \union {new}
    OBVIOUS
  <2>2. decisions \in Seq(Range(decisions)) /\ Range(decisions) \subseteq D
    BY <2>1 DEF ResearchInv
  <2>3. decisions \in Seq(D)
    BY <2>2
  <2> QED
    BY <2>1, <2>3
<1>4. /\ decisions' \in Seq(D) /\ DOMAIN decisions' = DOMAIN decisions \union {Len(decisions) + 1}
      /\ \A n \in DOMAIN decisions : decisions'[n] = decisions[n]
      /\ decisions'[Len(decisions) + 1] = new
  BY <1>2, <1>3
<1>5. decisions' \in Seq(Range(decisions'))
  <2>1. PICK m \in Nat : decisions' \in [1..m -> D]
    <3>1. decisions' \in Seq(D)
      BY <1>4
    <3> QED
      BY <3>1, LenProperties
  <2>2. decisions' \in [1..m -> Range(decisions')]
    BY <2>1 DEF Range
  <2> QED
    BY <2>2, SeqDef
<1>6. reading' \in Int /\ reading <= reading' /\ reading < reading'
  BY <1>1
<1>7. Holding(desk, evidence, reading) /\ Holding(desk, evidence', reading')
  <2>1. Holding(desk, evidence, reading)
    BY <1>1 DEF ResearchInv
  <2>2. \A j \in DOMAIN evidence : evidence[j] \in HeldAt(desk, reading')
    BY <1>1, <1>6, <2>1, HeldStays DEF Holding
  <2> QED
    BY <1>1, <2>1, <2>2 DEF Holding
<1>8. ASSUME NEW n \in DOMAIN decisions'
      PROVE  DecisionSound(decisions[n])'
  <2>1. CASE n \in DOMAIN decisions
    <3>1. PICK d : d = decisions[n]
      OBVIOUS
    <3>2. /\ d.at < reading /\ d.at \in Int /\ d.ranked = Universe(d.basis, d.at)
          /\ Holding(desk, d.basis, d.at)
          /\ \A j \in DOMAIN evidence : Stands(evidence[j], j, d)
      BY <1>1, <2>1, <3>1 DEF ResearchInv, DecisionSound, Stands
    <3>3. \A j \in DOMAIN evidence' : Stands(evidence'[j], j, d)
      BY <1>1, <3>2
    <3>4. DecisionSound(d)'
      BY <1>1, <1>6, <3>2, <3>3, DecisionStays
    <3>5. decisions'[n] = d
      BY <1>4, <2>1, <3>1
    <3> QED
      BY <3>4, <3>5 DEF DecisionSound
  <2>2. CASE n = Len(decisions) + 1
    <3>1. decisions'[n] = new
      BY <1>4, <2>2
    <3>2. new.at < reading' /\ new.at \in Int
      BY <1>1, <1>2, <1>6
    <3>3. new.ranked = Universe(new.basis, new.at)'
      <4>1. new.ranked = Universe(new.basis, new.at)
        BY <1>2
      <4> QED
        BY <1>1, <4>1 DEF Universe
    <3>4. \A j \in DOMAIN evidence' :
              j \in DOMAIN new.basis /\ Dated(evidence[j])' = Dated(new.basis[j])'
      <4>1. new.basis = evidence /\ evidence' = evidence
        BY <1>1, <1>2
      <4> QED
        BY <4>1 DEF Dated
    <3>5. Holding(desk, new.basis, new.at)'
      BY <1>1, <1>2, <1>7
    <3>6. DecisionSound(new)'
      BY <3>2, <3>3, <3>4, <3>5 DEF DecisionSound
    <3> QED
      BY <3>1, <3>6 DEF DecisionSound
  <2> QED
    BY <1>4, <2>1, <2>2
<1> QED
  BY <1>1, <1>5, <1>6, <1>7, <1>8 DEF ResearchInv

LEMMA ReplayStep ==
    ASSUME ResearchInv, NEW i \in DOMAIN decisions, Replay(i)
    PROVE  ResearchInv'
<1>1. /\ desk' = desk /\ reading' = reading /\ evidence' = evidence /\ decisions' = decisions
      /\ replayed'.of = i /\ replayed'.ranked = Universe(evidence, decisions[i].at)
  BY DEF Replay
<1>2. /\ replayed'.of \in DOMAIN decisions'
      /\ replayed'.ranked = Universe(evidence, decisions[replayed.of].at)'
  <2>1. PICK t : t = decisions[i].at
    OBVIOUS
  <2>2. decisions'[replayed'.of].at = t
    BY <1>1, <2>1
  <2>3. PICK ranked : ranked = Universe(evidence, t)
    OBVIOUS
  <2>4. Universe(evidence, t)' = ranked
    BY <1>1, <2>3 DEF Universe
  <2>5. replayed'.ranked = Universe(evidence, t)'
    BY <1>1, <2>1, <2>3, <2>4
  <2> QED
    BY <1>1, <2>2, <2>5 DEF Universe
<1>3. (IF desk = "experiment" THEN decisions = <<>>
       ELSE /\ Holding(desk, evidence, reading)
            /\ \A n \in DOMAIN decisions : DecisionSound(decisions[n]))'
  <2>1. IF desk = "experiment" THEN decisions = <<>>
        ELSE /\ Holding(desk, evidence, reading)
             /\ \A n \in DOMAIN decisions : DecisionSound(decisions[n])
    BY DEF ResearchInv
  <2> QED
    BY <1>1, <2>1 DEF DecisionSound, Universe, Dated
<1> QED
  BY <1>1, <1>2, <1>3 DEF ResearchInv

\* An experiment makes no decision, and leaves the evidence as it is.
LEMMA ExperimentStep ==
    ASSUME ResearchInv, desk' = desk, UNCHANGED <<evidence, decisions, replayed>>,
           (desk = "experiment" /\ reading' = reading + 1) \/ UNCHANGED reading
    PROVE  ResearchInv'
<1>1. CASE desk = "experiment"
  <2>1. decisions = <<>> /\ decisions' = <<>> /\ desk' = "experiment" /\ desk \in DOMAIN Reference
    BY <1>1 DEF ResearchInv
  <2>2. replayed'.of = 0
    BY <2>1 DEF ResearchInv
  <2>3. reading' \in Int /\ reading' >= 3
    BY DEF ResearchInv
  <2>4. decisions' \in Seq(Range(decisions'))
    BY <2>1 DEF Range
  <2> QED
    BY <2>1, <2>2, <2>3, <2>4 DEF ResearchInv
<1>2. CASE desk # "experiment" /\ UNCHANGED reading
  BY <1>2 DEF ResearchInv, DecisionSound, Universe, Dated
<1> QED
  BY <1>1, <1>2

LEMMA ResearchStep == ResearchInv /\ [ResearchNext]_researchVars => ResearchInv'
<1> SUFFICES ASSUME ResearchInv, [ResearchNext]_researchVars PROVE ResearchInv'
  OBVIOUS
<1>1. CASE Receive
  BY <1>1, ReceiveStep
<1>2. CASE Decide
  BY <1>2, DecideStep
<1>3. CASE \E i \in DOMAIN decisions : Replay(i)
  BY <1>3, ReplayStep
<1>4. CASE \E trial \in Trials, salt \in Salts, at \in 0..ReleaseAt :
              AssignExperiment(trial, salt, at)
  BY <1>4, ExperimentStep DEF AssignExperiment, Elapse
<1>5. CASE \E p \in plans : AlterPlan(p)
  BY <1>5, ExperimentStep DEF AlterPlan, Elapse
<1>6. CASE \E p \in plans, costs \in {-1, 1} : ScoreExperiment(p, 2, costs)
  BY <1>6, ExperimentStep DEF ScoreExperiment, Elapse
<1>7. CASE UNCHANGED researchVars
  BY <1>7, ExperimentStep DEF researchVars
<1> QED
  BY <1>1, <1>2, <1>3, <1>4, <1>5, <1>6, <1>7 DEF ResearchNext

-----------------------------------------------------------------------------
(* The legs of a package, the last one taken first.                        *)
LEMMA MaxIs ==
    ASSUME NEW n \in Nat, NEW s \in SUBSET (1..n), s # {}
    PROVE  Max(s) \in s
<1> DEFINE m == [x \in s |-> n - x]
<1>1. m \in [s -> Nat]
  OBVIOUS
<1>2. PICK x \in s : \A y \in s : m[x] <= m[y]
  <2> HIDE DEF m
  <2> QED
    BY <1>1, LeastMeasure
<1>3. \A y \in s : x >= y
  BY <1>2
<1> QED
  BY <1>3 DEF Max

\* What one leg pays.
LegPays(p, i) ==
    p.multiplier * p.quantity * (IF p.legs[i].side = "SELL" THEN p.legs[i].bid ELSE -p.legs[i].ask)

LEMMA MirrorIs ==
    ASSUME NEW p \in PackageRecords
    PROVE  /\ Mirror(p).terminal = -p.terminal /\ Mirror(p).buffer = p.buffer
           /\ Mirror(p).multiplier = p.multiplier /\ Mirror(p).quantity = p.quantity
           /\ Mirror(p).fees = p.fees /\ Mirror(p).slippage = p.slippage
           /\ Mirror(p).financing = p.financing
           /\ DOMAIN Mirror(p).legs = DOMAIN p.legs
           /\ \A i \in DOMAIN p.legs : Mirror(p).legs[i] = OtherSide(p.legs[i])
<1>1. PICK legs : legs = [i \in DOMAIN p.legs |-> OtherSide(p.legs[i])]
  OBVIOUS
<1>2. Mirror(p) = [p EXCEPT !.terminal = -@, !.legs = legs]
  BY <1>1 DEF Mirror
<1>3. Mirror(p) = [legs |-> legs, quantity |-> p.quantity, multiplier |-> p.multiplier,
                   terminal |-> -p.terminal, fees |-> p.fees, slippage |-> p.slippage,
                   financing |-> p.financing, buffer |-> p.buffer]
  BY <1>2 DEF PackageRecords
<1> QED
  BY <1>1, <1>3

LEMMA LegPaysIs ==
    ASSUME NEW p \in PackageRecords, NEW i \in DOMAIN p.legs
    PROVE  /\ LegPays(p, i) \in Int /\ LegPays(Mirror(p), i) \in Int
           /\ p.legs[i].ask >= p.legs[i].bid => LegPays(p, i) + LegPays(Mirror(p), i) <= 0
<1>1. /\ p.legs[i] \in LegRecords /\ p.multiplier \in Nat /\ p.quantity \in Nat
  BY DEF PackageRecords
<1>2. PICK bid \in Int, ask \in Int : bid = p.legs[i].bid /\ ask = p.legs[i].ask
  BY <1>1 DEF LegRecords
<1>3. PICK u \in Nat : u = p.multiplier * p.quantity
  BY <1>1
<1>4. LegPays(p, i) = u * (IF p.legs[i].side = "SELL" THEN bid ELSE -ask)
  BY <1>2, <1>3 DEF LegPays
<1>5. /\ Mirror(p).multiplier = p.multiplier /\ Mirror(p).quantity = p.quantity
      /\ Mirror(p).legs[i].bid = bid /\ Mirror(p).legs[i].ask = ask
      /\ Mirror(p).legs[i].side = IF p.legs[i].side = "BUY" THEN "SELL" ELSE "BUY"
  <2>1. /\ Mirror(p).multiplier = p.multiplier /\ Mirror(p).quantity = p.quantity
        /\ Mirror(p).legs[i] = OtherSide(p.legs[i])
    BY MirrorIs
  <2> QED
    BY <1>1, <1>2, <2>1 DEF LegRecords, OtherSide
<1>6. LegPays(Mirror(p), i) = u * (IF p.legs[i].side = "SELL" THEN -ask ELSE bid)
  <2>1. p.legs[i].side \in {"BUY", "SELL"}
    BY <1>1 DEF LegRecords
  <2> QED
    BY <1>3, <1>5, <2>1 DEF LegPays
<1>7. u * bid \in Int /\ u * ask \in Int /\ u * (-ask) = -(u * ask)
  OBVIOUS
<1>8. ask >= bid => u * bid <= u * ask
  BY Growing
<1>9. CASE p.legs[i].side = "SELL"
  BY <1>2, <1>4, <1>6, <1>7, <1>8, <1>9
<1>10. CASE p.legs[i].side # "SELL"
  BY <1>2, <1>4, <1>6, <1>7, <1>8, <1>10
<1> QED
  BY <1>9, <1>10

\* The cash flow of a package: the sum over its legs.
Cash(h, p) ==
    h = [s \in SUBSET DOMAIN p.legs |->
            IF s = {} THEN 0 ELSE h[s \ {Max(s)}] + LegPays(p, Max(s))]

LEMMA CashflowIs ==
    ASSUME NEW p, NEW n \in Nat, DOMAIN p.legs = 1..n, \A i \in 1..n : LegPays(p, i) \in Int
    PROVE  \E h : Cash(h, p) /\ EntryCashflow(p) = h[1..n]
<1> DEFINE S == 1..n
           pick == [s \in SUBSET S |-> Max(s)]
           plus == [v \in Int \X Int |-> v[2] + v[1]]
           term == [i \in S |-> LegPays(p, i)]
<1>1. IsFiniteSet(S)
  BY FS_Interval
<1>2. \A s \in SUBSET S : s # {} => pick[s] \in s /\ pick[s] = Max(s)
  BY MaxIs
<1>3. plus \in [Int \X Int -> Int] /\ term \in [S -> Int]
  OBVIOUS
<1>4. PICK g : FoldOf(g, S, Int, 0, plus, term, pick)
  <2>1. 0 \in Int
    OBVIOUS
  <2> HIDE DEF S, pick, plus, term
  <2> QED
    BY <1>1, <1>2, <1>3, <2>1, FoldExists
<1>5. Cash(g, p)
  <2>1. ASSUME NEW s \in SUBSET S
        PROVE  g[s] = IF s = {} THEN 0 ELSE g[s \ {Max(s)}] + LegPays(p, Max(s))
    <3>1. CASE s = {}
      BY <1>4, <3>1 DEF FoldOf
    <3>2. CASE s # {}
      <4>1. Max(s) \in S /\ pick[s] = Max(s)
        BY <1>2, <3>2
      <4>2. g[s] = plus[<<term[Max(s)], g[s \ {Max(s)}]>>]
        BY <1>4, <3>2, <4>1 DEF FoldOf
      <4>3. term[Max(s)] = LegPays(p, Max(s)) /\ term[Max(s)] \in Int
        BY <4>1
      <4>4. g[s \ {Max(s)}] \in Int
        BY <1>4 DEF FoldOf
      <4>5. <<term[Max(s)], g[s \ {Max(s)}]>> \in Int \X Int
        BY <4>3, <4>4
      <4>6. plus[<<term[Max(s)], g[s \ {Max(s)}]>>] = g[s \ {Max(s)}] + term[Max(s)]
        BY <4>5
      <4> QED
        BY <3>2, <4>2, <4>3, <4>6
    <3> QED
      BY <3>1, <3>2
  <2>2. g = [s \in SUBSET S |-> g[s]]
    BY <1>4 DEF FoldOf
  <2> QED
    BY <2>1, <2>2 DEF Cash
<1>6. EntryCashflow(p) = (CHOOSE h : Cash(h, p))[DOMAIN p.legs]
  BY DEF EntryCashflow, FoldLeft, MapThenFoldSet, Cash, LegPays
<1>7. Cash(CHOOSE h : Cash(h, p), p)
  BY <1>5, Zenon
<1> QED
  BY <1>6, <1>7

\* Bought and sold at the executable sides, the legs of a package pay nothing.
LEMMA NothingPaid ==
    ASSUME NEW p \in PackageRecords, \A i \in DOMAIN p.legs : p.legs[i].ask >= p.legs[i].bid
    PROVE  /\ EntryCashflow(p) \in Int /\ EntryCashflow(Mirror(p)) \in Int
           /\ EntryCashflow(p) + EntryCashflow(Mirror(p)) <= 0
<1>1. PICK n \in Nat : DOMAIN p.legs = 1..n /\ DOMAIN Mirror(p).legs = 1..n
  BY MirrorIs DEF PackageRecords
<1>2. \A i \in 1..n : /\ LegPays(p, i) \in Int /\ LegPays(Mirror(p), i) \in Int
                      /\ LegPays(p, i) + LegPays(Mirror(p), i) <= 0
  BY <1>1, LegPaysIs
<1>3. PICK h : Cash(h, p) /\ EntryCashflow(p) = h[1..n]
  BY <1>1, <1>2, CashflowIs
<1>4. PICK k : Cash(k, Mirror(p)) /\ EntryCashflow(Mirror(p)) = k[1..n]
  BY <1>1, <1>2, CashflowIs
<1> DEFINE S == 1..n
           pick == [s \in SUBSET S |-> Max(s)]
           P == {s \in SUBSET S : h[s] \in Int /\ k[s] \in Int /\ h[s] + k[s] <= 0}
<1>5. {} \in P
  BY <1>1, <1>3, <1>4 DEF Cash
<1>6. ASSUME NEW s \in SUBSET S, s # {}
      PROVE  pick[s] \in s /\ (s \ {pick[s]} \in P => s \in P)
  <2>1. pick[s] = Max(s) /\ Max(s) \in s
    BY <1>6, MaxIs
  <2>2. PICK i \in S : i = Max(s)
    BY <2>1
  <2>3. /\ h[s] = h[s \ {i}] + LegPays(p, i)
        /\ k[s] = k[s \ {i}] + LegPays(Mirror(p), i)
    BY <1>1, <1>3, <1>4, <1>6, <2>2 DEF Cash
  <2>4. /\ LegPays(p, i) \in Int /\ LegPays(Mirror(p), i) \in Int
        /\ LegPays(p, i) + LegPays(Mirror(p), i) <= 0
    BY <1>2
  <2>5. ASSUME s \ {i} \in P PROVE s \in P
    BY <2>3, <2>4, <2>5
  <2> QED
    BY <2>1, <2>2, <2>5
<1>7. S \in P
  <2>1. IsFiniteSet(S) /\ S \in SUBSET S
    BY FS_Interval
  <2> HIDE DEF P, pick, S
  <2>2. Inductive(S, P, pick)
    BY <1>5, <1>6 DEF Inductive
  <2>3. \A s \in SUBSET S : s \in P
    BY <2>1, <2>2, SubsetInduction
  <2> QED
    BY <2>1, <2>3
<1> QED
  BY <1>3, <1>4, <1>7

\* A package is a candidate when none of its tests fails.
LEMMA PackageTests ==
    ASSUME NEW p
    PROVE  /\ PackageReasons(p) = {} =>
                 /\ ~(NetEdge(p) < p.buffer)
                 /\ \A a \in ToSet(p.legs) : ~(a.bid < 0 \/ a.ask <= 0 \/ a.ask < a.bid)
           /\ NetEdge(p) < p.buffer => PackageReasons(p) # {}
<1>1. PICK legs : legs = ToSet(p.legs)
  OBVIOUS
<1>2. PICK tests :
        /\ tests = [
             QUOTE_TIMESTAMP_NOT_TIMEZONE_AWARE |-> \E a \in legs : ~a.aware,
             QUOTES_NOT_SYNCHRONIZED |->
                 /\ \A a \in legs : a.aware
                 /\ \E a, b \in legs : a.quotedAt - b.quotedAt > 1,
             SETTLEMENT_MISMATCH |-> Cardinality({a.settles : a \in legs}) # 1,
             INSUFFICIENT_DEPTH |-> \E a \in legs : a.size < p.quantity,
             INVALID_EXECUTABLE_QUOTE |->
                 \E a \in legs : a.bid < 0 \/ a.ask <= 0 \/ a.ask < a.bid,
             ARBITRAGE_SOURCE_HASH_INVALID |-> \E a \in legs : ~a.hashed,
             EDGE_BELOW_SAFETY_BUFFER |-> NetEdge(p) < p.buffer]
        /\ PackageReasons(p) = Failing(tests)
  BY <1>1, ZenonT(30) DEF PackageReasons
<1>3. /\ "EDGE_BELOW_SAFETY_BUFFER" \in DOMAIN tests
      /\ "INVALID_EXECUTABLE_QUOTE" \in DOMAIN tests
  BY <1>2
<1>4. tests["EDGE_BELOW_SAFETY_BUFFER"] = (NetEdge(p) < p.buffer)
  BY <1>2, Zenon
<1>5. tests["INVALID_EXECUTABLE_QUOTE"]
          = \E a \in legs : a.bid < 0 \/ a.ask <= 0 \/ a.ask < a.bid
  BY <1>2, Zenon
<1>6. NetEdge(p) < p.buffer => PackageReasons(p) # {}
  BY <1>2, <1>3, <1>4, FailingIs
<1>7. (\E a \in legs : a.bid < 0 \/ a.ask <= 0 \/ a.ask < a.bid) => PackageReasons(p) # {}
  BY <1>2, <1>3, <1>5, FailingIs
<1> QED
  BY <1>1, <1>6, <1>7

LEMMA MirrorRejected ==
    ASSUME NEW p \in PackageRecords, PackageReasons(p) = {}
    PROVE  PackageReasons(Mirror(p)) # {}
<1>1. \A i \in DOMAIN p.legs : p.legs[i].ask >= p.legs[i].bid
  <2> SUFFICES ASSUME NEW i \in DOMAIN p.legs PROVE p.legs[i].ask >= p.legs[i].bid
    OBVIOUS
  <2>1. p.legs[i] \in ToSet(p.legs)
    BY DEF ToSet
  <2>2. ~(p.legs[i].ask < p.legs[i].bid)
    BY <2>1, PackageTests
  <2>3. p.legs[i].ask \in Int /\ p.legs[i].bid \in Int
    <3>1. p.legs[i] \in LegRecords
      BY DEF PackageRecords
    <3> QED
      BY <3>1 DEF LegRecords
  <2> QED
    BY <2>2, <2>3
<1>2. PICK e \in Int : e = EntryCashflow(p)
  BY <1>1, NothingPaid
<1>3. PICK f \in Int : f = EntryCashflow(Mirror(p))
  BY <1>1, NothingPaid
<1>4. e + f <= 0
  BY <1>1, <1>2, <1>3, NothingPaid
<1>5. PICK t \in Int : t = p.terminal
  BY DEF PackageRecords
<1>6. /\ p.fees \in Nat /\ p.slippage \in Nat /\ p.financing \in Nat
      /\ p.buffer \in Nat \ {0}
  BY DEF PackageRecords
<1>7. NetEdge(p) = e + t - p.fees - p.slippage - p.financing
  BY <1>2, <1>5 DEF NetEdge
<1>8. NetEdge(Mirror(p)) = f - t - p.fees - p.slippage - p.financing
  <2>1. /\ Mirror(p).terminal = -t /\ Mirror(p).fees = p.fees
        /\ Mirror(p).slippage = p.slippage /\ Mirror(p).financing = p.financing
    BY <1>5, MirrorIs
  <2> QED
    BY <1>3, <1>6, <2>1 DEF NetEdge
<1>9. ~(NetEdge(p) < p.buffer)
  BY PackageTests
<1>10. NetEdge(Mirror(p)) < Mirror(p).buffer
  <2>1. Mirror(p).buffer = p.buffer
    BY MirrorIs
  <2> QED
    BY <1>4, <1>6, <1>7, <1>8, <1>9, <2>1
<1> QED
  BY <1>10, PackageTests

-----------------------------------------------------------------------------
(* The order of a ranking.                                                 *)
Fracs == [n : Int, d : Nat \ {0}]

LEMMA FracIs ==
    \A n \in Int, d \in Nat \ {0} : /\ Frac(n, d) \in Fracs
                                    /\ Frac(n, d).n = n /\ Frac(n, d).d = d
BY DEF Frac, Fracs

\* No fraction is below itself, one of two is not below the other, and what is
\* not below one that is not below a third is not below the third.
LEMMA Ascending ==
    ASSUME NEW a \in Fracs, NEW b \in Fracs, NEW c \in Fracs
    PROVE  /\ Below(a, b) => ~Below(b, a)
           /\ ~Below(a, b) /\ ~Below(b, c) => ~Below(a, c)
<1>1. PICK an \in Int, bn \in Int, cn \in Int : an = a.n /\ bn = b.n /\ cn = c.n
  BY DEF Fracs
<1>2. PICK ad \in Nat \ {0}, bd \in Nat \ {0}, cd \in Nat \ {0} : ad = a.d /\ bd = b.d /\ cd = c.d
  BY DEF Fracs
<1>3. /\ an * bd \in Int /\ bn * ad \in Int /\ bn * cd \in Int /\ cn * bd \in Int
      /\ an * cd \in Int /\ cn * ad \in Int
  OBVIOUS
<1>4. /\ Below(a, b) <=> an * bd < bn * ad
      /\ Below(b, a) <=> bn * ad < an * bd
      /\ Below(b, c) <=> bn * cd < cn * bd
      /\ Below(a, c) <=> an * cd < cn * ad
  BY <1>1, <1>2 DEF Below
<1>5. ASSUME bn * ad <= an * bd, cn * bd <= bn * cd
      PROVE  cn * ad <= an * cd
  <2>1. ad * (cn * bd) <= ad * (bn * cd)
    BY <1>3, <1>5, Growing
  <2>2. cd * (bn * ad) <= cd * (an * bd)
    BY <1>3, <1>5, Growing
  <2>3. ad * (bn * cd) = cd * (bn * ad)
    OBVIOUS
  <2>4. ad * (cn * bd) = bd * (cn * ad)
    OBVIOUS
  <2>5. cd * (an * bd) = bd * (an * cd)
    OBVIOUS
  <2>6. bd * (cn * ad) <= bd * (an * cd)
    <3>1. /\ ad * (cn * bd) \in Int /\ ad * (bn * cd) \in Int /\ cd * (an * bd) \in Int
          /\ cd * (bn * ad) \in Int /\ bd * (cn * ad) \in Int /\ bd * (an * cd) \in Int
      OBVIOUS
    <3> QED
      BY <2>1, <2>2, <2>3, <2>4, <2>5, <3>1
  <2> SUFFICES ASSUME an * cd < cn * ad PROVE FALSE
    BY <1>3
  <2>7. PICK u \in Int, v \in Int : u = an * cd /\ v = cn * ad
    BY <1>3
  <2>8. u + 1 <= v
    BY <2>7
  <2>9. bd * (u + 1) <= bd * v
    BY <2>8, Growing
  <2>10. bd * (u + 1) = bd * u + bd
    BY <2>7
  <2>11. bd * v <= bd * u /\ bd * u \in Int /\ bd * v \in Int
    BY <2>6, <2>7
  <2> QED
    BY <2>9, <2>10, <2>11
<1> QED
  BY <1>3, <1>4, <1>5

\* One item before another: by a first key, then a second, then the identity.
Ahead(x, y, a, b) ==
    \/ Below(x[b], x[a])
    \/ /\ ~Below(x[a], x[b])
       /\ \/ Below(y[b], y[a])
          \/ (~Below(y[a], y[b]) /\ a < b)

LEMMA AheadOrders ==
    ASSUME NEW S \in SUBSET Int, NEW x \in [S -> Fracs], NEW y \in [S -> Fracs],
           NEW a \in S, NEW b \in S, NEW c \in S
    PROVE  /\ ~Ahead(x, y, a, a)
           /\ Ahead(x, y, a, b) /\ Ahead(x, y, b, c) => Ahead(x, y, a, c)
           /\ a # b => Ahead(x, y, a, b) \/ Ahead(x, y, b, a)
<1>1. /\ x[a] \in Fracs /\ x[b] \in Fracs /\ x[c] \in Fracs
      /\ y[a] \in Fracs /\ y[b] \in Fracs /\ y[c] \in Fracs
      /\ a \in Int /\ b \in Int /\ c \in Int
  OBVIOUS
<1>2. \A p, q, r \in Fracs : /\ Below(p, q) => ~Below(q, p)
                             /\ ~Below(p, q) /\ ~Below(q, r) => ~Below(p, r)
  BY Ascending
<1>3. ~Ahead(x, y, a, a)
  BY <1>1, <1>2 DEF Ahead
<1>4. a # b => Ahead(x, y, a, b) \/ Ahead(x, y, b, a)
  BY <1>1, <1>2 DEF Ahead
<1>5. ASSUME Ahead(x, y, a, b), Ahead(x, y, b, c)
      PROVE  Ahead(x, y, a, c)
  <2>1. ~Below(x[a], x[b]) /\ ~Below(x[b], x[c])
    BY <1>1, <1>2, <1>5 DEF Ahead
  <2>2. ~Below(x[a], x[c])
    BY <1>1, <1>2, <2>1
  <2>3. CASE Below(x[b], x[a]) \/ Below(x[c], x[b])
    <3>1. Below(x[c], x[a])
      <4> SUFFICES ASSUME ~Below(x[c], x[a]) PROVE FALSE
        OBVIOUS
      <4>1. ~Below(x[c], x[b])
        BY <1>1, <1>2, <2>1
      <4>2. ~Below(x[b], x[a])
        BY <1>1, <1>2, <2>1
      <4> QED
        BY <2>3, <4>1, <4>2
    <3> QED
      BY <3>1 DEF Ahead
  <2>4. CASE ~Below(x[b], x[a]) /\ ~Below(x[c], x[b])
    <3>1. /\ Below(y[b], y[a]) \/ (~Below(y[a], y[b]) /\ a < b)
          /\ Below(y[c], y[b]) \/ (~Below(y[b], y[c]) /\ b < c)
      <4>1. Below(y[b], y[a]) \/ (~Below(y[a], y[b]) /\ a < b)
        BY <1>5, <2>4 DEF Ahead
      <4>2. Below(y[c], y[b]) \/ (~Below(y[b], y[c]) /\ b < c)
        BY <1>5, <2>4 DEF Ahead
      <4> QED
        BY <4>1, <4>2
    <3>2. ~Below(y[a], y[b]) /\ ~Below(y[b], y[c])
      BY <1>1, <1>2, <3>1
    <3>3. ~Below(y[a], y[c])
      BY <1>1, <1>2, <3>2
    <3>4. CASE Below(y[b], y[a]) \/ Below(y[c], y[b])
      <4>1. Below(y[c], y[a])
        <5> SUFFICES ASSUME ~Below(y[c], y[a]) PROVE FALSE
          OBVIOUS
        <5>1. ~Below(y[c], y[b])
          BY <1>1, <1>2, <3>2
        <5>2. ~Below(y[b], y[a])
          BY <1>1, <1>2, <3>2
        <5> QED
          BY <3>4, <5>1, <5>2
      <4> QED
        BY <2>2, <4>1 DEF Ahead
    <3>5. CASE a < b /\ b < c
      <4>1. a < c
        BY <1>1, <3>5
      <4> QED
        BY <2>2, <3>3, <4>1 DEF Ahead
    <3> QED
      BY <3>1, <3>4, <3>5
  <2> QED
    BY <2>3, <2>4
<1> QED
  BY <1>3, <1>4, <1>5

\* The place of an item among those of S: one more than those ahead of it.
PlacesIn(S, x, y) == [i \in S |-> 1 + Cardinality({j \in S : Ahead(x, y, j, i)})]

LEMMA PlacesOrder ==
    ASSUME NEW S \in SUBSET Int, IsFiniteSet(S), NEW x \in [S -> Fracs], NEW y \in [S -> Fracs],
           NEW i \in S, NEW j \in S
    PROVE  PlacesIn(S, x, y)[i] < PlacesIn(S, x, y)[j] <=> Ahead(x, y, i, j)
<1> DEFINE Before(k) == {l \in S : Ahead(x, y, l, k)}
<1>1. \A k \in S : IsFiniteSet(Before(k)) /\ Cardinality(Before(k)) \in Nat
  <2> SUFFICES ASSUME NEW k \in S PROVE IsFiniteSet(Before(k)) /\ Cardinality(Before(k)) \in Nat
    OBVIOUS
  <2>1. Before(k) \in SUBSET S
    OBVIOUS
  <2> HIDE DEF Before
  <2>2. IsFiniteSet(Before(k))
    BY <2>1, FS_Subset
  <2> QED
    BY <2>2, FS_CardinalityType
<1>2. ASSUME NEW k \in S, NEW l \in S, Ahead(x, y, k, l)
      PROVE  Cardinality(Before(k)) < Cardinality(Before(l))
  <2>1. Before(k) \in SUBSET Before(l)
    BY <1>2, AheadOrders
  <2>2. k \in Before(l) /\ k \notin Before(k)
    BY <1>2, AheadOrders
  <2> HIDE DEF Before
  <2>3. Before(k) # Before(l)
    BY <2>2
  <2>4. /\ Cardinality(Before(k)) <= Cardinality(Before(l))
        /\ Cardinality(Before(l)) = Cardinality(Before(k)) => Before(l) = Before(k)
    BY <1>1, <2>1, FS_Subset
  <2> QED
    BY <1>1, <2>3, <2>4
<1>3. \A k \in S : PlacesIn(S, x, y)[k] = 1 + Cardinality(Before(k))
  BY DEF PlacesIn
<1>4. CASE i = j
  <2>1. ~Ahead(x, y, i, j)
    BY <1>4, AheadOrders
  <2> HIDE DEF Before
  <2> QED
    BY <1>1, <1>3, <1>4, <2>1
<1>5. CASE i # j
  <2>1. Ahead(x, y, i, j) \/ Ahead(x, y, j, i)
    BY <1>5, AheadOrders
  <2>2. ~(Ahead(x, y, i, j) /\ Ahead(x, y, j, i))
    BY AheadOrders
  <2> HIDE DEF Before
  <2>3. Ahead(x, y, i, j) => Cardinality(Before(i)) < Cardinality(Before(j))
    BY <1>2
  <2>4. Ahead(x, y, j, i) => Cardinality(Before(j)) < Cardinality(Before(i))
    BY <1>2
  <2> QED
    BY <1>1, <1>3, <2>1, <2>2, <2>3, <2>4
<1> QED
  BY <1>4, <1>5

-----------------------------------------------------------------------------
(* What a ranking compares.                                                *)

LEMMA Products == \A n \in Nat \ {0}, m \in Nat \ {0} : n * m \in Nat \ {0}
<1> SUFFICES ASSUME NEW n \in Nat \ {0}, NEW m \in Nat \ {0} PROVE n * m \in Nat \ {0}
  OBVIOUS
<1>1. n * 1 <= n * m
  <2>1. n \in Nat /\ 1 \in Int /\ m \in Int /\ 1 <= m
    OBVIOUS
  <2> QED
    BY <2>1, Growing
<1> QED
  BY <1>1

LEMMA PlusIs == \A a, b \in Fracs : Plus(a, b) \in Fracs
<1> SUFFICES ASSUME NEW a \in Fracs, NEW b \in Fracs PROVE Plus(a, b) \in Fracs
  OBVIOUS
<1>1. a.n \in Int /\ b.n \in Int /\ a.d \in Nat \ {0} /\ b.d \in Nat \ {0}
  BY DEF Fracs
<1>2. a.n * b.d \in Int /\ b.n * a.d \in Int
  BY <1>1
<1>3. PICK n \in Int : n = a.n * b.d + b.n * a.d
  BY <1>2
<1>4. PICK d \in Nat \ {0} : d = a.d * b.d
  BY <1>1, Products
<1> QED
  BY <1>3, <1>4, FracIs DEF Plus

LEMMA QuotientIs == \A a, b \in Fracs : b.n > 0 => Quotient(a, b) \in Fracs
<1> SUFFICES ASSUME NEW a \in Fracs, NEW b \in Fracs, b.n > 0 PROVE Quotient(a, b) \in Fracs
  OBVIOUS
<1>1. a.n \in Int /\ b.n \in Nat \ {0} /\ a.d \in Nat \ {0} /\ b.d \in Nat \ {0}
  BY DEF Fracs
<1>2. PICK n \in Int : n = a.n * b.d
  BY <1>1
<1>3. PICK d \in Nat \ {0} : d = a.d * b.n
  BY <1>1, Products
<1> QED
  BY <1>2, <1>3, FracIs DEF Quotient

\* The sum of fractions, the last one taken first.
SumOf(h, fs) ==
    h = [s \in SUBSET DOMAIN fs |->
            IF s = {} THEN Frac(0, 1) ELSE Plus(h[s \ {Max(s)}], fs[Max(s)])]

LEMMA SumIs ==
    ASSUME NEW n \in Nat, NEW fs \in [1..n -> Fracs]
    PROVE  FoldLeft(Plus, Frac(0, 1), fs) \in Fracs
<1> DEFINE S == 1..n
           pick == [s \in SUBSET S |-> Max(s)]
           plus == [v \in Fracs \X Fracs |-> Plus(v[2], v[1])]
<1>1. IsFiniteSet(S)
  BY FS_Interval
<1>2. \A s \in SUBSET S : s # {} => pick[s] \in s /\ pick[s] = Max(s)
  BY MaxIs
<1>3. plus \in [Fracs \X Fracs -> Fracs] /\ Frac(0, 1) \in Fracs
  <2>1. \A v \in Fracs \X Fracs : Plus(v[2], v[1]) \in Fracs
    BY PlusIs
  <2> QED
    BY <2>1, FracIs
<1>4. PICK g : FoldOf(g, S, Fracs, Frac(0, 1), plus, fs, pick)
  <2> HIDE DEF S, pick, plus
  <2>1. fs \in [S -> Fracs]
    BY DEF S
  <2> QED
    BY <1>1, <1>2, <1>3, <2>1, FoldExists
<1>5. SumOf(g, fs)
  <2>1. ASSUME NEW s \in SUBSET S
        PROVE  g[s] = IF s = {} THEN Frac(0, 1) ELSE Plus(g[s \ {Max(s)}], fs[Max(s)])
    <3>1. CASE s = {}
      BY <1>4, <3>1 DEF FoldOf
    <3>2. CASE s # {}
      <4>1. Max(s) \in S /\ pick[s] = Max(s)
        BY <1>2, <3>2
      <4>2. g[s] = plus[<<fs[Max(s)], g[s \ {Max(s)}]>>]
        BY <1>4, <3>2, <4>1 DEF FoldOf
      <4>3. g[s \ {Max(s)}] \in Fracs
        BY <1>4 DEF FoldOf
      <4>4. <<fs[Max(s)], g[s \ {Max(s)}]>> \in Fracs \X Fracs
        BY <4>1, <4>3
      <4> QED
        BY <3>2, <4>2, <4>4
    <3> QED
      BY <3>1, <3>2
  <2>2. g = [s \in SUBSET S |-> g[s]] /\ DOMAIN fs = S
    BY <1>4 DEF FoldOf
  <2> QED
    BY <2>1, <2>2 DEF SumOf
<1>6. FoldLeft(Plus, Frac(0, 1), fs) = (CHOOSE h : SumOf(h, fs))[DOMAIN fs]
  BY DEF FoldLeft, MapThenFoldSet, SumOf
<1>7. PICK h : SumOf(h, fs) /\ FoldLeft(Plus, Frac(0, 1), fs) = h[S]
  <2>1. SumOf(CHOOSE h : SumOf(h, fs), fs)
    BY <1>5, Zenon
  <2> QED
    BY <1>6, <2>1
<1> DEFINE P == {s \in SUBSET S : h[s] \in Fracs}
<1>8. {} \in P
  BY <1>3, <1>7 DEF SumOf
<1>9. ASSUME NEW s \in SUBSET S, s # {}
      PROVE  pick[s] \in s /\ (s \ {pick[s]} \in P => s \in P)
  <2>1. pick[s] \in s /\ pick[s] = Max(s)
    BY <1>2, <1>9
  <2>2. h[s] = Plus(h[s \ {pick[s]}], fs[pick[s]])
    BY <1>7, <1>9, <2>1 DEF SumOf
  <2>3. fs[pick[s]] \in Fracs
    BY <2>1
  <2> QED
    BY <2>1, <2>2, <2>3, PlusIs
<1>10. \A s \in SUBSET S : s \in P
  <2> HIDE DEF P, pick, S
  <2>1. Inductive(S, P, pick)
    BY <1>8, <1>9 DEF Inductive
  <2> QED
    BY <1>1, <2>1, SubsetInduction
<1> QED
  BY <1>7, <1>10

LEMMA AverageIs ==
    ASSUME NEW n \in Nat \ {0}, NEW fs \in [1..n -> Fracs]
    PROVE  Average(fs) \in Fracs
<1>1. PICK sum \in Fracs : sum = FoldLeft(Plus, Frac(0, 1), fs)
  BY SumIs
<1>2. Len(fs) = n
  BY LenProperties
<1>3. sum.n \in Int /\ sum.d * n \in Nat \ {0}
  BY Products DEF Fracs
<1>4. Average(fs) = Frac(sum.n, sum.d * n)
  BY <1>1, <1>2 DEF Average
<1> QED
  BY <1>3, <1>4, FracIs

\* The payouts of a company are fractions, when its inputs are valid and its
\* shares earned something in every year.
LEMMA PayoutsAre ==
    ASSUME NEW h \in Seq(YearRecords), h # <<>>,
           \A i \in DOMAIN h : h[i].price > 0 /\ h[i].cap > 0 /\ h[i].eps > 0
    PROVE  DividendYield(h) \in Fracs /\ PayoutRatio(h) \in Fracs /\ NetShareholderYield(h) \in Fracs
<1>1. PICK n \in Nat \ {0} : DOMAIN h = 1..n
  <2>1. Len(h) \in Nat /\ DOMAIN h = 1..Len(h) /\ Len(h) # 0
    OBVIOUS
  <2> QED
    BY <2>1
<1>2. \A i \in 1..n : /\ h[i].dividend \in Int /\ h[i].buybacks - h[i].issuance \in Int
                      /\ h[i].price \in Nat \ {0} /\ h[i].cap \in Nat \ {0}
                      /\ h[i].eps \in Nat \ {0}
  <2> SUFFICES ASSUME NEW i \in 1..n
               PROVE  /\ h[i].dividend \in Int /\ h[i].buybacks - h[i].issuance \in Int
                      /\ h[i].price \in Nat \ {0} /\ h[i].cap \in Nat \ {0}
                      /\ h[i].eps \in Nat \ {0}
    OBVIOUS
  <2>1. h[i] \in YearRecords /\ h[i].price > 0 /\ h[i].cap > 0 /\ h[i].eps > 0
    BY <1>1
  <2>2. /\ h[i].dividend \in Int /\ h[i].buybacks \in Int /\ h[i].issuance \in Int
        /\ h[i].price \in Int /\ h[i].cap \in Int /\ h[i].eps \in Int
    BY <2>1 DEF YearRecords
  <2>3. h[i].buybacks - h[i].issuance \in Int
    BY <2>2
  <2>4. h[i].price \in Nat \ {0}
    BY <2>1, <2>2
  <2>5. h[i].cap \in Nat \ {0}
    BY <2>1, <2>2
  <2>6. h[i].eps \in Nat \ {0}
    BY <2>1, <2>2
  <2> QED
    BY <2>2, <2>3, <2>4, <2>5, <2>6
<1>3. \A i \in 1..n : /\ Frac(h[i].dividend, h[i].price) \in Fracs
                      /\ Frac(h[i].dividend, h[i].eps) \in Fracs
                      /\ Frac(h[i].buybacks - h[i].issuance, h[i].cap) \in Fracs
  BY <1>2, FracIs
<1>4. \A i \in 1..n : Plus(Frac(h[i].dividend, h[i].price),
                           Frac(h[i].buybacks - h[i].issuance, h[i].cap)) \in Fracs
  BY <1>3, PlusIs
<1>5. DividendYield(h) \in Fracs
  <2>1. PICK fs : fs = [i \in DOMAIN h |-> Frac(h[i].dividend, h[i].price)]
    OBVIOUS
  <2>2. fs \in [1..n -> Fracs]
    BY <1>1, <1>3, <2>1
  <2> QED
    BY <2>1, <2>2, AverageIs DEF DividendYield
<1>6. PayoutRatio(h) \in Fracs
  <2>1. PICK fs : fs = [i \in DOMAIN h |-> Frac(h[i].dividend, h[i].eps)]
    OBVIOUS
  <2>2. fs \in [1..n -> Fracs]
    BY <1>1, <1>3, <2>1
  <2> QED
    BY <2>1, <2>2, AverageIs DEF PayoutRatio
<1>7. NetShareholderYield(h) \in Fracs
  <2>1. PICK fs : fs = [i \in DOMAIN h |-> Plus(Frac(h[i].dividend, h[i].price),
                                                Frac(h[i].buybacks - h[i].issuance, h[i].cap))]
    OBVIOUS
  <2>2. fs \in [1..n -> Fracs]
    BY <1>1, <1>4, <2>1
  <2> QED
    BY <2>1, <2>2, AverageIs DEF NetShareholderYield
<1> QED
  BY <1>5, <1>6, <1>7

\* What a desk compares first of an item, and what it compares next.
FirstKey(k, x) ==
    CASE k = "earnings" -> CombinedSurprise(x)
      [] k = "dividend" -> YieldPerPayout(x.history)
      [] k = "cape" -> Quotient(YieldPerPayout(x.history), Frac(x.cape.ratio, 1))
      [] k = "futures" -> Frac(Residual(x.event), 1)
      [] k = "news" -> Frac(0, 1)
NextKey(k, x) == IF k = "dividend" THEN NetShareholderYield(x.history) ELSE FirstKey(k, x)

LEMMA EarningsKey ==
    ASSUME NEW e \in ReleaseRecords, NEW t, EarningsReasons(e, t) = {}
    PROVE  CombinedSurprise(e) \in Fracs
<1>1. e.epsConsensus # 0 /\ e.revenueConsensus # 0
  <2> SUFFICES ASSUME 0 \in {e.epsConsensus, e.revenueConsensus} PROVE FALSE
    OBVIOUS
  <2>1. PICK tests :
          /\ tests = [
               EARNINGS_TIMESTAMP_NOT_TIMEZONE_AWARE |-> ~e.aware,
               CONSENSUS_NOT_POINT_IN_TIME |-> e.aware /\ e.asOf >= e.published,
               RELEASE_RECEIVED_BEFORE_PUBLICATION |-> e.aware /\ e.received < e.published,
               DECISION_PRECEDES_RELEASE_RECEIPT |-> e.aware /\ t < e.received,
               EARNINGS_IDENTITY_MISMATCH |-> ~e.same,
               CONSENSUS_BREADTH_INSUFFICIENT |-> e.analysts < 3,
               CONSENSUS_DENOMINATOR_ZERO |-> 0 \in {e.epsConsensus, e.revenueConsensus},
               EARNINGS_SOURCE_HASH_INVALID |-> ~e.hashed]
          /\ EarningsReasons(e, t) = Failing(tests)
    BY Zenon DEF EarningsReasons
  <2>2. /\ "CONSENSUS_DENOMINATOR_ZERO" \in DOMAIN tests
        /\ tests["CONSENSUS_DENOMINATOR_ZERO"]
    BY <2>1, Zenon
  <2> QED
    BY <2>1, <2>2, FailingIs
<1>2. PICK a \in Int, b \in Int, c \in Int, d \in Int :
           a = e.eps /\ b = e.epsConsensus /\ c = e.revenue /\ d = e.revenueConsensus
  BY DEF ReleaseRecords
<1>3. /\ Magnitude(b) \in Nat \ {0} /\ Magnitude(d) \in Nat \ {0}
      /\ \A i \in Int : Magnitude(i) \in Int
  BY <1>1, <1>2 DEF Magnitude
<1>4. PICK p : p = Surprise(a, b)
  OBVIOUS
<1>5. PICK q : q = Surprise(c, d)
  OBVIOUS
<1>6. p = [n |-> a - b, d |-> Magnitude(b)] /\ q = [n |-> c - d, d |-> Magnitude(d)]
  BY <1>4, <1>5 DEF Surprise, Frac
<1>7. /\ [p EXCEPT !.n = Magnitude(@)] = Frac(Magnitude(a - b), Magnitude(b))
      /\ [q EXCEPT !.n = Magnitude(@)] = Frac(Magnitude(c - d), Magnitude(d))
  BY <1>6 DEF Frac
<1>8. /\ Frac(Magnitude(a - b), Magnitude(b)) \in Fracs
      /\ Frac(Magnitude(c - d), Magnitude(d)) \in Fracs
  BY <1>3, FracIs
<1>9. CombinedSurprise(e) = Plus(Frac(Magnitude(a - b), Magnitude(b)),
                                 Frac(Magnitude(c - d), Magnitude(d)))
  BY <1>2, <1>4, <1>5, <1>7 DEF CombinedSurprise
<1> QED
  BY <1>8, <1>9, PlusIs

LEMMA CompanyKeys ==
    ASSUME NEW c \in CompanyRecords, NEW t, CompanyReasons(c.history, t) = {}
    PROVE  YieldPerPayout(c.history) \in Fracs /\ NetShareholderYield(c.history) \in Fracs
<1>1. PICK h \in Seq(YearRecords) : h = c.history /\ h # <<>>
  BY DEF CompanyRecords
<1>2. PICK invalid : invalid = \E i \in DOMAIN h : h[i].dividend < 0 \/ h[i].price <= 0 \/ h[i].cap <= 0
                                              \/ h[i].buybacks < 0 \/ h[i].issuance < 0
  BY Zenon
<1>3. PICK uncovered : uncovered = \E i \in DOMAIN h : h[i].eps <= 0
  BY Zenon
<1>4. HistoryReasons(h, t) = {}
  BY <1>1 DEF CompanyReasons
<1>5. PICK tests :
        /\ tests = [
             TEN_YEAR_HISTORY_REQUIRED |-> Len(h) # HistoryYears,
             FISCAL_YEAR_HISTORY_NOT_CONSECUTIVE |->
                 h # <<>> /\ Years(h) # Min(Years(h)) .. Min(Years(h)) + Len(h) - 1,
             DUPLICATE_FISCAL_YEAR |-> Cardinality(Years(h)) # Len(h),
             PAYOUT_TIMESTAMP_NOT_TIMEZONE_AWARE |-> \E i \in DOMAIN h : ~h[i].aware,
             PAYOUT_LOOKAHEAD_VIOLATION |->
                 (\A i \in DOMAIN h : h[i].aware) /\ Lookahead(h, t),
             PAYOUT_SOURCE_HASH_INVALID |-> \E i \in DOMAIN h : ~h[i].hashed,
             PAYOUT_INPUT_INVALID |-> invalid,
             PAYOUT_COVERAGE_UNAVAILABLE |-> uncovered]
        /\ HistoryReasons(h, t) = Failing(tests)
  BY <1>2, <1>3, Zenon DEF HistoryReasons
<1>6. ~invalid
  <2> SUFFICES ASSUME invalid PROVE FALSE
    OBVIOUS
  <2>1. "PAYOUT_INPUT_INVALID" \in DOMAIN tests /\ tests["PAYOUT_INPUT_INVALID"]
    BY <1>5, Zenon
  <2> QED
    BY <1>4, <1>5, <2>1, FailingIs
<1>7. ~uncovered
  <2> SUFFICES ASSUME uncovered PROVE FALSE
    OBVIOUS
  <2>1. "PAYOUT_COVERAGE_UNAVAILABLE" \in DOMAIN tests /\ tests["PAYOUT_COVERAGE_UNAVAILABLE"]
    BY <1>5, Zenon
  <2> QED
    BY <1>4, <1>5, <2>1, FailingIs
<1>8. ASSUME NEW i \in DOMAIN h
      PROVE  h[i].price > 0 /\ h[i].cap > 0 /\ h[i].eps > 0
  <2>1. h[i] \in YearRecords
    BY <1>8
  <2>2. h[i].price \in Int /\ h[i].cap \in Int /\ h[i].eps \in Int
    BY <2>1 DEF YearRecords
  <2>3. ~(h[i].price <= 0) /\ ~(h[i].cap <= 0) /\ ~(h[i].eps <= 0)
    BY <1>2, <1>3, <1>6, <1>7, <1>8, Zenon
  <2> QED
    BY <2>2, <2>3
<1>9. DividendYield(h) \in Fracs /\ PayoutRatio(h) \in Fracs /\ NetShareholderYield(h) \in Fracs
  BY <1>1, <1>8, PayoutsAre
<1>10. PayoutRatio(h).n > 0
  <2>1. ~(PayoutRatio(h).n <= 0)
    <3> SUFFICES ASSUME PayoutRatio(h).n <= 0 PROVE FALSE
      OBVIOUS
    <3>1. PICK more :
            /\ more = [
                 NONPOSITIVE_AVERAGE_PAYOUT_RATIO |-> PayoutRatio(h).n <= 0,
                 AVERAGE_PAYOUT_RATIO_ABOVE_POLICY |-> Below(Frac(3, 4), PayoutRatio(h)),
                 DIVIDEND_CUTS_ABOVE_POLICY |-> Cuts(h) > 0,
                 NET_SHAREHOLDER_YIELD_BELOW_POLICY |-> NetShareholderYield(h).n < 0]
            /\ CompanyReasons(h, t) = HistoryReasons(h, t) \union
                   (IF HistoryReasons(h, t) # {} THEN {} ELSE Failing(more))
      BY Zenon DEF CompanyReasons
    <3>2. "NONPOSITIVE_AVERAGE_PAYOUT_RATIO" \in DOMAIN more /\ more["NONPOSITIVE_AVERAGE_PAYOUT_RATIO"]
      BY <3>1, Zenon
    <3>3. Failing(more) # {}
      BY <3>2, FailingIs
    <3> QED
      BY <1>1, <1>4, <3>1, <3>3
  <2>2. PayoutRatio(h).n \in Int
    BY <1>9 DEF Fracs
  <2> QED
    BY <2>1, <2>2
<1>11. YieldPerPayout(h) \in Fracs
  BY <1>9, <1>10, QuotientIs DEF YieldPerPayout
<1> QED
  BY <1>1, <1>9, <1>11

\* The keys of what is admitted are fractions.
LEMMA KeysTyped ==
    ASSUME desk \in DOMAIN Reference, desk \notin {"experiment", "arbitrage"},
           NEW items, NEW t, NEW i \in Admitted(items, t), NEW u, items[i] \in HeldAt(desk, u)
    PROVE  FirstKey(desk, items[i]) \in Fracs /\ NextKey(desk, items[i]) \in Fracs
<1>1. desk \in {"earnings", "dividend", "cape", "futures", "news"}
  BY DEF Reference
<1>2. PICK x : x = items[i]
  OBVIOUS
<1>3. CASE desk = "earnings"
  <2>1. x \in ReleaseRecords /\ EarningsReasons(x, t) = {}
    BY <1>2, <1>3 DEF HeldAt, Admitted
  <2> QED
    BY <1>2, <1>3, <2>1, EarningsKey DEF FirstKey, NextKey
<1>4. CASE desk = "dividend"
  <2>1. x \in CompanyRecords /\ CompanyReasons(x.history, t) = {}
    BY <1>2, <1>4 DEF HeldAt, Admitted
  <2> QED
    BY <1>2, <1>4, <2>1, CompanyKeys DEF FirstKey, NextKey
<1>5. CASE desk = "cape"
  <2>1. x \in CompanyRecords /\ CompanyReasons(x.history, t) = {} /\ CapeReasons(x.cape, t) = {}
    BY <1>2, <1>5 DEF HeldAt, Admitted
  <2>2. x.cape \in CapeRecords /\ x.cape.ratio \in Int
    BY <2>1 DEF CompanyRecords, CapeRecords
  <2>3. ~(x.cape.ratio <= 0)
    <3> SUFFICES ASSUME x.cape.ratio <= 0 PROVE FALSE
      OBVIOUS
    <3>1. PICK c : c = x.cape
      OBVIOUS
    <3>2. PICK tests :
            /\ tests = [
                 CAPE_SYMBOL_MISMATCH |-> ~c.same,
                 CAPE_TIMESTAMP_NOT_TIMEZONE_AWARE |-> ~c.aware,
                 CAPE_RECEIVED_BEFORE_OBSERVED |-> c.aware /\ c.received < c.observed,
                 CAPE_LOOKAHEAD_VIOLATION |-> c.aware /\ c.received > t,
                 CAPE_RATIO_INVALID |-> c.ratio <= 0,
                 CAPE_SOURCE_HASH_INVALID |-> ~c.hashed]
            /\ CapeReasons(c, t) = Failing(tests)
      BY Zenon DEF CapeReasons
    <3>3. "CAPE_RATIO_INVALID" \in DOMAIN tests /\ tests["CAPE_RATIO_INVALID"]
      BY <3>1, <3>2, Zenon
    <3> QED
      BY <2>1, <3>1, <3>2, <3>3, FailingIs
  <2>4. PICK r : r = Frac(x.cape.ratio, 1)
    OBVIOUS
  <2>5. r \in Fracs /\ r.n > 0
    BY <2>2, <2>3, <2>4, FracIs
  <2>6. YieldPerPayout(x.history) \in Fracs
    BY <2>1, CompanyKeys
  <2>7. Quotient(YieldPerPayout(x.history), r) \in Fracs
    BY <2>5, <2>6, QuotientIs
  <2> QED
    BY <1>2, <1>5, <2>4, <2>7 DEF FirstKey, NextKey
<1>6. CASE desk = "futures"
  <2>1. x.event \in EventRecords
    BY <1>2, <1>6 DEF HeldAt, FuturesRecords
  <2>2. Residual(x.event) \in Int
    BY <2>1 DEF Residual, EventRecords
  <2> QED
    BY <1>2, <1>6, <2>2, FracIs DEF FirstKey, NextKey
<1>7. CASE desk = "news"
  BY <1>7, FracIs DEF FirstKey, NextKey
<1> QED
  BY <1>1, <1>3, <1>4, <1>5, <1>6, <1>7

\* What a desk publishes: the place of every item that it admits.
RankedOf(A, items) ==
    PlacesIn(A, [i \in A |-> FirstKey(desk, items[i])], [i \in A |-> NextKey(desk, items[i])])

LEMMA UniverseIs ==
    ASSUME desk \in DOMAIN Reference, desk \notin {"experiment", "arbitrage"}, NEW items, NEW t
    PROVE  Universe(items, t) = RankedOf(Admitted(items, t), items)
<1>1. desk \in {"earnings", "dividend", "cape", "futures", "news"}
  BY DEF Reference
<1>2. PICK A : A = Admitted(items, t)
  OBVIOUS
<1> DEFINE x == [i \in A |-> FirstKey(desk, items[i])]
           y == [i \in A |-> NextKey(desk, items[i])]
<1>3. ASSUME desk # "dividend" PROVE RankedBy(x) = PlacesIn(A, x, y)
  <2>1. y = x
    BY <1>3 DEF NextKey
  <2>2. DOMAIN x = A
    OBVIOUS
  <2> HIDE DEF x, y
  <2>3. \A a, b : Ahead(x, y, a, b) <=> Below(x[b], x[a]) \/ (~Below(x[a], x[b]) /\ a < b)
    BY <2>1 DEF Ahead
  <2> QED
    BY <2>2, <2>3 DEF RankedBy, Places, PlacesIn
<1>4. CASE desk = "earnings"
  <2>1. Universe(items, t) = RankedBy([i \in A |-> CombinedSurprise(items[i])])
    BY <1>2, <1>4 DEF Universe, EarningsUniverse, Admitted
  <2>2. [i \in A |-> CombinedSurprise(items[i])] = x
    BY <1>4 DEF FirstKey
  <2> QED
    BY <1>2, <1>3, <1>4, <2>1, <2>2 DEF RankedOf
<1>5. CASE desk = "cape"
  <2>1. DOMAIN DividendUniverse(items, t)
          = {i \in DOMAIN items : CompanyReasons(items[i].history, t) = {}}
    BY DEF DividendUniverse, Places
  <2>2. Universe(items, t) =
          RankedBy([i \in A |->
              Quotient(YieldPerPayout(items[i].history), Frac(items[i].cape.ratio, 1))])
    BY <1>2, <1>5, <2>1 DEF Universe, CapeUniverse, Admitted
  <2>3. [i \in A |-> Quotient(YieldPerPayout(items[i].history), Frac(items[i].cape.ratio, 1))] = x
    BY <1>5 DEF FirstKey
  <2> QED
    BY <1>2, <1>3, <1>5, <2>2, <2>3 DEF RankedOf
<1>6. CASE desk = "futures"
  <2>1. Universe(items, t) = RankedBy([i \in A |-> Frac(Residual(items[i].event), 1)])
    BY <1>2, <1>6 DEF Universe, FuturesUniverse, Admitted
  <2>2. [i \in A |-> Frac(Residual(items[i].event), 1)] = x
    BY <1>6 DEF FirstKey
  <2> QED
    BY <1>2, <1>3, <1>6, <2>1, <2>2 DEF RankedOf
<1>7. CASE desk = "news"
  <2>1. Universe(items, t) = [i \in A |-> 1 + Cardinality({j \in A : j < i})]
    BY <1>2, <1>7 DEF Universe, NewsBatch, Places, Admitted
  <2>2. ASSUME NEW i \in A, NEW j \in A PROVE Ahead(x, y, j, i) <=> j < i
    <3>1. x[i] = Frac(0, 1) /\ x[j] = Frac(0, 1) /\ y[i] = Frac(0, 1) /\ y[j] = Frac(0, 1)
      BY <1>7 DEF FirstKey, NextKey
    <3>2. ~Below(Frac(0, 1), Frac(0, 1))
      BY DEF Below, Frac
    <3> HIDE DEF x, y
    <3> QED
      BY <3>1, <3>2 DEF Ahead
  <2> HIDE DEF x, y
  <2>3. PlacesIn(A, x, y) = [i \in A |-> 1 + Cardinality({j \in A : j < i})]
    BY <2>2 DEF PlacesIn
  <2> QED
    BY <1>2, <2>1, <2>3 DEF RankedOf, x, y
<1>8. CASE desk = "dividend"
  <2>1. A = {i \in DOMAIN items : CompanyReasons(items[i].history, t) = {}}
    BY <1>2, <1>8 DEF Admitted
  <2>2. Universe(items, t) = DividendUniverse(items, t)
    BY <1>8 DEF Universe
  <2>3. \A i \in A : /\ x[i] = YieldPerPayout(items[i].history)
                     /\ y[i] = NetShareholderYield(items[i].history)
    BY <1>8 DEF FirstKey, NextKey
  <2> HIDE DEF x, y
  <2>4. \A a, b \in A : Ahead(x, y, a, b) <=>
          (\/ Below(YieldPerPayout(items[b].history), YieldPerPayout(items[a].history))
           \/ /\ ~Below(YieldPerPayout(items[a].history), YieldPerPayout(items[b].history))
              /\ (\/ Below(NetShareholderYield(items[b].history),
                           NetShareholderYield(items[a].history))
                  \/ (~Below(NetShareholderYield(items[a].history),
                            NetShareholderYield(items[b].history)) /\ a < b)))
    BY <2>3 DEF Ahead
  <2>5. DividendUniverse(items, t) = PlacesIn(A, x, y)
    BY <2>1, <2>4 DEF DividendUniverse, Places, PlacesIn
  <2> QED
    BY <1>2, <2>2, <2>5 DEF RankedOf, x, y
<1> QED
  BY <1>1, <1>4, <1>5, <1>6, <1>7, <1>8

\* The key of an item is the key of its dated part.
LEMMA SameKeys ==
    ASSUME desk \in DOMAIN Reference, desk \notin {"experiment", "arbitrage"}, NEW x, NEW y,
           Dated(x) = Dated(y)
    PROVE  FirstKey(desk, x) = FirstKey(desk, y) /\ NextKey(desk, x) = NextKey(desk, y)
<1>1. CASE desk = "futures"
  BY <1>1 DEF Dated, FirstKey, NextKey
<1>2. CASE desk # "futures"
  BY <1>2 DEF Dated
<1> QED
  BY <1>1, <1>2

\* Of two items that a desk ranks, the one with the better keys comes first.
LEMMA RankedInOrder ==
    ASSUME desk \in DOMAIN Reference, desk \notin {"experiment", "arbitrage"},
           NEW items, NEW t, NEW u, Holding(desk, items, u),
           NEW i \in Admitted(items, t), NEW j \in Admitted(items, t)
    PROVE  Universe(items, t)[i] < Universe(items, t)[j] <=>
               Ahead([k \in {i, j} |-> FirstKey(desk, items[k])],
                     [k \in {i, j} |-> NextKey(desk, items[k])], i, j)
<1>1. PICK A : A = Admitted(items, t)
  OBVIOUS
<1> DEFINE x == [k \in A |-> FirstKey(desk, items[k])]
           y == [k \in A |-> NextKey(desk, items[k])]
<1>2. A \in SUBSET DOMAIN items
  BY <1>1, RankedInTime
<1>3. A \in SUBSET Int /\ IsFiniteSet(A)
  BY <1>2, FS_Subset DEF Holding
<1>4. x \in [A -> Fracs] /\ y \in [A -> Fracs]
  <2> SUFFICES ASSUME NEW k \in A
               PROVE  FirstKey(desk, items[k]) \in Fracs /\ NextKey(desk, items[k]) \in Fracs
    OBVIOUS
  <2>1. items[k] \in HeldAt(desk, u) /\ k \in Admitted(items, t)
    BY <1>1, <1>2 DEF Holding
  <2> QED
    BY <2>1, KeysTyped
<1>5. Universe(items, t) = PlacesIn(A, x, y)
  BY <1>1, UniverseIs DEF RankedOf
<1>6. PlacesIn(A, x, y)[i] < PlacesIn(A, x, y)[j] <=> Ahead(x, y, i, j)
  <2> HIDE DEF x, y
  <2>1. i \in A /\ j \in A
    BY <1>1
  <2> QED
    BY <1>3, <1>4, <2>1, PlacesOrder
<1>7. Ahead(x, y, i, j) <=> Ahead([k \in {i, j} |-> FirstKey(desk, items[k])],
                                  [k \in {i, j} |-> NextKey(desk, items[k])], i, j)
  BY <1>1 DEF Ahead
<1> QED
  BY <1>5, <1>6, <1>7

\* What is admitted on its own account is admitted wherever it is held.
LEMMA AdmittedAlone ==
    ASSUME desk \in {"earnings", "dividend", "cape"}, NEW items, NEW others, NEW t,
           NEW i \in Admitted(items, t), i \in DOMAIN others, others[i] = items[i]
    PROVE  i \in Admitted(others, t)
BY DEF Admitted

LEMMA ReplayedFromBasis == ResearchInv => ReplayFromBasis
<1> SUFFICES ASSUME ResearchInv, replayed.of # 0, desk # "arbitrage"
             PROVE  LET d == decisions[replayed.of]
                    IN /\ \A i \in DOMAIN replayed.ranked :
                              /\ i \in DOMAIN d.basis
                              /\ Dated(evidence[i]) = Dated(d.basis[i])
                              /\ desk \notin {"futures", "news"} => i \in DOMAIN d.ranked
                       /\ \A i, j \in DOMAIN replayed.ranked \intersect DOMAIN d.ranked :
                              replayed.ranked[i] < replayed.ranked[j]
                                  <=> d.ranked[i] < d.ranked[j]
  BY DEF ReplayFromBasis
<1>1. PICK d : d = decisions[replayed.of]
  OBVIOUS
<1>2. desk \in DOMAIN Reference /\ desk \notin {"experiment", "arbitrage"}
  BY DEF ResearchInv
<1>3. /\ replayed.ranked = Universe(evidence, d.at) /\ d.ranked = Universe(d.basis, d.at)
      /\ Holding(desk, evidence, reading) /\ Holding(desk, d.basis, d.at)
      /\ \A i \in DOMAIN evidence : Stands(evidence[i], i, d)
  BY <1>1, <1>2 DEF ResearchInv, DecisionSound, Stands
<1>4. ASSUME NEW i \in DOMAIN replayed.ranked
      PROVE  /\ i \in DOMAIN d.basis
             /\ Dated(evidence[i]) = Dated(d.basis[i])
             /\ desk \notin {"futures", "news"} => i \in DOMAIN d.ranked
  <2>1. i \in Admitted(evidence, d.at)
    BY <1>2, <1>3, RankedAre
  <2>2. i \in DOMAIN evidence /\ ~LateFor(desk, evidence[i], d.at)
    BY <1>2, <2>1, RankedInTime
  <2>3. i \in DOMAIN d.basis /\ Dated(evidence[i]) = Dated(d.basis[i])
    BY <1>3, <2>2 DEF Stands
  <2>4. ASSUME desk \notin {"futures", "news"} PROVE i \in DOMAIN d.ranked
    <3>1. desk \in {"earnings", "dividend", "cape"}
      BY <1>2, <2>4 DEF Reference
    <3>2. d.basis[i] = evidence[i]
      BY <2>3, <3>1 DEF Dated
    <3>3. i \in Admitted(d.basis, d.at)
      BY <2>1, <2>3, <3>1, <3>2, AdmittedAlone
    <3> QED
      BY <1>2, <1>3, <3>3, RankedAre
  <2> QED
    BY <2>3, <2>4
<1>5. ASSUME NEW i \in DOMAIN replayed.ranked \intersect DOMAIN d.ranked,
             NEW j \in DOMAIN replayed.ranked \intersect DOMAIN d.ranked
      PROVE  replayed.ranked[i] < replayed.ranked[j] <=> d.ranked[i] < d.ranked[j]
  <2>1. /\ i \in Admitted(evidence, d.at) /\ j \in Admitted(evidence, d.at)
        /\ i \in Admitted(d.basis, d.at) /\ j \in Admitted(d.basis, d.at)
    BY <1>2, <1>3, RankedAre
  <2>2. \A k \in {i, j} : /\ FirstKey(desk, evidence[k]) = FirstKey(desk, d.basis[k])
                          /\ NextKey(desk, evidence[k]) = NextKey(desk, d.basis[k])
    BY <1>2, <1>4, SameKeys
  <2>3. /\ [k \in {i, j} |-> FirstKey(desk, evidence[k])]
              = [k \in {i, j} |-> FirstKey(desk, d.basis[k])]
        /\ [k \in {i, j} |-> NextKey(desk, evidence[k])]
              = [k \in {i, j} |-> NextKey(desk, d.basis[k])]
    BY <2>2
  <2>4. replayed.ranked[i] < replayed.ranked[j] <=>
            Ahead([k \in {i, j} |-> FirstKey(desk, evidence[k])],
                  [k \in {i, j} |-> NextKey(desk, evidence[k])], i, j)
    BY <1>2, <1>3, <2>1, RankedInOrder
  <2>5. d.ranked[i] < d.ranked[j] <=>
            Ahead([k \in {i, j} |-> FirstKey(desk, d.basis[k])],
                  [k \in {i, j} |-> NextKey(desk, d.basis[k])], i, j)
    BY <1>2, <1>3, <2>1, RankedInOrder
  <2> QED
    BY <2>3, <2>4, <2>5
<1> QED
  BY <1>1, <1>4, <1>5

\* No package that is a candidate is one in the other direction as well.
LEMMA CandidatesOneWay == ResearchInv => OneDirection
<1> SUFFICES ASSUME ResearchInv, desk = "arbitrage",
                    NEW i \in DOMAIN ArbitrageUniverse(evidence)
             PROVE  PackageReasons(Mirror(evidence[i])) # {}
  BY DEF OneDirection
<1>1. i \in DOMAIN evidence /\ PackageReasons(evidence[i]) = {}
  BY DEF ArbitrageUniverse, RankedBy, Places
<1>2. evidence[i] \in PackageRecords
  BY <1>1 DEF ResearchInv, Holding, HeldAt
<1> QED
  BY <1>1, <1>2, MirrorRejected

\* What the research desks promise: a decision evaluated again ranks what it
\* had, no package is a candidate both ways, and an outcome is credited to the
\* arm that was drawn (earnings.py, arbitrage.py, dividends.py,
\* futures_events.py, and the experiment).
THEOREM ResearchTheorem == ResearchSpec => []ResearchKept
<1>1. ResearchInit => ResearchInv
  BY ResearchStarts
<1>2. ResearchInv /\ [ResearchNext]_researchVars => ResearchInv'
  BY ResearchStep
<1>3. ResearchInv => ReplayFromBasis /\ OneDirection
  BY ReplayedFromBasis, CandidatesOneWay
<1>4. ResearchSpec => []CreditedAsDrawn
  BY CreditTheorem
<1>5. ReplayFromBasis /\ OneDirection /\ CreditedAsDrawn => ResearchKept
  BY DEF ResearchKept
<1> QED
  BY <1>1, <1>2, <1>3, <1>4, <1>5, PTL DEF ResearchSpec
=============================================================================
