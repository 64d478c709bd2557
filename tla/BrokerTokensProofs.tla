------------------------- MODULE BrokerTokensProofs -------------------------
(***************************************************************************)
(* What TLAPS proves of BrokerTokens, for any threads, grants, ages and    *)
(* number of tokens, on either store.                                      *)
(***************************************************************************)
EXTENDS BrokerTokens, TLAPS

(* A request changes the record of its own thread.                         *)
LEMMA BecomesRecord ==
    ASSUME BrokerTypeOK, NEW t \in BrokerThreads, NEW m \in Serving, Becomes(t, m)
    PROVE  /\ serving' \in [BrokerThreads -> Serving]
           /\ serving'[t] = m
           /\ \A u \in BrokerThreads \ {t} : serving'[u] = serving[u]
  BY DEF BrokerTypeOK, Becomes

LEMMA IdleIsThread == NotServing \in Serving
  BY DEF NotServing, Serving, ServingSteps

LEMMA NoRowNoBundle == NoRow \notin Bundle
  BY DEF NoRow, Bundle

LEMMA BundleFields ==
    ASSUME NEW b \in Bundle
    PROVE  /\ b.grant \in Grants /\ b.refresh \in Token /\ b.access \in Token
           /\ b.issuedAt \in Nat /\ b.form \in Forms
  BY DEF Bundle

LEMMA UpgradedBundle ==
    ASSUME NEW b \in Bundle
    PROVE  /\ Upgraded(b) \in Bundle
           /\ Upgraded(b).grant = b.grant /\ Upgraded(b).refresh = b.refresh
           /\ Upgraded(b).access = b.access
           /\ Upgraded(b).issuedAt = b.issuedAt /\ Upgraded(b).form = "undated"
  BY DEF Upgraded, Bundle, Forms

LEMMA RefreshedBundle ==
    ASSUME NEW b \in Bundle, NEW rotates \in BOOLEAN, NEW n \in Token,
           NEW now \in Nat
    PROVE  LET c == Refreshed(b, rotates, n, now) IN
           /\ c \in Bundle
           /\ c.grant = b.grant /\ c.access = n /\ c.form = b.form
           /\ rotates => c.refresh = n
           /\ ~rotates => c.refresh = b.refresh /\ c.issuedAt = b.issuedAt
  BY DEF Refreshed, Bundle

Holding(t) == serving[t].step \notin {"idle", "getState"}

LEMMA HeldBundle ==
    ASSUME BrokerTypeOK, NEW t \in BrokerThreads, Holding(t)
    PROVE  serving[t] \in Serving /\ serving[t].bundle \in Bundle
  BY DEF BrokerTypeOK, Holding

(* What a step of a thread must get right for the types to hold after it.  *)
LEMMA ThreadStepTypes ==
    ASSUME BrokerTypeOK, NEW t \in BrokerThreads, NEW m \in Serving, Becomes(t, m),
           m.step \notin {"idle", "getState"} => m.bundle \in Bundle,
           backend' = backend, clock' = clock, row' \in Bundle \cup {NoRow},
           grant' \in [Grants -> [live : Nat, rotates : BOOLEAN]],
           issued' \in Nat, persisted' \subseteq Token, lost' \subseteq Token
    PROVE  BrokerTypeOK'
<1>1. /\ serving' \in [BrokerThreads -> Serving]
      /\ serving'[t] = m /\ \A u \in BrokerThreads \ {t} : serving'[u] = serving[u]
  BY BecomesRecord
<1>2. ASSUME NEW u \in BrokerThreads, serving'[u].step \notin {"idle", "getState"}
      PROVE  serving'[u].bundle \in Bundle
  BY <1>1, <1>2 DEF BrokerTypeOK
<1> QED
  BY <1>1, <1>2 DEF BrokerTypeOK

(* A step that only moves a thread on.                                     *)
LEMMA GotoTypes ==
    ASSUME BrokerTypeOK, NEW t \in BrokerThreads, NEW step \in ServingSteps
    PROVE  LET m == [serving[t] EXCEPT !.step = step] IN
           /\ m \in Serving /\ m.step = step /\ m.bundle = serving[t].bundle
  BY DEF BrokerTypeOK, Serving

LEMMA IdleTypes == NotServing \in Serving /\ NotServing.step = "idle"
  BY DEF NotServing, Serving, ServingSteps

(* Types are preserved by every action.                                    *)
LEMMA TypeStep == BrokerTypeOK /\ [BrokerNext]_brokerVars => BrokerTypeOK'
<1> SUFFICES ASSUME BrokerTypeOK, [BrokerNext]_brokerVars PROVE BrokerTypeOK'
  OBVIOUS
<1>1. CASE PassTime
  BY <1>1, BrokerAssumption DEF PassTime, BrokerTypeOK, external, history
<1>2. CASE Unlink
  BY <1>2 DEF Unlink, BrokerTypeOK, external, history
<1>3. ASSUME NEW t \in BrokerThreads, NEW g \in Grants, ExchangeCode(t, g)
      PROVE  BrokerTypeOK'
  <2> DEFINE b == [ grant |-> g, refresh |-> issued + 1, access |-> issued + 1,
                    issuedAt |-> clock, form |-> "current" ]
             m == [NotServing EXCEPT !.step = "postLink", !.bundle = b]
  <2>1. b \in Bundle
    BY DEF BrokerTypeOK, Bundle, Token, Forms
  <2>2. m \in Serving /\ m.step = "postLink" /\ m.bundle = b
    BY <2>1 DEF NotServing, Serving, ServingSteps
  <2>3. grant' \in [Grants -> [live : Nat, rotates : BOOLEAN]]
    BY <1>3 DEF ExchangeCode, BrokerTypeOK
  <2>4. Becomes(t, m) /\ issued' \in Nat
    BY <1>3 DEF ExchangeCode, BrokerTypeOK
  <2>5. /\ backend' = backend /\ clock' = clock /\ row' \in Bundle \cup {NoRow}
        /\ persisted' \subseteq Token /\ lost' \subseteq Token
    BY <1>3 DEF ExchangeCode, BrokerTypeOK, history
  <2> HIDE DEF m, b
  <2> QED
    BY <2>1, <2>2, <2>3, <2>4, <2>5, ThreadStepTypes
<1>4. ASSUME NEW t \in BrokerThreads, PostLink(t)
      PROVE  BrokerTypeOK'
  <2>1. Holding(t)
    BY <1>4 DEF PostLink, Reached, Holding
  <2>2. /\ Becomes(t, NotServing) /\ row' \in Bundle \cup {NoRow}
        /\ persisted' \subseteq Token
    BY <1>4, <2>1, HeldBundle, BundleFields DEF PostLink, StoreTokens, Answer, BrokerTypeOK
  <2>3. /\ backend' = backend /\ clock' = clock /\ lost' \subseteq Token
        /\ grant' \in [Grants -> [live : Nat, rotates : BOOLEAN]]
        /\ issued' \in Nat
    BY <1>4 DEF PostLink, BrokerTypeOK, external
  <2> QED
    BY <2>2, <2>3, IdleTypes, ThreadStepTypes
<1>5. ASSUME NEW t \in BrokerThreads, GiveUp(t)
      PROVE  BrokerTypeOK'
  <2>1. lost' \subseteq Token
    <3>1. CASE serving[t].step \in {"getPersist", "patchPersist"}
      <4>1. serving[t].bundle.refresh \in Token
        BY <3>1, HeldBundle, BundleFields DEF Holding
      <4> QED
        BY <1>5, <3>1, <4>1 DEF GiveUp, BrokerTypeOK
    <3>2. CASE serving[t].step \notin {"getPersist", "patchPersist"}
      BY <1>5, <3>2 DEF GiveUp, BrokerTypeOK
    <3> QED
      BY <3>1, <3>2
  <2>2. /\ Becomes(t, NotServing) /\ row' \in Bundle \cup {NoRow}
        /\ persisted' \subseteq Token /\ backend' = backend /\ clock' = clock
        /\ grant' \in [Grants -> [live : Nat, rotates : BOOLEAN]]
        /\ issued' \in Nat
    BY <1>5 DEF GiveUp, Answer, BrokerTypeOK, external
  <2> QED
    BY <2>1, <2>2, IdleTypes, ThreadStepTypes
<1>6. ASSUME NEW t \in BrokerThreads, MarketData(t)
      PROVE  BrokerTypeOK'
  <2>0. serving[t] \in Serving /\ (row # NoRow => row \in Bundle)
    BY DEF BrokerTypeOK
  <2>1. CASE StartRequest(t)
    <3>1. [NotServing EXCEPT !.step = "getState"] \in Serving
      BY DEF NotServing, Serving, ServingSteps
    <3> QED
      BY <2>1, <3>1, ThreadStepTypes
         DEF StartRequest, BrokerTypeOK, external, history, NotServing
  <2>2. CASE ReadLegacy(t)
    <3>1. Upgraded(row) \in Bundle
      BY <2>0, <2>2, UpgradedBundle DEF ReadLegacy
    <3> DEFINE m == [serving[t] EXCEPT !.step = "patchLegacy",
                                      !.bundle = Upgraded(row)]
    <3>2. m \in Serving /\ m.bundle = Upgraded(row)
      BY <2>0, <3>1 DEF Serving, ServingSteps
    <3>3. Becomes(t, NotServing) \/ Becomes(t, m)
      BY <2>2 DEF ReadLegacy, Answer
    <3>4. /\ backend' = backend /\ clock' = clock /\ row' \in Bundle \cup {NoRow}
          /\ grant' \in [Grants -> [live : Nat, rotates : BOOLEAN]]
          /\ issued' \in Nat /\ persisted' \subseteq Token /\ lost' \subseteq Token
      BY <2>2, <3>1 DEF ReadLegacy, BrokerTypeOK, external, history
    <3> HIDE DEF m
    <3> QED
      BY <3>1, <3>2, <3>3, <3>4, IdleTypes, ThreadStepTypes
  <2>3. CASE PatchLegacy(t)
    <3>1. Holding(t)
      BY <2>3 DEF PatchLegacy, Reached, Holding
    <3>2. /\ Becomes(t, NotServing) /\ row' \in Bundle \cup {NoRow}
          /\ persisted' \subseteq Token
      BY <2>3, <3>1, HeldBundle, BundleFields
         DEF PatchLegacy, StoreTokens, Answer, BrokerTypeOK
    <3>3. /\ backend' = backend /\ clock' = clock /\ lost' \subseteq Token
          /\ grant' \in [Grants -> [live : Nat, rotates : BOOLEAN]]
          /\ issued' \in Nat
      BY <2>3 DEF PatchLegacy, BrokerTypeOK, external
    <3> QED
      BY <3>2, <3>3, IdleTypes, ThreadStepTypes
  <2>4. CASE ReadUnusable(t) \/ RefreshRefused(t)
    BY <2>4, IdleTypes, ThreadStepTypes
       DEF ReadUnusable, RefreshRefused, Answer, BrokerTypeOK, external, history
  <2>5. CASE ReadUsable(t)
    <3> DEFINE m(step) == [serving[t] EXCEPT !.bundle = row, !.now = clock,
                                            !.step = step]
    <3>1. \A step \in ServingSteps :
             m(step) \in Serving /\ m(step).bundle = row /\ row \in Bundle
      BY <2>0, <2>5 DEF ReadUsable, Serving, BrokerTypeOK
    <3>2. \/ Becomes(t, m("reread")) \/ Becomes(t, m("refresh"))
          \/ Becomes(t, NotServing)
      BY <2>5 DEF ReadUsable, Answer
    <3>3. /\ backend' = backend /\ clock' = clock /\ row' \in Bundle \cup {NoRow}
          /\ grant' \in [Grants -> [live : Nat, rotates : BOOLEAN]]
          /\ issued' \in Nat /\ persisted' \subseteq Token /\ lost' \subseteq Token
      BY <2>5 DEF ReadUsable, BrokerTypeOK, external, history
    <3>4. "reread" \in ServingSteps /\ "refresh" \in ServingSteps
      BY DEF ServingSteps
    <3> HIDE DEF m
    <3> QED
      BY <3>1, <3>2, <3>3, <3>4, IdleTypes, ThreadStepTypes
  <2>6. CASE Refresh(t)
    <3> DEFINE b == serving[t].bundle
               c == Refreshed(b, grant[b.grant].rotates, issued + 1, serving[t].now)
               m == [serving[t] EXCEPT !.step = "getPersist", !.bundle = c]
    <3>1. Holding(t)
      BY <2>6 DEF Refresh, Reached, Holding
    <3>2. b \in Bundle /\ b.grant \in Grants /\ serving[t].now \in Nat
      BY <3>1, HeldBundle, BundleFields DEF Serving
    <3>3. grant[b.grant].rotates \in BOOLEAN /\ issued + 1 \in Token
      BY <3>2 DEF BrokerTypeOK, Token
    <3>4. c \in Bundle
      BY <3>2, <3>3, RefreshedBundle
    <3>5. m \in Serving /\ m.bundle = c
      BY <2>0, <3>4 DEF Serving, ServingSteps
    <3>6. Becomes(t, m)
      BY <2>6 DEF Refresh
    <3>7. grant' \in [Grants -> [live : Nat, rotates : BOOLEAN]]
      BY <2>6, <3>2 DEF Refresh, BrokerTypeOK
    <3>8. /\ backend' = backend /\ clock' = clock /\ row' \in Bundle \cup {NoRow}
          /\ issued' \in Nat /\ persisted' \subseteq Token /\ lost' \subseteq Token
      BY <2>6 DEF Refresh, BrokerTypeOK, history
    <3> HIDE DEF m, c
    <3> QED
      BY <3>4, <3>5, <3>6, <3>7, <3>8, ThreadStepTypes
  <2>7. CASE GetPersist(t) \/ PatchPersist(t)
    <3> DEFINE m(step) == [serving[t] EXCEPT !.step = step]
    <3>1. Holding(t)
      BY <2>7 DEF GetPersist, PatchPersist, Reached, Holding
    <3>2. serving[t].bundle \in Bundle
      BY <3>1, HeldBundle
    <3>3. /\ serving[t].bundle.access \in Token
          /\ serving[t].bundle.refresh \in Token
      BY <3>2, BundleFields
    <3>4. \A step \in {"reread", "patchPersist"} :
             m(step) \in Serving /\ m(step).bundle = serving[t].bundle
      BY <2>0 DEF Serving, ServingSteps
    <3>5. \/ Becomes(t, m("reread")) \/ Becomes(t, m("patchPersist"))
          \/ Becomes(t, NotServing)
      BY <2>7 DEF GetPersist, PatchPersist, Proceed, Answer
    <3>6. /\ backend' = backend /\ clock' = clock /\ row' \in Bundle \cup {NoRow}
          /\ grant' \in [Grants -> [live : Nat, rotates : BOOLEAN]]
          /\ issued' \in Nat /\ persisted' \subseteq Token /\ lost' \subseteq Token
      BY <2>7, <3>2, <3>3 DEF GetPersist, PatchPersist, StoreTokens, BrokerTypeOK, external
    <3> HIDE DEF m
    <3> QED
      BY <3>2, <3>4, <3>5, <3>6, IdleTypes, ThreadStepTypes
  <2>8. CASE Reread(t) \/ CallApi(t)
    <3> DEFINE m == [serving[t] EXCEPT !.step = "callApi"]
               n == [NotServing EXCEPT !.step = "getState", !.forced = TRUE]
    <3>1. Holding(t)
      BY <2>8 DEF Reread, CallApi, Reached, Holding
    <3>2. m \in Serving /\ m.bundle = serving[t].bundle /\ m.bundle \in Bundle
      BY <2>0, <3>1, HeldBundle DEF Serving, ServingSteps
    <3>3. n \in Serving /\ n.step = "getState"
      BY DEF NotServing, Serving, ServingSteps
    <3>4. Becomes(t, NotServing) \/ Becomes(t, m) \/ Becomes(t, n)
      BY <2>8 DEF Reread, CallApi, Proceed, Answer
    <3>5. /\ backend' = backend /\ clock' = clock /\ row' \in Bundle \cup {NoRow}
          /\ grant' \in [Grants -> [live : Nat, rotates : BOOLEAN]]
          /\ issued' \in Nat /\ persisted' \subseteq Token /\ lost' \subseteq Token
      BY <2>8 DEF Reread, CallApi, BrokerTypeOK, external, history
    <3> HIDE DEF m, n
    <3> QED
      BY <3>2, <3>3, <3>4, <3>5, IdleTypes, ThreadStepTypes
  <2> QED
    BY <1>6, <2>1, <2>2, <2>3, <2>4, <2>5, <2>6, <2>7, <2>8 DEF MarketData
<1>7. CASE UNCHANGED brokerVars
  BY <1>7 DEF brokerVars, BrokerTypeOK, external, history
<1> QED
  BY <1>1, <1>2, <1>3, <1>4, <1>5, <1>6, <1>7 DEF BrokerNext

LEMMA TypeInit == BrokerInit => BrokerTypeOK
<1> SUFFICES ASSUME BrokerInit PROVE BrokerTypeOK
  OBVIOUS
<1>1. row \in Bundle \cup {NoRow}
  BY DEF BrokerInit, Bundle, Token, Forms
<1>2. /\ grant \in [Grants -> [live : Nat, rotates : BOOLEAN]]
      /\ issued \in Nat /\ persisted \subseteq Token /\ lost \subseteq Token
  <2>1. ASSUME issued = 0, persisted = {},
               grant = [g \in Grants |-> Ungranted]
        PROVE  /\ grant \in [Grants -> [live : Nat, rotates : BOOLEAN]]
               /\ issued \in Nat /\ persisted \subseteq Token
    BY <2>1 DEF Ungranted, Token
  <2>2. ASSUME NEW g \in Grants, issued = 1, persisted = {1},
               grant = [[x \in Grants |-> Ungranted] EXCEPT ![g].live = 1]
        PROVE  /\ grant \in [Grants -> [live : Nat, rotates : BOOLEAN]]
               /\ issued \in Nat /\ persisted \subseteq Token
    <3>1. /\ Ungranted \in [live : Nat, rotates : BOOLEAN]
          /\ [Ungranted EXCEPT !.live = 1] \in [live : Nat, rotates : BOOLEAN]
      BY DEF Ungranted
    <3>2. grant = [[x \in Grants |-> Ungranted] EXCEPT
                     ![g] = [Ungranted EXCEPT !.live = 1]]
      BY <2>2
    <3> QED
      BY <2>2, <3>1, <3>2 DEF Token
  <2>3. lost \subseteq Token
    BY DEF BrokerInit
  <2> QED
    BY <2>1, <2>2, <2>3 DEF BrokerInit
<1>3. /\ serving \in [BrokerThreads -> Serving]
      /\ \A t \in BrokerThreads : serving[t].step = "idle"
  BY IdleTypes DEF BrokerInit
<1>4. backend \in {"sqlite", "supabase"} /\ clock \in Nat
  BY DEF BrokerInit
<1> QED
  BY <1>1, <1>2, <1>3, <1>4 DEF BrokerTypeOK

(* The tokens, the grants, the stored link and every thread stay well      *)
(* typed: a bundle is complete whenever one is stored or used.             *)
THEOREM TypeCorrect == BrokerSpec => []BrokerTypeOK
  BY TypeInit, TypeStep, PTL DEF BrokerSpec

-----------------------------------------------------------------------------
(* The bundles of the row and of the requests, and where each comes from.  *)

Held(b) ==
    \/ row # NoRow /\ b = row
    \/ \E t \in BrokerThreads : Holding(t) /\ b = serving[t].bundle

(* The same tokens of the same grant, dated alike.                         *)
SameTokens(b, c) ==
    b.grant = c.grant /\ b.refresh = c.refresh /\ b.issuedAt = c.issuedAt

Inherited(b) == \E c \in Bundle : Held(c) /\ SameTokens(b, c)

(* A thread is left with a bundle that it, or the row, had, or a new one.  *)
LEMMA ThreadStepHeld ==
    ASSUME BrokerTypeOK, NEW t \in BrokerThreads, NEW m \in Serving, Becomes(t, m),
           row' # NoRow => Inherited(row'),
           NEW f, m.step \notin {"idle", "getState"}
                     => Inherited(m.bundle) \/ m.bundle = f
    PROVE  \A b \in Bundle : Held(b)' => Inherited(b) \/ b = f
<1>1. /\ serving'[t] = m /\ \A u \in BrokerThreads \ {t} : serving'[u] = serving[u]
  BY BecomesRecord
<1> SUFFICES ASSUME NEW b \in Bundle, Held(b)' PROVE Inherited(b) \/ b = f
  OBVIOUS
<1>2. CASE row' # NoRow /\ b = row'
  BY <1>2
<1>3. ASSUME NEW u \in BrokerThreads, Holding(u)', b = serving'[u].bundle
      PROVE  Inherited(b) \/ b = f
  <2>1. CASE u = t
    BY <1>1, <1>3, <2>1 DEF Holding
  <2>2. CASE u # t
    <3>1. Held(b)
      BY <1>1, <1>3, <2>2 DEF Holding, Held
    <3> QED
      BY <3>1 DEF Inherited, SameTokens
  <2> QED
    BY <2>1, <2>2
<1> QED
  BY <1>2, <1>3 DEF Held

LEMMA HeldIsInherited ==
    ASSUME BrokerTypeOK
    PROVE  /\ row # NoRow => row \in Bundle /\ Held(row) /\ Inherited(row)
           /\ \A t \in BrokerThreads : Holding(t) =>
                 /\ serving[t].bundle \in Bundle
                 /\ Held(serving[t].bundle) /\ Inherited(serving[t].bundle)
  BY HeldBundle DEF BrokerTypeOK, Held, Inherited, SameTokens

(* A step of a thread stores its own bundle, or the upgraded row.          *)
LEMMA StepStores ==
    ASSUME NEW t \in BrokerThreads, PostLink(t) \/ MarketData(t) \/ GiveUp(t)
    PROVE  \/ row' = row
           \/ row' = serving[t].bundle /\ Holding(t)
           \/ row # NoRow /\ row' = Upgraded(row)
  BY DEF PostLink, GiveUp, MarketData, StartRequest, ReadLegacy,
         PatchLegacy, ReadUnusable, ReadUsable, Refresh, RefreshRefused,
         GetPersist, PatchPersist, Reread, CallApi, StoreTokens, Reached, Holding

(* The stored bundle is one that the row or a request already had.         *)
LEMMA RowInherited ==
    ASSUME BrokerTypeOK, [BrokerNext]_brokerVars, row' # NoRow
    PROVE  Inherited(row')
<1>1. CASE row' = row
  BY <1>1, HeldIsInherited
<1>2. ASSUME NEW t \in BrokerThreads, row' = serving[t].bundle, Holding(t)
      PROVE  Inherited(row')
  BY <1>2, HeldIsInherited
<1>3. ASSUME row # NoRow, row' = Upgraded(row)
      PROVE  Inherited(row')
  BY <1>3, HeldIsInherited, UpgradedBundle DEF Inherited, SameTokens
<1>4. row' = row \/ row' = NoRow
        \/ (\E t \in BrokerThreads : row' = serving[t].bundle /\ Holding(t))
        \/ (row # NoRow /\ row' = Upgraded(row))
  <2>1. CASE PassTime \/ Unlink \/ UNCHANGED brokerVars
    BY <2>1 DEF PassTime, Unlink, brokerVars
  <2>2. ASSUME NEW t \in BrokerThreads, NEW g \in Grants, ExchangeCode(t, g)
        PROVE  row' = row
    BY <2>2 DEF ExchangeCode
  <2>3. ASSUME NEW t \in BrokerThreads, PostLink(t) \/ MarketData(t) \/ GiveUp(t)
        PROVE  \/ row' = row
               \/ row' = serving[t].bundle /\ Holding(t)
               \/ row # NoRow /\ row' = Upgraded(row)
    BY <2>3, StepStores
  <2> QED
    BY <2>1, <2>2, <2>3 DEF BrokerNext
<1> QED
  BY <1>1, <1>2, <1>3, <1>4

(* Every other step of a thread leaves it with its own bundle or with that *)
(* of the row.                                                             *)
MovesOn(t, m) ==
    /\ Becomes(t, m)
    /\ \/ m.step \in {"idle", "getState"}
       \/ Holding(t) /\ m.bundle = serving[t].bundle
       \/ row # NoRow /\ row.form = "current" /\ m.bundle = row
       \/ row # NoRow /\ m.bundle = Upgraded(row)
    /\ m.step = "patchLegacy" =>
          row # NoRow /\ row.form = "legacy" /\ m.bundle = Upgraded(row)

LEMMA StepMovesOn ==
    ASSUME BrokerTypeOK, NEW t \in BrokerThreads, ~Refresh(t),
           PostLink(t) \/ GiveUp(t) \/ MarketData(t)
    PROVE  \E m \in Serving : MovesOn(t, m)
<1> USE DEF MovesOn
<1>0. serving[t] \in Serving /\ (row # NoRow => row \in Bundle)
  BY DEF BrokerTypeOK
<1>1. CASE Becomes(t, NotServing)
  BY <1>1, IdleTypes
<1>2. ASSUME NEW step \in ServingSteps \ {"patchLegacy"}, Proceed(t, step), Holding(t)
      PROVE  \E m \in Serving : MovesOn(t, m)
  <2> DEFINE m == [serving[t] EXCEPT !.step = step]
  <2>1. m \in Serving /\ m.step = step /\ m.bundle = serving[t].bundle
    BY GotoTypes
  <2>2. Becomes(t, m)
    BY <1>2 DEF Proceed
  <2> HIDE DEF m
  <2> QED
    BY <1>2, <2>1, <2>2
<1>3. CASE StartRequest(t) \/ CallApi(t)
  <2> DEFINE n == [NotServing EXCEPT !.step = "getState", !.forced = TRUE]
  <2>1. /\ [NotServing EXCEPT !.step = "getState"] \in Serving
        /\ [NotServing EXCEPT !.step = "getState"].step = "getState"
    BY DEF NotServing, Serving, ServingSteps
  <2>2. n \in Serving /\ n.step = "getState"
    BY DEF NotServing, Serving, ServingSteps
  <2> QED
    BY <1>1, <1>3, <2>1, <2>2 DEF StartRequest, CallApi, Answer
<1>4. CASE ReadLegacy(t)
  <2>1. Upgraded(row) \in Bundle /\ row # NoRow
    BY <1>0, <1>4, UpgradedBundle DEF ReadLegacy
  <2>2. LET m == [serving[t] EXCEPT !.step = "patchLegacy",
                                   !.bundle = Upgraded(row)]
        IN  m \in Serving /\ m.step = "patchLegacy" /\ m.bundle = Upgraded(row)
    BY <1>0, <2>1 DEF Serving, ServingSteps
  <2> QED
    BY <1>1, <1>4, <2>1, <2>2 DEF ReadLegacy, Answer
<1>5. CASE ReadUsable(t)
  <2> DEFINE m(step) == [serving[t] EXCEPT !.bundle = row, !.now = clock,
                                          !.step = step]
  <2>1. \A step \in {"reread", "refresh"} :
           /\ m(step) \in Serving /\ m(step).step = step
           /\ m(step).bundle = row /\ row # NoRow /\ row.form = "current"
    BY <1>0, <1>5 DEF ReadUsable, Serving, BrokerTypeOK, ServingSteps
  <2>2. \/ Becomes(t, m("reread")) \/ Becomes(t, m("refresh"))
        \/ Becomes(t, NotServing)
    BY <1>5 DEF ReadUsable, Answer
  <2> HIDE DEF m
  <2> QED
    BY <1>1, <2>1, <2>2
<1>6. CASE GetPersist(t) \/ PatchPersist(t) \/ Reread(t)
  <2>1. /\ Holding(t)
        /\ \/ Becomes(t, NotServing) \/ Proceed(t, "reread")
           \/ Proceed(t, "patchPersist") \/ Proceed(t, "callApi")
    BY <1>6 DEF GetPersist, PatchPersist, Reread, Reached, Holding, Answer
  <2> QED
    BY <1>1, <1>2, <2>1 DEF ServingSteps
<1>7. CASE PostLink(t) \/ GiveUp(t) \/ PatchLegacy(t)
             \/ ReadUnusable(t) \/ RefreshRefused(t)
  BY <1>1, <1>7
     DEF PostLink, GiveUp, PatchLegacy, ReadUnusable, RefreshRefused, Answer
<1> QED
  BY <1>3, <1>4, <1>5, <1>6, <1>7 DEF MarketData

(* A new bundle has the token that was issued in the step, or is the old   *)
(* one with another access token.                                          *)
LEMMA BundlesInherited ==
    ASSUME BrokerTypeOK, [BrokerNext]_brokerVars
    PROVE  \E f \in Bundle \cup {NoBundle} : \A b \in Bundle : Held(b)' =>
              \/ Inherited(b)
              \/ /\ b = f /\ f.refresh = issued + 1 /\ issued' = issued + 1
                 /\ grant'[f.grant].live = issued + 1
<1> DEFINE Goal == \E f \in Bundle \cup {NoBundle} : \A b \in Bundle : Held(b)' =>
              \/ Inherited(b)
              \/ /\ b = f /\ f.refresh = issued + 1 /\ issued' = issued + 1
                 /\ grant'[f.grant].live = issued + 1
<1>0. row' # NoRow => Inherited(row')
  BY RowInherited
<1>1. CASE PassTime \/ Unlink \/ UNCHANGED brokerVars
  <2>1. serving' = serving
    BY <1>1 DEF PassTime, Unlink, brokerVars
  <2>2. ASSUME NEW b \in Bundle, Held(b)' PROVE Inherited(b)
    <3>1. CASE row' # NoRow /\ b = row'
      BY <1>0, <3>1
    <3>2. ASSUME NEW t \in BrokerThreads, Holding(t), b = serving[t].bundle
          PROVE  Inherited(b)
      BY <3>2, HeldIsInherited
    <3> QED
      BY <2>1, <2>2, <3>1, <3>2 DEF Held, Holding
  <2> QED
    BY <2>2
<1>2. ASSUME NEW t \in BrokerThreads, NEW g \in Grants, ExchangeCode(t, g)
      PROVE  Goal
  <2> DEFINE f == [ grant |-> g, refresh |-> issued + 1, access |-> issued + 1,
                    issuedAt |-> clock, form |-> "current" ]
             m == [NotServing EXCEPT !.step = "postLink", !.bundle = f]
  <2>1. f \in Bundle /\ f.refresh = issued + 1 /\ f.grant = g
    BY DEF BrokerTypeOK, Bundle, Token, Forms
  <2>2. m \in Serving /\ m.bundle = f
    BY <2>1 DEF NotServing, Serving, ServingSteps
  <2>3. Becomes(t, m) /\ issued' = issued + 1
    BY <1>2 DEF ExchangeCode
  <2>4. grant'[g].live = issued + 1
    BY <1>2 DEF ExchangeCode, BrokerTypeOK
  <2> HIDE DEF m, f
  <2>5. \A b \in Bundle : Held(b)' => Inherited(b) \/ b = f
    BY <1>0, <2>2, <2>3, ThreadStepHeld
  <2> QED
    BY <2>1, <2>3, <2>4, <2>5
<1>3. ASSUME NEW t \in BrokerThreads, Refresh(t)
      PROVE  Goal
  <2> DEFINE b == serving[t].bundle
             f == Refreshed(b, grant[b.grant].rotates, issued + 1, serving[t].now)
             m == [serving[t] EXCEPT !.step = "getPersist", !.bundle = f]
  <2>1. Holding(t) /\ serving[t] \in Serving
    BY <1>3 DEF Refresh, Reached, Holding, BrokerTypeOK
  <2>2. b \in Bundle /\ b.grant \in Grants /\ serving[t].now \in Nat
    BY <2>1, HeldBundle, BundleFields DEF Serving
  <2>3. grant[b.grant].rotates \in BOOLEAN /\ issued + 1 \in Token
    BY <2>2 DEF BrokerTypeOK, Token
  <2>4. /\ f \in Bundle /\ f.grant = b.grant
        /\ grant[b.grant].rotates => f.refresh = issued + 1
        /\ ~grant[b.grant].rotates => SameTokens(f, b)
    BY <2>2, <2>3, RefreshedBundle DEF SameTokens
  <2>5. m \in Serving /\ m.bundle = f
    BY <2>1, <2>4 DEF Serving, ServingSteps
  <2>6. /\ Becomes(t, m) /\ issued' = issued + 1
        /\ grant[b.grant].rotates => grant'[b.grant].live = issued + 1
    BY <1>3, <2>2 DEF Refresh, BrokerTypeOK
  <2> HIDE DEF m, f
  <2>7. \A c \in Bundle : Held(c)' => Inherited(c) \/ c = f
    BY <1>0, <2>5, <2>6, ThreadStepHeld
  <2>8. ~grant[b.grant].rotates => Inherited(f)
    BY <2>1, <2>2, <2>4, HeldIsInherited DEF Inherited, SameTokens
  <2> QED
    BY <2>4, <2>6, <2>7, <2>8
<1>4. ASSUME NEW t \in BrokerThreads, PostLink(t) \/ GiveUp(t) \/ MarketData(t),
             ~Refresh(t)
      PROVE  Goal
  <2>1. \E m \in Serving : MovesOn(t, m)
    BY <1>4, StepMovesOn
  <2>2. PICK m \in Serving : /\ Becomes(t, m)
                             /\ m.step \notin {"idle", "getState"}
                                 => Inherited(m.bundle)
    BY <2>1, HeldIsInherited, UpgradedBundle DEF MovesOn, Inherited, SameTokens
  <2>3. \A b \in Bundle : Held(b)' => Inherited(b) \/ b = NoBundle
    BY <1>0, <2>2, ThreadStepHeld
  <2>4. NoBundle \notin Bundle
    BY DEF NoBundle, Bundle
  <2> QED
    BY <2>3, <2>4
<1> QED
  BY <1>1, <1>2, <1>3, <1>4 DEF BrokerNext, MarketData

-----------------------------------------------------------------------------
(* A token is dated once.                                                  *)

TokensKnown ==
    /\ \A b \in Bundle : Held(b) => b.refresh <= issued /\ grant[b.grant].live # 0
    /\ \A g \in Grants : grant[g].live <= issued

DatedOnce ==
    \A b, c \in Bundle :
       Held(b) /\ Held(c) /\ b.refresh = c.refresh => b.issuedAt = c.issuedAt

AgeInv == BrokerTypeOK /\ TokensKnown /\ DatedOnce

LEMMA GrantsStep ==
    ASSUME BrokerTypeOK, TokensKnown, [BrokerNext]_brokerVars
    PROVE  /\ issued' \in Nat /\ issued <= issued'
           /\ \A g \in Grants : /\ grant'[g].live <= issued'
                                /\ grant[g].live # 0 => grant'[g].live # 0
<1>1. CASE UNCHANGED external
  BY <1>1 DEF external, BrokerTypeOK, TokensKnown
<1>2. ASSUME NEW g \in Grants, NEW live \in {grant[g].live, issued + 1},
             NEW rotates \in BOOLEAN, issued' = issued + 1,
             grant' = [grant EXCEPT ![g] = [live |-> live, rotates |-> rotates]]
      PROVE  /\ issued' \in Nat /\ issued <= issued'
             /\ \A x \in Grants : /\ grant'[x].live <= issued'
                                  /\ grant[x].live # 0 => grant'[x].live # 0
  BY <1>2 DEF BrokerTypeOK, TokensKnown
<1>3. ASSUME NEW t \in BrokerThreads, Refresh(t)
      PROVE  \E g \in Grants : \E live \in {grant[g].live, issued + 1} :
                /\ issued' = issued + 1
                /\ grant' = [grant EXCEPT ![g] =
                                [live |-> live, rotates |-> grant[g].rotates]]
  <2> DEFINE g == serving[t].bundle.grant
             live == IF grant[g].rotates THEN issued + 1 ELSE grant[g].live
  <2>1. g \in Grants
    BY <1>3, HeldBundle, BundleFields DEF Refresh, Reached, Holding
  <2>2. grant' = [grant EXCEPT ![g] = [grant[g] EXCEPT !.live = live]]
    BY <1>3 DEF Refresh
  <2>3. [grant[g] EXCEPT !.live = live]
           = [live |-> live, rotates |-> grant[g].rotates]
    BY <2>1 DEF BrokerTypeOK
  <2>4. issued' = issued + 1 /\ live \in {grant[g].live, issued + 1}
    BY <1>3 DEF Refresh
  <2> QED
    BY <2>1, <2>2, <2>3, <2>4
<1>4. ASSUME NEW t \in BrokerThreads, NEW g \in Grants, ExchangeCode(t, g)
      PROVE  \E rotates \in BOOLEAN :
                /\ issued' = issued + 1
                /\ grant' = [grant EXCEPT ![g] =
                                [live |-> issued + 1, rotates |-> rotates]]
  BY <1>4 DEF ExchangeCode
<1>5. \/ UNCHANGED external
      \/ \E t \in BrokerThreads : Refresh(t) \/ \E g \in Grants : ExchangeCode(t, g)
  BY DEF BrokerNext, PassTime, Unlink, brokerVars, PostLink, GiveUp, MarketData,
         StartRequest, ReadLegacy, PatchLegacy, ReadUnusable, ReadUsable,
         RefreshRefused, GetPersist, PatchPersist, Reread, CallApi
<1> QED
  BY <1>1, <1>2, <1>3, <1>4, <1>5 DEF BrokerTypeOK

LEMMA AgeStep == AgeInv /\ [BrokerNext]_brokerVars => AgeInv'
<1> SUFFICES ASSUME AgeInv, [BrokerNext]_brokerVars PROVE AgeInv'
  OBVIOUS
<1>1. BrokerTypeOK /\ BrokerTypeOK'
  BY TypeStep DEF AgeInv
<1>2. PICK f \in Bundle \cup {NoBundle} : \A b \in Bundle : Held(b)' =>
         \/ Inherited(b)
         \/ /\ b = f /\ f.refresh = issued + 1 /\ issued' = issued + 1
            /\ grant'[f.grant].live = issued + 1
  BY <1>1, BundlesInherited
<1>3. /\ issued \in Nat /\ issued' \in Nat /\ issued <= issued'
      /\ \A g \in Grants : /\ grant'[g].live <= issued'
                           /\ grant[g].live # 0 => grant'[g].live # 0
  BY <1>1, GrantsStep DEF AgeInv, BrokerTypeOK
<1>4. ASSUME NEW b \in Bundle, Inherited(b)
      PROVE  b.refresh <= issued /\ grant[b.grant].live # 0
  BY <1>4 DEF Inherited, SameTokens, AgeInv, TokensKnown
<1>5. TokensKnown'
  <2>1. ASSUME NEW b \in Bundle, Held(b)'
        PROVE  b.refresh <= issued' /\ grant'[b.grant].live # 0
    <3>1. b.refresh \in Nat /\ b.grant \in Grants
      BY BundleFields DEF Token
    <3> QED
      BY <1>2, <1>3, <1>4, <2>1, <3>1
  <2> QED
    BY <1>3, <2>1 DEF TokensKnown
<1>6. DatedOnce'
  <2> SUFFICES ASSUME NEW b \in Bundle, NEW c \in Bundle, Held(b)', Held(c)',
                      b.refresh = c.refresh
               PROVE  b.issuedAt = c.issuedAt
    BY DEF DatedOnce
  <2>1. CASE Inherited(b) /\ Inherited(c)
    BY <2>1 DEF Inherited, SameTokens, AgeInv, DatedOnce
  <2>2. CASE b = f /\ c = f
    BY <2>2
  <2>3. CASE \/ Inherited(b) /\ c.refresh = issued + 1
             \/ Inherited(c) /\ b.refresh = issued + 1
    BY <1>3, <1>4, <2>3
  <2> QED
    BY <1>2, <2>1, <2>2, <2>3
<1> QED
  BY <1>1, <1>5, <1>6 DEF AgeInv

(* At first every thread is idle, and the row is the only bundle.          *)
LEMMA InitFacts ==
    ASSUME BrokerInit
    PROVE  /\ \A t \in BrokerThreads : serving[t] = NotServing /\ ~Holding(t)
           /\ \A b : Held(b) => row # NoRow /\ b = row
           /\ \/ row = NoRow /\ issued = 0 /\ \A g \in Grants : grant[g] = Ungranted
              \/ /\ row \in Bundle /\ row.refresh = 1 /\ row.form = "legacy"
                 /\ row.access \in persisted
                 /\ issued = 1
                 /\ \A g \in Grants : /\ grant[g].rotates = FALSE
                                      /\ grant[g].live \in {0, 1}
                                      /\ g = row.grant => grant[g].live = 1
<1>1. \A t \in BrokerThreads : serving[t] = NotServing /\ ~Holding(t)
  BY IdleTypes DEF BrokerInit, Holding
<1>2. ASSUME issued = 0, row = NoRow, grant = [g \in Grants |-> Ungranted]
      PROVE  \A g \in Grants : grant[g] = Ungranted
  BY <1>2
<1>3. ASSUME NEW g \in Grants, persisted = {1},
             row = [ grant |-> g, refresh |-> 1, access |-> 1,
                     issuedAt |-> 0, form |-> "legacy" ],
             grant = [[x \in Grants |-> Ungranted] EXCEPT ![g].live = 1]
      PROVE  /\ row \in Bundle /\ row.refresh = 1 /\ row.form = "legacy"
             /\ row.access \in persisted
             /\ \A x \in Grants : /\ grant[x].rotates = FALSE
                                  /\ grant[x].live \in {0, 1}
                                  /\ x = row.grant => grant[x].live = 1
  <2>1. row \in Bundle /\ row.refresh = 1 /\ row.form = "legacy" /\ row.grant = g
          /\ row.access \in persisted
    BY <1>3 DEF Bundle, Token, Forms
  <2>2. grant = [[x \in Grants |-> Ungranted] EXCEPT
                   ![g] = [Ungranted EXCEPT !.live = 1]]
    BY <1>3
  <2>3. /\ Ungranted.live = 0 /\ Ungranted.rotates = FALSE
        /\ [Ungranted EXCEPT !.live = 1].live = 1
        /\ [Ungranted EXCEPT !.live = 1].rotates = FALSE
    BY DEF Ungranted
  <2> QED
    BY <2>1, <2>2, <2>3
<1> QED
  BY <1>1, <1>2, <1>3 DEF BrokerInit, Held

LEMMA AgeInit == BrokerInit => AgeInv
<1> SUFFICES ASSUME BrokerInit PROVE AgeInv
  OBVIOUS
<1>1. CASE row = NoRow /\ issued = 0 /\ \A g \in Grants : grant[g] = Ungranted
  <2>1. Ungranted.live = 0
    BY DEF Ungranted
  <2>2. TokensKnown
    BY <1>1, <2>1, InitFacts DEF TokensKnown
  <2> QED
    BY <1>1, <2>2, InitFacts, TypeInit DEF AgeInv, DatedOnce
<1>2. CASE row \in Bundle /\ row.refresh = 1 /\ issued = 1
             /\ \A g \in Grants : /\ grant[g].live \in {0, 1}
                                  /\ g = row.grant => grant[g].live = 1
  <2>1. row.grant \in Grants
    BY <1>2, BundleFields
  <2>2. TokensKnown
    <3>1. \A b \in Bundle : Held(b) => b = row
      BY InitFacts
    <3>2. \A g \in Grants : grant[g].live <= issued
      BY <1>2
    <3> QED
      BY <1>2, <2>1, <3>1, <3>2 DEF TokensKnown
  <2> QED
    BY <2>2, InitFacts, TypeInit DEF AgeInv, DatedOnce
<1> QED
  BY <1>1, <1>2, InitFacts

(* A refresh token keeps its date of issue for as long as it is stored:    *)
(* requests that overlap never date it anew.                               *)
THEOREM AgesKept == BrokerSpec => AgeNotRenewed
<1>1. AgeInv /\ [BrokerNext]_brokerVars
        => [(row # NoRow /\ row' # NoRow /\ row'.refresh = row.refresh)
              => row'.issuedAt = row.issuedAt]_brokerVars
  <2> SUFFICES ASSUME AgeInv, [BrokerNext]_brokerVars, row # NoRow, row' # NoRow,
                      row'.refresh = row.refresh
               PROVE  row'.issuedAt = row.issuedAt
    OBVIOUS
  <2>1. Inherited(row') /\ row \in Bundle /\ Held(row)
    BY RowInherited, HeldIsInherited DEF AgeInv
  <2> QED
    BY <2>1 DEF Inherited, SameTokens, AgeInv, DatedOnce
<1> QED
  BY <1>1, AgeInit, AgeStep, PTL DEF BrokerSpec, AgeNotRenewed

-----------------------------------------------------------------------------
(* A removed link comes back only from a request that links.               *)

THEOREM RemovedStays == BrokerSpec => UnlinkKept
<1>1. BrokerTypeOK /\ [BrokerNext]_brokerVars
        => [row = NoRow /\ row' # NoRow
              => \E t \in BrokerThreads : Reached(t, "postLink") /\ row' = serving[t].bundle]_brokerVars
  <2> SUFFICES ASSUME [BrokerNext]_brokerVars, row = NoRow, row' # NoRow
               PROVE  \E t \in BrokerThreads :
                         Reached(t, "postLink") /\ row' = serving[t].bundle
    OBVIOUS
  <2>1. ~(PassTime \/ Unlink \/ UNCHANGED brokerVars)
    BY DEF PassTime, Unlink, brokerVars
  <2>2. \A t \in BrokerThreads : ~GiveUp(t) /\ ~MarketData(t)
    BY DEF GiveUp, MarketData, StartRequest, ReadLegacy, PatchLegacy,
           ReadUnusable, ReadUsable, Refresh, RefreshRefused, GetPersist,
           PatchPersist, Reread, CallApi
  <2>3. \A t \in BrokerThreads, g \in Grants : ~ExchangeCode(t, g)
    BY DEF ExchangeCode
  <2> QED
    BY <2>1, <2>2, <2>3 DEF BrokerNext, PostLink, StoreTokens
<1> QED
  BY <1>1, TypeInit, TypeStep, PTL DEF BrokerSpec, UnlinkKept

-----------------------------------------------------------------------------
(* The SQLite store updates a link it has found, under its lock.           *)

LockedThread(t) ==
    /\ serving[t].step \notin {"patchLegacy", "patchPersist"}
    /\ serving[t].step \in {"reread", "callApi"}
          => serving[t].bundle.access \in persisted

LockedInv ==
    /\ BrokerTypeOK
    /\ row # NoRow => row.access \in persisted
    /\ backend = "sqlite" => \A t \in BrokerThreads : LockedThread(t)

LEMMA LockedStep == LockedInv /\ [BrokerNext]_brokerVars => LockedInv'
<1> SUFFICES ASSUME LockedInv, [BrokerNext]_brokerVars PROVE LockedInv'
  OBVIOUS
<1>1. BrokerTypeOK /\ BrokerTypeOK'
  BY TypeStep DEF LockedInv
<1>2. /\ backend' = backend /\ persisted \subseteq persisted'
      /\ row' # NoRow => row'.access \in persisted'
  <2>1. CASE PassTime \/ Unlink \/ UNCHANGED brokerVars
    BY <2>1 DEF PassTime, Unlink, brokerVars, history, LockedInv
  <2>2. ASSUME NEW t \in BrokerThreads, NEW g \in Grants, ExchangeCode(t, g)
        PROVE  /\ backend' = backend /\ persisted \subseteq persisted'
               /\ row' # NoRow => row'.access \in persisted'
    BY <2>2 DEF ExchangeCode, history, LockedInv
  <2>3. ASSUME NEW t \in BrokerThreads, ReadLegacy(t)
        PROVE  /\ backend' = backend /\ persisted \subseteq persisted'
               /\ row' # NoRow => row'.access \in persisted'
    <3>1. row # NoRow /\ row \in Bundle
      BY <1>1, <2>3 DEF ReadLegacy, BrokerTypeOK
    <3> QED
      BY <2>3, <3>1, UpgradedBundle DEF ReadLegacy, history, LockedInv
  <2>4. ASSUME NEW t \in BrokerThreads,
               PostLink(t) \/ MarketData(t) \/ GiveUp(t), ~ReadLegacy(t)
        PROVE  /\ backend' = backend /\ persisted \subseteq persisted'
               /\ row' # NoRow => row'.access \in persisted'
    BY <2>4 DEF PostLink, GiveUp, MarketData, StartRequest,
         PatchLegacy, ReadUnusable, ReadUsable, Refresh, RefreshRefused,
         GetPersist, PatchPersist, Reread, CallApi, StoreTokens, history, LockedInv
  <2> QED
    BY <2>1, <2>2, <2>3, <2>4 DEF BrokerNext, MarketData
<1>3. ASSUME backend = "sqlite", NEW u \in BrokerThreads
      PROVE  LockedThread(u)'
  <2>0. LockedThread(u)
    BY <1>3 DEF LockedInv
  <2>1. CASE serving'[u] = serving[u]
    BY <1>2, <2>0, <2>1 DEF LockedThread
  <2>2. CASE serving'[u].step \in {"idle", "getState", "postLink",
                                  "refresh", "getPersist"}
    BY <2>2 DEF LockedThread
  <2>3. ASSUME NEW t \in BrokerThreads, NEW m, Becomes(t, m),
               m.step \in {"idle", "getState", "postLink", "refresh", "getPersist"}
        PROVE  \/ serving'[u] = serving[u]
               \/ serving'[u].step \in {"idle", "getState", "postLink",
                                       "refresh", "getPersist"}
    BY <1>1, <2>3 DEF Becomes, BrokerTypeOK
  <2>4. CASE PassTime \/ Unlink \/ UNCHANGED brokerVars
    BY <2>1, <2>4 DEF PassTime, Unlink, brokerVars
  <2>5. ASSUME NEW t \in BrokerThreads, NEW g \in Grants, ExchangeCode(t, g)
        PROVE  LockedThread(u)'
    <3> DEFINE m == [NotServing EXCEPT !.step = "postLink", !.bundle =
                       [ grant |-> g, refresh |-> issued + 1, access |-> issued + 1,
                         issuedAt |-> clock, form |-> "current" ]]
    <3>1. m.step = "postLink" /\ Becomes(t, m)
      BY <2>5 DEF ExchangeCode, NotServing
    <3> HIDE DEF m
    <3> QED
      BY <2>1, <2>2, <2>3, <3>1
  <2>6. ASSUME NEW t \in BrokerThreads, StartRequest(t) \/ CallApi(t) \/ PostLink(t)
                 \/ GiveUp(t) \/ ReadUnusable(t) \/ RefreshRefused(t)
        PROVE  LockedThread(u)'
    <3>1. /\ NotServing.step = "idle"
          /\ [NotServing EXCEPT !.step = "getState"].step = "getState"
          /\ [NotServing EXCEPT !.step = "getState", !.forced = TRUE].step
                = "getState"
      BY DEF NotServing
    <3>2. \/ Becomes(t, NotServing)
          \/ Becomes(t, [NotServing EXCEPT !.step = "getState"])
          \/ Becomes(t, [NotServing EXCEPT !.step = "getState", !.forced = TRUE])
      BY <2>6 DEF StartRequest, CallApi, PostLink, GiveUp, ReadUnusable,
                  RefreshRefused, Answer
    <3> QED
      BY <2>1, <2>2, <2>3, <3>1, <3>2
  <2>7. ASSUME NEW t \in BrokerThreads, ReadLegacy(t) \/ PatchLegacy(t)
        PROVE  LockedThread(u)'
    <3>1. ~Reached(t, "patchLegacy") /\ backend = "sqlite"
      BY <1>3 DEF LockedInv, LockedThread, Reached
    <3>2. Becomes(t, NotServing) /\ NotServing.step = "idle"
      BY <2>7, <3>1 DEF ReadLegacy, PatchLegacy, Answer, NotServing
    <3> QED
      BY <2>1, <2>2, <2>3, <3>2
  <2>8. ASSUME NEW t \in BrokerThreads, ReadUsable(t)
        PROVE  LockedThread(u)'
    <3>1. serving[t] \in Serving /\ row.access \in persisted
      BY <1>1, <2>8 DEF BrokerTypeOK, LockedInv, ReadUsable
    <3> DEFINE m(step) == [serving[t] EXCEPT !.bundle = row, !.now = clock,
                                            !.step = step]
    <3>2. \A step \in {"reread", "refresh"} :
             m(step).step = step /\ m(step).bundle = row
      BY <3>1 DEF Serving
    <3>3. \/ Becomes(t, m("reread")) \/ Becomes(t, m("refresh"))
          \/ Becomes(t, NotServing)
      BY <2>8 DEF ReadUsable, Answer
    <3>4. NotServing.step = "idle"
      BY DEF NotServing
    <3> HIDE DEF m
    <3>5. CASE Becomes(t, m("reread"))
      <4>1. CASE u = t
        <5>1. serving'[u] = m("reread")
          BY <1>1, <3>5, <4>1 DEF Becomes, BrokerTypeOK
        <5> QED
          BY <1>2, <3>1, <3>2, <5>1 DEF LockedThread
      <4>2. CASE u # t
        BY <1>1, <2>1, <3>5, <4>2 DEF Becomes, BrokerTypeOK
      <4> QED
        BY <4>1, <4>2
    <3> QED
      BY <2>1, <2>2, <2>3, <3>2, <3>3, <3>4, <3>5
  <2>9. ASSUME NEW t \in BrokerThreads, Refresh(t)
        PROVE  LockedThread(u)'
    <3> DEFINE b == serving[t].bundle
               m == [serving[t] EXCEPT !.step = "getPersist", !.bundle =
                       Refreshed(b, grant[b.grant].rotates, issued + 1,
                                 serving[t].now)]
    <3>1. m.step = "getPersist"
      BY <1>1 DEF BrokerTypeOK, Serving
    <3>2. Becomes(t, m)
      BY <2>9 DEF Refresh
    <3> HIDE DEF m
    <3> QED
      BY <2>1, <2>2, <2>3, <3>1, <3>2
  <2>10. ASSUME NEW t \in BrokerThreads, GetPersist(t) \/ PatchPersist(t) \/ Reread(t)
         PROVE  LockedThread(u)'
    <3>1. LockedThread(t) /\ backend = "sqlite" /\ serving[t] \in Serving
      BY <1>1, <1>3 DEF LockedInv, BrokerTypeOK
    <3>2. \/ Answer(t)
          \/ /\ serving[t].bundle.access \in persisted'
             /\ Proceed(t, "reread") \/ Proceed(t, "callApi")
      BY <1>2, <2>10, <3>1
         DEF GetPersist, PatchPersist, Reread, StoreTokens, LockedThread, Reached
    <3>3. CASE Answer(t)
      BY <2>1, <2>2, <2>3, <3>3, IdleTypes DEF Answer
    <3>4. ASSUME NEW step \in {"reread", "callApi"}, Proceed(t, step),
                 serving[t].bundle.access \in persisted'
          PROVE  LockedThread(u)'
      <4>1. CASE u = t
        <5>1. serving'[u].step = step /\ serving'[u].bundle = serving[t].bundle
          BY <1>1, <3>1, <3>4, <4>1 DEF Proceed, Becomes, BrokerTypeOK, Serving
        <5> QED
          BY <3>4, <5>1 DEF LockedThread
      <4>2. CASE u # t
        BY <1>1, <2>1, <3>4, <4>2 DEF Proceed, Becomes, BrokerTypeOK
      <4> QED
        BY <4>1, <4>2
    <3> QED
      BY <3>2, <3>3, <3>4
  <2> QED
    BY <2>4, <2>5, <2>6, <2>7, <2>8, <2>9, <2>10 DEF BrokerNext, MarketData
<1> QED
  BY <1>1, <1>2, <1>3 DEF LockedInv

(* On the SQLite store no API call is made with a token that was not       *)
(* stored, whatever the other requests do in between.                      *)
THEOREM LockedUses == BrokerSpec => []LockedUsesPersisted
<1>1. BrokerInit => LockedInv
  BY InitFacts, TypeInit, IdleTypes DEF LockedInv, LockedThread
<1>2. LockedInv => LockedUsesPersisted
  BY DEF LockedInv, LockedThread, LockedUsesPersisted, UsedTokenPersisted, Reached
<1> QED
  BY <1>1, <1>2, LockedStep, PTL DEF BrokerSpec

-----------------------------------------------------------------------------
(* A refresh token that works is not lost.  A request that has just        *)
(* been issued tokens has the one that works, and where the grant rotates  *)
(* no other request and not the row has it; where it does not, everyone    *)
(* has it.                                                                 *)

Bearing(t) == serving[t].step \in {"postLink", "getPersist", "patchPersist"}

Sole(t) ==
    LET r == serving[t].bundle.refresh IN
    /\ row # NoRow => row.refresh # r
    /\ \A u \in BrokerThreads \ {t} : Holding(u) => serving[u].bundle.refresh # r

Borne(t) ==
    LET b == serving[t].bundle IN
    /\ b.refresh = grant[b.grant].live
    /\ grant[b.grant].rotates => Sole(t)

FixedShared ==
    \A b \in Bundle :
       Held(b) /\ ~grant[b.grant].rotates => b.refresh = grant[b.grant].live

LegacyFixed ==
    /\ row # NoRow /\ row.form = "legacy" => ~grant[row.grant].rotates
    /\ \A t \in BrokerThreads :
          /\ Holding(t) => serving[t].bundle.form # "legacy"
          /\ Reached(t, "patchLegacy") =>
                /\ serving[t].bundle.form = "undated"
                /\ ~grant[serving[t].bundle.grant].rotates

RotationInv ==
    /\ AgeInv
    /\ \A t \in BrokerThreads : Bearing(t) => Borne(t)
    /\ FixedShared
    /\ LegacyFixed
    /\ LiveTokenKept

LEMMA RotationInit == BrokerInit => RotationInv
<1> SUFFICES ASSUME BrokerInit PROVE RotationInv
  OBVIOUS
<1>1. AgeInv /\ \A t \in BrokerThreads : ~Holding(t) /\ ~Bearing(t) /\ ~Reached(t, "patchLegacy")
  BY AgeInit, InitFacts DEF Bearing, Reached, NotServing
<1>2. CASE row = NoRow
  BY <1>1, <1>2, InitFacts
     DEF RotationInv, FixedShared, LegacyFixed, LiveTokenKept
<1>3. CASE /\ row \in Bundle /\ row.refresh = 1
           /\ \A g \in Grants : /\ grant[g].rotates = FALSE
                                /\ g = row.grant => grant[g].live = 1
  <2>1. row.grant \in Grants
    BY <1>3, BundleFields
  <2>2. \A b : Held(b) => b = row
    BY InitFacts
  <2> QED
    BY <1>1, <1>3, <2>1, <2>2
       DEF RotationInv, FixedShared, LegacyFixed, LiveTokenKept
<1> QED
  BY <1>2, <1>3, InitFacts

(* A grant that was given keeps its policy, and its token if it is fixed.  *)
LEMMA GrantKept ==
    ASSUME BrokerTypeOK, [BrokerNext]_brokerVars, NEW g \in Grants, grant[g].live # 0
    PROVE  /\ grant'[g].rotates = grant[g].rotates
           /\ ~grant[g].rotates => grant'[g].live = grant[g].live
           /\ \/ grant'[g].live = grant[g].live
              \/ \E t \in BrokerThreads : /\ Refresh(t) /\ serving[t].bundle.grant = g
                                          /\ serving[t].bundle.refresh = grant[g].live
<1>1. CASE UNCHANGED external
  BY <1>1 DEF external
<1>2. ASSUME NEW t \in BrokerThreads, NEW h \in Grants, ExchangeCode(t, h)
      PROVE  grant'[g] = grant[g]
  BY <1>2 DEF ExchangeCode, Ungranted, BrokerTypeOK
<1>3. ASSUME NEW t \in BrokerThreads, Refresh(t)
      PROVE  /\ grant'[g].rotates = grant[g].rotates
             /\ ~grant[g].rotates => grant'[g].live = grant[g].live
             /\ \/ grant'[g].live = grant[g].live
                \/ /\ serving[t].bundle.grant = g
                   /\ serving[t].bundle.refresh = grant[g].live
  <2>1. serving[t].bundle.grant \in Grants
    BY <1>3, HeldBundle, BundleFields DEF Refresh, Reached, Holding
  <2> QED
    BY <1>3, <2>1 DEF Refresh, BrokerTypeOK
<1>4. \/ UNCHANGED external
      \/ \E t \in BrokerThreads : Refresh(t) \/ \E h \in Grants : ExchangeCode(t, h)
  BY DEF BrokerNext, PassTime, Unlink, brokerVars, PostLink, GiveUp, MarketData,
         StartRequest, ReadLegacy, PatchLegacy, ReadUnusable, ReadUsable,
         RefreshRefused, GetPersist, PatchPersist, Reread, CallApi
<1> QED
  BY <1>1, <1>2, <1>3, <1>4

LEMMA RefreshEffect ==
    ASSUME BrokerTypeOK, NEW t \in BrokerThreads, Refresh(t)
    PROVE  LET b == serving[t].bundle
               c == serving'[t].bundle
           IN  /\ \A u \in BrokerThreads \ {t} : serving'[u] = serving[u]
               /\ Holding(t) /\ b \in Bundle /\ b.grant \in Grants
               /\ serving'[t].step = "getPersist"
               /\ c.grant = b.grant /\ c.form = b.form
               /\ c.refresh = grant'[c.grant].live
               /\ grant'[c.grant].rotates = grant[c.grant].rotates
               /\ grant[c.grant].rotates => c.refresh = issued + 1
               /\ ~grant[c.grant].rotates => c.refresh = b.refresh
<1> DEFINE b == serving[t].bundle
           f == Refreshed(b, grant[b.grant].rotates, issued + 1, serving[t].now)
           m == [serving[t] EXCEPT !.step = "getPersist", !.bundle = f]
<1>1. Holding(t) /\ serving[t] \in Serving
  BY DEF Refresh, Reached, Holding, BrokerTypeOK
<1>2. b \in Bundle /\ b.grant \in Grants /\ serving[t].now \in Nat
  BY <1>1, HeldBundle, BundleFields DEF Serving
<1>3. grant[b.grant].rotates \in BOOLEAN /\ issued + 1 \in Token
  BY <1>2 DEF BrokerTypeOK, Token
<1>4. /\ f \in Bundle /\ f.grant = b.grant /\ f.form = b.form
      /\ grant[b.grant].rotates => f.refresh = issued + 1
      /\ ~grant[b.grant].rotates => f.refresh = b.refresh
  BY <1>2, <1>3, RefreshedBundle
<1>5. m \in Serving /\ m.bundle = f /\ m.step = "getPersist"
  BY <1>1, <1>4 DEF Serving, ServingSteps
<1>6. Becomes(t, m)
  BY DEF Refresh
<1>7. /\ grant'[b.grant].rotates = grant[b.grant].rotates
      /\ grant[b.grant].rotates => grant'[b.grant].live = issued + 1
      /\ ~grant[b.grant].rotates => grant'[b.grant].live = b.refresh
  BY <1>2 DEF Refresh, BrokerTypeOK
<1> HIDE DEF m, f
<1>8. serving'[t] = m /\ \A u \in BrokerThreads \ {t} : serving'[u] = serving[u]
  BY <1>5, <1>6, BecomesRecord
<1> QED
  BY <1>1, <1>2, <1>3, <1>4, <1>5, <1>7, <1>8

ThreadStep(t) ==
    \/ \E g \in Grants : ExchangeCode(t, g)
    \/ PostLink(t) \/ MarketData(t) \/ GiveUp(t)

LEMMA NextIsThreadStep ==
    [BrokerNext]_brokerVars => \/ PassTime \/ Unlink \/ UNCHANGED brokerVars
                               \/ \E t \in BrokerThreads : ThreadStep(t)
  BY DEF BrokerNext, ThreadStep

(* Where the refresh tokens come from that a step of thread t leaves in    *)
(* the row and in the thread.                                              *)
From(t, r) ==
    \/ row # NoRow /\ r = row.refresh
    \/ Holding(t) /\ r = serving[t].bundle.refresh
    \/ r = issued + 1

LEMMA StepFrom ==
    ASSUME BrokerTypeOK, NEW t \in BrokerThreads,
           ThreadStep(t)
    PROVE  /\ \A u \in BrokerThreads \ {t} : serving'[u] = serving[u]
           /\ row' # NoRow => From(t, row'.refresh)
           /\ Holding(t)' => From(t, serving'[t].bundle.refresh)
<1>0. row # NoRow => row \in Bundle
  BY DEF BrokerTypeOK
<1>1. ASSUME NEW g \in Grants, ExchangeCode(t, g)
      PROVE  /\ \A u \in BrokerThreads \ {t} : serving'[u] = serving[u]
             /\ row' # NoRow => From(t, row'.refresh)
             /\ From(t, serving'[t].bundle.refresh)
  <2> DEFINE f == [ grant |-> g, refresh |-> issued + 1, access |-> issued + 1,
                    issuedAt |-> clock, form |-> "current" ]
             m == [NotServing EXCEPT !.step = "postLink", !.bundle = f]
  <2>1. m.bundle.refresh = issued + 1
    BY DEF NotServing
  <2>2. Becomes(t, m) /\ row' = row
    BY <1>1 DEF ExchangeCode
  <2> HIDE DEF m
  <2>3. serving'[t] = m /\ \A u \in BrokerThreads \ {t} : serving'[u] = serving[u]
    BY <2>2 DEF Becomes, BrokerTypeOK
  <2> QED
    BY <2>1, <2>2, <2>3 DEF From
<1>2. ASSUME PostLink(t) \/ MarketData(t) \/ GiveUp(t)
      PROVE  row' # NoRow => From(t, row'.refresh)
  BY <1>0, <1>2, StepStores, UpgradedBundle DEF From
<1>3. ASSUME PostLink(t) \/ MarketData(t) \/ GiveUp(t), ~Refresh(t)
      PROVE  /\ \A u \in BrokerThreads \ {t} : serving'[u] = serving[u]
             /\ Holding(t)' => From(t, serving'[t].bundle.refresh)
  <2>1. PICK m \in Serving : MovesOn(t, m)
    BY <1>3, StepMovesOn
  <2>2. serving'[t] = m /\ \A u \in BrokerThreads \ {t} : serving'[u] = serving[u]
    BY <2>1, BecomesRecord DEF MovesOn
  <2> QED
    BY <1>0, <2>1, <2>2, UpgradedBundle DEF MovesOn, Holding, From
<1>4. ASSUME Refresh(t)
      PROVE  /\ \A u \in BrokerThreads \ {t} : serving'[u] = serving[u]
             /\ From(t, serving'[t].bundle.refresh)
  BY <1>4, RefreshEffect DEF From
<1> QED
  BY <1>1, <1>2, <1>3, <1>4 DEF ThreadStep

(* A token that a thread bears stays good while the other threads step.    *)
LEMMA BorneKept ==
    ASSUME RotationInv, [BrokerNext]_brokerVars, NEW t \in BrokerThreads, NEW u \in BrokerThreads \ {t},
           Bearing(u), \A v \in BrokerThreads \ {t} : serving'[v] = serving[v],
           row' # NoRow => From(t, row'.refresh),
           Holding(t)' => From(t, serving'[t].bundle.refresh)
    PROVE  Borne(u)'
<1> DEFINE b == serving[u].bundle
<1>1. BrokerTypeOK /\ Holding(u) /\ Borne(u) /\ serving'[u] = serving[u]
  BY DEF RotationInv, AgeInv, Bearing, Holding
<1>2. /\ b \in Bundle /\ b.grant \in Grants /\ b.refresh \in Nat
      /\ issued \in Nat /\ b.refresh <= issued /\ grant[b.grant].live # 0
  <2>1. b \in Bundle /\ Held(b)
    BY <1>1, HeldIsInherited
  <2> QED
    BY <1>1, <2>1, BundleFields
       DEF RotationInv, AgeInv, TokensKnown, Token, BrokerTypeOK
<1>3. /\ grant'[b.grant].rotates = grant[b.grant].rotates
      /\ grant'[b.grant].live = grant[b.grant].live
  <2>1. ASSUME NEW v \in BrokerThreads, Refresh(v), serving[v].bundle.refresh = b.refresh
        PROVE  ~Sole(u)
    BY <2>1 DEF Refresh, Reached, Bearing, Holding, Sole
  <2> QED
    BY <1>1, <1>2, <2>1, GrantKept DEF Borne
<1>4. ASSUME Sole(u) PROVE Sole(u)'
  <2>1. ASSUME NEW r, From(t, r) PROVE r # b.refresh
    BY <1>2, <1>4, <2>1 DEF From, Sole
  <2> QED
    BY <1>1, <1>4, <2>1 DEF Sole, Holding
<1> QED
  BY <1>1, <1>3, <1>4 DEF Borne

LEMMA FixedStep ==
    ASSUME RotationInv, [BrokerNext]_brokerVars
    PROVE  FixedShared'
<1>1. PICK f \in Bundle \cup {NoBundle} : \A b \in Bundle : Held(b)' =>
         \/ Inherited(b)
         \/ /\ b = f /\ f.refresh = issued + 1 /\ issued' = issued + 1
            /\ grant'[f.grant].live = issued + 1
  BY BundlesInherited DEF RotationInv, AgeInv
<1> SUFFICES ASSUME NEW b \in Bundle, Held(b)', ~grant'[b.grant].rotates,
                    Inherited(b)
             PROVE  b.refresh = grant'[b.grant].live
  BY <1>1 DEF FixedShared
<1>2. PICK c \in Bundle : Held(c) /\ SameTokens(b, c)
  BY DEF Inherited
<1>3. c.grant \in Grants /\ grant[c.grant].live # 0
  BY <1>2, BundleFields DEF RotationInv, AgeInv, TokensKnown
<1>4. /\ grant'[c.grant].rotates = grant[c.grant].rotates
      /\ ~grant[c.grant].rotates => grant'[c.grant].live = grant[c.grant].live
  BY <1>3, GrantKept DEF RotationInv, AgeInv
<1> QED
  BY <1>2, <1>4 DEF SameTokens, RotationInv, FixedShared

(* A legacy bundle is of a grant that does not rotate, which stays so.     *)
LEMMA LegacyStep ==
    ASSUME RotationInv, [BrokerNext]_brokerVars
    PROVE  LegacyFixed'
<1>0. BrokerTypeOK
  BY DEF RotationInv, AgeInv
<1>1. ASSUME NEW b \in Bundle, Held(b)
      PROVE  grant'[b.grant].rotates = grant[b.grant].rotates
  BY <1>0, <1>1, GrantKept, BundleFields DEF RotationInv, AgeInv, TokensKnown
<1>2. row # NoRow => row \in Bundle /\ Held(row)
  BY <1>0, HeldIsInherited
<1>3. ASSUME NEW u \in BrokerThreads, serving'[u] = serving[u]
      PROVE  /\ Holding(u)' => serving'[u].bundle.form # "legacy"
             /\ Reached(u, "patchLegacy")' =>
                   /\ serving'[u].bundle.form = "undated"
                   /\ ~grant'[serving'[u].bundle.grant].rotates
  <2>1. Reached(u, "patchLegacy") =>
           serving[u].bundle \in Bundle /\ Held(serving[u].bundle)
    BY <1>0, HeldIsInherited DEF Reached, Holding
  <2> QED
    BY <1>1, <1>3, <2>1 DEF RotationInv, LegacyFixed, Holding, Reached
<1>4. CASE PassTime \/ Unlink \/ UNCHANGED brokerVars
  <2>1. serving' = serving /\ grant' = grant /\ (row' = row \/ row' = NoRow)
    BY <1>4 DEF PassTime, Unlink, brokerVars, external
  <2> QED
    BY <2>1 DEF RotationInv, LegacyFixed, Holding, Reached
<1>5. ASSUME NEW t \in BrokerThreads, NEW g \in Grants, ExchangeCode(t, g)
      PROVE  LegacyFixed'
  <2> DEFINE f == [ grant |-> g, refresh |-> issued + 1, access |-> issued + 1,
                    issuedAt |-> clock, form |-> "current" ]
             m == [NotServing EXCEPT !.step = "postLink", !.bundle = f]
  <2>1. m.step = "postLink" /\ m.bundle.form = "current"
    BY DEF NotServing
  <2>2. Becomes(t, m) /\ row' = row
    BY <1>5 DEF ExchangeCode
  <2> HIDE DEF m
  <2>3. serving'[t] = m /\ \A u \in BrokerThreads \ {t} : serving'[u] = serving[u]
    BY <1>0, <2>2 DEF Becomes, BrokerTypeOK
  <2> QED
    BY <1>1, <1>2, <1>3, <2>1, <2>2, <2>3 DEF RotationInv, LegacyFixed, Reached
<1>6. ASSUME NEW t \in BrokerThreads, Refresh(t)
      PROVE  LegacyFixed'
  <2>1. row' = row
    BY <1>6 DEF Refresh
  <2>2. /\ \A u \in BrokerThreads \ {t} : serving'[u] = serving[u]
        /\ serving'[t].step = "getPersist"
        /\ serving'[t].bundle.form # "legacy"
    BY <1>0, <1>6, RefreshEffect DEF RotationInv, LegacyFixed
  <2> QED
    BY <1>1, <1>2, <1>3, <2>1, <2>2 DEF RotationInv, LegacyFixed, Reached
<1>7. ASSUME NEW t \in BrokerThreads, ~Refresh(t),
             PostLink(t) \/ GiveUp(t) \/ MarketData(t)
      PROVE  LegacyFixed'
  <2>1. PICK m \in Serving : MovesOn(t, m)
    BY <1>0, <1>7, StepMovesOn
  <2>2. serving'[t] = m /\ \A u \in BrokerThreads \ {t} : serving'[u] = serving[u]
    BY <1>0, <2>1, BecomesRecord DEF MovesOn
  <2>3. row # NoRow => /\ Upgraded(row).form = "undated"
                       /\ Upgraded(row).grant = row.grant
    BY <1>2, UpgradedBundle
  <2>4. row' # NoRow /\ row'.form = "legacy" => ~grant'[row'.grant].rotates
    <3>1. \/ row' = row
          \/ row' = serving[t].bundle /\ Holding(t)
          \/ row # NoRow /\ row' = Upgraded(row)
      BY <1>7, StepStores
    <3> QED
      BY <1>1, <1>2, <2>3, <3>1 DEF RotationInv, LegacyFixed
  <2>5. Holding(t)' => serving'[t].bundle.form # "legacy"
    BY <2>1, <2>2, <2>3 DEF MovesOn, Holding, RotationInv, LegacyFixed
  <2>6. Reached(t, "patchLegacy")' => /\ serving'[t].bundle.form = "undated"
                                      /\ ~grant'[serving'[t].bundle.grant].rotates
    BY <1>1, <1>2, <2>1, <2>2, <2>3 DEF MovesOn, Reached, RotationInv, LegacyFixed
  <2> QED
    BY <1>3, <2>2, <2>4, <2>5, <2>6 DEF LegacyFixed
<1> QED
  BY <1>4, <1>5, <1>6, <1>7, NextIsThreadStep DEF ThreadStep

(* Of the steps that issue no token, only the look at the stored link      *)
(* leaves a thread bearing one.                                            *)
LEMMA StillBearing ==
    ASSUME BrokerTypeOK, NEW t \in BrokerThreads, Bearing(t)', ~Refresh(t),
           PostLink(t) \/ MarketData(t) \/ GiveUp(t)
    PROVE  /\ Bearing(t) /\ Proceed(t, "patchPersist")
           /\ row' = row /\ UNCHANGED external
<1>0. serving[t] \in Serving
  BY DEF BrokerTypeOK
<1>1. ASSUME NEW m, Becomes(t, m)
      PROVE  m.step \in {"postLink", "getPersist", "patchPersist"}
  BY <1>1 DEF Becomes, BrokerTypeOK, Bearing
<1>2. ASSUME NEW step, Proceed(t, step)
      PROVE  step \in {"postLink", "getPersist", "patchPersist"}
  <2>1. [serving[t] EXCEPT !.step = step].step = step
    BY <1>0 DEF Serving
  <2> QED
    BY <1>1, <1>2, <2>1 DEF Proceed
<1>3. ~Answer(t)
  BY <1>1, IdleTypes DEF Answer
<1>4. ~StartRequest(t) /\ ~CallApi(t)
  <2>1. [NotServing EXCEPT !.step = "getState"].step = "getState"
    BY DEF NotServing
  <2>2. [NotServing EXCEPT !.step = "getState", !.forced = TRUE].step = "getState"
    BY DEF NotServing
  <2> QED
    BY <1>1, <1>3, <2>1, <2>2 DEF StartRequest, CallApi
<1>5. ~ReadLegacy(t)
  <2>1. [serving[t] EXCEPT !.step = "patchLegacy", !.bundle = Upgraded(row)].step
           = "patchLegacy"
    BY <1>0 DEF Serving
  <2> QED
    BY <1>1, <1>3, <2>1 DEF ReadLegacy
<1>6. ~ReadUsable(t)
  <2> DEFINE m(step) == [serving[t] EXCEPT !.bundle = row, !.now = clock,
                                          !.step = step]
  <2>1. m("reread").step = "reread" /\ m("refresh").step = "refresh"
    BY <1>0 DEF Serving
  <2>2. ReadUsable(t) => \/ Becomes(t, m("reread")) \/ Becomes(t, m("refresh"))
                         \/ Answer(t)
    BY DEF ReadUsable
  <2> HIDE DEF m
  <2> QED
    BY <1>1, <1>3, <2>1, <2>2
<1>7. ~PatchPersist(t) /\ ~Reread(t)
  BY <1>2, <1>3 DEF PatchPersist, Reread
<1>8. /\ ~PostLink(t) /\ ~GiveUp(t) /\ ~PatchLegacy(t) /\ ~ReadUnusable(t)
      /\ ~RefreshRefused(t)
  BY <1>3 DEF PostLink, GiveUp, PatchLegacy, ReadUnusable, RefreshRefused
<1>9. GetPersist(t)
  BY <1>4, <1>5, <1>6, <1>7, <1>8 DEF MarketData
<1> QED
  BY <1>2, <1>3, <1>9 DEF GetPersist, Reached, Bearing, external

(* A thread that bears a token after its own step.                         *)
LEMMA BorneStep ==
    ASSUME RotationInv, [BrokerNext]_brokerVars, NEW u \in BrokerThreads, Bearing(u)'
    PROVE  Borne(u)'
<1>0. BrokerTypeOK
  BY DEF RotationInv, AgeInv
<1>1. CASE PassTime \/ Unlink \/ UNCHANGED brokerVars
  <2>1. serving' = serving /\ grant' = grant /\ (row' = row \/ row' = NoRow)
    BY <1>1 DEF PassTime, Unlink, brokerVars, external
  <2> QED
    BY <2>1 DEF RotationInv, Bearing, Borne, Sole, Holding
<1>2. ASSUME NEW t \in BrokerThreads \ {u}, ThreadStep(t)
      PROVE  Borne(u)'
  BY <1>0, <1>2, StepFrom, BorneKept DEF Bearing
<1>3. ASSUME serving'[u].bundle.refresh = issued + 1, row' = row,
             \A v \in BrokerThreads \ {u} : serving'[v] = serving[v]
      PROVE  Sole(u)'
  <2>1. issued \in Nat /\ \A b \in Bundle : Held(b) => b.refresh <= issued
    BY <1>0 DEF RotationInv, AgeInv, TokensKnown, BrokerTypeOK
  <2>2. \A b \in Bundle : b.refresh \in Nat
    BY BundleFields DEF Token
  <2>3. \A v \in BrokerThreads \ {u} : Holding(v)' =>
           /\ serving[v].bundle \in Bundle /\ Held(serving[v].bundle)
           /\ serving'[v].bundle = serving[v].bundle
    BY <1>0, <1>3, HeldIsInherited DEF Holding
  <2>4. row # NoRow => row \in Bundle /\ Held(row)
    BY <1>0, HeldIsInherited
  <2> QED
    BY <1>3, <2>1, <2>2, <2>3, <2>4 DEF Sole
<1>4. ASSUME NEW g \in Grants, ExchangeCode(u, g)
      PROVE  Borne(u)'
  <2> DEFINE f == [ grant |-> g, refresh |-> issued + 1, access |-> issued + 1,
                    issuedAt |-> clock, form |-> "current" ]
             m == [NotServing EXCEPT !.step = "postLink", !.bundle = f]
  <2>1. m.bundle.refresh = issued + 1 /\ m.bundle.grant = g
    BY DEF NotServing
  <2>2. Becomes(u, m) /\ row' = row /\ grant'[g].live = issued + 1
    BY <1>0, <1>4 DEF ExchangeCode, BrokerTypeOK
  <2> HIDE DEF m
  <2>3. serving'[u] = m /\ \A v \in BrokerThreads \ {u} : serving'[v] = serving[v]
    BY <1>0, <2>2 DEF Becomes, BrokerTypeOK
  <2> QED
    BY <1>3, <2>1, <2>2, <2>3 DEF Borne
<1>5. ASSUME Refresh(u)
      PROVE  Borne(u)'
  <2> DEFINE c == serving'[u].bundle
  <2>1. row' = row
    BY <1>5 DEF Refresh
  <2>2. /\ \A v \in BrokerThreads \ {u} : serving'[v] = serving[v]
        /\ c.refresh = grant'[c.grant].live
        /\ grant'[c.grant].rotates = grant[c.grant].rotates
        /\ grant[c.grant].rotates => c.refresh = issued + 1
    BY <1>0, <1>5, RefreshEffect
  <2>3. grant'[c.grant].rotates => Sole(u)'
    BY <1>3, <2>1, <2>2
  <2> QED
    BY <2>2, <2>3 DEF Borne
<1>6. ASSUME PostLink(u) \/ MarketData(u) \/ GiveUp(u), ~Refresh(u)
      PROVE  Borne(u)'
  <2>1. /\ Bearing(u) /\ Proceed(u, "patchPersist")
        /\ row' = row /\ UNCHANGED external
    BY <1>0, <1>6, StillBearing
  <2>2. /\ serving'[u].bundle = serving[u].bundle
        /\ \A v \in BrokerThreads \ {u} : serving'[v] = serving[v]
    BY <1>0, <2>1 DEF Proceed, Becomes, BrokerTypeOK, Serving
  <2> QED
    BY <2>1, <2>2 DEF RotationInv, Borne, Sole, Holding, external
<1>7. CASE ThreadStep(u)
  BY <1>4, <1>5, <1>6, <1>7 DEF ThreadStep
<1> QED
  BY <1>1, <1>2, <1>7, NextIsThreadStep

LEMMA LiveStep ==
    ASSUME RotationInv, [BrokerNext]_brokerVars
    PROVE  LiveTokenKept'
<1>0. BrokerTypeOK /\ LiveTokenKept
  BY DEF RotationInv, AgeInv
<1>1. row # NoRow => /\ row \in Bundle /\ Held(row) /\ row.grant \in Grants
                     /\ grant[row.grant].live # 0
  BY <1>0, HeldIsInherited, BundleFields DEF RotationInv, AgeInv, TokensKnown
<1>2. ASSUME NEW t \in BrokerThreads, \A u \in BrokerThreads \ {t} : serving'[u] = serving[u],
             row # NoRow, row' # NoRow, lost \subseteq lost',
             row'.grant = row.grant, row'.refresh = row.refresh,
             grant'[row.grant].live = grant[row.grant].live,
             serving[t].step \notin {"getPersist", "patchPersist"}
      PROVE  LiveTokenKept'
  BY <1>0, <1>2 DEF LiveTokenKept
<1>3. CASE PassTime \/ Unlink \/ UNCHANGED brokerVars
  <2>1. /\ serving' = serving /\ grant' = grant /\ lost' = lost
        /\ row' = row \/ row' = NoRow
    BY <1>3 DEF PassTime, Unlink, brokerVars, external, history
  <2> QED
    BY <1>0, <2>1 DEF LiveTokenKept
<1>4. ASSUME NEW t \in BrokerThreads, NEW g \in Grants, ExchangeCode(t, g)
      PROVE  LiveTokenKept'
  <2>1. /\ row' = row /\ lost' = lost
        /\ serving[t].step = "idle"
        /\ \A u \in BrokerThreads \ {t} : serving'[u] = serving[u]
    BY <1>0, <1>4 DEF ExchangeCode, history, Reached, Becomes, BrokerTypeOK
  <2>2. row # NoRow => grant'[row.grant] = grant[row.grant]
    BY <1>0, <1>1, <1>4 DEF ExchangeCode, Ungranted, BrokerTypeOK
  <2> QED
    BY <1>2, <2>1, <2>2 DEF LiveTokenKept
<1>5. ASSUME NEW t \in BrokerThreads, Refresh(t)
      PROVE  LiveTokenKept'
  <2> DEFINE b == serving[t].bundle
             c == serving'[t].bundle
  <2>1. /\ \A u \in BrokerThreads \ {t} : serving'[u] = serving[u]
        /\ b.grant \in Grants /\ c.grant = b.grant
        /\ serving'[t].step = "getPersist"
        /\ c.refresh = grant'[c.grant].live
    BY <1>0, <1>5, RefreshEffect
  <2>2. /\ row' = row /\ lost' = lost /\ serving[t].step = "refresh"
        /\ \A g \in Grants \ {b.grant} : grant'[g] = grant[g]
    BY <1>0, <1>5 DEF Refresh, history, Reached, BrokerTypeOK
  <2>3. CASE row # NoRow /\ row.grant = b.grant
    BY <2>1, <2>2, <2>3 DEF LiveTokenKept
  <2>4. CASE row # NoRow /\ row.grant # b.grant
    BY <1>1, <1>2, <2>1, <2>2, <2>4
  <2> QED
    BY <2>2, <2>3, <2>4 DEF LiveTokenKept
<1>6. ASSUME NEW t \in BrokerThreads, ~Refresh(t),
             PostLink(t) \/ GiveUp(t) \/ MarketData(t)
      PROVE  LiveTokenKept'
  <2> DEFINE b == serving[t].bundle
  <2>1. grant' = grant /\ lost \subseteq lost'
    BY <1>6 DEF PostLink, GiveUp, MarketData, StartRequest, ReadLegacy,
         PatchLegacy, ReadUnusable, ReadUsable, RefreshRefused, GetPersist,
         PatchPersist, Reread, CallApi, external, history
  <2>2. \A u \in BrokerThreads \ {t} : serving'[u] = serving[u]
    BY <1>0, <1>6, StepFrom DEF ThreadStep
  <2>3. CASE row' # NoRow /\ row'.refresh = grant'[row'.grant].live
    BY <2>3 DEF LiveTokenKept
  <2>4. CASE row' = b /\ (Bearing(t) \/ Reached(t, "patchLegacy"))
    <3>1. b \in Bundle /\ Held(b)
      BY <1>0, <2>4, HeldIsInherited DEF Bearing, Reached, Holding
    <3>2. b.refresh = grant[b.grant].live
      BY <2>4, <3>1
         DEF RotationInv, Borne, FixedShared, LegacyFixed
    <3> QED
      BY <2>1, <2>3, <2>4, <3>2, NoRowNoBundle, <3>1
  <2>5. CASE /\ serving[t].step \notin {"getPersist", "patchPersist"}
             /\ row' = row \/ (row # NoRow /\ row' = Upgraded(row))
    <3>1. row # NoRow /\ row' # NoRow =>
             row'.grant = row.grant /\ row'.refresh = row.refresh
      BY <1>1, <2>5, UpgradedBundle
    <3>2. CASE row = NoRow
      BY <2>5, <3>2 DEF LiveTokenKept
    <3>3. CASE row # NoRow
      BY <1>2, <2>1, <2>2, <2>5, <3>1, <3>3 DEF LiveTokenKept
    <3> QED
      BY <3>2, <3>3
  <2>6. CASE serving[t].step \in {"getPersist", "patchPersist"} /\ row' # b
    <3>1. \/ row' = NoRow
          \/ row' = row /\ lost' = lost \cup {b.refresh}
          \/ row' = row /\ Proceed(t, "patchPersist")
      <4>1. GiveUp(t) \/ GetPersist(t) \/ PatchPersist(t)
        BY <1>6, <2>6 DEF PostLink, MarketData, StartRequest, ReadLegacy,
           PatchLegacy, ReadUnusable, ReadUsable, RefreshRefused, Reread,
           CallApi, Reached
      <4> QED
        BY <2>6, <4>1 DEF GiveUp, GetPersist, PatchPersist, StoreTokens
    <3>2. CASE row' = row /\ Proceed(t, "patchPersist")
      <4>1. serving'[t].step = "patchPersist" /\ serving'[t].bundle = b
        BY <1>0, <3>2 DEF Proceed, Becomes, BrokerTypeOK, Serving
      <4> QED
        BY <1>0, <2>1, <2>2, <3>2, <4>1 DEF LiveTokenKept
    <3>3. CASE row' = row /\ lost' = lost \cup {b.refresh}
      BY <1>0, <2>1, <2>2, <3>3 DEF LiveTokenKept
    <3> QED
      BY <3>1, <3>2, <3>3 DEF LiveTokenKept
  <2>7. CASE /\ serving[t].step \notin {"getPersist", "patchPersist"}
             /\ row' # row /\ ~(row # NoRow /\ row' = Upgraded(row))
    <3>1. row' = b /\ (PostLink(t) \/ PatchLegacy(t))
      BY <1>6, <2>7
         DEF PostLink, GiveUp, MarketData, StartRequest, ReadLegacy,
             PatchLegacy, ReadUnusable, ReadUsable, RefreshRefused, GetPersist,
             PatchPersist, Reread, CallApi, StoreTokens, Reached
    <3> QED
      BY <2>4, <3>1 DEF PostLink, PatchLegacy, Reached, Bearing
  <2> QED
    BY <2>4, <2>5, <2>6, <2>7 DEF Bearing
<1> QED
  BY <1>3, <1>4, <1>5, <1>6, NextIsThreadStep DEF ThreadStep

LEMMA RotationStep == RotationInv /\ [BrokerNext]_brokerVars => RotationInv'
  BY AgeStep, BorneStep, FixedStep, LegacyStep, LiveStep DEF RotationInv

(* Requests that refresh, unlink and relink at once never lose a refresh   *)
(* token to each other: the one that works for the stored grant is stored, *)
(* about to be, or was given up by a request that failed.                  *)
THEOREM TokenKept == BrokerSpec => []LiveTokenKept
<1>1. RotationInv => LiveTokenKept
  BY DEF RotationInv
<1> QED
  BY <1>1, RotationInit, RotationStep, PTL DEF BrokerSpec
=============================================================================
