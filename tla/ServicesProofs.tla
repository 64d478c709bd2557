--------------------------- MODULE ServicesProofs ---------------------------
(***************************************************************************)
(* What holds of the services the desk runs on, each for any threads,      *)
(* times and bounds: the scheduler, the market context, the response       *)
(* cache, the rate limiters of sign-in and the signed-in console.          *)
(***************************************************************************)
EXTENDS Console, ScheduledRuns, MarketContext, ResponseCache, SignIn, FiniteSetTheorems,
        WellFoundedInduction, TLAPS

(***************************************************************************)
(* The scheduler.  A key runs once, for any keys, instants and number of   *)
(* receipts and of alterations.  An alteration changes the fields of a     *)
(* receipt and never its seal, so the argument is about the seals: what    *)
(* the builds left in the ledger, whatever the ledger now says.            *)
(***************************************************************************)
SealsOf(ledger) == {ledger[i].seal : i \in DOMAIN ledger}
Seals == SealsOf(receipts)
SealedRun(k) == \E s \in Seals : s.key = k /\ s.status # "DUPLICATE_SUPPRESSED"

\* Every build left a receipt that counts, and a publishable one a COMPLETE one.
BuildsSealed ==
    \A k \in Keys :
        /\ ran[k] # <<>> => SealedRun(k)
        /\ Published(k) <=> \E s \in Seals : s.key = k /\ s.status = "COMPLETE"

\* What a run recovered had left a receipt, so it cannot run any more, and it
\* was not published.
RecoveredSealed ==
    \A k, recovered \in Keys : \A i \in DOMAIN ran[k] :
        ran[k][i].recoveryOf = recovered =>
            SealedRun(recovered) /\ ~Published(recovered)

SchedulerIInv ==
    /\ SchedulerTypeOK
    /\ RunsAtMostOnce
    /\ BuildsSealed
    /\ RecoveredSealed

-----------------------------------------------------------------------------
LEMMA SealsOfAppend ==
    ASSUME NEW ledger \in Seq(Receipt), NEW r \in Receipt
    PROVE  SealsOf(Append(ledger, r)) = SealsOf(ledger) \cup {r.seal}
<1> DEFINE longer == Append(ledger, r)
<1>1. /\ longer \in Seq(Receipt) /\ Len(longer) = Len(ledger) + 1
      /\ longer[Len(ledger) + 1] = r
      /\ \A i \in 1..Len(ledger) : longer[i] = ledger[i]
  OBVIOUS
<1>2. DOMAIN ledger = 1..Len(ledger) /\ DOMAIN longer = 1..Len(ledger) \cup {Len(ledger) + 1}
  BY <1>1
<1> HIDE DEF longer
<1>3. SealsOf(longer) = SealsOf(ledger) \cup {r.seal}
  BY <1>1, <1>2 DEF SealsOf
<1> QED
  BY <1>3 DEF longer

\* A receipt is sealed with the fields it is made with (scheduler.py).
LEMMA IssueSeals ==
    ASSUME SchedulerTypeOK, NEW req \in Request, NEW status \in ScheduledRunStatus,
           NEW reasoned \in BOOLEAN, NEW report \in BOOLEAN,
           Issue(req, status, reasoned, report)
    PROVE  \E f \in Fields :
             /\ f.key = req.key /\ f.status = status
             /\ receipts' \in Seq(Receipt)
             /\ Seals' = Seals \cup {f}
<1> DEFINE f == [key |-> req.key, at |-> req.at, status |-> status,
                 reasoned |-> reasoned, report |-> report,
                 recoveryOf |-> req.recoveryOf]
           r == [fields |-> f, seal |-> f]
<1>1. f \in Fields /\ f.key = req.key /\ f.status = status
  BY DEF Request, Fields
<1>2. receipts' = Append(receipts, r)
  BY DEF Issue, MakeReceipt
<1> HIDE DEF f
<1>3. r \in Receipt /\ r.seal = f
  BY <1>1 DEF Receipt
<1> HIDE DEF r
<1>4. receipts \in Seq(Receipt)
  BY DEF SchedulerTypeOK
<1>5. receipts' \in Seq(Receipt) /\ Seals' = Seals \cup {f}
  BY <1>2, <1>3, <1>4, SealsOfAppend DEF Seals
<1> QED
  BY <1>1, <1>5

\* In a ledger that validates, the receipts that count are the sealed ones.
LEMMA ValidCounts ==
    ASSUME SchedulerTypeOK, \A r \in Ledger : ValidReceipt(r), NEW k \in Keys,
           \A r \in Ledger : ~Counts(r, k)
    PROVE  ~SealedRun(k)
BY DEF Ledger, ValidReceipt, Counts, SealedRun, Seals, SealsOf

\* A recovery is accepted for a key that failed and never for one that
\* published (scheduler.py).
LEMMA RecoveredFailed ==
    ASSUME SchedulerIInv, NEW req \in Request, \A r \in Ledger : ValidReceipt(r),
           req.recoveryOf # NoKey, ValidRecovery(req)
    PROVE  /\ req.recoveryOf \in Keys
           /\ SealedRun(req.recoveryOf)
           /\ ~Published(req.recoveryOf)
<1> DEFINE k == req.recoveryOf
<1>1. k \in Keys
  BY DEF Request
<1>2. PICK i \in DOMAIN receipts :
        CountingPlaces(k) = {i} /\ receipts[i].fields.status = "FAILED_CLOSED"
  BY DEF ValidRecovery
<1> HIDE DEF k
<1>3. \A j \in DOMAIN receipts : receipts[j].seal = receipts[j].fields
  BY DEF Ledger, ValidReceipt
<1>4. Counts(receipts[i], k)
  BY <1>2 DEF CountingPlaces
<1>5. SealedRun(k)
  BY <1>3, <1>4 DEF Counts, SealedRun, Seals, SealsOf
<1>6. ASSUME Published(k) PROVE FALSE
  <2>1. PICK s \in Seals : s.key = k /\ s.status = "COMPLETE"
    BY <1>1, <1>6 DEF SchedulerIInv, BuildsSealed
  <2>2. PICK j \in DOMAIN receipts : s = receipts[j].seal
    BY DEF Seals, SealsOf
  <2>3. receipts[j].fields.key = k /\ receipts[j].fields.status = "COMPLETE"
    BY <1>3, <2>1, <2>2
  <2>4. j \in CountingPlaces(k)
    BY <2>3 DEF CountingPlaces, Counts
  <2> QED
    BY <1>2, <2>3, <2>4
<1> QED
  BY <1>1, <1>5, <1>6 DEF k

-----------------------------------------------------------------------------
LEMMA SchedulerInitIInv == SchedulerInit => SchedulerIInv
<1> SUFFICES ASSUME SchedulerInit PROVE SchedulerIInv
  OBVIOUS
<1>1. receipts = <<>> /\ Seals = {}
  BY DEF SchedulerInit, Seals, SealsOf
<1>2. \A k \in Keys : ran[k] = <<>> /\ Len(ran[k]) = 0 /\ DOMAIN ran[k] = {}
  BY DEF SchedulerInit
<1>3. SchedulerTypeOK
  BY ScheduleAssumption DEF SchedulerInit, SchedulerTypeOK
<1>4. RunsAtMostOnce
  BY <1>2 DEF RunsAtMostOnce
<1>5. BuildsSealed
  BY <1>1, <1>2 DEF BuildsSealed, Published
<1>6. RecoveredSealed
  BY <1>2 DEF RecoveredSealed
<1> QED
  BY <1>3, <1>4, <1>5, <1>6 DEF SchedulerIInv

\* A run that builds nothing leaves a receipt that is not COMPLETE.
LEMMA NoBuildIInv ==
    ASSUME SchedulerIInv, NEW req \in Request,
           NEW status \in {"FAILED_CLOSED", "DUPLICATE_SUPPRESSED"},
           Issue(req, status, TRUE, FALSE), ran' = ran, tampers' = tampers
    PROVE  SchedulerIInv'
<1>1. PICK f \in Fields :
        /\ f.key = req.key /\ f.status = status
        /\ receipts' \in Seq(Receipt) /\ Seals' = Seals \cup {f}
  BY IssueSeals DEF SchedulerIInv, ScheduledRunStatus
<1>2. \A k : SealedRun(k) => SealedRun(k)'
  BY <1>1 DEF SealedRun
<1>3. \A k : Published(k)' <=> Published(k)
  BY DEF Published
<1>4. SchedulerTypeOK'
  BY <1>1 DEF SchedulerIInv, SchedulerTypeOK
<1>5. RunsAtMostOnce'
  BY DEF SchedulerIInv, RunsAtMostOnce
<1>6. BuildsSealed'
  BY <1>1, <1>2, <1>3 DEF SchedulerIInv, BuildsSealed
<1>7. RecoveredSealed'
  BY <1>2, <1>3 DEF SchedulerIInv, RecoveredSealed
<1> QED
  BY <1>4, <1>5, <1>6, <1>7 DEF SchedulerIInv

\* The one branch that builds: for a key without a receipt that counts.
LEMMA BuildIInv ==
    ASSUME SchedulerIInv, NEW req \in Request, req.recoveryOf # req.key,
           BuildReport(req), tampers' = tampers
    PROVE  SchedulerIInv'
<1> DEFINE k == req.key
           rec == req.recoveryOf
<1>1. k \in Keys /\ rec \in Keys \cup {NoKey} /\ rec # k
  BY DEF Request
<1>2. PICK outcome \in BuildOutcomes :
        /\ IF outcome = "PUBLISHABLE"
             THEN Issue(req, "COMPLETE", FALSE, TRUE)
             ELSE Issue(req, "FAILED_CLOSED", TRUE, FALSE)
        /\ ran' = [ran EXCEPT ![k] =
              Append(@, [outcome |-> outcome, recoveryOf |-> rec])]
  BY DEF BuildReport
<1>3. ~SealedRun(k)
  BY <1>1, ValidCounts DEF BuildReport, Fresh, SchedulerIInv
<1>4. ran[k] = <<>> /\ ran \in [Keys -> Seq(BuildRecord)]
  BY <1>1, <1>3 DEF SchedulerIInv, BuildsSealed, SchedulerTypeOK
<1>5. rec # NoKey => rec \in Keys /\ SealedRun(rec) /\ ~Published(rec)
  BY RecoveredFailed DEF BuildReport, Fresh, Unpermitted
<1>6. PICK f \in Fields :
        /\ f.key = k /\ f.status = IF outcome = "PUBLISHABLE" THEN "COMPLETE" ELSE "FAILED_CLOSED"
        /\ receipts' \in Seq(Receipt) /\ Seals' = Seals \cup {f}
  <2>1. CASE outcome = "PUBLISHABLE"
    BY <1>2, <2>1, IssueSeals DEF SchedulerIInv, ScheduledRunStatus
  <2>2. CASE outcome # "PUBLISHABLE"
    BY <1>2, <2>2, IssueSeals DEF SchedulerIInv, ScheduledRunStatus
  <2> QED
    BY <2>1, <2>2
<1> DEFINE build == [outcome |-> outcome, recoveryOf |-> rec]
<1>7. build \in BuildRecord /\ build.outcome = outcome /\ build.recoveryOf = rec
  BY <1>1 DEF BuildRecord
<1>8. ran' = [ran EXCEPT ![k] = Append(ran[k], build)]
  BY <1>2
<1> HIDE DEF k, rec, build
<1>9. /\ ran' \in [Keys -> Seq(BuildRecord)] /\ ran'[k] = <<build>>
      /\ \A j \in Keys \ {k} : ran'[j] = ran[j]
  BY <1>1, <1>4, <1>7, <1>8
<1>10. DOMAIN ran'[k] = {1} /\ ran'[k][1] = build /\ Len(ran'[k]) = 1 /\ ran'[k] # <<>>
  BY <1>9
<1>11. /\ Published(k)' <=> outcome = "PUBLISHABLE"
       /\ \A j \in Keys \ {k} : Published(j)' <=> Published(j)
  BY <1>7, <1>9, <1>10 DEF Published
<1>12. /\ SealedRun(k)'
       /\ \A j : SealedRun(j) => SealedRun(j)'
  BY <1>6 DEF SealedRun
<1>13. SchedulerTypeOK'
  BY <1>6, <1>9 DEF SchedulerIInv, SchedulerTypeOK
<1>14. RunsAtMostOnce'
  <2>1. \A j \in Keys \ {k} : Len(ran'[j]) <= 1
    BY <1>9 DEF SchedulerIInv, RunsAtMostOnce
  <2>2. Len(ran'[k]) <= 1
    BY <1>10
  <2> QED
    BY <2>1, <2>2 DEF RunsAtMostOnce
<1>15. BuildsSealed'
  <2>1. ASSUME NEW j \in Keys \ {k}
        PROVE  /\ ran'[j] # <<>> => SealedRun(j)'
               /\ Published(j)' <=> \E s \in Seals' : s.key = j /\ s.status = "COMPLETE"
    BY <1>6, <1>9, <1>11, <1>12 DEF SchedulerIInv, BuildsSealed
  <2>2. Published(k)' <=> \E s \in Seals' : s.key = k /\ s.status = "COMPLETE"
    <3>1. \A s \in Seals : ~(s.key = k /\ s.status = "COMPLETE")
      BY <1>3 DEF SealedRun
    <3>2. f.status = "COMPLETE" <=> outcome = "PUBLISHABLE"
      <4>1. CASE outcome = "PUBLISHABLE"
        BY <1>6, <4>1
      <4>2. CASE outcome # "PUBLISHABLE"
        BY <1>6, <4>2
      <4> QED
        BY <4>1, <4>2
    <3> QED
      BY <1>6, <1>11, <3>1, <3>2
  <2> QED
    BY <1>12, <2>1, <2>2 DEF BuildsSealed
<1>16. RecoveredSealed'
  <2>1. ASSUME NEW j \in Keys, NEW recovered \in Keys, NEW i \in DOMAIN ran'[j],
               ran'[j][i].recoveryOf = recovered
        PROVE  SealedRun(recovered)' /\ ~Published(recovered)'
    <3>1. CASE j = k
      <4>1. recovered = rec /\ rec # NoKey
        BY <1>7, <1>10, <2>1, <3>1, ScheduleAssumption
      <4> QED
        BY <1>1, <1>5, <1>11, <1>12, <4>1 DEF rec, k
    <3>2. CASE j # k
      <4>1. i \in DOMAIN ran[j] /\ ran[j][i].recoveryOf = recovered
        BY <1>9, <2>1, <3>2
      <4>2. SealedRun(recovered) /\ ~Published(recovered)
        BY <4>1 DEF SchedulerIInv, RecoveredSealed
      <4>3. recovered # k
        BY <1>3, <4>2
      <4> QED
        BY <1>11, <1>12, <4>2, <4>3
    <3> QED
      BY <3>1, <3>2
  <2> QED
    BY <2>1 DEF RecoveredSealed
<1> QED
  BY <1>13, <1>14, <1>15, <1>16 DEF SchedulerIInv

\* The branches of execute_scheduled_run.
LEMMA ExecuteIInv ==
    ASSUME SchedulerIInv, ExecuteScheduledRun
    PROVE  SchedulerIInv'
<1>1. PICK req \in Request :
        /\ req.recoveryOf # req.key
        /\ \/ PriorInvalid(req) \/ DuplicateSuppressed(req)
           \/ RefusedRun(req) \/ BuildReport(req)
  BY DEF ExecuteScheduledRun
<1>2. tampers' = tampers
  BY DEF ExecuteScheduledRun
<1>3. CASE PriorInvalid(req)
  BY <1>2, <1>3, NoBuildIInv DEF PriorInvalid
<1>4. CASE DuplicateSuppressed(req)
  BY <1>2, <1>4, NoBuildIInv DEF DuplicateSuppressed
<1>5. CASE RefusedRun(req)
  BY <1>2, <1>5, NoBuildIInv DEF RefusedRun
<1>6. CASE BuildReport(req)
  BY <1>1, <1>2, <1>6, BuildIInv
<1> QED
  BY <1>1, <1>3, <1>4, <1>5, <1>6

LEMMA AlteredIsFields ==
    ASSUME NEW f \in Fields, NEW g \in AlteredFields(f)
    PROVE  g \in Fields
<1>1. CASE \E k \in Keys : g = [f EXCEPT !.key = k]
  BY <1>1 DEF Fields
<1>2. CASE \E t \in Slots : g = [f EXCEPT !.at = t]
  BY <1>2 DEF Fields
<1>3. CASE \E s \in ScheduledRunStatus : g = [f EXCEPT !.status = s]
  BY <1>3 DEF Fields
<1>4. CASE g = [f EXCEPT !.reasoned = ~@] \/ g = [f EXCEPT !.report = ~@]
  BY <1>4 DEF Fields
<1>5. CASE \E k \in Keys \cup {NoKey} : g = [f EXCEPT !.recoveryOf = k]
  BY <1>5 DEF Fields
<1> QED
  BY <1>1, <1>2, <1>3, <1>4, <1>5 DEF AlteredFields

\* An alteration leaves every seal.
LEMMA TamperIInv ==
    ASSUME SchedulerIInv, TamperReceipt
    PROVE  SchedulerIInv'
<1>1. PICK i \in DOMAIN receipts : \E g \in AlteredFields(receipts[i].fields) :
        receipts' = [receipts EXCEPT ![i].fields = g]
  BY DEF TamperReceipt
<1>2. PICK g \in AlteredFields(receipts[i].fields) :
        receipts' = [receipts EXCEPT ![i].fields = g]
  BY <1>1
<1>3. ran' = ran /\ tampers' = tampers + 1 /\ tampers < MaxTampers
  BY DEF TamperReceipt
<1>4. receipts \in Seq(Receipt) /\ receipts[i] \in Receipt
  BY DEF SchedulerIInv, SchedulerTypeOK
<1>5. g \in Fields
  BY <1>4, AlteredIsFields DEF Receipt
<1> DEFINE r == [receipts[i] EXCEPT !.fields = g]
<1>6. r \in Receipt /\ r.seal = receipts[i].seal
  BY <1>4, <1>5 DEF Receipt
<1>7. receipts' = [receipts EXCEPT ![i] = r]
  BY <1>2
<1> HIDE DEF r
<1>8. /\ receipts' \in Seq(Receipt) /\ DOMAIN receipts' = DOMAIN receipts
      /\ \A j \in DOMAIN receipts : receipts'[j].seal = receipts[j].seal
  BY <1>4, <1>6, <1>7
<1>9. Seals' = Seals
  BY <1>8 DEF Seals, SealsOf
<1>10. SchedulerTypeOK'
  BY <1>3, <1>8, ScheduleAssumption DEF SchedulerIInv, SchedulerTypeOK
<1>11. \A k : (SealedRun(k)' <=> SealedRun(k)) /\ (Published(k)' <=> Published(k))
  BY <1>3, <1>9 DEF SealedRun, Published
<1>12. RunsAtMostOnce' /\ BuildsSealed' /\ RecoveredSealed'
  BY <1>3, <1>9, <1>11 DEF SchedulerIInv, RunsAtMostOnce, BuildsSealed, RecoveredSealed
<1> QED
  BY <1>10, <1>12 DEF SchedulerIInv

\* A receipt that validates says what its seal says.
LEMMA SealedIsOnce == SchedulerIInv => KeyRunsOnce
<1> SUFFICES ASSUME SchedulerIInv PROVE KeyRunsOnce
  OBVIOUS
<1>1. ASSUME NEW i \in DOMAIN receipts, ValidReceipt(receipts[i]),
             receipts[i].fields.status = "COMPLETE"
      PROVE  Published(receipts[i].fields.key)
  <2>1. receipts[i].seal = receipts[i].fields /\ receipts[i].seal \in Seals
    BY <1>1 DEF ValidReceipt, Seals, SealsOf
  <2>2. receipts[i].fields.key \in Keys
    <3>1. receipts[i] \in Receipt
      BY DEF SchedulerIInv, SchedulerTypeOK
    <3> QED
      BY <3>1 DEF Receipt, Fields
  <2> QED
    BY <1>1, <2>1, <2>2 DEF SchedulerIInv, BuildsSealed
<1>2. CompleteMeansPublished
  BY <1>1 DEF CompleteMeansPublished, Ledger
<1>3. HealthyMeansPublished
  <2> SUFFICES ASSUME NEW t \in Slots, HealthyPaper(TRUE, t, t)
               PROVE  Published(receipts[Len(receipts)].fields.key)
    BY DEF HealthyMeansPublished
  <2>1. Len(receipts) \in DOMAIN receipts
    BY DEF HealthyPaper, SchedulerIInv, SchedulerTypeOK
  <2> QED
    BY <1>1, <2>1 DEF HealthyPaper
<1>4. RecoversAFailure
  <2>1. ASSUME NEW k \in Keys, NEW i \in DOMAIN ran[k]
        PROVE  ran[k][i].recoveryOf \in Keys \cup {NoKey}
    <3>1. ran[k] \in Seq(BuildRecord)
      BY DEF SchedulerIInv, SchedulerTypeOK
    <3>2. ran[k][i] \in BuildRecord
      BY <3>1
    <3> QED
      BY <3>2 DEF BuildRecord
  <2> QED
    BY <2>1 DEF SchedulerIInv, RecoveredSealed, RecoversAFailure
<1> QED
  BY <1>2, <1>3, <1>4 DEF KeyRunsOnce, SchedulerIInv

-----------------------------------------------------------------------------
\* A report is built once at most for a key, a receipt that validates as
\* COMPLETE stands for a publishable build, and no run recovers one that had
\* succeeded, whatever is retried, recovered or altered.
THEOREM KeyRunsOnceTheorem == SchedulerSpec => [](SchedulerTypeOK /\ KeyRunsOnce)
<1>1. SchedulerInit => SchedulerIInv
  BY SchedulerInitIInv
<1>2. SchedulerIInv /\ [SchedulerNext]_schedulerVars => SchedulerIInv'
  <2> SUFFICES ASSUME SchedulerIInv, [SchedulerNext]_schedulerVars PROVE SchedulerIInv'
    OBVIOUS
  <2>1. CASE ExecuteScheduledRun
    BY <2>1, ExecuteIInv
  <2>2. CASE TamperReceipt
    BY <2>2, TamperIInv
  <2>3. CASE UNCHANGED schedulerVars
    BY <2>3 DEF schedulerVars, SchedulerIInv, SchedulerTypeOK, RunsAtMostOnce, BuildsSealed,
                RecoveredSealed, SealedRun, Seals, Published
  <2> QED
    BY <2>1, <2>2, <2>3 DEF SchedulerNext
<1>3. SchedulerIInv => SchedulerTypeOK /\ KeyRunsOnce
  BY SealedIsOnce DEF SchedulerIInv
<1> QED
  BY <1>1, <1>2, <1>3, PTL DEF SchedulerSpec

-----------------------------------------------------------------------------
(***************************************************************************)
(* The market context.  One refresh at a time, and a snapshot that never   *)
(* gets worse, for any threads, period, time and number of restarts.       *)
(***************************************************************************)
Stages == {"idle", "started", "loading", "building", "built", "persisted", "ending"}
Threads == [at : Stages, fresh : {NoSnapshot} \cup Context]

\* The thread of the refresh is the only one that is not idle, and a thread
\* that could not be started left none running.
OneRefresher ==
    /\ \A t, u \in Refreshers : refresher[t] # Idle /\ refresher[u] # Idle => t = u
    /\ refreshing <=> \/ \E t \in Refreshers : refresher[t] # Idle
                      \/ stranded
    /\ stranded => \A t \in Refreshers : refresher[t] = Idle

\* Nothing was generated in the future, and what a thread has built is no
\* older than what is shown: nobody else publishes while it does.
NothingNewer ==
    /\ snapshot <= clock /\ stored <= clock
    /\ \A t \in Refreshers : refresher[t].at \in {"built", "persisted"} =>
          refresher[t].fresh >= snapshot /\ refresher[t].fresh <= clock

ContextIInv == ContextTypeOK /\ OneRefresher /\ NothingNewer

-----------------------------------------------------------------------------
LEMMA NumbersOfSnapshots == /\ {NoSnapshot} \cup Context \subseteq Nat
                            /\ Blocked \in Nat /\ NoSnapshot \in Nat
                            /\ \A c \in Context : c > Blocked
                            /\ NoSnapshot < Blocked
  BY DEF Context, NoSnapshot, Blocked

LEMMA IdleIsThread == Idle \in Threads /\ Idle.at = "idle"
  BY DEF Idle, Threads, Stages

LEMMA ContextTypes ==
    ASSUME ContextTypeOK
    PROVE  /\ refresher \in [Refreshers -> Threads]
           /\ clock \in Context /\ clock \in Nat /\ clock > Blocked
           /\ snapshot \in {NoSnapshot, Blocked} \cup Context /\ snapshot \in Nat
           /\ stored \in {NoSnapshot} \cup Context /\ stored \in Nat
           /\ builtAt \in Nat /\ restarts \in 0..MaxRestarts
           /\ refreshing \in BOOLEAN /\ storeChecked \in BOOLEAN /\ stranded \in BOOLEAN
  BY NumbersOfSnapshots DEF ContextTypeOK, Threads, Stages

\* The refresh thread goes on with m; the other threads are idle before and
\* after it (the flag in market_context_service.py sees to that).
LEMMA RefresherStep ==
    ASSUME ContextIInv, NEW t \in Refreshers, refresher[t].at # "idle",
           NEW m \in Threads, refresher' = [refresher EXCEPT ![t] = m],
           m.at # "idle",
           refreshing' = refreshing, stranded' = stranded
    PROVE  /\ refresher' \in [Refreshers -> Threads]
           /\ refresher'[t] = m
           /\ \A u \in Refreshers \ {t} : refresher[u] = Idle /\ refresher'[u] = Idle
           /\ OneRefresher'
<1>1. refresher \in [Refreshers -> Threads]
  BY ContextTypes DEF ContextIInv
<1>2. refresher' \in [Refreshers -> Threads] /\ refresher'[t] = m
  BY <1>1
<1>3. \A u \in Refreshers \ {t} : refresher'[u] = refresher[u]
  BY <1>1
<1>4. refresher[t] # Idle /\ m # Idle
  BY IdleIsThread
<1>5. \A u \in Refreshers \ {t} : refresher[u] = Idle
  BY <1>4 DEF ContextIInv, OneRefresher
<1>6. refreshing /\ ~stranded
  BY <1>4 DEF ContextIInv, OneRefresher
<1>7. OneRefresher'
  BY <1>2, <1>3, <1>4, <1>5, <1>6 DEF OneRefresher
<1> QED
  BY <1>2, <1>3, <1>5, <1>7

\* A field of the thread's record is what the code moves.
LEMMA NextStage ==
    ASSUME NEW r \in Threads, NEW s \in Stages
    PROVE  LET m == [r EXCEPT !.at = s] IN
           m \in Threads /\ m.at = s /\ m.fresh = r.fresh
  BY DEF Threads

-----------------------------------------------------------------------------
LEMMA ContextInitIInv == ContextInit => ContextIInv
<1> SUFFICES ASSUME ContextInit PROVE ContextIInv
  OBVIOUS
<1>1. ContextTypeOK
  <2>1. clock \in Context /\ builtAt \in Nat /\ restarts \in 0..MaxRestarts
    BY ContextAssumption DEF ContextInit, Context, NoSnapshot, Blocked
  <2>2. refresher \in [Refreshers -> Threads]
    BY IdleIsThread DEF ContextInit
  <2>3. {refreshing, storeChecked, stranded} \subseteq BOOLEAN
    BY DEF ContextInit
  <2>4. snapshot = NoSnapshot /\ stored = NoSnapshot
    BY DEF ContextInit
  <2> QED
    BY <2>1, <2>2, <2>3, <2>4 DEF ContextTypeOK, Threads, Stages
<1>2. OneRefresher
  BY DEF ContextInit, OneRefresher
<1>3. NothingNewer
  BY DEF ContextInit, NothingNewer, NoSnapshot, Blocked, Idle
<1> QED
  BY <1>1, <1>2, <1>3 DEF ContextIInv

LEMMA GetIInv ==
    ASSUME ContextIInv, NEW t \in Refreshers, Get(t)
    PROVE  ContextIInv' /\ snapshot' = snapshot
<1>1. /\ refreshing = FALSE /\ refresher[t] = Idle /\ refreshing' = TRUE
      /\ clock' = clock /\ snapshot' = snapshot /\ builtAt' = builtAt
      /\ storeChecked' = storeChecked /\ stored' = stored /\ restarts' = restarts
  BY ContextTypes DEF Get, ContextIInv
<1>2. \A u \in Refreshers : refresher[u] = Idle
  BY <1>1 DEF ContextIInv, OneRefresher
<1>3. stranded = FALSE
  BY <1>1, ContextTypes DEF ContextIInv, OneRefresher
<1>4. refresher \in [Refreshers -> Threads]
  BY ContextTypes DEF ContextIInv
<1>5. CASE refresher' = [refresher EXCEPT ![t].at = "started"] /\ stranded' = stranded
  <2> DEFINE m == [refresher[t] EXCEPT !.at = "started"]
  <2>1. m \in Threads /\ m.at = "started"
    BY <1>4, NextStage DEF Stages
  <2>2. refresher' = [refresher EXCEPT ![t] = m]
    BY <1>5
  <2> HIDE DEF m
  <2>3. refresher' \in [Refreshers -> Threads] /\ refresher'[t] = m
        /\ \A u \in Refreshers \ {t} : refresher'[u] = Idle
    BY <1>2, <1>4, <2>1, <2>2
  <2>4. ContextTypeOK'
    BY <1>1, <1>5, <2>3, ContextTypes DEF ContextIInv, ContextTypeOK, Threads, Stages
  <2>5. OneRefresher'
    BY <1>1, <1>3, <1>5, <2>1, <2>3, IdleIsThread DEF OneRefresher
  <2>6. NothingNewer'
    BY <1>1, <2>1, <2>3, IdleIsThread DEF ContextIInv, NothingNewer
  <2> QED
    BY <1>1, <2>4, <2>5, <2>6 DEF ContextIInv
<1>6. CASE stranded' = TRUE /\ refresher' = refresher
  <2>1. ContextTypeOK'
    BY <1>1, <1>6 DEF ContextIInv, ContextTypeOK
  <2>2. OneRefresher'
    BY <1>1, <1>2, <1>6 DEF OneRefresher
  <2>3. NothingNewer'
    BY <1>1, <1>6 DEF ContextIInv, NothingNewer
  <2> QED
    BY <1>1, <2>1, <2>2, <2>3 DEF ContextIInv
<1> QED
  BY <1>5, <1>6 DEF Get

LEMMA CheckStoreIInv ==
    ASSUME ContextIInv, NEW t \in Refreshers, CheckStore(t)
    PROVE  ContextIInv' /\ snapshot' = snapshot
<1> DEFINE m == [refresher[t] EXCEPT !.at = IF storeChecked THEN "building" ELSE "loading"]
<1>1. m \in Threads /\ m.at \in {"building", "loading"}
  <2>1. refresher[t] \in Threads
    BY ContextTypes DEF ContextIInv
  <2> DEFINE stage == IF storeChecked THEN "building" ELSE "loading"
  <2>2. stage \in {"building", "loading"} /\ stage \in Stages
    BY DEF Stages
  <2> HIDE DEF stage
  <2>3. LET n == [refresher[t] EXCEPT !.at = stage] IN n \in Threads /\ n.at = stage
    BY <2>1, <2>2, NextStage
  <2> USE DEF stage
  <2> QED
    BY <2>2, <2>3
<1>2. /\ refresher' = [refresher EXCEPT ![t] = m] /\ refresher[t].at = "started"
      /\ storeChecked' = TRUE
      /\ clock' = clock /\ snapshot' = snapshot /\ builtAt' = builtAt
      /\ refreshing' = refreshing /\ stored' = stored /\ restarts' = restarts
      /\ stranded' = stranded
  BY DEF CheckStore
<1> HIDE DEF m
<1>3. /\ refresher' \in [Refreshers -> Threads] /\ refresher'[t] = m /\ OneRefresher'
      /\ \A u \in Refreshers \ {t} : refresher'[u] = Idle
  BY <1>1, <1>2, RefresherStep
<1>4. ContextTypeOK'
  BY <1>2, <1>3, ContextTypes DEF ContextIInv, ContextTypeOK, Threads, Stages
<1>5. NothingNewer'
  BY <1>1, <1>2, <1>3, IdleIsThread DEF ContextIInv, NothingNewer
<1> QED
  BY <1>2, <1>3, <1>4, <1>5 DEF ContextIInv

LEMMA LoadIInv ==
    ASSUME ContextIInv, NEW t \in Refreshers, Load(t)
    PROVE  ContextIInv' /\ snapshot' >= snapshot
<1> DEFINE m == [refresher[t] EXCEPT !.at = "building"]
<1>1. m \in Threads /\ m.at = "building"
  BY ContextTypes, NextStage DEF ContextIInv, Stages
<1>2. /\ refresher' = [refresher EXCEPT ![t] = m] /\ refresher[t].at = "loading"
      /\ clock' = clock /\ storeChecked' = storeChecked
      /\ refreshing' = refreshing /\ stored' = stored /\ restarts' = restarts
      /\ stranded' = stranded
  BY DEF Load
<1>3. \/ snapshot = NoSnapshot /\ snapshot' = stored /\ builtAt' = clock
      \/ snapshot' = snapshot /\ builtAt' = builtAt
  BY DEF Load
<1> HIDE DEF m
<1>4. /\ refresher' \in [Refreshers -> Threads] /\ refresher'[t] = m /\ OneRefresher'
      /\ \A u \in Refreshers \ {t} : refresher'[u] = Idle
  BY <1>1, <1>2, RefresherStep
<1>5. ContextTypeOK'
  BY <1>2, <1>3, <1>4, ContextTypes DEF ContextIInv, ContextTypeOK, Threads, Stages
<1>6. NothingNewer'
  BY <1>1, <1>2, <1>3, <1>4, IdleIsThread DEF ContextIInv, NothingNewer
<1>7. snapshot' >= snapshot
  BY <1>3, ContextTypes DEF ContextIInv, NoSnapshot
<1> QED
  BY <1>4, <1>5, <1>6, <1>7 DEF ContextIInv

\* What build_market_context returns is as new as the clock.
LEMMA BuildContextIInv ==
    ASSUME ContextIInv, NEW t \in Refreshers, BuildContext(t)
    PROVE  ContextIInv' /\ snapshot' = snapshot
<1> DEFINE m == [at |-> "built", fresh |-> clock]
<1>1. m \in Threads /\ m.at = "built" /\ m.fresh = clock
  BY ContextTypes DEF ContextIInv, Threads, Stages
<1>2. /\ refresher' = [refresher EXCEPT ![t] = m] /\ refresher[t].at = "building"
      /\ clock' = clock /\ snapshot' = snapshot /\ builtAt' = builtAt
      /\ refreshing' = refreshing /\ storeChecked' = storeChecked
      /\ stored' = stored /\ restarts' = restarts /\ stranded' = stranded
  BY DEF BuildContext
<1> HIDE DEF m
<1>3. /\ refresher' \in [Refreshers -> Threads] /\ refresher'[t] = m /\ OneRefresher'
      /\ \A u \in Refreshers \ {t} : refresher'[u] = Idle
  BY <1>1, <1>2, RefresherStep
<1>4. ContextTypeOK'
  BY <1>2, <1>3, ContextTypes DEF ContextIInv, ContextTypeOK, Threads, Stages
<1>5. NothingNewer'
  <2>1. m.fresh >= snapshot /\ m.fresh <= clock
    BY <1>1, ContextTypes DEF ContextIInv, NothingNewer
  <2> QED
    BY <1>2, <1>3, <2>1, IdleIsThread DEF ContextIInv, NothingNewer
<1> QED
  BY <1>2, <1>3, <1>4, <1>5 DEF ContextIInv

LEMMA PersistIInv ==
    ASSUME ContextIInv, NEW t \in Refreshers, Persist(t)
    PROVE  ContextIInv' /\ snapshot' = snapshot
<1> DEFINE m == [refresher[t] EXCEPT !.at = "persisted"]
<1>1. m \in Threads /\ m.at = "persisted" /\ m.fresh = refresher[t].fresh
      /\ m.fresh \in {NoSnapshot} \cup Context
  BY ContextTypes, NextStage DEF ContextIInv, Stages, Threads
<1>2. /\ refresher' = [refresher EXCEPT ![t] = m] /\ refresher[t].at = "built"
      /\ stored' \in {stored, refresher[t].fresh}
      /\ clock' = clock /\ snapshot' = snapshot /\ builtAt' = builtAt
      /\ refreshing' = refreshing /\ storeChecked' = storeChecked
      /\ restarts' = restarts /\ stranded' = stranded
  BY DEF Persist
<1> HIDE DEF m
<1>3. /\ refresher' \in [Refreshers -> Threads] /\ refresher'[t] = m /\ OneRefresher'
      /\ \A u \in Refreshers \ {t} : refresher'[u] = Idle
  BY <1>1, <1>2, RefresherStep
<1>4. ContextTypeOK'
  BY <1>1, <1>2, <1>3, ContextTypes DEF ContextIInv, ContextTypeOK, Threads, Stages
<1>5. NothingNewer'
  <2>1. m.fresh >= snapshot /\ m.fresh <= clock
    BY <1>1, <1>2 DEF ContextIInv, NothingNewer
  <2>2. stored' <= clock
    BY <1>1, <1>2, <2>1 DEF ContextIInv, NothingNewer
  <2> QED
    BY <1>2, <1>3, <2>1, <2>2, IdleIsThread DEF ContextIInv, NothingNewer
<1> QED
  BY <1>2, <1>3, <1>4, <1>5 DEF ContextIInv

\* The snapshot is replaced by one that is no older.
LEMMA PublishIInv ==
    ASSUME ContextIInv, NEW t \in Refreshers, Publish(t)
    PROVE  ContextIInv' /\ snapshot' >= snapshot
<1> DEFINE m == [refresher[t] EXCEPT !.at = "ending"]
<1>1. m \in Threads /\ m.at = "ending" /\ refresher[t].fresh \in {NoSnapshot} \cup Context
  BY ContextTypes, NextStage DEF ContextIInv, Stages, Threads
<1>2. /\ refresher' = [refresher EXCEPT ![t] = m] /\ refresher[t].at = "persisted"
      /\ snapshot' = refresher[t].fresh /\ builtAt' = clock
      /\ clock' = clock /\ stored' = stored
      /\ refreshing' = refreshing /\ storeChecked' = storeChecked
      /\ restarts' = restarts /\ stranded' = stranded
  BY DEF Publish
<1> HIDE DEF m
<1>3. /\ refresher' \in [Refreshers -> Threads] /\ refresher'[t] = m /\ OneRefresher'
      /\ \A u \in Refreshers \ {t} : refresher'[u] = Idle
  BY <1>1, <1>2, RefresherStep
<1>4. ContextTypeOK'
  BY <1>1, <1>2, <1>3, ContextTypes DEF ContextIInv, ContextTypeOK, Threads, Stages
<1>5. snapshot' >= snapshot /\ snapshot' <= clock
  BY <1>2 DEF ContextIInv, NothingNewer
<1>6. NothingNewer'
  BY <1>1, <1>2, <1>3, <1>5, IdleIsThread DEF ContextIInv, NothingNewer
<1> QED
  BY <1>3, <1>4, <1>5, <1>6 DEF ContextIInv

LEMMA FailIInv ==
    ASSUME ContextIInv, NEW t \in Refreshers, Fail(t)
    PROVE  ContextIInv' /\ snapshot' >= snapshot
<1> DEFINE m == [refresher[t] EXCEPT !.at = "ending"]
<1>1. m \in Threads /\ m.at = "ending"
  BY ContextTypes, NextStage DEF ContextIInv, Stages
<1>2. /\ refresher' = [refresher EXCEPT ![t] = m] /\ refresher[t].at = "building"
      /\ clock' = clock /\ stored' = stored
      /\ refreshing' = refreshing /\ storeChecked' = storeChecked
      /\ restarts' = restarts /\ stranded' = stranded
  BY DEF Fail
<1>3. \/ snapshot = NoSnapshot /\ snapshot' = Blocked /\ builtAt' = clock
      \/ snapshot' = snapshot /\ builtAt' = builtAt
  BY DEF Fail
<1> HIDE DEF m
<1>4. /\ refresher' \in [Refreshers -> Threads] /\ refresher'[t] = m /\ OneRefresher'
      /\ \A u \in Refreshers \ {t} : refresher'[u] = Idle
  BY <1>1, <1>2, RefresherStep
<1>5. ContextTypeOK'
  BY <1>2, <1>3, <1>4, ContextTypes DEF ContextIInv, ContextTypeOK, Threads, Stages
<1>6. snapshot' >= snapshot /\ snapshot' <= clock
  BY <1>3, ContextTypes, NumbersOfSnapshots DEF ContextIInv, NothingNewer
<1>7. NothingNewer'
  BY <1>1, <1>2, <1>4, <1>6, IdleIsThread DEF ContextIInv, NothingNewer
<1> QED
  BY <1>4, <1>5, <1>6, <1>7 DEF ContextIInv

\* However the refresh went, its end leaves no thread and a cleared flag.
LEMMA EndIInv ==
    ASSUME ContextIInv, NEW t \in Refreshers, End(t)
    PROVE  ContextIInv' /\ snapshot' = snapshot
<1>1. /\ refresher' = [refresher EXCEPT ![t] = Idle] /\ refresher[t].at = "ending"
      /\ refreshing' = FALSE
      /\ clock' = clock /\ snapshot' = snapshot /\ builtAt' = builtAt
      /\ storeChecked' = storeChecked /\ stored' = stored
      /\ restarts' = restarts /\ stranded' = stranded
  BY DEF End
<1>2. refresher \in [Refreshers -> Threads] /\ refresher[t] # Idle
  BY <1>1, ContextTypes, IdleIsThread DEF ContextIInv
<1>3. \A u \in Refreshers : refresher'[u] = Idle
  BY <1>1, <1>2 DEF ContextIInv, OneRefresher
<1>4. ~stranded
  BY <1>2 DEF ContextIInv, OneRefresher
<1>5. refresher' \in [Refreshers -> Threads]
  BY <1>1, <1>2, IdleIsThread
<1>6. ContextTypeOK'
  BY <1>1, <1>5, ContextTypes DEF ContextIInv, ContextTypeOK, Threads, Stages
<1>7. OneRefresher'
  BY <1>1, <1>3, <1>4 DEF OneRefresher
<1>8. NothingNewer'
  BY <1>1, <1>3, IdleIsThread DEF ContextIInv, NothingNewer
<1> QED
  BY <1>1, <1>6, <1>7, <1>8 DEF ContextIInv

LEMMA ContextTickIInv ==
    ASSUME ContextIInv, ContextTick
    PROVE  ContextIInv' /\ snapshot' = snapshot
<1>1. /\ clock' = clock + 1
      /\ UNCHANGED <<snapshot, builtAt, refreshing, storeChecked, stored, refresher,
                     restarts, stranded>>
  BY DEF ContextTick
<1>2. clock' \in Context
  BY <1>1, ContextTypes DEF ContextIInv, Context, NoSnapshot, Blocked
<1>3. ContextTypeOK'
  BY <1>1, <1>2 DEF ContextIInv, ContextTypeOK
<1>4. OneRefresher'
  BY <1>1 DEF ContextIInv, OneRefresher
<1>5. NothingNewer'
  <2>1. \A t \in Refreshers : refresher[t].fresh \in Nat
    BY ContextTypes, NumbersOfSnapshots DEF ContextIInv, Threads
  <2> QED
    BY <1>1, <2>1, ContextTypes DEF ContextIInv, NothingNewer
<1> QED
  BY <1>1, <1>3, <1>4, <1>5 DEF ContextIInv

\* A restart keeps the row only.
LEMMA ContextRestartIInv ==
    ASSUME ContextIInv, ContextRestart
    PROVE  ContextIInv' /\ restarts' # restarts
<1>1. /\ clock' = clock /\ snapshot' = NoSnapshot /\ builtAt' = 0
      /\ refreshing' = FALSE /\ storeChecked' = FALSE /\ stored' = stored
      /\ refresher' = [t \in Refreshers |-> Idle]
      /\ restarts < MaxRestarts /\ restarts' = restarts + 1 /\ stranded' = FALSE
  BY DEF ContextRestart
<1>2. restarts' \in 0..MaxRestarts /\ restarts' # restarts
  BY <1>1, ContextTypes, ContextAssumption DEF ContextIInv
<1>3. refresher' \in [Refreshers -> Threads] /\ \A t \in Refreshers : refresher'[t] = Idle
  BY <1>1, IdleIsThread
<1>4. ContextTypeOK'
  BY <1>1, <1>2, <1>3, ContextTypes DEF ContextIInv, ContextTypeOK, Threads, Stages
<1>5. OneRefresher'
  BY <1>1, <1>3 DEF OneRefresher
<1>6. NothingNewer'
  <2>1. snapshot' <= clock
    BY <1>1, ContextTypes DEF ContextIInv, NoSnapshot
  <2> QED
    BY <1>1, <1>3, <2>1, IdleIsThread DEF ContextIInv, NothingNewer
<1> QED
  BY <1>2, <1>4, <1>5, <1>6 DEF ContextIInv

-----------------------------------------------------------------------------
\* Every step keeps the invariant and, but for a restart, moves the snapshot
\* forward or not at all.
LEMMA ContextStep ==
    ASSUME ContextIInv, [ContextNext]_contextVars
    PROVE  /\ ContextIInv'
           /\ restarts' = restarts => snapshot' >= snapshot
<1>1. \A s : s = snapshot => snapshot >= s
  BY ContextTypes DEF ContextIInv
<1>2. ASSUME NEW t \in Refreshers, Get(t) \/ RefreshStep(t)
      PROVE  ContextIInv' /\ snapshot' >= snapshot
  BY <1>1, <1>2, GetIInv, CheckStoreIInv, LoadIInv, BuildContextIInv, PersistIInv,
     PublishIInv, FailIInv, EndIInv DEF RefreshStep
<1>3. CASE ContextTick
  BY <1>1, <1>3, ContextTickIInv
<1>4. CASE ContextRestart
  BY <1>4, ContextRestartIInv
<1>5. CASE UNCHANGED contextVars
  <2>1. ContextIInv'
    BY <1>5 DEF contextVars, ContextIInv, ContextTypeOK, OneRefresher, NothingNewer
  <2> QED
    BY <1>1, <1>5, <2>1 DEF contextVars
<1> QED
  BY <1>2, <1>3, <1>4, <1>5 DEF ContextNext

\* At most one thread is busy means one of them, or none.
LEMMA OneRefresherIsSingleFlight == OneRefresher => SingleFlight
<1> SUFFICES ASSUME OneRefresher PROVE SingleFlight
  OBVIOUS
<1>1. Cardinality(Busy) <= 1
  <2>1. CASE Busy = {}
    BY <2>1, FS_EmptySet
  <2>2. CASE Busy # {}
    <3>1. PICK t \in Refreshers : refresher[t] # Idle
      BY <2>2 DEF Busy
    <3>2. Busy = {t}
      BY <3>1 DEF Busy, OneRefresher
    <3>3. Cardinality({t}) = 1
      BY FS_Singleton
    <3> QED
      BY <3>2, <3>3
  <2> QED
    BY <2>1, <2>2
<1>2. refreshing <=> (Busy # {} \/ stranded)
  BY DEF OneRefresher, Busy
<1> QED
  BY <1>1, <1>2 DEF SingleFlight

\* The market context is of its types and refreshes at most once at a time,
\* and _refreshing is set exactly while it does or a thread was stranded.
THEOREM SingleFlightTheorem == ContextSpec => [](ContextTypeOK /\ SingleFlight)
<1>1. ContextInit => ContextIInv
  BY ContextInitIInv
<1>2. ContextIInv /\ [ContextNext]_contextVars => ContextIInv'
  BY ContextStep
<1>3. ContextIInv => ContextTypeOK /\ SingleFlight
  BY OneRefresherIsSingleFlight DEF ContextIInv
<1> QED
  BY <1>1, <1>2, <1>3, PTL DEF ContextSpec

\* While the process lives, what is served only moves forward: from nothing to
\* BLOCKED or a context, and from a context to a later one.
THEOREM NeverWorseTheorem == ContextSpec => SnapshotNeverWorse
<1>1. ContextInit => ContextIInv
  BY ContextInitIInv
<1>2. ContextIInv /\ [ContextNext]_contextVars => ContextIInv'
  BY ContextStep
<1>3. ContextIInv /\ [ContextNext]_contextVars
        => [restarts' = restarts => snapshot' >= snapshot]_contextVars
  BY ContextStep
<1> QED
  BY <1>1, <1>2, <1>3, PTL DEF ContextSpec, SnapshotNeverWorse

-----------------------------------------------------------------------------
(***************************************************************************)
(* The response cache.  The age of what is served is that of the entry and *)
(* of the build under way: CacheInv bounds both.                           *)
(***************************************************************************)

BuildUnderWay(b) ==
    b.at # "free" => b.since <= time /\ time <= b.since + MaxBuild

SourceRead(b) == b.at = "built" => b.since <= b.value /\ b.value <= time

CacheInv ==
    /\ CacheTypeOK
    /\ \A r \in Requests : BuildUnderWay(request[r]) /\ SourceRead(request[r])
    /\ entry.value <= time /\ entry.deadline <= entry.value + MaxBuild + Ttl
    /\ ServedAgeBounded

(* A step that keeps the entry, the time and what was served.              *)
LEMMA BuildStep ==
    ASSUME CacheInv, NEW r \in Requests,
           NEW b \in [at : {"free", "building", "built"}, since : Nat, value : Nat],
           BuildUnderWay(b), SourceRead(b), request' = [request EXCEPT ![r] = b],
           UNCHANGED <<time, entry, served>>
    PROVE  CacheInv'
BY DEF CacheInv, CacheTypeOK, BuildUnderWay, SourceRead, ServedAgeBounded

LEMMA HitInv ==
    ASSUME CacheInv, NEW r \in Requests, Hit(r)
    PROVE  CacheInv'
<1>1. /\ time \in Nat /\ entry.value \in Nat /\ entry.deadline \in Nat
      /\ entry.value <= time /\ entry.deadline <= entry.value + MaxBuild + Ttl
      /\ MaxBuild \in Nat /\ Ttl \in Nat /\ time < entry.deadline
  BY CacheAssumption DEF CacheInv, CacheTypeOK, Hit
<1>2. time - entry.value \in Nat /\ time - entry.value < Ttl + MaxBuild
  BY <1>1
<1>3. served' = time - entry.value /\ UNCHANGED <<time, entry, request>>
  BY DEF Hit
<1> QED
  BY <1>2, <1>3 DEF CacheInv, CacheTypeOK, BuildUnderWay, SourceRead, ServedAgeBounded

LEMMA MissInv ==
    ASSUME CacheInv, NEW r \in Requests, Miss(r)
    PROVE  CacheInv'
<1> DEFINE b == [at |-> "building", since |-> time, value |-> 0]
<1>1. b \in [at : {"free", "building", "built"}, since : Nat, value : Nat]
  BY DEF CacheInv, CacheTypeOK
<1>2. BuildUnderWay(b) /\ SourceRead(b)
  BY CacheAssumption DEF BuildUnderWay, SourceRead, CacheInv, CacheTypeOK
<1> QED
  BY <1>1, <1>2, BuildStep DEF Miss

LEMMA ReadSourceInv ==
    ASSUME CacheInv, NEW r \in Requests, ReadSource(r)
    PROVE  CacheInv'
<1> DEFINE b == [request[r] EXCEPT !.at = "built", !.value = time]
<1>1. /\ request \in [Requests -> [at : {"free", "building", "built"}, since : Nat, value : Nat]]
      /\ time \in Nat /\ BuildUnderWay(request[r]) /\ request[r].at = "building"
  BY DEF CacheInv, CacheTypeOK, ReadSource
<1>2. b.at = "built" /\ b.since = request[r].since /\ b.value = time
  BY <1>1
<1>3. b \in [at : {"free", "building", "built"}, since : Nat, value : Nat]
  BY <1>1
<1>4. BuildUnderWay(b) /\ SourceRead(b)
  BY <1>1, <1>2 DEF BuildUnderWay, SourceRead
<1>5. request' = [request EXCEPT ![r] = b] /\ UNCHANGED <<time, entry, served>>
  BY <1>1 DEF ReadSource
<1> QED
  BY <1>3, <1>4, <1>5, BuildStep

LEMMA StoreEntryInv ==
    ASSUME CacheInv, NEW r \in Requests, StoreEntry(r)
    PROVE  CacheInv'
<1> DEFINE b == request[r]
<1>1. /\ b \in [at : {"free", "building", "built"}, since : Nat, value : Nat]
      /\ time \in Nat /\ BuildUnderWay(b) /\ SourceRead(b) /\ b.at = "built"
      /\ MaxBuild \in Nat /\ Ttl \in Nat \ {0}
  BY CacheAssumption DEF CacheInv, CacheTypeOK, StoreEntry
<1>2. b.value \in Nat /\ b.value <= time /\ time <= b.value + MaxBuild
  BY <1>1 DEF BuildUnderWay, SourceRead
<1>3. /\ entry' = [value |-> b.value, deadline |-> time + Ttl]
      /\ served' = time - b.value /\ time' = time
      /\ request' = [request EXCEPT ![r] = NoBuild]
  BY DEF StoreEntry
<1>4. /\ entry' \in [value : Nat, deadline : Nat] /\ served' \in Nat
      /\ entry'.value <= time /\ entry'.deadline <= entry'.value + MaxBuild + Ttl
      /\ served' < Ttl + MaxBuild
  BY <1>1, <1>2, <1>3
<1>5. /\ NoBuild \in [at : {"free", "building", "built"}, since : Nat, value : Nat]
      /\ BuildUnderWay(NoBuild) /\ SourceRead(NoBuild)
  BY DEF NoBuild, BuildUnderWay, SourceRead
<1>6. \A q \in Requests : request'[q] = IF q = r THEN NoBuild ELSE request[q]
  BY <1>3 DEF CacheInv, CacheTypeOK
<1>7. /\ CacheTypeOK'
      /\ \A q \in Requests : BuildUnderWay(request[q])' /\ SourceRead(request[q])'
  BY <1>3, <1>4, <1>5, <1>6 DEF CacheInv, CacheTypeOK, BuildUnderWay, SourceRead
<1> QED
  BY <1>3, <1>4, <1>7 DEF CacheInv, ServedAgeBounded

LEMMA CacheTickInv ==
    ASSUME CacheInv, CacheTick
    PROVE  CacheInv'
<1>1. /\ time \in Nat /\ time' = time + 1 /\ UNCHANGED <<entry, request, served>>
      /\ MaxBuild \in Nat /\ Ttl \in Nat
  BY CacheAssumption DEF CacheInv, CacheTypeOK, CacheTick
<1>2. ASSUME NEW r \in Requests
      PROVE  BuildUnderWay(request[r])' /\ SourceRead(request[r])'
  <2> DEFINE b == request[r]
  <2>1. /\ b \in [at : {"free", "building", "built"}, since : Nat, value : Nat]
        /\ BuildUnderWay(b) /\ SourceRead(b)
    BY DEF CacheInv, CacheTypeOK
  <2>2. b.at # "free" => time < b.since + MaxBuild
    BY DEF CacheTick, NoBuild
  <2> QED
    BY <1>1, <2>1, <2>2 DEF BuildUnderWay, SourceRead
<1>3. entry.value \in Nat /\ entry'.value <= time'
  BY <1>1 DEF CacheInv, CacheTypeOK
<1> QED
  BY <1>1, <1>2, <1>3 DEF CacheInv, CacheTypeOK, ServedAgeBounded

(* No answer is older than a time to live and one build, for any number of *)
(* requests that build at once and store in any order (server.py, _cached).*)
THEOREM ServedAgeTheorem == CacheSpec => [](CacheTypeOK /\ ServedAgeBounded)
<1>1. CacheInit => CacheInv
  BY CacheAssumption
  DEF CacheInit, CacheInv, CacheTypeOK, NoBuild, BuildUnderWay, SourceRead,
      ServedAgeBounded
<1>2. CacheInv /\ [CacheNext]_cacheVars => CacheInv'
  <2> SUFFICES ASSUME CacheInv, [CacheNext]_cacheVars PROVE CacheInv'
    OBVIOUS
  <2>1. CASE UNCHANGED cacheVars
    BY <2>1 DEF cacheVars, CacheInv, CacheTypeOK, BuildUnderWay, SourceRead,
                ServedAgeBounded
  <2> QED
    BY <2>1, HitInv, MissInv, ReadSourceInv, StoreEntryInv, CacheTickInv DEF CacheNext
<1>3. CacheInv => CacheTypeOK /\ ServedAgeBounded
  BY DEF CacheInv
<1> QED
  BY <1>1, <1>2, <1>3, PTL DEF CacheSpec

-----------------------------------------------------------------------------
(***************************************************************************)
(* The rate limiters.  A limiter forgets: it drops elapsed calls from the  *)
(* front of a key, and elapsed keys from the map.  What it may not forget  *)
(* is a call it let through in the last window, and Remembers says that it *)
(* does not: the live grants of a key are the last times it remembers.     *)
(***************************************************************************)

TimesOK(s) ==
    /\ s \in Seq(Nat)
    /\ \A i \in DOMAIN s : s[i] <= now
    /\ \A i, j \in DOMAIN s : i <= j => s[i] <= s[j]

Remembers(s, g) ==
    \A i \in 1..Len(g) : Live(g[i]) =>
        /\ Len(s) - (Len(g) - i) >= 1
        /\ s[Len(s) - (Len(g) - i)] = g[i]

Spans(l, g) == Len(g) > Limit[l] => g[Limit[l] + 1] - g[1] >= Window

MapOK(map) ==
    /\ DOMAIN map \subseteq Addresses
    /\ IsFiniteSet(DOMAIN map) /\ Cardinality(DOMAIN map) <= MaxKeys
    /\ \A k \in DOMAIN map : TimesOK(map[k])

GrantsOK(l, map, g) ==
    \A k \in Addresses :
        /\ g[k] \in Seq(Nat) /\ Len(g[k]) <= Limit[l] + 1
        /\ Spans(l, g[k]) /\ Remembers(TimesOf(map, k), g[k])

LimiterInv ==
    /\ now \in Nat
    /\ events = [l \in Limiters |-> events[l]]
    /\ grants \in [Limiters -> [Addresses -> Seq(Nat)]]
    /\ \A l \in Limiters : MapOK(events[l]) /\ GrantsOK(l, events[l], grants[l])

(* The oldest of some calls is one of them.                                *)
LEMMA OldestIs ==
    ASSUME NEW S \in SUBSET Nat, S # {}
    PROVE  Oldest(S) \in S /\ \A j \in S : Oldest(S) <= j
<1> DEFINE less == OpToRel(<, Nat)
<1>1. less = {p \in Nat \X Nat : p[1] < p[2]}
  BY DEF OpToRel
<1>2. PICK x \in S : \A y \in S : ~(<<y, x>> \in less)
  <2> HIDE DEF less
  <2> QED
    BY NatLessThanWellFounded, WFMin DEF less
<1>3. \A y \in S : x <= y
  <2> SUFFICES ASSUME NEW y \in S, ~(x <= y) PROVE FALSE
    OBVIOUS
  <2>1. <<y, x>> \in Nat \X Nat /\ y < x
    OBVIOUS
  <2>2. <<y, x>> \in {p \in Nat \X Nat : p[1] < p[2]}
    BY <2>1
  <2> QED
    BY <1>1, <1>2, <2>2
<1> QED
  BY <1>2, <1>3 DEF Oldest

LEMMA SuffixIs ==
    ASSUME NEW s \in Seq(Nat), NEW o \in 1..Len(s)
    PROVE  LET t == SubSeq(s, o, Len(s))
           IN /\ t \in Seq(Nat) /\ Len(t) = Len(s) - o + 1
              /\ \A x \in 1..Len(t) : t[x] = s[o + x - 1]
OBVIOUS

LEMMA TimesOfOK ==
    ASSUME now \in Nat, NEW map, MapOK(map), NEW k
    PROVE  TimesOK(TimesOf(map, k))
BY DEF MapOK, TimesOf, TimesOK

(* Pruning keeps the live calls, which are the last.                       *)
LEMMA PrunedOK ==
    ASSUME now \in Nat, NEW map, NEW k, TimesOK(TimesOf(map, k))
    PROVE  /\ TimesOK(Pruned(map, k))
           /\ \A g \in Seq(Nat) :
                 Remembers(TimesOf(map, k), g) => Remembers(Pruned(map, k), g)
<1> DEFINE s == TimesOf(map, k)
           live == {i \in DOMAIN s : Live(s[i])}
           p == Pruned(map, k)
<1>1. s \in Seq(Nat) /\ DOMAIN s = 1..Len(s) /\ Len(s) \in Nat
  BY DEF TimesOK
<1>2. ASSUME NEW g \in Seq(Nat), NEW i \in 1..Len(g), Live(g[i]), Remembers(s, g)
      PROVE  Len(s) - (Len(g) - i) \in live
  <2> DEFINE j == Len(s) - (Len(g) - i)
  <2>1. Len(g) \in Nat /\ j >= 1 /\ s[j] = g[i]
    BY <1>2 DEF Remembers
  <2>2. j \in 1..Len(s)
    BY <1>1, <2>1
  <2> QED
    BY <1>1, <1>2, <2>1, <2>2
<1>3. CASE live = {}
  <2>1. p = <<>>
    BY <1>3 DEF Pruned
  <2> QED
    BY <1>2, <1>3, <2>1 DEF TimesOK, Remembers
<1>4. CASE live # {}
  <2> DEFINE o == Oldest(live)
  <2>1. o \in live /\ \A j \in live : o <= j
    <3>1. live \in SUBSET Nat
      BY <1>1
    <3> HIDE DEF live
    <3> QED
      BY <1>4, <3>1, OldestIs
  <2>2. p = SubSeq(s, o, Len(s)) /\ o \in 1..Len(s)
    BY <1>1, <1>4, <2>1 DEF Pruned
  <2> HIDE DEF p, s, live, o
  <2>3. /\ p \in Seq(Nat) /\ Len(p) = Len(s) - o + 1 /\ DOMAIN p = 1..Len(p)
        /\ \A x \in 1..Len(p) : p[x] = s[o + x - 1]
    BY <1>1, <2>2, SuffixIs
  <2>4. TimesOK(p)
    <3>1. ASSUME NEW x \in 1..Len(p)
          PROVE  o + x - 1 \in 1..Len(s)
      BY <1>1, <2>2, <2>3
    <3>2. /\ \A x \in 1..Len(s) : s[x] <= now
          /\ \A x, y \in 1..Len(s) : x <= y => s[x] <= s[y]
      BY <1>1 DEF TimesOK, s
    <3>3. ASSUME NEW x \in 1..Len(p), NEW y \in 1..Len(p), x <= y
          PROVE  o + x - 1 <= o + y - 1
      BY <2>2, <3>3
    <3>4. /\ \A x \in 1..Len(p) : p[x] <= now
          /\ \A x, y \in 1..Len(p) : x <= y => p[x] <= p[y]
      BY <2>3, <3>1, <3>2, <3>3
    <3> QED
      BY <2>3, <3>4 DEF TimesOK
  <2>5. ASSUME NEW g \in Seq(Nat), Remembers(s, g) PROVE Remembers(p, g)
    <3> SUFFICES ASSUME NEW i \in 1..Len(g), Live(g[i])
                 PROVE  /\ Len(p) - (Len(g) - i) >= 1
                        /\ p[Len(p) - (Len(g) - i)] = g[i]
      BY DEF Remembers
    <3>1. PICK j \in live : j = Len(s) - (Len(g) - i) /\ s[j] = g[i]
      BY <1>2, <2>5 DEF Remembers
    <3>2. j \in 1..Len(s) /\ o <= j /\ Len(g) \in Nat
      <4>1. live \subseteq DOMAIN s
        BY DEF live
      <4> QED
        BY <1>1, <2>1, <3>1, <4>1
    <3>3. Len(p) - (Len(g) - i) = j - o + 1 /\ j - o + 1 \in 1..Len(p)
      <4>1. Len(p) = Len(s) - o + 1 /\ o \in 1..Len(s) /\ Len(s) \in Nat
        BY <1>1, <2>2, <2>3
      <4>2. Len(p) - (Len(g) - i) = j - o + 1
        BY <3>1, <3>2, <4>1
      <4>3. j - o + 1 \in 1..Len(p)
        BY <3>2, <4>1
      <4> QED
        BY <4>2, <4>3
    <3>4. p[j - o + 1] = s[j]
      BY <1>1, <2>2, <2>3, <3>2, <3>3
    <3> QED
      BY <1>1, <2>2, <3>1, <3>2, <3>3, <3>4
  <2> QED
    BY <2>4, <2>5 DEF p, s
<1> QED
  BY <1>3, <1>4

(* A key is evicted when its last call has elapsed, and so all of them.    *)
LEMMA EvictedOK ==
    ASSUME now \in Nat, NEW map, MapOK(map)
    PROVE  /\ MapOK(EvictExpired(map))
           /\ \A k, g : g \in Seq(Nat) /\ Remembers(TimesOf(map, k), g)
                            => Remembers(TimesOf(EvictExpired(map), k), g)
<1> DEFINE kept == {k \in DOMAIN map : map[k] # <<>> /\ Live(map[k][Len(map[k])])}
           rest == EvictExpired(map)
<1>1. DOMAIN rest = kept /\ \A k \in kept : rest[k] = map[k]
  BY DEF EvictExpired
<1>2. MapOK(rest)
  <2>1. IsFiniteSet(kept) /\ Cardinality(kept) <= Cardinality(DOMAIN map)
    BY FS_Subset, kept \subseteq DOMAIN map DEF MapOK
  <2>2. Cardinality(kept) \in Nat /\ Cardinality(DOMAIN map) \in Nat
    BY <2>1, FS_CardinalityType DEF MapOK
  <2> QED
    BY <1>1, <2>1, <2>2, LimiterAssumption DEF MapOK
<1>3. ASSUME NEW k, NEW g \in Seq(Nat), Remembers(TimesOf(map, k), g)
      PROVE  Remembers(TimesOf(rest, k), g)
  <2>1. CASE k \in kept \/ k \notin DOMAIN map
    BY <1>1, <1>3, <2>1 DEF TimesOf
  <2>2. CASE k \in DOMAIN map /\ k \notin kept
    <3> DEFINE s == map[k]
    <3>1. s \in Seq(Nat) /\ TimesOK(s) /\ TimesOf(map, k) = s
      BY <2>2 DEF MapOK, TimesOK, TimesOf
    <3>2. ASSUME NEW i \in 1..Len(g), Live(g[i]) PROVE FALSE
      <4>1. PICK j : j = Len(s) - (Len(g) - i) /\ j >= 1 /\ s[j] = g[i]
        BY <1>3, <3>1, <3>2 DEF Remembers
      <4>2. j \in 1..Len(s) /\ Len(s) \in 1..Len(s) /\ DOMAIN s = 1..Len(s)
        BY <3>1, <4>1
      <4>3. s[j] <= s[Len(s)] /\ s[j] \in Nat /\ s[Len(s)] \in Nat
        <5> HIDE DEF s
        <5>1. j <= Len(s)
          BY <4>2
        <5>2. s[j] \in Nat /\ s[Len(s)] \in Nat
          BY <3>1, <4>2
        <5>3. \A x, y \in 1..Len(s) : x <= y => s[x] <= s[y]
          BY <3>1, <4>2 DEF TimesOK
        <5> QED
          BY <4>2, <5>1, <5>2, <5>3
      <4>4. Live(s[Len(s)])
        <5>1. s[j] + Window > now /\ Window \in Nat
          BY <3>2, <4>1, LimiterAssumption DEF Live
        <5> HIDE DEF s
        <5> QED
          BY <4>3, <5>1 DEF Live
      <4> QED
        BY <2>2, <4>2, <4>4
    <3> QED
      BY <3>2 DEF Remembers
  <2> QED
    BY <2>1, <2>2
<1> QED
  BY <1>2, <1>3

LEMMA RoomyOK ==
    ASSUME now \in Nat, NEW map, MapOK(map), NEW key
    PROVE  /\ MapOK(Roomy(map, key))
           /\ \A k, g : g \in Seq(Nat) /\ Remembers(TimesOf(map, k), g)
                            => Remembers(TimesOf(Roomy(map, key), k), g)
BY EvictedOK DEF Roomy

LEMMA WithOK ==
    ASSUME NEW map, MapOK(map), NEW key \in Addresses, HasRoom(map, key), NEW times, TimesOK(times)
    PROVE  /\ MapOK(With(map, key, times))
           /\ TimesOf(With(map, key, times), key) = times
           /\ \A k : k # key => TimesOf(With(map, key, times), k) = TimesOf(map, k)
<1> DEFINE w == With(map, key, times)
<1>1. /\ DOMAIN w = DOMAIN map \cup {key} /\ w[key] = times
      /\ \A k \in DOMAIN map : k # key => w[k] = map[k]
  BY DEF With
<1>2. IsFiniteSet(DOMAIN w) /\ Cardinality(DOMAIN w) <= MaxKeys
  <2>1. CASE key \in DOMAIN map
    <3>1. DOMAIN w = DOMAIN map
      BY <1>1, <2>1
    <3> QED
      BY <3>1 DEF MapOK
  <2>2. CASE key \notin DOMAIN map
    <3>1. IsFiniteSet(DOMAIN w) /\ Cardinality(DOMAIN w) = Cardinality(DOMAIN map) + 1
      BY <1>1, <2>2, FS_AddElement DEF MapOK
    <3>2. Cardinality(DOMAIN map) < MaxKeys /\ Cardinality(DOMAIN map) \in Nat
      BY <2>2, FS_CardinalityType DEF HasRoom, MapOK
    <3> QED
      BY <3>1, <3>2, LimiterAssumption
  <2> QED
    BY <2>1, <2>2
<1>3. \A k \in DOMAIN w : TimesOK(w[k])
  <2> HIDE DEF w
  <2> QED
    BY <1>1 DEF MapOK
<1>4. TimesOf(w, key) = times /\ \A k : k # key => TimesOf(w, k) = TimesOf(map, k)
  <2> HIDE DEF w
  <2> QED
    BY <1>1 DEF TimesOf
<1>5. DOMAIN w \subseteq Addresses
  BY <1>1 DEF MapOK
<1> QED
  BY <1>2, <1>3, <1>4, <1>5 DEF MapOK

\* n are the grants g and one made now, without their first if off = 1.
Joined(n, g, off, limit) ==
    /\ off = 1 => Len(g) = limit + 1
    /\ n \in Seq(Nat) /\ Len(n) = Len(g) + 1 - off
    /\ Len(n) \in Nat /\ Len(n) >= 1 /\ Len(n) <= limit + 1
    /\ n[Len(n)] = now
    /\ \A x \in 1..Len(n) : x # Len(n) => n[x] = g[x + off] /\ x + off \in 1..Len(g)

(* The grants a limiter remembers once another call was let through.       *)
LEMMA GrantShape ==
    ASSUME now \in Nat, NEW l \in Limiters, NEW g \in Seq(Nat), Len(g) <= Limit[l] + 1,
           NEW n, n = LastOf(Append(g, now), Limit[l] + 1)
    PROVE  \E off \in {0, 1} : Joined(n, g, off, Limit[l])
<1> DEFINE limit == Limit[l]
           a == Append(g, now)
<1>1. limit \in Nat /\ limit >= 1 /\ Len(g) <= limit + 1 /\ Len(g) \in Nat
  BY LimiterAssumption
<1>2. /\ a \in Seq(Nat) /\ Len(a) = Len(g) + 1 /\ a[Len(a)] = now
      /\ \A x \in 1..Len(g) : a[x] = g[x]
  BY <1>1
<1>3. n = LastOf(a, limit + 1)
  OBVIOUS
<1>4. PICK off \in {0, 1} :
         /\ off = (IF Len(g) = limit + 1 THEN 1 ELSE 0)
         /\ n = SubSeq(a, off + 1, Len(a))
  <2> HIDE DEF a, limit
  <2>1. CASE Len(g) = limit + 1
    <3>1. Len(a) > limit + 1 /\ Len(a) - (limit + 1) + 1 = 2
      BY <1>1, <1>2, <2>1
    <3>2. LastOf(a, limit + 1) = SubSeq(a, 2, Len(a)) /\ 1 + 1 = 2
      BY <3>1 DEF LastOf
    <3> QED
      BY <1>3, <2>1, <3>2
  <2>2. CASE Len(g) # limit + 1
    <3>1. ~(Len(a) > limit + 1)
      BY <1>1, <1>2, <2>2
    <3>2. LastOf(a, limit + 1) = SubSeq(a, 1, Len(a)) /\ 0 + 1 = 1
      BY <3>1 DEF LastOf
    <3> QED
      BY <1>3, <2>2, <3>2
  <2> QED
    BY <2>1, <2>2
<1> HIDE DEF a, limit
<1>5. /\ n \in Seq(Nat) /\ Len(n) = Len(g) + 1 - off
      /\ \A x \in 1..Len(n) : n[x] = a[x + off]
  <2>1. off + 1 \in 1..Len(a) /\ \A x \in Nat : off + 1 + x - 1 = x + off
    BY <1>1, <1>2, <1>4
  <2>2. /\ n \in Seq(Nat) /\ Len(n) = Len(a) - (off + 1) + 1
        /\ \A x \in 1..Len(n) : n[x] = a[off + 1 + x - 1]
    <3>1. PICK o : o = off + 1 /\ o \in 1..Len(a)
      BY <2>1
    <3>2. /\ SubSeq(a, o, Len(a)) \in Seq(Nat) /\ Len(SubSeq(a, o, Len(a))) = Len(a) - o + 1
          /\ \A x \in 1..Len(SubSeq(a, o, Len(a))) : SubSeq(a, o, Len(a))[x] = a[o + x - 1]
      BY <1>2, <3>1, SuffixIs
    <3>3. n = SubSeq(a, o, Len(a))
      BY <1>4, <3>1
    <3> QED
      BY <3>1, <3>2, <3>3
  <2>3. Len(a) - (off + 1) + 1 = Len(g) + 1 - off
    BY <1>1, <1>2
  <2> QED
    BY <2>1, <2>2, <2>3
<1>6. Len(n) \in Nat /\ Len(n) >= 1 /\ Len(n) <= limit + 1
  <2>1. Len(g) <= limit + 1
    BY DEF limit
  <2> QED
    <3>1. (off = 0 /\ Len(g) # limit + 1) \/ (off = 1 /\ Len(g) = limit + 1)
      BY <1>4
    <3> QED
      BY <1>1, <1>5, <2>1, <3>1
<1>7. n[Len(n)] = now /\ \A x \in 1..Len(n) : x # Len(n) => n[x] = g[x + off] /\ x + off \in 1..Len(g)
  <2>1. Len(n) \in 1..Len(n) /\ Len(n) + off = Len(a)
    BY <1>1, <1>2, <1>5, <1>6
  <2>2. ASSUME NEW x \in 1..Len(n), x # Len(n) PROVE x + off \in 1..Len(g)
    <3>1. Len(n) = Len(g) + 1 - off /\ off \in 0..1 /\ Len(g) \in Nat
      BY <1>1, <1>5
    <3> QED
      BY <2>2, <3>1
  <2>3. n[Len(n)] = now
    BY <1>2, <1>5, <2>1
  <2> QED
    BY <1>2, <1>5, <2>2, <2>3
<1>8. Joined(n, g, off, limit)
  BY <1>4, <1>5, <1>6, <1>7 DEF Joined
<1> QED
  BY <1>8 DEF limit

(* A call that is let through joins the live ones, of which there were     *)
(* fewer than the limit: the call a limit before it has elapsed.           *)
LEMMA GrantOK ==
    ASSUME now \in Nat, NEW l \in Limiters, NEW p, TimesOK(p), Len(p) < Limit[l],
           NEW g \in Seq(Nat), Len(g) <= Limit[l] + 1, Remembers(p, g)
    PROVE  LET n == LastOf(Append(g, now), Limit[l] + 1)
           IN /\ n \in Seq(Nat) /\ Len(n) <= Limit[l] + 1
              /\ Spans(l, n) /\ Remembers(Append(p, now), n)
<1> DEFINE limit == Limit[l]
           n == LastOf(Append(g, now), limit + 1)
           q == Append(p, now)
<1>1. /\ limit \in Nat /\ limit >= 1 /\ Len(g) <= limit + 1 /\ Len(g) \in Nat /\ Len(p) \in Nat
      /\ Window \in Nat /\ p \in Seq(Nat)
  BY LimiterAssumption DEF TimesOK
<1>2. /\ q \in Seq(Nat) /\ Len(q) = Len(p) + 1 /\ q[Len(q)] = now
      /\ \A x \in 1..Len(p) : q[x] = p[x]
  BY <1>1
<1> HIDE DEF n, q
<1>3. PICK off \in {0, 1} :
         Joined(n, g, off, limit)
  BY GrantShape DEF n
<1> HIDE DEF limit
<1>4. n \in Seq(Nat) /\ Len(n) = Len(g) + 1 - off
  BY <1>3 DEF Joined
<1>5. Len(n) \in Nat /\ Len(n) >= 1 /\ Len(n) <= limit + 1
  BY <1>3 DEF Joined
<1>6. n[Len(n)] = now /\ \A x \in 1..Len(n) : x # Len(n) => n[x] = g[x + off] /\ x + off \in 1..Len(g)
  BY <1>3 DEF Joined
<1>7. Spans(l, n)
  <2> SUFFICES ASSUME Len(n) > limit PROVE n[limit + 1] - n[1] >= Window
    BY DEF Spans, limit
  <2>1. Len(n) = limit + 1 /\ 1 \in 1..Len(n) /\ 1 # Len(n)
    <3>1. Len(n) = limit + 1
      BY <1>1, <1>5
    <3> QED
      BY <1>1, <1>5, <3>1
  <2>2. n[limit + 1] = now /\ n[1] = g[1 + off] /\ 1 + off \in 1..Len(g)
    BY <1>6, <2>1
  <2>3. Len(g) - (1 + off) = limit - 1
    BY <1>1, <1>4, <2>1
  <2>4. ~Live(g[1 + off])
    <3> SUFFICES ASSUME Live(g[1 + off]) PROVE FALSE
      OBVIOUS
    <3>1. Len(p) - (Len(g) - (1 + off)) >= 1
      BY <2>2 DEF Remembers
    <3> QED
      BY <1>1, <2>3, <3>1 DEF limit
  <2>5. g[1 + off] \in Nat
    BY <2>2
  <2> QED
    BY <1>1, <2>2, <2>4, <2>5 DEF Live
<1>8. Remembers(q, n)
  <2> SUFFICES ASSUME NEW i \in 1..Len(n), Live(n[i])
               PROVE  Len(q) - (Len(n) - i) >= 1 /\ q[Len(q) - (Len(n) - i)] = n[i]
    BY DEF Remembers
  <2>1. CASE i = Len(n)
    <3>1. Len(q) - (Len(n) - i) = Len(q) /\ Len(q) >= 1
      BY <1>1, <1>2, <1>5, <2>1
    <3> QED
      BY <1>2, <1>6, <2>1, <3>1
  <2>2. CASE i # Len(n)
    <3>1. n[i] = g[i + off] /\ i + off \in 1..Len(g) /\ Live(g[i + off])
      BY <1>6, <2>2
    <3>2. PICK j : j = Len(p) - (Len(g) - (i + off)) /\ j >= 1 /\ p[j] = n[i]
      BY <3>1 DEF Remembers
    <3>3. j \in 1..Len(p)
      BY <1>1, <3>1, <3>2
    <3>4. Len(q) - (Len(n) - i) = j
      BY <1>1, <1>2, <1>4, <3>1, <3>2
    <3> QED
      BY <1>2, <3>2, <3>3, <3>4
  <2> QED
    BY <2>1, <2>2
<1> QED
  BY <1>4, <1>5, <1>7, <1>8 DEF n, q, limit

LEMMA AppendNowOK ==
    ASSUME now \in Nat, NEW p, TimesOK(p)
    PROVE  TimesOK(Append(p, now))
<1> DEFINE q == Append(p, now)
<1>1. p \in Seq(Nat) /\ \A i \in 1..Len(p) : p[i] \in Nat /\ p[i] <= now
  BY DEF TimesOK
<1>2. /\ q \in Seq(Nat) /\ Len(q) = Len(p) + 1 /\ q[Len(q)] = now /\ Len(p) \in Nat
      /\ \A i \in 1..Len(p) : q[i] = p[i]
  BY <1>1
<1>3. \A i, j \in 1..Len(p) : i <= j => p[i] <= p[j]
  BY <1>1 DEF TimesOK
<1> HIDE DEF q
<1>4. DOMAIN q = 1..Len(q) /\ \A i \in 1..Len(q) : i = Len(q) \/ i \in 1..Len(p)
  BY <1>2
<1>5. \A i \in 1..Len(q) : q[i] <= now
  BY <1>1, <1>2, <1>4
<1>6. ASSUME NEW i \in 1..Len(q), NEW j \in 1..Len(q), i <= j PROVE q[i] <= q[j]
  <2>1. CASE j = Len(q)
    BY <1>2, <1>5, <2>1
  <2>2. CASE j # Len(q)
    <3>1. i \in 1..Len(p) /\ j \in 1..Len(p)
      BY <1>2, <1>4, <1>6, <2>2
    <3> QED
      BY <1>2, <1>3, <1>6, <3>1
  <2> QED
    BY <2>1, <2>2
<1> QED
  BY <1>2, <1>4, <1>5, <1>6 DEF TimesOK, q

LEMMA AllowedOK ==
    ASSUME LimiterInv, NEW l \in Limiters, NEW key \in Addresses, Allows(l, key)
    PROVE  /\ MapOK(AfterAllow(l, key)) /\ Granted(l, key) \in [Addresses -> Seq(Nat)]
           /\ GrantsOK(l, AfterAllow(l, key), Granted(l, key))
<1> DEFINE map == Roomy(events[l], key)
           p == Pruned(map, key)
           q == Append(p, now)
           m == AfterAllow(l, key)
           g == Granted(l, key)
<1>1. /\ now \in Nat /\ MapOK(events[l]) /\ GrantsOK(l, events[l], grants[l])
      /\ grants[l] \in [Addresses -> Seq(Nat)]
  BY DEF LimiterInv
<1>2. HasRoom(map, key) /\ Len(p) < Limit[l]
  BY DEF Allows
<1>3. /\ MapOK(map)
      /\ \A k, h : h \in Seq(Nat) /\ Remembers(TimesOf(events[l], k), h)
                      => Remembers(TimesOf(map, k), h)
  BY <1>1, RoomyOK
<1>4. TimesOK(p) /\ \A h \in Seq(Nat) : Remembers(TimesOf(map, key), h) => Remembers(p, h)
  BY <1>1, <1>3, TimesOfOK, PrunedOK
<1>5. m = With(map, key, q)
  BY <1>2 DEF AfterAllow
<1>6. TimesOK(q)
  <2> HIDE DEF p
  <2> QED
    BY <1>1, <1>4, AppendNowOK
<1>7. /\ MapOK(m) /\ TimesOf(m, key) = q
      /\ \A k : k # key => TimesOf(m, k) = TimesOf(map, k)
  <2> HIDE DEF map, q, m
  <2> QED
    BY <1>2, <1>3, <1>5, <1>6, WithOK
<1>8. /\ \A k \in Addresses : k # key => g[k] = grants[l][k]
      /\ g[key] = LastOf(Append(grants[l][key], now), Limit[l] + 1)
      /\ DOMAIN g = Addresses
  BY <1>1 DEF Granted
<1>9. /\ g[key] \in Seq(Nat) /\ Len(g[key]) <= Limit[l] + 1
      /\ Spans(l, g[key]) /\ Remembers(q, g[key])
  <2>1. /\ grants[l][key] \in Seq(Nat) /\ Len(grants[l][key]) <= Limit[l] + 1
        /\ Remembers(p, grants[l][key])
    BY <1>1, <1>3, <1>4 DEF GrantsOK
  <2> HIDE DEF p
  <2> QED
    BY <1>1, <1>2, <1>4, <1>8, <2>1, GrantOK
<1> HIDE DEF map, p, q, m, g
<1>10. g = [k \in Addresses |-> g[k]]
  BY <1>1 DEF g, Granted
<1>11. ASSUME NEW k \in Addresses
       PROVE  /\ g[k] \in Seq(Nat) /\ Len(g[k]) <= Limit[l] + 1
              /\ Spans(l, g[k]) /\ Remembers(TimesOf(m, k), g[k])
  <2>1. CASE k = key
    BY <1>7, <1>9, <2>1
  <2>2. CASE k # key
    BY <1>1, <1>3, <1>7, <1>8, <2>2 DEF GrantsOK
  <2> QED
    BY <2>1, <2>2
<1>12. g \in [Addresses -> Seq(Nat)]
  BY <1>10, <1>11
<1> QED
  BY <1>7, <1>11, <1>12 DEF m, g, GrantsOK

LEMMA RefusedOK ==
    ASSUME LimiterInv, NEW l \in Limiters, NEW key \in Addresses, ~Allows(l, key)
    PROVE  MapOK(AfterAllow(l, key)) /\ GrantsOK(l, AfterAllow(l, key), grants[l])
<1> DEFINE map == Roomy(events[l], key)
           p == Pruned(map, key)
           m == AfterAllow(l, key)
<1>1. now \in Nat /\ MapOK(events[l]) /\ GrantsOK(l, events[l], grants[l])
  BY DEF LimiterInv
<1>2. /\ MapOK(map)
      /\ \A k, h : h \in Seq(Nat) /\ Remembers(TimesOf(events[l], k), h)
                      => Remembers(TimesOf(map, k), h)
  BY <1>1, RoomyOK
<1>3. CASE ~HasRoom(map, key)
  BY <1>1, <1>2, <1>3 DEF AfterAllow, GrantsOK
<1>4. CASE HasRoom(map, key)
  <2>1. TimesOK(p) /\ \A h \in Seq(Nat) : Remembers(TimesOf(map, key), h) => Remembers(p, h)
    BY <1>1, <1>2, TimesOfOK, PrunedOK
  <2>2. m = With(map, key, p)
    BY <1>4 DEF AfterAllow, Allows
  <2>3. /\ MapOK(m) /\ TimesOf(m, key) = p
        /\ \A k : k # key => TimesOf(m, k) = TimesOf(map, k)
    BY <1>2, <1>4, <2>1, <2>2, WithOK
  <2> HIDE DEF map, p, m
  <2>4. ASSUME NEW k \in Addresses PROVE Remembers(TimesOf(m, k), grants[l][k])
    <3>1. grants[l][k] \in Seq(Nat) /\ Remembers(TimesOf(map, k), grants[l][k])
      BY <1>1, <1>2 DEF GrantsOK
    <3> QED
      BY <2>1, <2>3, <3>1
  <2> QED
    BY <1>1, <2>3, <2>4 DEF GrantsOK, m
<1> QED
  BY <1>3, <1>4
(* At one instant, a limiter that took a step to sound values is sound.    *)
LEMMA LimiterStep ==
    ASSUME LimiterInv, now' = now,
           events' = [l \in Limiters |-> events'[l]],
           grants' = [l \in Limiters |-> grants'[l]],
           \A l \in Limiters : \E m, g :
               /\ events'[l] = m /\ grants'[l] = g
               /\ MapOK(m) /\ GrantsOK(l, m, g) /\ g \in [Addresses -> Seq(Nat)]
    PROVE  LimiterInv'
<1>1. ASSUME NEW m, NEW g, NEW l, MapOK(m), GrantsOK(l, m, g)
      PROVE  MapOK(m)' /\ GrantsOK(l, m, g)'
  BY <1>1 DEF MapOK, GrantsOK, TimesOK, Remembers, Live, Spans, TimesOf
<1>2. ASSUME NEW l \in Limiters
      PROVE  /\ MapOK(events[l])' /\ GrantsOK(l, events[l], grants[l])'
             /\ grants'[l] \in [Addresses -> Seq(Nat)]
  <2>1. PICK m, g : /\ events'[l] = m /\ grants'[l] = g
                    /\ MapOK(m) /\ GrantsOK(l, m, g) /\ g \in [Addresses -> Seq(Nat)]
    OBVIOUS
  <2>2. MapOK(m)' /\ GrantsOK(l, m, g)'
    BY <1>1, <2>1
  <2> QED
    BY <2>1, <2>2 DEF MapOK, GrantsOK, TimesOK, Remembers, Live, Spans, TimesOf
<1>3. grants' \in [Limiters -> [Addresses -> Seq(Nat)]]
  BY <1>2
<1> QED
  BY <1>2, <1>3 DEF LimiterInv

(* A limiter that was asked and one that was not.                          *)
Asked(l, key) ==
    \/ /\ Allows(l, key)
       /\ events'[l] = AfterAllow(l, key) /\ grants'[l] = Granted(l, key)
    \/ /\ ~Allows(l, key)
       /\ events'[l] = AfterAllow(l, key) /\ grants'[l] = grants[l]
    \/ events'[l] = events[l] /\ grants'[l] = grants[l]

LEMMA AskedOK ==
    ASSUME LimiterInv, NEW l \in Limiters, NEW key \in Addresses, Asked(l, key)
    PROVE  \E m, g : /\ events'[l] = m /\ grants'[l] = g
                     /\ MapOK(m) /\ GrantsOK(l, m, g) /\ g \in [Addresses -> Seq(Nat)]
<1>1. /\ MapOK(events[l]) /\ GrantsOK(l, events[l], grants[l])
      /\ grants[l] \in [Addresses -> Seq(Nat)]
  BY DEF LimiterInv
<1>2. CASE Allows(l, key) /\ events'[l] = AfterAllow(l, key) /\ grants'[l] = Granted(l, key)
  BY <1>2, AllowedOK
<1>3. CASE ~Allows(l, key) /\ events'[l] = AfterAllow(l, key) /\ grants'[l] = grants[l]
  BY <1>1, <1>3, RefusedOK
<1>4. CASE events'[l] = events[l] /\ grants'[l] = grants[l]
  BY <1>1, <1>4
<1> QED
  BY <1>2, <1>3, <1>4 DEF Asked

LEMMA LimitersKnown ==
    ASSUME LimiterInv
    PROVE  /\ events = [l \in Limiters |-> events[l]]
           /\ grants = [l \in Limiters |-> grants[l]]
BY DEF LimiterInv

LEMMA RequestAsks ==
    ASSUME LimiterInv, NEW email \in Addresses, NEW ip \in Addresses, now' = now,
           AllowRequest(email, ip) \/ RefuseRequest(email, ip)
    PROVE  LimiterInv'
<1>1. /\ events = [l \in Limiters |-> events[l]]
      /\ grants = [l \in Limiters |-> grants[l]]
  BY LimitersKnown
<1>2. /\ events' = [l \in Limiters |-> events'[l]]
      /\ grants' = [l \in Limiters |-> grants'[l]]
  BY <1>1 DEF AllowRequest, RefuseRequest
<1>3. /\ Asked("request_per_ip", ip)
      /\ Asked("request_per_email", email)
      /\ Asked("verify_per_email", email)
  <2>1. CASE AllowRequest(email, ip)
    BY <1>1, <2>1 DEF AllowRequest, Asked, Limiters
  <2>2. CASE RefuseRequest(email, ip)
    BY <1>1, <2>2 DEF RefuseRequest, Asked, Limiters
  <2> QED
    BY <2>1, <2>2
<1>4. \A l \in Limiters : \E key \in Addresses : Asked(l, key)
  BY <1>3 DEF Limiters
<1> QED
  BY <1>2, <1>4, AskedOK, LimiterStep

LEMMA VerifyAsks ==
    ASSUME LimiterInv, NEW email \in Addresses, now' = now,
           AllowVerify(email) \/ RefuseVerify(email)
    PROVE  LimiterInv'
<1>1. /\ events = [l \in Limiters |-> events[l]]
      /\ grants = [l \in Limiters |-> grants[l]]
  BY LimitersKnown
<1>2. /\ events' = [l \in Limiters |-> events'[l]]
      /\ grants' = [l \in Limiters |-> grants'[l]]
  BY <1>1 DEF AllowVerify, RefuseVerify
<1>3. \A l \in Limiters : Asked(l, email)
  <2>1. CASE AllowVerify(email)
    BY <1>1, <2>1 DEF AllowVerify, Asked, Limiters
  <2>2. CASE RefuseVerify(email)
    BY <1>1, <2>2 DEF RefuseVerify, Asked, Limiters
  <2> QED
    BY <2>1, <2>2
<1> QED
  BY <1>2, <1>3, AskedOK, LimiterStep

LEMMA NothingCalled ==
    ASSUME NEW l \in Limiters
    PROVE  /\ MapOK(NoEvents)
           /\ GrantsOK(l, NoEvents, [k \in Addresses |-> <<>>])
           /\ [k \in Addresses |-> <<>>] \in [Addresses -> Seq(Nat)]
<1>1. DOMAIN NoEvents = {}
  BY DEF NoEvents
<1>2. IsFiniteSet({}) /\ Cardinality({}) = 0
  BY FS_EmptySet
<1>3. MapOK(NoEvents)
  BY <1>1, <1>2, LimiterAssumption DEF MapOK
<1>4. /\ <<>> \in Seq(Nat) /\ Len(<<>>) = 0 /\ Spans(l, <<>>)
      /\ \A s : Remembers(s, <<>>)
  BY LimiterAssumption DEF Spans, Remembers
<1> QED
  BY <1>3, <1>4, LimiterAssumption DEF GrantsOK

LEMMA ForgetInv ==
    ASSUME LimiterInv, ForgetCalls, now' = now
    PROVE  LimiterInv'
<1>1. \A l \in Limiters : /\ events'[l] = NoEvents
                          /\ grants'[l] = [k \in Addresses |-> <<>>]
  BY DEF ForgetCalls
<1>2. /\ events' = [l \in Limiters |-> events'[l]]
      /\ grants' = [l \in Limiters |-> grants'[l]]
  BY DEF ForgetCalls
<1> QED
  BY <1>1, <1>2, NothingCalled, LimiterStep

(* Time elapses calls and makes none.                                      *)
LEMMA ClockInv ==
    ASSUME LimiterInv, now' = now + 1, UNCHANGED <<events, grants>>
    PROVE  LimiterInv'
<1>1. now \in Nat /\ Window \in Nat
  BY LimiterAssumption DEF LimiterInv
<1>2. ASSUME NEW t \in Nat, Live(t)' PROVE Live(t)
  BY <1>1, <1>2 DEF Live
<1>3. ASSUME NEW s, TimesOK(s) PROVE TimesOK(s)'
  <2>1. s \in Seq(Nat) /\ \A i \in DOMAIN s : s[i] \in Nat
    BY <1>3 DEF TimesOK
  <2> QED
    BY <1>1, <1>3, <2>1 DEF TimesOK
<1>4. ASSUME NEW s, NEW g \in Seq(Nat), Remembers(s, g) PROVE Remembers(s, g)'
  BY <1>2, <1>4 DEF Remembers
<1>5. ASSUME NEW m, NEW g, NEW l, MapOK(m), GrantsOK(l, m, g)
      PROVE  MapOK(m)' /\ GrantsOK(l, m, g)'
  BY <1>3, <1>4, <1>5 DEF MapOK, GrantsOK, Spans, TimesOf
<1>6. ASSUME NEW l \in Limiters
      PROVE  MapOK(events[l])' /\ GrantsOK(l, events[l], grants[l])'
  <2>1. PICK m, g : m = events[l] /\ g = grants[l]
    OBVIOUS
  <2>2. MapOK(m)' /\ GrantsOK(l, m, g)' /\ events'[l] = m /\ grants'[l] = g
    BY <1>5, <2>1 DEF LimiterInv
  <2>3. MapOK(events[l])'
    BY <2>2 DEF MapOK, TimesOK
  <2>4. ASSUME NEW k \in Addresses
        PROVE  /\ grants'[l][k] \in Seq(Nat) /\ Len(grants'[l][k]) <= Limit[l] + 1
               /\ Spans(l, grants[l][k])' /\ Remembers(TimesOf(events[l], k), grants[l][k])'
    <3>1. PICK gk, sk : gk = g[k] /\ sk = TimesOf(m, k)
      OBVIOUS
    <3>2. grants'[l][k] = gk /\ TimesOf(events[l], k)' = sk
      BY <2>2, <3>1 DEF TimesOf
    <3>4. /\ g[k] \in Seq(Nat) /\ Len(g[k]) <= Limit[l] + 1
          /\ Spans(l, g[k])' /\ Remembers(TimesOf(m, k), g[k])'
      BY <2>2 DEF GrantsOK
    <3>5. Spans(l, gk)
      BY <3>1, <3>4 DEF Spans
    <3>6. Remembers(sk, gk)'
      BY <3>1, <3>4 DEF Remembers, TimesOf
    <3>7. /\ gk \in Seq(Nat) /\ Len(gk) <= Limit[l] + 1
          /\ Spans(l, gk) /\ Remembers(sk, gk)'
      BY <3>1, <3>4, <3>5, <3>6
    <3> QED
      BY <3>2, <3>7 DEF Spans, Remembers
  <2>5. GrantsOK(l, events[l], grants[l])'
    BY <2>4 DEF GrantsOK
  <2> QED
    BY <2>3, <2>5
<1> QED
  BY <1>1, <1>6 DEF LimiterInv

(***************************************************************************)
(* Sign-in.  A code that was accepted is marked, whatever the threads that *)
(* verify it had read before, and only the Supabase store lets a thread    *)
(* mark a code it matched earlier.                                         *)
(***************************************************************************)
CodeRow == [email : Emails, purpose : Purposes, at : Nat, used : BOOLEAN]

Thread(b) ==
    /\ b \in [at : {"free", "requesting", "upserted", "verifying", "matched", "accepted"},
              since : Nat, email : Emails \cup {NoEmail}, code : 0..Len(codes), after : BOOLEAN]
    /\ b.at \in {"requesting", "upserted"} => b.email \in Emails
    /\ b.at \in {"verifying", "matched", "accepted"} => b.code \in DOMAIN codes
    /\ b.at = "matched" => ~locked
    /\ b.after => b.at = "verifying" /\ codes[b.code].used

CodesInv ==
    /\ locked \in BOOLEAN /\ restarted \in BOOLEAN /\ late = FALSE
    /\ codes \in Seq(CodeRow)
    /\ guest \in [Emails -> Nat]
    /\ handler = [h \in Handlers |-> handler[h]]
    /\ \A h \in Handlers : Thread(handler[h])
    /\ spent \in Seq(Nat) /\ Len(spent) = Len(codes)
    /\ \A i \in DOMAIN codes : /\ spent[i] > 0 => codes[i].used
                               /\ locked => spent[i] <= 1

SignInInv == LimiterInv /\ CodesInv

CodesGrow ==
    /\ codes \in Seq(CodeRow) /\ codes' \in Seq(CodeRow) /\ Len(codes) <= Len(codes')
    /\ \A i \in DOMAIN codes : codes[i].used => codes'[i].used
    /\ locked' = locked

(* Codes come and are marked under the threads without harm.               *)
LEMMA ThreadStays ==
    ASSUME NEW b, Thread(b), CodesGrow
    PROVE  Thread(b)'
<1>1. /\ Len(codes) \in Nat /\ Len(codes') \in Nat
      /\ DOMAIN codes = 1..Len(codes) /\ DOMAIN codes' = 1..Len(codes')
  BY DEF CodesGrow
<1>2. 0..Len(codes) \subseteq 0..Len(codes') /\ DOMAIN codes \subseteq DOMAIN codes'
  BY <1>1 DEF CodesGrow
<1>3. b.after => b.code \in DOMAIN codes
  BY DEF Thread
<1>4. b \in [at : {"free", "requesting", "upserted", "verifying", "matched", "accepted"},
             since : Nat, email : Emails \cup {NoEmail}, code : 0..Len(codes'), after : BOOLEAN]
  BY <1>2 DEF Thread
<1> QED
  BY <1>2, <1>3, <1>4 DEF Thread, CodesGrow

(* A step in which one thread moves.                                       *)
LEMMA ThreadMoves ==
    ASSUME CodesInv, CodesGrow, NEW h \in Handlers, NEW b, Thread(b)',
           handler' = [handler EXCEPT ![h] = b]
    PROVE  /\ handler' = [q \in Handlers |-> handler'[q]]
           /\ \A q \in Handlers : Thread(handler[q])'
<1>1. /\ handler' = [q \in Handlers |-> handler'[q]]
      /\ \A q \in Handlers : handler'[q] = IF q = h THEN b ELSE handler[q]
  BY DEF CodesInv
<1>2. ASSUME NEW q \in Handlers PROVE Thread(handler[q])'
  <2>1. PICK c : c = handler[q] /\ Thread(c)
    BY DEF CodesInv
  <2>2. Thread(c)'
    BY <2>1, ThreadStays
  <2>3. handler'[q] = b \/ handler'[q] = c
    BY <1>1, <2>1
  <2> QED
    BY <2>2, <2>3 DEF Thread
<1> QED
  BY <1>1, <1>2

LEMMA FreeThread ==
    ASSUME CodesInv
    PROVE  Thread(FreeHandler) /\ FreeHandler.email = NoEmail
<1>1. Len(codes) \in Nat
  BY DEF CodesInv
<1>2. 0 \in 0..Len(codes)
  BY <1>1
<1> QED
  BY <1>2 DEF Thread, FreeHandler

LEMMA CodesStay ==
    ASSUME CodesInv, UNCHANGED <<locked, codes>>
    PROVE  CodesGrow
<1>1. Len(codes) \in Nat
  BY DEF CodesInv
<1> QED
  BY <1>1 DEF CodesInv, CodesGrow

(* A step in which one thread moves and no code is issued or marked.       *)
LEMMA QuietMove ==
    ASSUME CodesInv, NEW h \in Handlers, NEW b, Thread(b),
           handler' = [handler EXCEPT ![h] = b],
           UNCHANGED <<locked, codes, restarted, spent, late>>,
           guest' \in [Emails -> Nat]
    PROVE  CodesInv'
<1>1. CodesGrow
  BY CodesStay
<1>2. Thread(b)'
  BY <1>1, ThreadStays
<1>3. /\ handler' = [q \in Handlers |-> handler'[q]]
      /\ \A q \in Handlers : Thread(handler[q])'
  BY <1>1, <1>2, ThreadMoves
<1> QED
  BY <1>3 DEF CodesInv
LEMMA CodesKept ==
    ASSUME CodesInv, UNCHANGED <<locked, codes, guest, handler, restarted, spent, late>>
    PROVE  CodesInv'
<1>1. ASSUME NEW h \in Handlers PROVE Thread(handler[h])'
  <2>1. PICK c : c = handler[h] /\ Thread(c)
    BY DEF CodesInv
  <2>2. Thread(c)' /\ handler'[h] = c
    BY <2>1, CodesStay, ThreadStays
  <2> QED
    BY <2>2 DEF Thread
<1> QED
  BY <1>1 DEF CodesInv

LEMMA RequestCodeInv ==
    ASSUME SignInInv, NEW h \in Handlers, NEW email \in Emails, NEW ip \in ClientIps,
           RequestCode(h, email, ip)
    PROVE  SignInInv'
<1>1. LimiterInv'
  BY RequestAsks, SignInAssumption DEF SignInInv, RequestCode
<1>2. CASE UNCHANGED handler
  BY <1>1, <1>2, CodesKept DEF SignInInv, RequestCode
<1>3. CASE handler' = [handler EXCEPT ![h] =
              [FreeHandler EXCEPT !.at = "requesting", !.since = now, !.email = email]]
  <2> DEFINE b == [FreeHandler EXCEPT !.at = "requesting", !.since = now, !.email = email]
  <2>1. Len(codes) \in Nat /\ now \in Nat
    BY DEF SignInInv, CodesInv, LimiterInv
  <2>2. Thread(b)
    <3>1. Thread(FreeHandler) /\ FreeHandler.after = FALSE
      BY FreeThread DEF SignInInv, FreeHandler
    <3> QED
      BY <2>1, <3>1 DEF Thread
  <2>3. guest' \in [Emails -> Nat] /\ UNCHANGED <<locked, codes, restarted, spent, late>>
    BY DEF RequestCode, SignInInv, CodesInv
  <2> QED
    BY <1>1, <1>3, <2>2, <2>3, QuietMove DEF SignInInv
<1> QED
  BY <1>2, <1>3 DEF RequestCode

LEMMA LimiterStays ==
    ASSUME LimiterInv, UNCHANGED limiterVars
    PROVE  LimiterInv'
<1>1. \A l \in Limiters : \E m, g :
         /\ events'[l] = m /\ grants'[l] = g
         /\ MapOK(m) /\ GrantsOK(l, m, g) /\ g \in [Addresses -> Seq(Nat)]
  BY DEF LimiterInv, limiterVars
<1> QED
  BY <1>1, LimitersKnown, LimiterStep DEF limiterVars

(* The steps of a thread that neither issues nor marks a code.             *)
LEMMA QuietThreadInv ==
    ASSUME SignInInv, NEW h \in Handlers,
           UpsertGuest(h) \/ SelectOtp(h) \/ RefuseCode(h) \/ OpenSession(h)
    PROVE  SignInInv'
<1>1. LimiterInv' /\ UNCHANGED <<locked, codes, restarted, spent, late>>
  BY LimiterStays DEF SignInInv, UpsertGuest, SelectOtp, RefuseCode, OpenSession, limiterVars
<1>2. /\ CodesInv /\ Thread(handler[h]) /\ Thread(FreeHandler) /\ now \in Nat
  BY FreeThread DEF SignInInv, CodesInv, LimiterInv
<1>3. CASE UpsertGuest(h)
  <2> DEFINE b == [handler[h] EXCEPT !.at = "upserted"]
  <2>1. Thread(b)
    BY <1>2, <1>3 DEF Thread, UpsertGuest
  <2>2. handler' = [handler EXCEPT ![h] = b]
    BY <1>3 DEF UpsertGuest, Goto
  <2>3. guest' \in [Emails -> Nat]
    <3>1. now + GuestTtl \in Nat
      BY <1>2, SignInAssumption
    <3> QED
      BY <1>2, <1>3, <3>1 DEF UpsertGuest, CodesInv
  <2> QED
    BY <1>1, <1>2, <2>1, <2>2, <2>3, QuietMove DEF SignInInv
<1>4. CASE SelectOtp(h)
  <2> DEFINE b == [handler[h] EXCEPT !.at = "matched"]
  <2>1. ~codes[handler[h].code].used /\ ~locked
    BY <1>4 DEF SelectOtp, Found
  <2>2. Thread(b)
    BY <1>2, <1>4, <2>1 DEF Thread, SelectOtp
  <2>3. handler' = [handler EXCEPT ![h] = b]
    BY <1>4 DEF SelectOtp, Goto
  <2>4. guest' \in [Emails -> Nat]
    BY <1>2, <1>4 DEF SelectOtp, CodesInv
  <2> QED
    BY <1>1, <1>2, <2>2, <2>3, <2>4, QuietMove DEF SignInInv
<1>5. CASE RefuseCode(h) \/ OpenSession(h)
  <2>1. handler' = [handler EXCEPT ![h] = FreeHandler] /\ guest' \in [Emails -> Nat]
    BY <1>2, <1>5 DEF RefuseCode, OpenSession, Finish, CodesInv
  <2> QED
    BY <1>1, <1>2, <2>1, QuietMove DEF SignInInv
<1> QED
  BY <1>3, <1>4, <1>5

(* A new code is one nobody spent.                                         *)
LEMMA NewCodeGrows ==
    ASSUME CodesInv, now \in Nat, NEW email \in Emails, NEW purpose \in Purposes,
           codes' = Append(codes, NewCode(email, purpose)), spent' = Append(spent, 0),
           locked' = locked
    PROVE  /\ CodesGrow
           /\ codes' \in Seq(CodeRow) /\ spent' \in Seq(Nat) /\ Len(spent') = Len(codes')
           /\ \A i \in DOMAIN codes' : /\ spent'[i] > 0 => codes'[i].used
                                       /\ locked' => spent'[i] <= 1
<1>1. /\ codes \in Seq(CodeRow) /\ spent \in Seq(Nat) /\ Len(spent) = Len(codes)
      /\ Len(codes) \in Nat /\ DOMAIN codes = 1..Len(codes)
  BY DEF CodesInv
<1> DEFINE row == NewCode(email, purpose)
<1>2. row \in CodeRow
  BY DEF NewCode, CodeRow
<1> HIDE DEF row
<1>3. /\ codes' \in Seq(CodeRow) /\ Len(codes') = Len(codes) + 1
      /\ DOMAIN codes' = 1..(Len(codes) + 1)
      /\ \A i \in DOMAIN codes : codes'[i] = codes[i]
  BY <1>1, <1>2 DEF row
<1>4. /\ spent' \in Seq(Nat) /\ Len(spent') = Len(codes) + 1 /\ spent'[Len(codes) + 1] = 0
      /\ \A i \in DOMAIN codes : spent'[i] = spent[i]
  BY <1>1
<1>5. ASSUME NEW i \in DOMAIN codes'
      PROVE  /\ spent'[i] > 0 => codes'[i].used
             /\ locked' => spent'[i] <= 1
  <2>1. CASE i \in DOMAIN codes
    BY <1>3, <1>4, <2>1 DEF CodesInv
  <2>2. CASE i = Len(codes) + 1
    BY <1>4, <2>2
  <2> QED
    BY <1>1, <1>3, <2>1, <2>2
<1>6. CodesGrow
  BY <1>1, <1>3 DEF CodesGrow
<1> QED
  BY <1>3, <1>4, <1>5, <1>6

LEMMA IssueOtpInv ==
    ASSUME SignInInv, NEW h \in Handlers, IssueOtp(h)
    PROVE  SignInInv'
<1>1. LimiterInv'
  BY LimiterStays DEF SignInInv, IssueOtp, limiterVars
<1>2. /\ CodesInv /\ Thread(FreeHandler) /\ now \in Nat /\ handler[h].email \in Emails
  BY FreeThread DEF SignInInv, CodesInv, LimiterInv, IssueOtp, Thread
<1>3. /\ CodesGrow
      /\ codes' \in Seq(CodeRow) /\ spent' \in Seq(Nat) /\ Len(spent') = Len(codes')
      /\ \A i \in DOMAIN codes' : /\ spent'[i] > 0 => codes'[i].used
                                  /\ locked' => spent'[i] <= 1
  BY <1>2, NewCodeGrows DEF IssueOtp, Purposes
<1>4. /\ handler' = [q \in Handlers |-> handler'[q]]
      /\ \A q \in Handlers : Thread(handler[q])'
  <2>1. Thread(FreeHandler)'
    BY <1>2, <1>3, ThreadStays
  <2>2. handler' = [handler EXCEPT ![h] = FreeHandler]
    BY DEF IssueOtp, Finish
  <2> QED
    BY <1>2, <1>3, <2>1, <2>2, ThreadMoves DEF FreeHandler
<1> QED
  BY <1>1, <1>2, <1>3, <1>4 DEF SignInInv, CodesInv, IssueOtp

LEMMA AuthorizeInv ==
    ASSUME SignInInv, Authorize
    PROVE  SignInInv'
<1>1. LimiterInv'
  BY LimiterStays DEF SignInInv, Authorize, limiterVars
<1>2. CodesInv /\ now \in Nat
  BY DEF SignInInv, LimiterInv
<1>3. /\ CodesGrow
      /\ codes' \in Seq(CodeRow) /\ spent' \in Seq(Nat) /\ Len(spent') = Len(codes')
      /\ \A i \in DOMAIN codes' : /\ spent'[i] > 0 => codes'[i].used
                                  /\ locked' => spent'[i] <= 1
  BY <1>2, NewCodeGrows, SignInAssumption DEF Authorize, Purposes
<1>4. \A q \in Handlers : Thread(handler[q])'
  <2> SUFFICES ASSUME NEW q \in Handlers PROVE Thread(handler[q])'
    OBVIOUS
  <2>1. PICK c : c = handler[q] /\ Thread(c)
    BY <1>2 DEF CodesInv
  <2>2. Thread(c)' /\ handler'[q] = c
    BY <1>3, <2>1, ThreadStays DEF Authorize
  <2> QED
    BY <2>2 DEF Thread
<1> QED
  BY <1>1, <1>2, <1>3, <1>4 DEF SignInInv, CodesInv, Authorize
LEMMA StartVerifyInv ==
    ASSUME SignInInv, NEW h \in Handlers, NEW i \in DOMAIN codes, StartVerify(h, i)
    PROVE  SignInInv'
<1>1. /\ CodesInv /\ LimiterInv /\ now \in Nat /\ codes \in Seq(CodeRow) /\ codes[i] \in CodeRow
      /\ spent[i] > 0 => codes[i].used
      /\ Emails \subseteq Addresses /\ now' = now
  <2>1. CodesInv /\ LimiterInv /\ now \in Nat /\ now' = now
    BY DEF SignInInv, LimiterInv, StartVerify
  <2>2. codes \in Seq(CodeRow) /\ (spent[i] > 0 => codes[i].used)
    BY <2>1 DEF CodesInv
  <2> QED
    BY <2>1, <2>2, SignInAssumption
<1>2. codes[i].email \in Emails /\ codes[i].email \in Addresses
  BY <1>1 DEF CodeRow
<1>3. LimiterInv'
  <2>1. CASE codes[i].purpose = "signin"
    BY <1>1, <1>2, <2>1, VerifyAsks DEF StartVerify
  <2>2. CASE codes[i].purpose # "signin"
    BY <1>1, <2>2, LimiterStays DEF StartVerify, limiterVars
  <2> QED
    BY <2>1, <2>2
<1> DEFINE b == [FreeHandler EXCEPT !.at = "verifying", !.since = now, !.email = codes[i].email,
                                    !.code = i, !.after = spent[i] > 0]
<1>4. Thread(b)
  <2>1. Thread(FreeHandler) /\ i \in 0..Len(codes)
    BY <1>1, FreeThread
  <2>2. PICK after \in BOOLEAN : after = (spent[i] > 0)
    <3>1. CASE spent[i] > 0
      <4>1. (spent[i] > 0) = TRUE
        BY <3>1
      <4> QED
        BY <4>1, Zenon
    <3>2. CASE ~(spent[i] > 0)
      <4>1. (spent[i] > 0) = FALSE
        BY <3>2
      <4> QED
        BY <4>1, Zenon
    <3> QED
      BY <3>1, <3>2
  <2>3. after => codes[i].used
    BY <1>1, <2>2
  <2>4. b = [FreeHandler EXCEPT !.at = "verifying", !.since = now, !.email = codes[i].email,
                                !.code = i, !.after = after]
    BY <2>2, Zenon
  <2> HIDE DEF b
  <2> QED
    BY <1>1, <1>2, <2>1, <2>3, <2>4 DEF Thread
<1>5. handler' = [handler EXCEPT ![h] = b] /\ guest' \in [Emails -> Nat]
      /\ UNCHANGED <<locked, codes, restarted, spent, late>>
  BY <1>1 DEF StartVerify, CodesInv
<1> QED
  BY <1>1, <1>3, <1>4, <1>5, QuietMove DEF SignInInv

LEMMA VerifyInVainInv ==
    ASSUME SignInInv, NEW email \in Emails, VerifyInVain(email)
    PROVE  SignInInv'
BY VerifyAsks, CodesKept, SignInAssumption DEF SignInInv, VerifyInVain

(* A marked code was accepted once, or again by a thread that matched it   *)
(* on the Supabase store.                                                  *)
LEMMA SpendInv ==
    ASSUME SignInInv, NEW h \in Handlers, VerifyLocked(h) \/ PatchOtp(h)
    PROVE  SignInInv'
<1> DEFINE i == handler[h].code
<1>1. LimiterInv' /\ CodesInv /\ Thread(handler[h]) /\ Thread(FreeHandler)
  BY LimiterStays, FreeThread
  DEF SignInInv, CodesInv, VerifyLocked, PatchOtp, limiterVars
<1>2. i \in DOMAIN codes
  BY <1>1 DEF VerifyLocked, PatchOtp, Thread
<1>3. /\ ~handler[h].after
      /\ locked => spent[i] = 0
  <2>1. CASE VerifyLocked(h)
    <3>1. ~codes[i].used
      BY <2>1 DEF VerifyLocked, Found
    <3>2. spent[i] \in Nat /\ ~(spent[i] > 0)
      BY <1>1, <1>2, <3>1 DEF CodesInv
    <3> QED
      BY <1>1, <3>1, <3>2 DEF Thread
  <2>2. CASE PatchOtp(h)
    BY <1>1, <2>2 DEF PatchOtp, Thread
  <2> QED
    BY <2>1, <2>2
<1>4. /\ codes' = [codes EXCEPT ![i].used = TRUE]
      /\ spent' = [spent EXCEPT ![i] = @ + 1]
      /\ late' = (late \/ handler[h].after)
      /\ AcceptCode(h) /\ UNCHANGED <<locked, guest, restarted>>
  BY DEF VerifyLocked, PatchOtp, Spend
<1>5. /\ codes \in Seq(CodeRow) /\ spent \in Seq(Nat) /\ Len(spent) = Len(codes)
      /\ Len(codes) \in Nat /\ DOMAIN codes = 1..Len(codes) /\ DOMAIN spent = 1..Len(codes)
  BY <1>1 DEF CodesInv
<1>6. [codes[i] EXCEPT !.used = TRUE] \in CodeRow
  <2>1. codes[i] \in CodeRow
    BY <1>2, <1>5
  <2> QED
    BY <2>1 DEF CodeRow
<1>7. /\ codes' \in Seq(CodeRow) /\ Len(codes') = Len(codes) /\ codes'[i].used
      /\ \A j \in DOMAIN codes : j # i => codes'[j] = codes[j]
  BY <1>2, <1>4, <1>5, <1>6
<1>8. /\ spent' \in Seq(Nat) /\ Len(spent') = Len(codes) /\ spent'[i] = spent[i] + 1
      /\ \A j \in DOMAIN codes : j # i => spent'[j] = spent[j]
  <2>1. i \in 1..Len(spent) /\ spent[i] + 1 \in Nat
    BY <1>2, <1>5
  <2> HIDE DEF i
  <2> QED
    BY <1>4, <1>5, <2>1
<1>9. DOMAIN codes' = DOMAIN codes
  BY <1>5, <1>7
<1>10. CodesGrow
  BY <1>2, <1>4, <1>5, <1>7 DEF CodesGrow
<1>11. \A j \in DOMAIN codes' : /\ spent'[j] > 0 => codes'[j].used
                                /\ locked' => spent'[j] <= 1
  <2> SUFFICES ASSUME NEW j \in DOMAIN codes
               PROVE  /\ spent'[j] > 0 => codes'[j].used
                      /\ locked' => spent'[j] <= 1
    BY <1>9
  <2>1. CASE j = i
    BY <1>3, <1>4, <1>7, <1>8, <2>1
  <2>2. CASE j # i
    BY <1>1, <1>4, <1>7, <1>8, <2>2 DEF CodesInv
  <2> QED
    BY <2>1, <2>2
<1>12. PICK b : handler' = [handler EXCEPT ![h] = b] /\ Thread(b)
  <2>1. CASE codes[i].purpose = "signin"
    <3> DEFINE b == [handler[h] EXCEPT !.at = "accepted"]
    <3>1. handler' = [handler EXCEPT ![h] = b]
      BY <1>4, <2>1 DEF AcceptCode, Goto
    <3>2. Thread(b)
      BY <1>1, <1>2, <1>3 DEF Thread
    <3> QED
      BY <3>1, <3>2
  <2>2. CASE codes[i].purpose # "signin"
    BY <1>1, <1>4, <2>2 DEF AcceptCode, Finish
  <2> QED
    BY <2>1, <2>2
<1>13. /\ handler' = [q \in Handlers |-> handler'[q]]
       /\ \A q \in Handlers : Thread(handler[q])'
  BY <1>1, <1>10, <1>12, ThreadStays, ThreadMoves
<1>14. late' = FALSE
  BY <1>1, <1>3, <1>4 DEF CodesInv
<1> QED
  BY <1>1, <1>4, <1>7, <1>8, <1>11, <1>13, <1>14 DEF SignInInv, CodesInv

LEMMA SignInTickInv ==
    ASSUME SignInInv, SignInTick
    PROVE  SignInInv'
BY ClockInv, CodesKept DEF SignInInv, SignInTick

LEMMA SignInRestartInv ==
    ASSUME SignInInv, SignInRestart
    PROVE  SignInInv'
<1>1. LimiterInv' /\ CodesInv /\ Thread(FreeHandler) /\ CodesGrow
  BY ForgetInv, FreeThread, CodesStay DEF SignInInv, SignInRestart
<1>2. /\ handler' = [q \in Handlers |-> handler'[q]]
      /\ \A q \in Handlers : Thread(handler[q])'
  <2>1. Thread(FreeHandler)'
    BY <1>1, ThreadStays
  <2>2. PICK f : f = FreeHandler /\ Thread(f)'
    BY <2>1 DEF Thread, FreeHandler
  <2>3. handler' = [q \in Handlers |-> f]
    BY <2>2 DEF SignInRestart
  <2> QED
    BY <2>2, <2>3 DEF Thread
<1> QED
  BY <1>1, <1>2 DEF SignInInv, CodesInv, SignInRestart

LEMMA SignInStarts ==
    ASSUME SignInInit
    PROVE  SignInInv
<1>1. LimiterInv
  <2>1. /\ now = 0 /\ events = [l \in Limiters |-> NoEvents]
        /\ grants = [l \in Limiters |-> [k \in Addresses |-> <<>>]]
    BY DEF SignInInit, LimiterInit
  <2> QED
    BY <2>1, NothingCalled DEF LimiterInv
<1>2. CodesInv
  <2>1. /\ codes = <<>> /\ spent = <<>> /\ Len(codes) = 0 /\ DOMAIN codes = {}
        /\ codes \in Seq(CodeRow) /\ spent \in Seq(Nat)
    BY DEF SignInInit
  <2>2. Thread(FreeHandler)
    BY <2>1 DEF Thread, FreeHandler
  <2>3. handler = [h \in Handlers |-> FreeHandler]
    BY DEF SignInInit
  <2>4. guest \in [Emails -> Nat]
    BY DEF SignInInit, Absent
  <2>5. \A h \in Handlers : handler[h] = FreeHandler
    BY <2>3
  <2>6. \A h \in Handlers : Thread(handler[h])
    BY <2>2, <2>5
  <2> QED
    BY <2>1, <2>3, <2>4, <2>6 DEF CodesInv, SignInInit
<1> QED
  BY <1>1, <1>2 DEF SignInInv

LEMMA SignInKept ==
    ASSUME SignInInv, [SignInNext]_signInVars
    PROVE  SignInInv'
<1>1. CASE UNCHANGED signInVars
  BY <1>1, LimiterStays, CodesKept DEF signInVars, limiterVars, SignInInv
<1>2. ASSUME NEW h \in Handlers,
             \/ \E e \in Emails, ip \in ClientIps : RequestCode(h, e, ip)
             \/ UpsertGuest(h) \/ IssueOtp(h)
             \/ \E i \in DOMAIN codes : StartVerify(h, i)
             \/ VerifyLocked(h) \/ SelectOtp(h) \/ PatchOtp(h) \/ RefuseCode(h)
             \/ OpenSession(h)
      PROVE  SignInInv'
  BY <1>2, RequestCodeInv, QuietThreadInv, IssueOtpInv, StartVerifyInv, SpendInv
<1>3. CASE \E e \in Emails : VerifyInVain(e)
  BY <1>3, VerifyInVainInv
<1> QED
  BY <1>1, <1>2, <1>3, AuthorizeInv, SignInTickInv, SignInRestartInv DEF SignInNext

LEMMA SignInAlways == SignInSpec => []SignInInv
<1>1. SignInInit => SignInInv
  BY SignInStarts
<1>2. SignInInv /\ [SignInNext]_signInVars => SignInInv'
  BY SignInKept
<1> QED
  BY <1>1, <1>2, PTL DEF SignInSpec

(* However keys were pruned, evicted and refused, Limit + 1 calls that a   *)
(* limiter lets through for a key span a whole window, and no limiter      *)
(* remembers more than its maximum of keys (rate_limit.py, allow).         *)
THEOREM WindowTheorem == SignInSpec => []WindowRespected
<1>1. SignInInv => WindowRespected
  BY DEF SignInInv, LimiterInv, MapOK, GrantsOK, Spans, WindowRespected
<1> QED
  BY <1>1, SignInAlways, PTL

(* The state of the limiters and of sign-in has its type.                  *)
THEOREM SignInTyped == SignInSpec => []SignInTypeOK
<1>1. SignInInv => SignInTypeOK
  <2> SUFFICES ASSUME SignInInv PROVE SignInTypeOK
    OBVIOUS
  <2>1. LimiterTypeOK
    BY DEF SignInInv, LimiterInv, MapOK, TimesOK, LimiterTypeOK
  <2>2. spent \in [DOMAIN codes -> Nat]
    BY DEF SignInInv, CodesInv
  <2>3. handler \in
         [Handlers -> [at : {"free", "requesting", "upserted", "verifying", "matched", "accepted"},
                       since : Nat, email : Emails \cup {NoEmail}, code : 0..Len(codes), after : BOOLEAN]]
    BY DEF SignInInv, CodesInv, Thread
  <2> QED
    BY <2>1, <2>2, <2>3 DEF SignInInv, CodesInv, CodeRow, SignInTypeOK
<1> QED
  BY <1>1, SignInAlways, PTL

(* However verifications overlap, a code is accepted once on the SQLite    *)
(* store (membership.py, verify_otp), and on either store by no            *)
(* verification that began after another had accepted it.                  *)
THEOREM CodeSpentOnceTheorem == SignInSpec => [](CodeSpentOnce /\ SpentCodeRefused)
<1>1. SignInInv => CodeSpentOnce /\ SpentCodeRefused
  <2> SUFFICES ASSUME SignInInv PROVE CodeSpentOnce /\ SpentCodeRefused
    OBVIOUS
  <2>1. DOMAIN spent = DOMAIN codes
    BY DEF SignInInv, CodesInv
  <2> QED
    BY <2>1 DEF SignInInv, CodesInv, CodeSpentOnce, SpentCodeRefused
<1> QED
  BY <1>1, SignInAlways, PTL

-----------------------------------------------------------------------------
(***************************************************************************)
(* A code signs in.  Access outlives the code, since a code is issued      *)
(* shortly after its guest was let in for GuestTtl; and a code is among    *)
(* the newest, since every code that has not expired goes back to a        *)
(* request of its own that the limiter let through within the window.      *)
(***************************************************************************)
Admitted(i) ==
    codes[i].at <= now /\ (codes[i].purpose = "signin"
                             => codes[i].at + GuestTtl <= guest[codes[i].email] + MaxDelay)

Timely(b) ==
    /\ b.since <= now /\ (b.at # "free" => now <= b.since + MaxDelay)
    /\ b.at = "upserted" => b.since + GuestTtl <= guest[b.email]
    /\ b.at \in {"verifying", "matched", "accepted"} => b.email = codes[b.code].email
    /\ b.at \in {"matched", "accepted"} => b.since <= codes[b.code].at + OtpTtl
    /\ b.at = "accepted" => codes[b.code].purpose = "signin"

AccessInv ==
    /\ \A i \in DOMAIN codes : Admitted(i)
    /\ \A h \in Handlers : Timely(handler[h])
    /\ \A e \in Emails : guest[e] <= now + GuestTtl

\* The rows keep what was issued, and guests are let in for longer.
RowsKept ==
    /\ DOMAIN codes \subseteq DOMAIN codes'
    /\ \A i \in DOMAIN codes :
          /\ codes'[i].email = codes[i].email /\ codes'[i].at = codes[i].at
          /\ codes'[i].purpose = codes[i].purpose

GuestsStay ==
    \A e \in Emails : guest[e] <= guest'[e] /\ guest'[e] <= now + GuestTtl

LEMMA CodeTypes ==
    ASSUME SignInInv, NEW i \in DOMAIN codes
    PROVE  /\ codes[i].email \in Emails /\ codes[i].at \in Nat /\ now \in Nat
           /\ guest[codes[i].email] \in Nat
<1>1. codes \in Seq(CodeRow) /\ guest \in [Emails -> Nat]
  BY DEF SignInInv, CodesInv
<1>2. codes[i] \in CodeRow
  BY <1>1
<1> QED
  BY <1>1, <1>2 DEF SignInInv, LimiterInv, CodeRow

LEMMA TtlTypes ==
    /\ OtpTtl \in Nat /\ GuestTtl \in Nat /\ MaxDelay \in Nat /\ Window \in Nat /\ OtpTtl > 0
    /\ OtpTtl + MaxDelay < Window /\ OtpTtl + 2 * MaxDelay <= GuestTtl
BY SignInAssumption, LimiterAssumption

LEMMA AdmittedStays ==
    ASSUME SignInInv, SignInInv', NEW i \in DOMAIN codes, Admitted(i),
           RowsKept, GuestsStay, now' = now
    PROVE  Admitted(i)'
<1>1. /\ codes[i].email \in Emails /\ codes[i].at \in Nat /\ now \in Nat
      /\ guest[codes[i].email] \in Nat
  BY CodeTypes
<1>2. guest'[codes[i].email] \in Nat /\ guest[codes[i].email] <= guest'[codes[i].email]
  BY <1>1 DEF GuestsStay, SignInInv, CodesInv
<1> QED
  BY <1>1, <1>2, TtlTypes DEF Admitted, RowsKept

LEMMA TimelyStays ==
    ASSUME SignInInv, SignInInv', NEW b, Thread(b), Timely(b), RowsKept, GuestsStay, now' = now
    PROVE  Timely(b)'
<1>1. /\ b.at = "upserted" => b.email \in Emails
      /\ b.at \in {"verifying", "matched", "accepted"} => b.code \in DOMAIN codes
      /\ b.since \in Nat
  BY DEF Thread
<1>2. b.at = "upserted" => b.since + GuestTtl <= guest'[b.email]
  <2> SUFFICES ASSUME b.at = "upserted" PROVE b.since + GuestTtl <= guest'[b.email]
    OBVIOUS
  <2>1. /\ guest[b.email] \in Nat /\ guest'[b.email] \in Nat
        /\ guest[b.email] <= guest'[b.email] /\ b.since + GuestTtl <= guest[b.email]
    BY <1>1 DEF GuestsStay, SignInInv, CodesInv, Timely
  <2> QED
    BY <1>1, <2>1, TtlTypes
<1> QED
  BY <1>1, <1>2 DEF Timely, RowsKept

(* A step in which at most one thread moves and at most one code is new.   *)
LEMMA AccessStep ==
    ASSUME SignInInv, SignInInv', AccessInv, RowsKept, GuestsStay, now' = now,
           \A i \in DOMAIN codes' : i \in DOMAIN codes \/ Admitted(i)',
           NEW h \in Handlers, NEW b, Timely(b)',
           \A q \in Handlers : handler'[q] = handler[q] \/ handler'[q] = b
    PROVE  AccessInv'
<1>1. ASSUME NEW i \in DOMAIN codes' PROVE Admitted(i)'
  BY AdmittedStays DEF AccessInv
<1>2. ASSUME NEW q \in Handlers PROVE Timely(handler[q])'
  <2>1. PICK c : c = handler[q] /\ Thread(c) /\ Timely(c)
    BY DEF SignInInv, CodesInv, AccessInv
  <2>2. Timely(c)'
    BY <2>1, TimelyStays
  <2> QED
    BY <2>1, <2>2 DEF Timely
<1> QED
  BY <1>1, <1>2 DEF AccessInv, GuestsStay

LEMMA RowsUnchanged ==
    ASSUME SignInInv, codes' = codes
    PROVE  RowsKept /\ \A i \in DOMAIN codes' : i \in DOMAIN codes
BY DEF RowsKept

LEMMA MarkedRows ==
    ASSUME SignInInv, NEW i, codes' = [codes EXCEPT ![i].used = TRUE]
    PROVE  RowsKept /\ \A j \in DOMAIN codes' : j \in DOMAIN codes
<1>1. DOMAIN codes' = DOMAIN codes
  OBVIOUS
<1>2. ASSUME NEW j \in DOMAIN codes
      PROVE  /\ codes'[j].email = codes[j].email /\ codes'[j].at = codes[j].at
             /\ codes'[j].purpose = codes[j].purpose
  <2>1. codes[j] \in CodeRow
    BY DEF SignInInv, CodesInv
  <2>2. codes'[j] = codes[j] \/ codes'[j] = [codes[j] EXCEPT !.used = TRUE]
    OBVIOUS
  <2> QED
    BY <2>1, <2>2 DEF CodeRow
<1> QED
  BY <1>1, <1>2 DEF RowsKept

LEMMA GuestsUnchanged ==
    ASSUME SignInInv, AccessInv, guest' = guest
    PROVE  GuestsStay
BY DEF GuestsStay, SignInInv, CodesInv, AccessInv

LEMMA FreeTimely ==
    ASSUME SignInInv
    PROVE  Timely(FreeHandler)
BY DEF Timely, FreeHandler, SignInInv, LimiterInv

LEMMA HandlerAfter ==
    ASSUME SignInInv, NEW h \in Handlers, NEW b, handler' = [handler EXCEPT ![h] = b]
    PROVE  handler'[h] = b /\ \A q \in Handlers : q # h => handler'[q] = handler[q]
BY DEF SignInInv, CodesInv

LEMMA RequestCodeAccess ==
    ASSUME SignInInv, SignInInv', AccessInv, NEW h \in Handlers, NEW email \in Emails,
           NEW ip \in ClientIps, RequestCode(h, email, ip)
    PROVE  AccessInv'
<1>1. RowsKept /\ GuestsStay /\ now' = now /\ now \in Nat /\ \A i \in DOMAIN codes' : i \in DOMAIN codes
  BY RowsUnchanged, GuestsUnchanged DEF RequestCode, SignInInv, LimiterInv
<1>2. PICK b : Timely(b)' /\ \A q \in Handlers : handler'[q] = handler[q] \/ handler'[q] = b
  <2>1. CASE UNCHANGED handler
    <3>1. Timely(FreeHandler)'
      BY <1>1 DEF Timely, FreeHandler
    <3> QED
      BY <2>1, <3>1 DEF FreeHandler
  <2>2. CASE handler' = [handler EXCEPT ![h] =
                [FreeHandler EXCEPT !.at = "requesting", !.since = now, !.email = email]]
    <3>1. PICK b : b = [FreeHandler EXCEPT !.at = "requesting", !.since = now, !.email = email]
      OBVIOUS
    <3>2. b.at = "requesting" /\ b.since = now
      BY <3>1 DEF FreeHandler
    <3>3. Timely(b)'
      BY <1>1, <3>2, TtlTypes DEF Timely
    <3> QED
      BY <2>2, <3>1, <3>3, HandlerAfter
  <2> QED
    BY <2>1, <2>2 DEF RequestCode
<1> QED
  BY <1>1, <1>2, AccessStep

LEMMA UpsertGuestAccess ==
    ASSUME SignInInv, SignInInv', AccessInv, NEW h \in Handlers, UpsertGuest(h)
    PROVE  AccessInv'
<1>1. RowsKept /\ now' = now /\ now \in Nat /\ \A i \in DOMAIN codes' : i \in DOMAIN codes
  BY RowsUnchanged DEF UpsertGuest, SignInInv, LimiterInv
<1>2. /\ handler[h].email \in Emails /\ handler[h].since \in Nat /\ handler[h].since <= now
      /\ now <= handler[h].since + MaxDelay
  BY DEF UpsertGuest, SignInInv, CodesInv, Thread, AccessInv, Timely
<1>3. PICK b : b = [handler[h] EXCEPT !.at = "upserted"]
  OBVIOUS
<1>4. /\ handler[h] \in [at : {"free", "requesting", "upserted", "verifying", "matched", "accepted"},
              since : Nat, email : Emails \cup {NoEmail}, code : 0..Len(codes), after : BOOLEAN]
      /\ guest \in [Emails -> Nat]
  BY DEF SignInInv, CodesInv, Thread
<1>5. b.at = "upserted" /\ b.since = handler[h].since /\ b.email = handler[h].email
  BY <1>3, <1>4
<1>6. guest' = [guest EXCEPT ![b.email] = now + GuestTtl] /\ guest'[b.email] = now + GuestTtl
  BY <1>2, <1>4, <1>5 DEF UpsertGuest
<1>7. Timely(b)'
  BY <1>1, <1>2, <1>5, <1>6, TtlTypes DEF Timely
<1>8. GuestsStay
  <2>1. ASSUME NEW e \in Emails PROVE guest[e] <= guest'[e] /\ guest'[e] <= now + GuestTtl
    <3>1. guest[e] \in Nat /\ guest[e] <= now + GuestTtl /\ now + GuestTtl \in Nat
      BY <1>1, <1>4, TtlTypes DEF AccessInv
    <3>2. guest'[e] = guest[e] \/ guest'[e] = now + GuestTtl
      BY <1>4, <1>6
    <3> QED
      BY <3>1, <3>2
  <2> QED
    BY <2>1 DEF GuestsStay
<1>9. handler' = [handler EXCEPT ![h] = b]
  BY <1>3 DEF UpsertGuest, Goto
<1> QED
  BY <1>1, <1>7, <1>8, <1>9, HandlerAfter, AccessStep

LEMMA IssueOtpAccess ==
    ASSUME SignInInv, SignInInv', AccessInv, NEW h \in Handlers, IssueOtp(h)
    PROVE  AccessInv'
<1>1. /\ handler[h].email \in Emails /\ handler[h].since \in Nat
      /\ now <= handler[h].since + MaxDelay
      /\ handler[h].since + GuestTtl <= guest[handler[h].email]
      /\ guest[handler[h].email] \in Nat /\ codes \in Seq(CodeRow) /\ now \in Nat
  BY DEF IssueOtp, SignInInv, CodesInv, LimiterInv, Thread, AccessInv, Timely
<1>2. GuestsStay /\ now' = now /\ guest' = guest
  BY GuestsUnchanged DEF IssueOtp
<1>3. PICK row : row = NewCode(handler[h].email, "signin") /\ codes' = Append(codes, row)
  BY DEF IssueOtp
<1>4. row.email = handler[h].email /\ row.at = now
  BY <1>3 DEF NewCode
<1>5. /\ RowsKept
      /\ \A i \in DOMAIN codes' : i \in DOMAIN codes \/ codes'[i] = row
  BY <1>1, <1>3 DEF RowsKept
<1>6. ASSUME NEW i \in DOMAIN codes', codes'[i] = row PROVE Admitted(i)'
  <2>1. PICK since, until :
          since = handler[h].since /\ until = guest[handler[h].email]
    OBVIOUS
  <2>2. /\ since \in Nat /\ until \in Nat /\ now \in Nat /\ now <= since + MaxDelay
        /\ since + GuestTtl <= until
    BY <1>1, <2>1
  <2>3. now <= now /\ now + GuestTtl <= until + MaxDelay
    BY <2>2, TtlTypes
  <2> QED
    BY <1>2, <1>4, <1>6, <2>1, <2>3 DEF Admitted
<1>7. Timely(FreeHandler)' /\ \A q \in Handlers : handler'[q] = handler[q] \/ handler'[q] = FreeHandler
  <2>1. Timely(FreeHandler)'
    BY FreeTimely, <1>1, <1>2 DEF Timely, FreeHandler
  <2> QED
    BY <2>1, HandlerAfter DEF IssueOtp, Finish
<1>8. PICK f : f = FreeHandler /\ Timely(f)' /\ \A q \in Handlers : handler'[q] = handler[q] \/ handler'[q] = f
  BY <1>7 DEF Timely, FreeHandler
<1> QED
  BY <1>2, <1>5, <1>6, <1>8, AccessStep

LEMMA AuthorizeAccess ==
    ASSUME SignInInv, SignInInv', AccessInv, Authorize
    PROVE  AccessInv'
<1>1. /\ codes \in Seq(CodeRow) /\ now \in Nat
      /\ GuestsStay /\ now' = now /\ guest' = guest /\ handler' = handler
  BY GuestsUnchanged DEF Authorize, SignInInv, CodesInv, LimiterInv
<1>2. PICK row : row = NewCode(Operator, "broker_state") /\ codes' = Append(codes, row)
  BY DEF Authorize
<1>3. row.purpose # "signin" /\ row.at = now
  BY <1>2 DEF NewCode
<1>4. /\ RowsKept
      /\ \A i \in DOMAIN codes' : i \in DOMAIN codes \/ codes'[i] = row
  BY <1>1, <1>2 DEF RowsKept
<1>5. ASSUME NEW i \in DOMAIN codes' PROVE Admitted(i)'
  <2>1. CASE codes'[i] = row
    BY <1>1, <1>3, <2>1 DEF Admitted
  <2>2. CASE i \in DOMAIN codes
    BY <1>1, <1>4, <2>2, AdmittedStays DEF AccessInv
  <2> QED
    BY <1>4, <2>1, <2>2
<1>6. ASSUME NEW q \in Handlers PROVE Timely(handler[q])'
  <2>1. PICK c : c = handler[q] /\ Thread(c) /\ Timely(c)
    BY DEF SignInInv, CodesInv, AccessInv
  <2>2. Timely(c)' /\ handler'[q] = c
    BY <1>1, <1>4, <2>1, TimelyStays
  <2> QED
    BY <2>2 DEF Timely
<1> QED
  BY <1>1, <1>5, <1>6 DEF AccessInv

LEMMA StartVerifyAccess ==
    ASSUME SignInInv, SignInInv', AccessInv, NEW h \in Handlers, NEW i \in DOMAIN codes,
           StartVerify(h, i)
    PROVE  AccessInv'
<1>1. /\ RowsKept /\ GuestsStay /\ now' = now /\ codes' = codes /\ now \in Nat
      /\ \A j \in DOMAIN codes' : j \in DOMAIN codes
  BY RowsUnchanged, GuestsUnchanged DEF StartVerify, SignInInv, LimiterInv
<1>2. PICK b : /\ b = [FreeHandler EXCEPT !.at = "verifying", !.since = now,
                            !.email = codes[i].email, !.code = i, !.after = spent[i] > 0]
               /\ handler' = [handler EXCEPT ![h] = b]
  BY DEF StartVerify
<1>3. b.at = "verifying" /\ b.since = now /\ b.email = codes[i].email /\ b.code = i
  BY <1>2 DEF FreeHandler
<1>4. Timely(b)'
  BY <1>1, <1>3, TtlTypes DEF Timely
<1> QED
  BY <1>1, <1>2, <1>4, HandlerAfter, AccessStep

\* What a thread that verifies has read and how it goes on.
LEMMA VerifyAccess ==
    ASSUME SignInInv, SignInInv', AccessInv, NEW h \in Handlers,
           \/ VerifyLocked(h) \/ SelectOtp(h) \/ PatchOtp(h)
           \/ RefuseCode(h) \/ OpenSession(h)
    PROVE  AccessInv'
<1> DEFINE i == handler[h].code
<1>1. /\ GuestsStay /\ now' = now /\ now \in Nat
  BY GuestsUnchanged
  DEF VerifyLocked, SelectOtp, PatchOtp, RefuseCode, OpenSession, SignInInv, LimiterInv
<1>2. /\ codes' = codes \/ codes' = [codes EXCEPT ![i].used = TRUE]
  BY DEF VerifyLocked, SelectOtp, PatchOtp, RefuseCode, OpenSession, Spend
<1>3. codes \in Seq(CodeRow) /\ Thread(handler[h]) /\ Timely(handler[h])
  BY DEF SignInInv, CodesInv, AccessInv
<1>4. /\ RowsKept /\ \A j \in DOMAIN codes' : j \in DOMAIN codes
  <2>1. CASE codes' = codes
    BY <2>1, RowsUnchanged
  <2>2. CASE codes' = [codes EXCEPT ![i].used = TRUE]
    BY <2>2, MarkedRows
  <2> QED
    BY <1>2, <2>1, <2>2
<1>5. PICK b : Timely(b)' /\ \A q \in Handlers : handler'[q] = handler[q] \/ handler'[q] = b
  <2>1. CASE handler' = [handler EXCEPT ![h] = FreeHandler]
    <3>1. Timely(FreeHandler)'
      BY <1>1 DEF Timely, FreeHandler
    <3>2. PICK f : f = FreeHandler /\ Timely(f)'
      BY <3>1 DEF Timely, FreeHandler
    <3> QED
      BY <2>1, <3>2, HandlerAfter
  <2>2. CASE SelectOtp(h) \/ (codes[i].purpose = "signin" /\ (VerifyLocked(h) \/ PatchOtp(h)))
    <3>1. /\ handler[h].at \in {"verifying", "matched"} /\ i \in DOMAIN codes
          /\ handler[h].since \in Nat /\ handler[h].since <= now
      BY <1>3, <2>2 DEF SelectOtp, VerifyLocked, PatchOtp, Thread, Timely
    <3>2. codes[i].at \in Nat
      BY <3>1, CodeTypes
    <3>3. handler[h].since <= codes[i].at + OtpTtl
      <4>1. CASE PatchOtp(h)
        BY <1>3, <4>1 DEF PatchOtp, Timely
      <4>2. CASE SelectOtp(h) \/ VerifyLocked(h)
        <5>1. codes[i].at + OtpTtl >= now
          BY <4>2 DEF SelectOtp, VerifyLocked, Found, Unexpired
        <5> QED
          BY <1>1, <3>1, <3>2, <5>1, TtlTypes
      <4> QED
        BY <2>2, <4>1, <4>2
    <3>4. PICK stage \in {"matched", "accepted"} :
             /\ handler' = [handler EXCEPT ![h].at = stage]
             /\ stage = "accepted" => codes[i].purpose = "signin"
      BY <2>2 DEF SelectOtp, VerifyLocked, PatchOtp, Spend, AcceptCode, Goto
    <3>5. PICK b : b = [handler[h] EXCEPT !.at = stage]
      OBVIOUS
    <3>6. b.at = stage /\ b.since = handler[h].since /\ b.email = handler[h].email /\ b.code = i
      BY <1>3, <3>5 DEF Thread
    <3>7. handler[h].email = codes[i].email /\ now <= handler[h].since + MaxDelay
      BY <1>3, <3>1 DEF Timely
    <3> HIDE DEF i
    <3>8. Timely(b)'
      BY <1>1, <1>4, <3>1, <3>3, <3>4, <3>6, <3>7 DEF Timely, RowsKept
    <3>9. handler' = [handler EXCEPT ![h] = b]
      BY <3>4, <3>5
    <3> QED
      BY <3>8, <3>9, HandlerAfter
  <2> QED
    BY <2>1, <2>2
    DEF VerifyLocked, PatchOtp, Spend, AcceptCode, Finish, RefuseCode, OpenSession
<1> QED
  BY <1>1, <1>4, <1>5, AccessStep

LEMMA SignInTickAccess ==
    ASSUME SignInInv, SignInInv', AccessInv, SignInTick
    PROVE  AccessInv'
<1>1. now \in Nat /\ now' = now + 1 /\ UNCHANGED <<codes, guest, handler>>
  BY DEF SignInTick, SignInInv, LimiterInv
<1>2. ASSUME NEW i \in DOMAIN codes PROVE Admitted(i)'
  <2>1. codes[i].at \in Nat /\ Admitted(i)
    BY CodeTypes DEF AccessInv
  <2> QED
    BY <1>1, <2>1 DEF Admitted
<1>3. ASSUME NEW h \in Handlers PROVE Timely(handler[h])'
  <2>1. PICK c : c = handler[h] /\ Thread(c) /\ Timely(c)
    BY DEF SignInInv, CodesInv, AccessInv
  <2>2. c.at # "free" => now < c.since + MaxDelay
    BY <2>1 DEF SignInTick, FreeHandler
  <2>3. c.since \in Nat
    BY <2>1 DEF Thread
  <2>4. c.since <= now + 1 /\ (c.at # "free" => now + 1 <= c.since + MaxDelay)
    BY <1>1, <2>1, <2>2, <2>3, TtlTypes DEF Timely
  <2>5. Timely(c)'
    BY <1>1, <2>1, <2>4 DEF Timely
  <2> QED
    BY <1>1, <2>1, <2>5 DEF Timely
<1>4. \A e \in Emails : guest'[e] <= now' + GuestTtl
  BY <1>1, TtlTypes DEF AccessInv, SignInInv, CodesInv
<1> QED
  BY <1>1, <1>2, <1>3, <1>4 DEF AccessInv

LEMMA AccessKept ==
    ASSUME SignInInv, SignInInv', AccessInv, [SignInNext]_signInVars
    PROVE  AccessInv'
<1>1. CASE UNCHANGED <<now, codes, guest, handler>>
  BY <1>1 DEF AccessInv, Admitted, Timely
<1>2. CASE SignInRestart
  <2>1. /\ RowsKept /\ GuestsStay /\ now' = now /\ \A i \in DOMAIN codes' : i \in DOMAIN codes
        /\ now \in Nat
    BY <1>2, RowsUnchanged, GuestsUnchanged DEF SignInRestart, SignInInv, LimiterInv
  <2>2. ASSUME NEW i \in DOMAIN codes' PROVE Admitted(i)'
    BY <2>1, AdmittedStays DEF AccessInv
  <2>3. PICK f : f = FreeHandler /\ Timely(f)'
    <3>1. Timely(FreeHandler)'
      BY <2>1 DEF Timely, FreeHandler
    <3> QED
      BY <3>1 DEF Timely, FreeHandler
  <2>4. \A q \in Handlers : Timely(handler[q])'
    BY <1>2, <2>3 DEF SignInRestart, Timely
  <2> QED
    BY <2>1, <2>2, <2>4 DEF AccessInv, GuestsStay
<1>3. ASSUME NEW h \in Handlers,
             \/ \E e \in Emails, ip \in ClientIps : RequestCode(h, e, ip)
             \/ UpsertGuest(h) \/ IssueOtp(h)
             \/ \E i \in DOMAIN codes : StartVerify(h, i)
             \/ VerifyLocked(h) \/ SelectOtp(h) \/ PatchOtp(h) \/ RefuseCode(h)
             \/ OpenSession(h)
      PROVE  AccessInv'
  BY <1>3, RequestCodeAccess, UpsertGuestAccess, IssueOtpAccess, StartVerifyAccess, VerifyAccess
<1>4. CASE \E e \in Emails : VerifyInVain(e)
  BY <1>1, <1>4 DEF VerifyInVain
<1> QED
  BY <1>1, <1>2, <1>3, <1>4, AuthorizeAccess, SignInTickAccess DEF SignInNext, signInVars

LEMMA AcceptedMayEnter ==
    ASSUME SignInInv, AccessInv, NEW h \in Handlers, handler[h].at = "accepted"
    PROVE  AccessAllowed(handler[h].email)
<1> DEFINE i == handler[h].code
<1>1. /\ i \in DOMAIN codes /\ handler[h].email = codes[i].email
      /\ handler[h].since \in Nat /\ now <= handler[h].since + MaxDelay
      /\ handler[h].since <= codes[i].at + OtpTtl /\ codes[i].purpose = "signin"
  BY DEF SignInInv, CodesInv, Thread, AccessInv, Timely
<1>2. /\ codes[i].email \in Emails /\ codes[i].at \in Nat /\ now \in Nat
      /\ guest[codes[i].email] \in Nat
      /\ codes[i].at + GuestTtl <= guest[codes[i].email] + MaxDelay
  BY <1>1, CodeTypes DEF AccessInv, Admitted
<1> HIDE DEF i
<1>3. guest[codes[i].email] >= now /\ guest[codes[i].email] > 0
  BY <1>1, <1>2, TtlTypes
<1> QED
  BY <1>1, <1>3 DEF AccessAllowed, Absent

(***************************************************************************)
(* Backed(g, R, F, at, since): every code of R and every thread of F has a *)
(* grant of its own among the grants g, made when the thread began or no   *)
(* earlier than MaxDelay before the code was issued.                       *)
(***************************************************************************)
Backed(g, R, F, at, since) ==
    \E f \in [R -> 1..Len(g)], w \in [F -> 1..Len(g)] :
        /\ \A i, j \in R : f[i] = f[j] => i = j
        /\ \A p, q \in F : w[p] = w[q] => p = q
        /\ \A i \in R, p \in F : f[i] # w[p]
        /\ \A i \in R : at[i] <= g[f[i]] + MaxDelay
        /\ \A p \in F : g[w[p]] = since[p]

LEMMA BackedBy ==
    ASSUME NEW g, NEW R, NEW F, NEW at, NEW since,
           NEW f \in [R -> 1..Len(g)], NEW w \in [F -> 1..Len(g)],
           \A i, j \in R : f[i] = f[j] => i = j,
           \A p, q \in F : w[p] = w[q] => p = q,
           \A i \in R, p \in F : f[i] # w[p],
           \A i \in R : at[i] <= g[f[i]] + MaxDelay,
           \A p \in F : g[w[p]] = since[p]
    PROVE  Backed(g, R, F, at, since)
BY DEF Backed

LEMMA BackedFewer ==
    ASSUME NEW g, NEW R, NEW F, NEW at, NEW since, Backed(g, R, F, at, since),
           NEW R2 \in SUBSET R, NEW F2 \in SUBSET F, NEW at2, NEW since2,
           \A i \in R2 : at2[i] = at[i], \A p \in F2 : since2[p] = since[p]
    PROVE  Backed(g, R2, F2, at2, since2)
<1>1. PICK f \in [R -> 1..Len(g)], w \in [F -> 1..Len(g)] :
        /\ \A i, j \in R : f[i] = f[j] => i = j
        /\ \A p, q \in F : w[p] = w[q] => p = q
        /\ \A i \in R, p \in F : f[i] # w[p]
        /\ \A i \in R : at[i] <= g[f[i]] + MaxDelay
        /\ \A p \in F : g[w[p]] = since[p]
  BY DEF Backed
<1> DEFINE f2 == [i \in R2 |-> f[i]]
           w2 == [p \in F2 |-> w[p]]
<1>2. f2 \in [R2 -> 1..Len(g)] /\ w2 \in [F2 -> 1..Len(g)]
  OBVIOUS
<1>3. (\A i \in R2 : f2[i] = f[i]) /\ (\A p \in F2 : w2[p] = w[p])
  OBVIOUS
<1> HIDE DEF f2, w2
<1>4. /\ \A i, j \in R2 : f2[i] = f2[j] => i = j
      /\ \A p, q \in F2 : w2[p] = w2[q] => p = q
      /\ \A i \in R2, p \in F2 : f2[i] # w2[p]
      /\ \A i \in R2 : at2[i] <= g[f2[i]] + MaxDelay
      /\ \A p \in F2 : g[w2[p]] = since2[p]
  BY <1>1, <1>3
<1> QED
  BY <1>2, <1>4, BackedBy

(* A thread turns its request into a code.                                 *)
LEMMA BackedIssue ==
    ASSUME NEW g, NEW R, NEW F, NEW at, NEW since, Backed(g, R, F, at, since),
           NEW h \in F, NEW j, j \notin R, NEW at2,
           \A i \in R : at2[i] = at[i], at2[j] <= since[h] + MaxDelay
    PROVE  Backed(g, R \cup {j}, F \ {h}, at2, since)
<1>1. PICK f \in [R -> 1..Len(g)], w \in [F -> 1..Len(g)] :
        /\ \A i, k \in R : f[i] = f[k] => i = k
        /\ \A p, q \in F : w[p] = w[q] => p = q
        /\ \A i \in R, p \in F : f[i] # w[p]
        /\ \A i \in R : at[i] <= g[f[i]] + MaxDelay
        /\ \A p \in F : g[w[p]] = since[p]
  BY DEF Backed
<1> DEFINE R2 == R \cup {j}
           F2 == F \ {h}
           f2 == [i \in R2 |-> IF i = j THEN w[h] ELSE f[i]]
           w2 == [p \in F2 |-> w[p]]
<1>2. f2 \in [R2 -> 1..Len(g)] /\ w2 \in [F2 -> 1..Len(g)]
  OBVIOUS
<1>3. /\ f2[j] = w[h] /\ \A i \in R : f2[i] = f[i]
      /\ \A p \in F2 : w2[p] = w[p] /\ p \in F /\ p # h
      /\ \A i \in R2 : i = j \/ i \in R
  OBVIOUS
<1> HIDE DEF f2, w2, R2, F2
<1>4. /\ \A i, k \in R2 : f2[i] = f2[k] => i = k
      /\ \A p, q \in F2 : w2[p] = w2[q] => p = q
      /\ \A i \in R2, p \in F2 : f2[i] # w2[p]
  BY <1>1, <1>3
<1>5. /\ \A i \in R2 : at2[i] <= g[f2[i]] + MaxDelay
      /\ \A p \in F2 : g[w2[p]] = since[p]
  BY <1>1, <1>3
<1>6. Backed(g, R2, F2, at2, since)
  BY <1>2, <1>4, <1>5, BackedBy
<1> QED
  BY <1>6 DEF R2, F2

\* A grant at t backs a code or a thread.
Backs(t, R, F, at, since) ==
    (\E i \in R : at[i] <= t + MaxDelay) \/ (\E p \in F : since[p] = t)

(* A grant joins the others and drops at most the first, which backs none. *)
LEMMA BackedGrant ==
    ASSUME NEW g \in Seq(Nat), NEW R, NEW F, NEW at, NEW since, Backed(g, R, F, at, since),
           NEW h, h \notin F, NEW since2, \A p \in F : since2[p] = since[p], since2[h] = now,
           NEW g2, NEW off \in {0, 1}, NEW limit, Joined(g2, g, off, limit),
           off = 1 => ~Backs(g[1], R, F, at, since)
    PROVE  Backed(g2, R, F \cup {h}, at, since2)
<1>1. PICK f \in [R -> 1..Len(g)], w \in [F -> 1..Len(g)] :
        /\ \A i, k \in R : f[i] = f[k] => i = k
        /\ \A p, q \in F : w[p] = w[q] => p = q
        /\ \A i \in R, p \in F : f[i] # w[p]
        /\ \A i \in R : at[i] <= g[f[i]] + MaxDelay
        /\ \A p \in F : g[w[p]] = since[p]
  BY DEF Backed
<1> DEFINE F2 == F \cup {h}
           f2 == [i \in R |-> f[i] - off]
           w2 == [p \in F2 |-> IF p = h THEN Len(g2) ELSE w[p] - off]
<1>2. /\ Len(g) \in Nat /\ Len(g2) \in Nat /\ Len(g2) = Len(g) + 1 - off /\ Len(g2) >= 1
      /\ g2[Len(g2)] = now
      /\ \A x \in 1..Len(g2) : x # Len(g2) => g2[x] = g[x + off]
  BY DEF Joined
<1>3. ASSUME NEW x \in 1..Len(g), off = 1 => x # 1
      PROVE  x - off \in 1..Len(g2) /\ x - off < Len(g2) /\ g2[x - off] = g[x]
  <2>1. x - off >= 1
    BY <1>2, <1>3
  <2>2. x - off < Len(g2) /\ x - off \in Int
    BY <1>2
  <2>3. x - off \in 1..Len(g2) /\ (x - off) + off = x /\ x - off # Len(g2)
    BY <1>2, <2>1, <2>2
  <2>4. g2[x - off] = g[x]
    BY <1>2, <2>3
  <2> QED
    BY <2>2, <2>3, <2>4
<1>4. ASSUME NEW i \in R
      PROVE  /\ f[i] \in 1..Len(g) /\ f[i] - off \in 1..Len(g2) /\ f[i] - off < Len(g2)
             /\ g2[f[i] - off] = g[f[i]]
  <2>1. f[i] \in 1..Len(g) /\ (off = 1 => f[i] # 1)
    BY <1>1 DEF Backs
  <2> QED
    BY <1>3, <2>1
<1>5. ASSUME NEW p \in F
      PROVE  /\ w[p] \in 1..Len(g) /\ w[p] - off \in 1..Len(g2) /\ w[p] - off < Len(g2)
             /\ g2[w[p] - off] = g[w[p]]
  <2>1. w[p] \in 1..Len(g) /\ (off = 1 => w[p] # 1)
    BY <1>1 DEF Backs
  <2> QED
    BY <1>3, <2>1
<1>6. /\ \A i \in R : f2[i] = f[i] - off
      /\ w2[h] = Len(g2) /\ \A p \in F : w2[p] = w[p] - off
      /\ \A p \in F2 : p = h \/ p \in F
  OBVIOUS
<1>7. f2 \in [R -> 1..Len(g2)] /\ w2 \in [F2 -> 1..Len(g2)]
  <2>1. Len(g2) \in 1..Len(g2)
    BY <1>2
  <2> QED
    BY <1>4, <1>5, <2>1
<1> HIDE DEF f2, w2, F2
<1>8. \A i, k \in R : f2[i] = f2[k] => i = k
  <2> SUFFICES ASSUME NEW i \in R, NEW k \in R, f2[i] = f2[k] PROVE i = k
    OBVIOUS
  <2>1. f[i] = f[k]
    BY <1>4, <1>6
  <2> QED
    BY <1>1, <2>1
<1>9. \A p, q \in F2 : w2[p] = w2[q] => p = q
  <2> SUFFICES ASSUME NEW p \in F2, NEW q \in F2, w2[p] = w2[q] PROVE p = q
    OBVIOUS
  <2>1. CASE p \in F /\ q \in F
    <3>1. w[p] = w[q]
      BY <1>5, <1>6, <2>1
    <3> QED
      BY <1>1, <2>1, <3>1
  <2>2. CASE p = h \/ q = h
    <3>1. \A x \in F : w2[x] < Len(g2) /\ w2[x] \in Int
      BY <1>5, <1>6
    <3> QED
      BY <1>2, <1>6, <2>2, <3>1
  <2> QED
    BY <1>6, <2>1, <2>2
<1>10. \A i \in R, p \in F2 : f2[i] # w2[p]
  <2> SUFFICES ASSUME NEW i \in R, NEW p \in F2, f2[i] = w2[p] PROVE FALSE
    OBVIOUS
  <2>1. CASE p \in F
    <3>1. f[i] = w[p]
      BY <1>4, <1>5, <1>6, <2>1
    <3> QED
      BY <1>1, <2>1, <3>1
  <2>2. CASE p = h
    BY <1>2, <1>4, <1>6, <2>2
  <2> QED
    BY <1>6, <2>1, <2>2
<1>11. \A i \in R : at[i] <= g2[f2[i]] + MaxDelay
  BY <1>1, <1>4, <1>6
<1>12. \A p \in F2 : g2[w2[p]] = since2[p]
  <2> SUFFICES ASSUME NEW p \in F2 PROVE g2[w2[p]] = since2[p]
    OBVIOUS
  <2>1. CASE p \in F
    BY <1>1, <1>5, <1>6, <2>1
  <2>2. CASE p = h
    BY <1>2, <1>6, <2>2
  <2> QED
    BY <1>6, <2>1, <2>2
<1>13. Backed(g2, R, F2, at, since2)
  BY <1>7, <1>8, <1>9, <1>10, <1>11, <1>12, BackedBy
<1> QED
  BY <1>13 DEF F2

(* Codes with a live grant each are no more than the live grants.          *)
LEMMA BackedBounded ==
    ASSUME NEW l \in Limiters, now \in Nat, NEW g \in Seq(Nat), Len(g) <= Limit[l] + 1,
           Spans(l, g), \A x \in 1..Len(g) : g[x] <= now,
           NEW R, NEW F, NEW at, NEW since, Backed(g, R, F, at, since),
           \A i \in R : at[i] \in Nat /\ now <= at[i] + OtpTtl
    PROVE  IsFiniteSet(R) /\ Cardinality(R) <= Limit[l]
<1> DEFINE limit == Limit[l]
           first == IF Len(g) = limit + 1 THEN 2 ELSE 1
           S == first..Len(g)
<1>1. limit \in Nat /\ limit >= 1 /\ Len(g) \in Nat /\ Len(g) <= limit + 1 /\ MaxDelay \in Nat
  BY LimiterAssumption, TtlTypes
<1>2. PICK f \in [R -> 1..Len(g)] :
        /\ \A i, j \in R : f[i] = f[j] => i = j
        /\ \A i \in R : at[i] <= g[f[i]] + MaxDelay
  BY DEF Backed
<1>3. ASSUME NEW i \in R PROVE f[i] \in S
  <2>1. f[i] \in 1..Len(g) /\ g[f[i]] \in Nat /\ at[i] <= g[f[i]] + MaxDelay
    BY <1>2
  <2>2. Live(g[f[i]])
    <3>1. PICK a, t : a = at[i] /\ t = g[f[i]]
      OBVIOUS
    <3>2. a \in Nat /\ t \in Nat /\ a <= t + MaxDelay /\ now <= a + OtpTtl /\ now \in Nat
      BY <2>1, <3>1
    <3>3. t + Window > now
      BY <3>2, TtlTypes
    <3> QED
      BY <3>1, <3>3 DEF Live
  <2>3. ASSUME Len(g) = limit + 1 PROVE ~Live(g[1])
    <3>1. /\ 1 \in 1..Len(g) /\ limit + 1 \in 1..Len(g) /\ Len(g) > limit
      BY <1>1, <2>3
    <3>2. g[1] \in Nat /\ g[limit + 1] \in Nat /\ g[limit + 1] <= now
      BY <3>1
    <3>3. g[limit + 1] - g[1] >= Window
      BY <3>1 DEF Spans
    <3> HIDE DEF limit
    <3> QED
      BY <3>2, <3>3, TtlTypes DEF Live
  <2> HIDE DEF limit
  <2>4. Len(g) = limit + 1 => f[i] # 1
    BY <2>2, <2>3
  <2> QED
    BY <1>1, <2>1, <2>4
<1>4. IsFiniteSet(S) /\ Cardinality(S) \in Nat /\ Cardinality(S) <= limit
  <2>1. first \in Int /\ Len(g) \in Int
    BY <1>1
  <2>2. /\ IsFiniteSet(S)
        /\ Cardinality(S) = IF first > Len(g) THEN 0 ELSE Len(g) - first + 1
    <3> HIDE DEF first
    <3> QED
      BY <2>1, FS_Interval
  <2> HIDE DEF S, limit
  <2> QED
    BY <1>1, <2>2
<1>5. f \in Injection(R, S)
  <2> HIDE DEF S
  <2>1. f \in [R -> S]
    BY <1>2, <1>3
  <2> QED
    BY <1>2, <2>1 DEF Injection, IsInjective
<1>6. IsFiniteSet(R) /\ Cardinality(R) <= Cardinality(S)
  <2> HIDE DEF S
  <2> QED
    BY <1>4, <1>5, FS_Injection
<1>7. Cardinality(R) \in Nat
  BY <1>6, FS_CardinalityType
<1> QED
  BY <1>1, <1>4, <1>6, <1>7

-----------------------------------------------------------------------------
RequestsOf(e) == grants["request_per_email"][e]
Asking(b) == b.at \in {"requesting", "upserted"}

Recent(e) ==
    {i \in DOMAIN codes : codes[i].email = e /\ codes[i].purpose = "signin" /\ Unexpired(i)}
Flying(e) == {h \in Handlers : Asking(handler[h]) /\ handler[h].email = e}

EmailBacked(e) ==
    \E g, R, F, at, since :
        /\ g = RequestsOf(e) /\ Backed(g, R, F, at, since)
        /\ \A i \in Recent(e) : i \in R /\ at[i] = codes[i].at
        /\ \A h \in Flying(e) : h \in F /\ since[h] = handler[h].since

CountInv ==
    /\ \A e \in Emails : \A x \in DOMAIN RequestsOf(e) : RequestsOf(e)[x] <= now
    /\ ~restarted => \A e \in Emails : EmailBacked(e)

LEMMA RequestTypes ==
    ASSUME SignInInv, NEW e \in Emails
    PROVE  /\ RequestsOf(e) \in Seq(Nat) /\ Len(RequestsOf(e)) <= Limit["request_per_email"] + 1
           /\ Spans("request_per_email", RequestsOf(e)) /\ now \in Nat
<1>1. e \in Addresses /\ "request_per_email" \in Limiters
  BY SignInAssumption DEF Limiters
<1> QED
  BY <1>1 DEF SignInInv, LimiterInv, GrantsOK, RequestsOf

(* Just the codes and the threads of the present are backed.               *)
LEMMA ExactlyBacked ==
    ASSUME NEW e \in Emails, EmailBacked(e)
    PROVE  \E at, since :
              /\ Backed(RequestsOf(e), Recent(e), Flying(e), at, since)
              /\ \A i \in Recent(e) : at[i] = codes[i].at
              /\ \A h \in Flying(e) : since[h] = handler[h].since
<1>1. PICK g, R, F, at, since :
        /\ g = RequestsOf(e) /\ Backed(g, R, F, at, since)
        /\ \A i \in Recent(e) : i \in R /\ at[i] = codes[i].at
        /\ \A h \in Flying(e) : h \in F /\ since[h] = handler[h].since
  BY DEF EmailBacked
<1>2. PICK S, T : S = Recent(e) /\ T = Flying(e)
  OBVIOUS
<1>3. S \in SUBSET R /\ T \in SUBSET F
  BY <1>1, <1>2
<1>4. Backed(g, S, T, at, since)
  BY <1>1, <1>3, BackedFewer
<1> QED
  BY <1>1, <1>2, <1>4

(* Codes expire, threads finish, and the others stay backed.               *)
LEMMA EmailStays ==
    ASSUME NEW e \in Emails, EmailBacked(e), RequestsOf(e)' = RequestsOf(e),
           \A i \in Recent(e)' : i \in Recent(e) /\ codes'[i].at = codes[i].at,
           \A h \in Flying(e)' : h \in Flying(e) /\ handler'[h].since = handler[h].since
    PROVE  EmailBacked(e)'
<1>1. PICK g, R, F, at, since :
        /\ g = RequestsOf(e) /\ Backed(g, R, F, at, since)
        /\ \A i \in Recent(e) : i \in R /\ at[i] = codes[i].at
        /\ \A h \in Flying(e) : h \in F /\ since[h] = handler[h].since
  BY DEF EmailBacked
<1>2. /\ g = RequestsOf(e)' /\ Backed(g, R, F, at, since)
      /\ \A i \in Recent(e)' : i \in R /\ at[i] = codes'[i].at
      /\ \A h \in Flying(e)' : h \in F /\ since[h] = handler'[h].since
  BY <1>1
<1> QED
  BY <1>2 DEF EmailBacked

LEMMA RecentStays ==
    ASSUME SignInInv, NEW e, RowsKept, now' >= now, now' \in Nat,
           NEW i \in Recent(e)', i \in DOMAIN codes
    PROVE  i \in Recent(e) /\ codes'[i].at = codes[i].at
<1>1. codes[i].at \in Nat /\ now \in Nat
  BY CodeTypes
<1>2. /\ codes'[i].email = codes[i].email /\ codes'[i].at = codes[i].at
      /\ codes'[i].purpose = codes[i].purpose
  BY DEF RowsKept
<1>3. codes[i].email = e /\ codes[i].purpose = "signin" /\ codes[i].at + OtpTtl >= now'
  BY <1>2 DEF Recent, Unexpired
<1>4. codes[i].at + OtpTtl >= now
  BY <1>1, <1>3, TtlTypes
<1> QED
  BY <1>2, <1>3, <1>4 DEF Recent, Unexpired

(* A step that starts no request and issues no code to sign in with.       *)
LEMMA CountStays ==
    ASSUME SignInInv, SignInInv', CountInv, RowsKept, now' >= now, restarted' = restarted,
           \A e \in Emails : RequestsOf(e)' = RequestsOf(e),
           \A i \in DOMAIN codes' : i \in DOMAIN codes \/ codes'[i].purpose # "signin",
           \A h \in Handlers : Asking(handler'[h]) =>
              /\ Asking(handler[h]) /\ handler'[h].email = handler[h].email
              /\ handler'[h].since = handler[h].since
    PROVE  CountInv'
<1>1. now \in Nat /\ now' \in Nat
  BY DEF SignInInv, LimiterInv
<1>2. ASSUME NEW e \in Emails PROVE \A x \in DOMAIN RequestsOf(e)' : RequestsOf(e)'[x] <= now'
  <2>1. RequestsOf(e) \in Seq(Nat)
    BY RequestTypes
  <2> SUFFICES ASSUME NEW x \in DOMAIN RequestsOf(e) PROVE RequestsOf(e)[x] <= now'
    OBVIOUS
  <2>2. RequestsOf(e)[x] \in Nat /\ RequestsOf(e)[x] <= now
    BY <2>1 DEF CountInv
  <2> QED
    BY <1>1, <2>2
<1>3. ASSUME ~restarted, NEW e \in Emails PROVE EmailBacked(e)'
  <2>1. EmailBacked(e)
    BY <1>3 DEF CountInv
  <2>2. \A i \in Recent(e)' : i \in Recent(e) /\ codes'[i].at = codes[i].at
    <3> SUFFICES ASSUME NEW i \in Recent(e)'
                 PROVE  i \in Recent(e) /\ codes'[i].at = codes[i].at
      OBVIOUS
    <3>1. i \in DOMAIN codes
      BY DEF Recent
    <3> QED
      BY <1>1, <3>1, RecentStays
  <2>3. \A h \in Flying(e)' : h \in Flying(e) /\ handler'[h].since = handler[h].since
    BY DEF Flying
  <2> QED
    BY <2>1, <2>2, <2>3, EmailStays
<1> QED
  BY <1>2, <1>3 DEF CountInv

LEMMA RequestsStay ==
    ASSUME grants' = grants
    PROVE  \A e \in Emails : RequestsOf(e)' = RequestsOf(e)
BY DEF RequestsOf

LEMMA VerifyLeavesRequests ==
    ASSUME SignInInv, NEW email, AllowVerify(email) \/ RefuseVerify(email)
    PROVE  \A e \in Emails : RequestsOf(e)' = RequestsOf(e)
<1>1. grants \in [Limiters -> [Addresses -> Seq(Nat)]]
  BY DEF SignInInv, LimiterInv
<1>2. "request_per_email" \in Limiters /\ "request_per_email" # "verify_per_email"
  BY DEF Limiters
<1>3. grants'["request_per_email"] = grants["request_per_email"]
  BY <1>1, <1>2 DEF AllowVerify, RefuseVerify
<1> QED
  BY <1>3 DEF RequestsOf

\* Steps that only mark codes and move threads that have issued theirs.
LEMMA QuietCount ==
    ASSUME SignInInv, SignInInv', CountInv, NEW h \in Handlers,
           \/ UpsertGuest(h) \/ (\E i \in DOMAIN codes : StartVerify(h, i))
           \/ VerifyLocked(h) \/ SelectOtp(h) \/ PatchOtp(h) \/ RefuseCode(h)
           \/ OpenSession(h)
    PROVE  CountInv'
<1>1. /\ now' = now /\ restarted' = restarted /\ now \in Nat
      /\ codes' = codes \/ codes' = [codes EXCEPT ![handler[h].code].used = TRUE]
  BY DEF UpsertGuest, StartVerify, VerifyLocked, SelectOtp, PatchOtp, RefuseCode, OpenSession,
         Spend, SignInInv, LimiterInv
<1>2. \A e \in Emails : RequestsOf(e)' = RequestsOf(e)
  <2>1. CASE UNCHANGED grants
    BY <2>1, RequestsStay
  <2>2. CASE \E i \in DOMAIN codes : AllowVerify(codes[i].email)
    BY <2>2, VerifyLeavesRequests
  <2> QED
    BY <2>1, <2>2
    DEF UpsertGuest, StartVerify, VerifyLocked, SelectOtp, PatchOtp, RefuseCode, OpenSession
<1>3. RowsKept /\ \A i \in DOMAIN codes' : i \in DOMAIN codes
  BY <1>1, RowsUnchanged, MarkedRows
<1>4. PICK b : /\ handler' = [handler EXCEPT ![h] = b]
               /\ Asking(b) => /\ Asking(handler[h]) /\ b.email = handler[h].email
                               /\ b.since = handler[h].since
  <2>1. Thread(handler[h])
    BY DEF SignInInv, CodesInv
  <2>2. ~Asking(FreeHandler)
    BY DEF Asking, FreeHandler
  <2>3. CASE handler' = [handler EXCEPT ![h] = FreeHandler]
    BY <2>2, <2>3
  <2>4. CASE \E stage \in {"matched", "accepted", "upserted"} :
               /\ handler' = [handler EXCEPT ![h].at = stage]
               /\ stage = "upserted" => handler[h].at = "requesting"
    <3>1. PICK stage \in {"matched", "accepted", "upserted"} :
               /\ handler' = [handler EXCEPT ![h].at = stage]
               /\ stage = "upserted" => handler[h].at = "requesting"
      BY <2>4
    <3>2. PICK b : b = [handler[h] EXCEPT !.at = stage]
      OBVIOUS
    <3>3. b.at = stage /\ b.since = handler[h].since /\ b.email = handler[h].email
      BY <2>1, <3>2 DEF Thread
    <3> QED
      BY <3>1, <3>2, <3>3 DEF Asking
  <2>5. CASE \E i \in DOMAIN codes : StartVerify(h, i)
    <3>1. PICK i \in DOMAIN codes : StartVerify(h, i)
      BY <2>5
    <3>2. PICK b : /\ b = [FreeHandler EXCEPT !.at = "verifying", !.since = now,
                            !.email = codes[i].email, !.code = i, !.after = spent[i] > 0]
                   /\ handler' = [handler EXCEPT ![h] = b]
      BY <3>1 DEF StartVerify
    <3>3. b.at = "verifying"
      BY <3>2 DEF FreeHandler
    <3> QED
      BY <3>2, <3>3 DEF Asking
  <2> QED
    BY <2>3, <2>4, <2>5
    DEF UpsertGuest, VerifyLocked, SelectOtp, PatchOtp, RefuseCode, OpenSession, Spend, AcceptCode,
        Goto, Finish
<1>5. \A q \in Handlers : Asking(handler'[q]) =>
              /\ Asking(handler[q]) /\ handler'[q].email = handler[q].email
              /\ handler'[q].since = handler[q].since
  BY <1>4, HandlerAfter
<1> QED
  BY <1>1, <1>2, <1>3, <1>5, CountStays

LEMMA AuthorizeCount ==
    ASSUME SignInInv, SignInInv', CountInv, Authorize
    PROVE  CountInv'
<1>1. /\ codes \in Seq(CodeRow) /\ now \in Nat /\ now' = now /\ handler' = handler
      /\ restarted' = restarted /\ grants' = grants
  BY DEF Authorize, SignInInv, CodesInv, LimiterInv
<1>2. PICK row : row = NewCode(Operator, "broker_state") /\ codes' = Append(codes, row)
  BY DEF Authorize
<1>3. row.purpose # "signin"
  BY <1>2 DEF NewCode
<1>4. /\ RowsKept
      /\ \A i \in DOMAIN codes' : i \in DOMAIN codes \/ codes'[i].purpose # "signin"
  BY <1>1, <1>2, <1>3 DEF RowsKept
<1> QED
  BY <1>1, <1>4, RequestsStay, CountStays

LEMMA TickCount ==
    ASSUME SignInInv, SignInInv', CountInv, SignInTick
    PROVE  CountInv'
<1>1. /\ now \in Nat /\ now' = now + 1 /\ now' >= now /\ codes' = codes /\ handler' = handler
      /\ restarted' = restarted /\ grants' = grants
  BY DEF SignInTick, SignInInv, LimiterInv
<1> QED
  BY <1>1, RowsUnchanged, RequestsStay, CountStays

LEMMA VerifyInVainCount ==
    ASSUME SignInInv, SignInInv', CountInv, NEW email \in Emails, VerifyInVain(email)
    PROVE  CountInv'
<1>1. /\ now \in Nat /\ now' = now /\ now' >= now /\ codes' = codes /\ handler' = handler
      /\ restarted' = restarted
  BY DEF VerifyInVain, SignInInv, LimiterInv
<1>2. \A e \in Emails : RequestsOf(e)' = RequestsOf(e)
  BY VerifyLeavesRequests DEF VerifyInVain
<1> QED
  BY <1>1, <1>2, RowsUnchanged, CountStays

LEMMA RestartCount ==
    ASSUME SignInInv, SignInRestart
    PROVE  CountInv'
<1>1. restarted' /\ grants' = [l \in Limiters |-> [k \in Addresses |-> <<>>]]
  BY DEF SignInRestart, ForgetCalls
<1>2. ASSUME NEW e \in Emails PROVE RequestsOf(e)' = <<>>
  BY <1>1, SignInAssumption DEF RequestsOf, Limiters
<1> QED
  BY <1>1, <1>2 DEF CountInv

LEMMA IssueOtpCount ==
    ASSUME SignInInv, SignInInv', AccessInv, CountInv, NEW h \in Handlers, IssueOtp(h)
    PROVE  CountInv'
<1>1. /\ codes \in Seq(CodeRow) /\ now \in Nat /\ now' = now /\ restarted' = restarted
      /\ grants' = grants
  BY DEF IssueOtp, SignInInv, CodesInv, LimiterInv
<1>2. PICK to : to = handler[h].email
  OBVIOUS
<1>3. /\ h \in Flying(to) /\ now <= handler[h].since + MaxDelay /\ to \in Emails
  BY <1>2 DEF IssueOtp, Flying, Asking, SignInInv, CodesInv, Thread, AccessInv, Timely
<1>4. PICK j, row : /\ j = Len(codes) + 1 /\ row = NewCode(to, "signin")
                    /\ codes' = Append(codes, row)
  BY <1>2 DEF IssueOtp
<1>5. row.email = to /\ row.at = now
  BY <1>4 DEF NewCode
<1>6. /\ j \notin DOMAIN codes /\ codes'[j] = row /\ RowsKept
      /\ \A i \in DOMAIN codes' : i = j \/ i \in DOMAIN codes
  BY <1>1, <1>4 DEF RowsKept
<1>7. /\ ~Asking(handler'[h]) /\ \A q \in Handlers : q # h => handler'[q] = handler[q]
  <2>1. PICK f : handler' = [handler EXCEPT ![h] = f] /\ ~Asking(f)
    <3>1. ~Asking(FreeHandler)
      BY DEF Asking, FreeHandler
    <3> QED
      BY <3>1 DEF IssueOtp, Finish
  <2> QED
    BY <2>1, HandlerAfter
<1>8. \A e \in Emails : RequestsOf(e)' = RequestsOf(e)
  BY <1>1, RequestsStay
<1>9. ASSUME NEW e \in Emails PROVE \A x \in DOMAIN RequestsOf(e)' : RequestsOf(e)'[x] <= now'
  BY <1>1, <1>8 DEF CountInv
<1>10. ASSUME NEW e \in Emails, NEW i \in Recent(e)', i \in DOMAIN codes
       PROVE  i \in Recent(e) /\ codes'[i].at = codes[i].at
  BY <1>1, <1>6, <1>10, RecentStays
<1>11. ASSUME NEW e \in Emails, e # to, EmailBacked(e) PROVE EmailBacked(e)'
  <2>1. \A i \in Recent(e)' : i \in Recent(e) /\ codes'[i].at = codes[i].at
    <3> SUFFICES ASSUME NEW i \in Recent(e)'
                 PROVE  i \in Recent(e) /\ codes'[i].at = codes[i].at
      OBVIOUS
    <3>1. i \in DOMAIN codes
      BY <1>5, <1>6, <1>11 DEF Recent
    <3> QED
      BY <1>10, <3>1
  <2>2. \A q \in Flying(e)' : q \in Flying(e) /\ handler'[q].since = handler[q].since
    BY <1>7 DEF Flying
  <2> QED
    BY <1>8, <1>11, <2>1, <2>2, EmailStays
<1>12. ASSUME EmailBacked(to) PROVE EmailBacked(to)'
  <2>1. PICK at, since :
          /\ Backed(RequestsOf(to), Recent(to), Flying(to), at, since)
          /\ \A i \in Recent(to) : at[i] = codes[i].at
          /\ \A q \in Flying(to) : since[q] = handler[q].since
    BY <1>3, <1>12, ExactlyBacked
  <2>2. PICK g, R, F : g = RequestsOf(to) /\ R = Recent(to) /\ F = Flying(to)
    OBVIOUS
  <2>3. PICK at2 : at2 = [i \in R \cup {j} |-> IF i = j THEN now ELSE at[i]]
    OBVIOUS
  <2>4. j \notin R /\ at2[j] = now /\ \A i \in R : at2[i] = at[i]
    BY <1>6, <2>2, <2>3 DEF Recent
  <2>5. h \in F /\ at2[j] <= since[h] + MaxDelay
    BY <1>3, <2>1, <2>2, <2>4
  <2>6. Backed(g, R \cup {j}, F \ {h}, at2, since)
    BY <2>1, <2>2, <2>4, <2>5, BackedIssue
  <2>7. PICK R2, F2 : R2 = R \cup {j} /\ F2 = F \ {h}
    OBVIOUS
  <2>8. \A i \in Recent(to)' : i \in R2 /\ at2[i] = codes'[i].at
    <3> SUFFICES ASSUME NEW i \in Recent(to)' PROVE i \in R2 /\ at2[i] = codes'[i].at
      OBVIOUS
    <3>1. CASE i = j
      BY <1>5, <1>6, <2>4, <2>7, <3>1
    <3>2. CASE i \in DOMAIN codes
      BY <1>3, <1>10, <2>1, <2>2, <2>4, <2>7, <3>2
    <3>3. i \in DOMAIN codes'
      BY DEF Recent
    <3> QED
      BY <1>6, <3>1, <3>2, <3>3
  <2>9. \A q \in Flying(to)' : q \in F2 /\ since[q] = handler'[q].since
    <3> SUFFICES ASSUME NEW q \in Flying(to)' PROVE q \in F2 /\ since[q] = handler'[q].since
      OBVIOUS
    <3>1. q \in Handlers /\ Asking(handler'[q]) /\ handler'[q].email = to
      BY DEF Flying
    <3>2. q # h /\ handler'[q] = handler[q]
      BY <1>7, <3>1
    <3>3. q \in Flying(to)
      BY <3>1, <3>2 DEF Flying
    <3> QED
      BY <2>1, <2>2, <2>7, <3>2, <3>3
  <2>10. g = RequestsOf(to)' /\ Backed(g, R2, F2, at2, since)
    BY <1>3, <1>8, <2>2, <2>6, <2>7
  <2> QED
    BY <2>8, <2>9, <2>10 DEF EmailBacked
<1>13. ASSUME ~restarted, NEW e \in Emails PROVE EmailBacked(e)'
  BY <1>11, <1>12, <1>13 DEF CountInv
<1> QED
  BY <1>1, <1>9, <1>13 DEF CountInv

\* The first of limit + 1 calls is out of the window of the last.
LEMMA FirstIsOld ==
    ASSUME SignInInv, CountInv, NEW e \in Emails, NEW g, g = RequestsOf(e),
           Len(g) = Limit["request_per_email"] + 1
    PROVE  g[1] \in Nat /\ ~Live(g[1])
<1>1. PICK limit : limit = Limit["request_per_email"]
  OBVIOUS
<1>2. limit \in Nat /\ limit >= 1
  BY <1>1, LimiterAssumption DEF Limiters
<1>3. g \in Seq(Nat) /\ Spans("request_per_email", g) /\ now \in Nat
  BY RequestTypes
<1>4. 1 \in DOMAIN g /\ limit + 1 \in DOMAIN g /\ Len(g) > limit
  BY <1>1, <1>2, <1>3
<1>5. g[1] \in Nat /\ g[limit + 1] \in Nat /\ g[limit + 1] <= now
  BY <1>3, <1>4 DEF CountInv
<1>6. g[limit + 1] - g[1] >= Window
  BY <1>1, <1>3, <1>4 DEF Spans
<1> QED
  BY <1>3, <1>5, <1>6, TtlTypes DEF Live

\* A request that was let through is a grant of its own.
LEMMA RequestCount ==
    ASSUME SignInInv, SignInInv', AccessInv, CountInv, NEW h \in Handlers, NEW to \in Emails,
           NEW ip, handler[h] = FreeHandler, AllowRequest(to, ip), UNCHANGED <<now, codes, restarted>>,
           NEW b, handler' = [handler EXCEPT ![h] = b],
           b.at = "requesting", b.since = now, b.email = to
    PROVE  CountInv'
<1>1. /\ now \in Nat /\ to \in Addresses /\ "request_per_email" \in Limiters
      /\ grants \in [Limiters -> [Addresses -> Seq(Nat)]]
  BY SignInAssumption DEF SignInInv, LimiterInv, Limiters
<1>2. PICK g, g2 : g = RequestsOf(to) /\ g2 = RequestsOf(to)'
  OBVIOUS
<1>3. g \in Seq(Nat) /\ Len(g) <= Limit["request_per_email"] + 1
  BY <1>2, RequestTypes
<1>4. PICK mine : mine = Granted("request_per_email", to)
  OBVIOUS
<1>5. grants'["request_per_email"] = mine
  BY <1>1, <1>4 DEF AllowRequest
<1>6. mine = [grants["request_per_email"] EXCEPT
                ![to] = LastOf(Append(g, now), Limit["request_per_email"] + 1)]
  BY <1>2, <1>4 DEF Granted, RequestsOf
<1>7. g2 = LastOf(Append(g, now), Limit["request_per_email"] + 1)
  BY <1>1, <1>2, <1>5, <1>6 DEF RequestsOf
<1>8. ASSUME NEW e \in Emails, e # to PROVE RequestsOf(e)' = RequestsOf(e)
  BY <1>1, <1>5, <1>6, <1>8 DEF RequestsOf
<1>9. PICK off \in {0, 1} : Joined(g2, g, off, Limit["request_per_email"])
  <2>1. PICK l : l = "request_per_email"
    OBVIOUS
  <2>2. /\ l \in Limiters /\ Len(g) <= Limit[l] + 1
        /\ g2 = LastOf(Append(g, now), Limit[l] + 1)
    BY <1>1, <1>3, <1>7, <2>1
  <2>3. \E off \in {0, 1} : Joined(g2, g, off, Limit[l])
    BY <1>1, <1>3, <2>2, GrantShape
  <2> QED
    BY <2>1, <2>3
<1>10. /\ g2 \in Seq(Nat) /\ Len(g2) \in Nat /\ g2[Len(g2)] = now
       /\ \A x \in 1..Len(g2) : x # Len(g2) => g2[x] = g[x + off] /\ x + off \in 1..Len(g)
       /\ off = 1 => Len(g) = Limit["request_per_email"] + 1
  BY <1>9 DEF Joined
<1>11. ASSUME NEW e \in Emails PROVE \A x \in DOMAIN RequestsOf(e)' : RequestsOf(e)'[x] <= now'
  <2>1. CASE e # to
    BY <1>8, <2>1 DEF CountInv
  <2>2. CASE e = to
    <3> SUFFICES ASSUME NEW x \in DOMAIN g2 PROVE g2[x] <= now
      BY <1>2, <2>2
    <3>1. x \in 1..Len(g2)
      BY <1>10
    <3>2. CASE x = Len(g2)
      BY <1>1, <1>10, <3>2
    <3>3. CASE x # Len(g2)
      <4>1. PICK y \in 1..Len(g) : g2[x] = g[y]
        BY <1>10, <3>1, <3>3
      <4>2. y \in DOMAIN g
        BY <1>3
      <4>3. g[y] <= now
        BY <1>2, <4>2 DEF CountInv
      <4> QED
        BY <4>1, <4>3
    <3> QED
      BY <3>2, <3>3
  <2> QED
    BY <2>1, <2>2
<1>12. handler'[h] = b /\ \A q \in Handlers : q # h => handler'[q] = handler[q]
  BY HandlerAfter
<1>13. RowsKept /\ \A i \in DOMAIN codes' : i \in DOMAIN codes
  BY RowsUnchanged
<1>14. ASSUME NEW e \in Emails, NEW i \in Recent(e)'
       PROVE  i \in Recent(e) /\ codes'[i].at = codes[i].at
  <2>1. i \in DOMAIN codes
    BY DEF Recent
  <2> QED
    BY <1>1, <1>13, <2>1, RecentStays
<1>15. ASSUME NEW e \in Emails, e # to, EmailBacked(e) PROVE EmailBacked(e)'
  <2>1. \A q \in Flying(e)' : q \in Flying(e) /\ handler'[q].since = handler[q].since
    BY <1>12, <1>15 DEF Flying
  <2> QED
    BY <1>8, <1>14, <1>15, <2>1, EmailStays
<1>16. ASSUME EmailBacked(to) PROVE EmailBacked(to)'
  <2>1. PICK at, since :
          /\ Backed(RequestsOf(to), Recent(to), Flying(to), at, since)
          /\ \A i \in Recent(to) : at[i] = codes[i].at
          /\ \A q \in Flying(to) : since[q] = handler[q].since
    BY <1>16, ExactlyBacked
  <2>2. PICK R, F : R = Recent(to) /\ F = Flying(to)
    OBVIOUS
  <2>3. h \notin F
    BY <2>2 DEF Flying, Asking, FreeHandler
  <2>4. PICK since2 : since2 = [p \in F \cup {h} |-> IF p = h THEN now ELSE since[p]]
    OBVIOUS
  <2>5. since2[h] = now /\ \A p \in F : since2[p] = since[p]
    BY <2>3, <2>4
  <2>6. off = 1 => ~Backs(g[1], R, F, at, since)
    <3> SUFFICES ASSUME off = 1 PROVE ~Backs(g[1], R, F, at, since)
      OBVIOUS
    <3>1. g[1] \in Nat /\ ~Live(g[1])
      BY <1>2, <1>10, FirstIsOld
    <3>2. ASSUME NEW i \in R, at[i] <= g[1] + MaxDelay PROVE FALSE
      <4>1. i \in DOMAIN codes /\ codes[i].at + OtpTtl >= now
        BY <2>2 DEF Recent, Unexpired
      <4>2. codes[i].at \in Nat /\ at[i] = codes[i].at
        BY <2>1, <2>2, <4>1, CodeTypes
      <4> QED
        BY <1>1, <3>1, <3>2, <4>1, <4>2, TtlTypes DEF Live
    <3>3. ASSUME NEW p \in F, since[p] = g[1] PROVE FALSE
      <4>1. p \in Handlers /\ handler[p].at # "free" /\ since[p] = handler[p].since
        BY <2>1, <2>2 DEF Flying, Asking
      <4>2. now <= since[p] + MaxDelay
        BY <4>1 DEF AccessInv, Timely
      <4> QED
        BY <1>1, <3>1, <3>3, <4>2, TtlTypes DEF Live
    <3> QED
      BY <3>2, <3>3 DEF Backs
  <2>7. Backed(g2, R, F \cup {h}, at, since2)
    <3>1. Backed(g, R, F, at, since)
      BY <1>2, <2>1, <2>2
    <3> QED
      BY <1>3, <1>9, <2>3, <2>5, <2>6, <3>1, BackedGrant
  <2>8. PICK F2 : F2 = F \cup {h}
    OBVIOUS
  <2>9. \A i \in Recent(to)' : i \in R /\ at[i] = codes'[i].at
    BY <1>14, <2>1, <2>2
  <2>10. \A q \in Flying(to)' : q \in F2 /\ since2[q] = handler'[q].since
    <3> SUFFICES ASSUME NEW q \in Flying(to)' PROVE q \in F2 /\ since2[q] = handler'[q].since
      OBVIOUS
    <3>1. q \in Handlers /\ Asking(handler'[q]) /\ handler'[q].email = to
      BY DEF Flying
    <3>2. CASE q = h
      BY <1>12, <2>5, <2>8, <3>2
    <3>3. CASE q # h
      <4>1. q \in Flying(to) /\ handler'[q] = handler[q]
        BY <1>12, <3>1, <3>3 DEF Flying
      <4> QED
        BY <2>1, <2>2, <2>5, <2>8, <4>1
    <3> QED
      BY <3>2, <3>3
  <2>11. g2 = RequestsOf(to)' /\ Backed(g2, R, F2, at, since2)
    BY <1>2, <2>7, <2>8
  <2> QED
    BY <2>9, <2>10, <2>11 DEF EmailBacked
<1>17. ASSUME ~restarted, NEW e \in Emails PROVE EmailBacked(e)'
  BY <1>15, <1>16, <1>17 DEF CountInv
<1> QED
  BY <1>11, <1>17 DEF CountInv

LEMMA RefusedCount ==
    ASSUME SignInInv, SignInInv', CountInv, NEW to, NEW ip, RefuseRequest(to, ip),
           UNCHANGED <<now, codes, handler, restarted>>
    PROVE  CountInv'
<1>1. grants \in [Limiters -> [Addresses -> Seq(Nat)]] /\ now \in Nat /\ now' >= now
  BY DEF SignInInv, LimiterInv
<1>2. "request_per_email" \in Limiters /\ "request_per_email" # "request_per_ip"
  BY DEF Limiters
<1>3. grants'["request_per_email"] = grants["request_per_email"]
  BY <1>1, <1>2 DEF RefuseRequest
<1>4. \A e \in Emails : RequestsOf(e)' = RequestsOf(e)
  BY <1>3 DEF RequestsOf
<1> QED
  BY <1>1, <1>4, RowsUnchanged, CountStays

LEMMA RequestCodeCount ==
    ASSUME SignInInv, SignInInv', AccessInv, CountInv, NEW h \in Handlers, NEW to \in Emails,
           NEW ip \in ClientIps, RequestCode(h, to, ip)
    PROVE  CountInv'
<1>1. handler[h] = FreeHandler /\ UNCHANGED <<now, codes, restarted>>
  BY DEF RequestCode
<1>2. CASE /\ AllowRequest(to, ip)
           /\ handler' = [handler EXCEPT ![h] =
                [FreeHandler EXCEPT !.at = "requesting", !.since = now, !.email = to]]
  <2>1. PICK b : b = [FreeHandler EXCEPT !.at = "requesting", !.since = now, !.email = to]
    OBVIOUS
  <2>2. b.at = "requesting" /\ b.since = now /\ b.email = to
    BY <2>1 DEF FreeHandler
  <2> QED
    BY <1>1, <1>2, <2>1, <2>2, RequestCount
<1>3. CASE RefuseRequest(to, ip) /\ UNCHANGED handler
  BY <1>1, <1>3, RefusedCount
<1> QED
  BY <1>2, <1>3 DEF RequestCode

LEMMA CountKept ==
    ASSUME SignInInv, SignInInv', AccessInv, CountInv, [SignInNext]_signInVars
    PROVE  CountInv'
<1>1. CASE UNCHANGED signInVars
  <2>1. now' >= now
    BY <1>1 DEF signInVars, SignInInv, LimiterInv
  <2> QED
    BY <1>1, <2>1, RowsUnchanged, RequestsStay, CountStays DEF signInVars
<1>2. ASSUME NEW h \in Handlers,
             \/ \E e \in Emails, ip \in ClientIps : RequestCode(h, e, ip)
             \/ UpsertGuest(h) \/ IssueOtp(h)
             \/ \E i \in DOMAIN codes : StartVerify(h, i)
             \/ VerifyLocked(h) \/ SelectOtp(h) \/ PatchOtp(h) \/ RefuseCode(h)
             \/ OpenSession(h)
      PROVE  CountInv'
  BY <1>2, RequestCodeCount, IssueOtpCount, QuietCount
<1> QED
  BY <1>1, <1>2, VerifyInVainCount, AuthorizeCount, TickCount, RestartCount DEF SignInNext

(* A code that has not expired has fewer rivals than are examined.         *)
LEMMA SurelyFound ==
    ASSUME SignInInv, AccessInv, CountInv, ~restarted, NEW i \in DOMAIN codes,
           codes[i].purpose = "signin", ~codes[i].used, Unexpired(i)
    PROVE  SurelyExamined(i)
<1> DEFINE S == {j \in Rivals(i) : codes[j].at >= codes[i].at}
<1>1. PICK e : e = codes[i].email /\ e \in Emails
  BY CodeTypes
<1>2. PICK at, since :
        /\ Backed(RequestsOf(e), Recent(e), Flying(e), at, since)
        /\ \A j \in Recent(e) : at[j] = codes[j].at
  BY <1>1, ExactlyBacked DEF CountInv
<1>3. PICK g, R, F, l : /\ g = RequestsOf(e) /\ R = Recent(e) /\ F = Flying(e)
                        /\ l = "request_per_email" /\ l \in Limiters
  BY DEF Limiters
<1>4. /\ now \in Nat /\ g \in Seq(Nat) /\ Len(g) <= Limit[l] + 1 /\ Spans(l, g)
      /\ \A x \in 1..Len(g) : g[x] <= now
  BY <1>1, <1>3, RequestTypes DEF CountInv
<1>5. \A j \in R : at[j] \in Nat /\ now <= at[j] + OtpTtl
  <2> SUFFICES ASSUME NEW j \in R PROVE at[j] \in Nat /\ now <= at[j] + OtpTtl
    OBVIOUS
  <2>1. j \in DOMAIN codes /\ codes[j].at + OtpTtl >= now /\ at[j] = codes[j].at
    BY <1>2, <1>3 DEF Recent, Unexpired
  <2>2. codes[j].at \in Nat
    BY <2>1, CodeTypes
  <2> QED
    BY <1>4, <2>1, <2>2, TtlTypes
<1>6. IsFiniteSet(R) /\ Cardinality(R) <= Limit[l]
  <2>1. Backed(g, R, F, at, since)
    BY <1>2, <1>3
  <2> QED
    BY <1>3, <1>4, <1>5, <2>1, BackedBounded
<1>7. i \in R /\ S \subseteq R \ {i}
  <2>1. i \in R
    BY <1>1, <1>3 DEF Recent
  <2>2. ASSUME NEW j \in S PROVE j \in R /\ j # i
    <3>1. /\ j \in DOMAIN codes /\ j # i /\ codes[j].email = e /\ codes[j].purpose = "signin"
          /\ codes[j].at >= codes[i].at
      BY <1>1 DEF Rivals, Unused
    <3>2. codes[j].at \in Nat /\ codes[i].at \in Nat /\ codes[i].at + OtpTtl >= now
      BY <3>1, CodeTypes DEF Unexpired
    <3>3. codes[j].at + OtpTtl >= now
      BY <1>4, <3>1, <3>2, TtlTypes
    <3> QED
      BY <1>3, <3>1, <3>3 DEF Recent, Unexpired
  <2> QED
    BY <2>1, <2>2
<1> HIDE DEF S
<1>8. Cardinality(S) < Cardinality(R)
  <2>1. IsFiniteSet(R \ {i}) /\ Cardinality(R \ {i}) = Cardinality(R) - 1
    BY <1>6, <1>7, FS_RemoveElement
  <2>2. Cardinality(S) <= Cardinality(R \ {i}) /\ IsFiniteSet(S)
    BY <1>7, <2>1, FS_Subset
  <2>3. Cardinality(S) \in Nat /\ Cardinality(R) \in Nat
    BY <1>6, <2>2, FS_CardinalityType
  <2> QED
    BY <2>1, <2>2, <2>3
<1>9. Cardinality(S) < Newest
  <2>1. Cardinality(S) \in Nat /\ Cardinality(R) \in Nat
    <3>1. IsFiniteSet(S)
      BY <1>6, <1>7, FS_Subset
    <3> QED
      BY <1>6, <3>1, FS_CardinalityType
  <2>2. Limit[l] \in Nat /\ Newest \in Nat /\ Limit[l] <= Newest
    BY <1>3, LimiterAssumption, SignInAssumption
  <2> QED
    BY <1>6, <1>8, <2>1, <2>2
<1> QED
  BY <1>9 DEF SurelyExamined, S

LEMMA SignInBegins ==
    ASSUME SignInInit
    PROVE  AccessInv /\ CountInv
<1>1. /\ now = 0 /\ codes = <<>> /\ handler = [h \in Handlers |-> FreeHandler]
      /\ guest = [e \in Emails |-> 0]
      /\ grants = [l \in Limiters |-> [k \in Addresses |-> <<>>]]
  BY DEF SignInInit, LimiterInit, Absent
<1>2. AccessInv
  BY <1>1, TtlTypes DEF AccessInv, Timely, FreeHandler
<1>3. ASSUME NEW e \in Emails PROVE RequestsOf(e) = <<>>
  BY <1>1, SignInAssumption DEF RequestsOf, Limiters
<1>4. ASSUME NEW e \in Emails PROVE EmailBacked(e)
  <2>1. Recent(e) = {} /\ Flying(e) = {}
    BY <1>1 DEF Recent, Flying, Asking, FreeHandler
  <2>2. PICK none : none = [x \in {} |-> 0]
    OBVIOUS
  <2>3. none \in [{} -> 1..Len(<<>>)]
    BY <2>2
  <2>4. Backed(<<>>, {}, {}, none, none)
    BY <2>3 DEF Backed
  <2> QED
    BY <1>3, <2>1, <2>4 DEF EmailBacked
<1> QED
  BY <1>2, <1>3, <1>4 DEF CountInv

(* While the process runs, the limit on requests keeps every code that has *)
(* not expired among those that verify_otp examines, an accepted code      *)
(* belongs to an address that may come in, a code that was accepted is     *)
(* refused from then on, and the SQLite store accepts none twice           *)
(* (auth_app.py, verify; membership.py, verify_otp and access_for).        *)
THEOREM CodesSoundTheorem == SignInSpec => []CodesSound
<1>1. SignInInit => AccessInv /\ CountInv
  BY SignInBegins
<1>2. /\ SignInInv /\ SignInInv' /\ AccessInv /\ CountInv /\ [SignInNext]_signInVars
      => AccessInv' /\ CountInv'
  BY AccessKept, CountKept
<1>3. SignInInv /\ AccessInv /\ CountInv => CodeSignsIn
  BY SurelyFound, AcceptedMayEnter DEF CodeSignsIn
<1>4. CodeSpentOnce /\ SpentCodeRefused /\ CodeSignsIn => CodesSound
  BY DEF CodesSound
<1>5. SignInSpec => []SignInInv
  BY SignInAlways
<1>6. SignInSpec => [](CodeSpentOnce /\ SpentCodeRefused)
  BY CodeSpentOnceTheorem
<1> QED
  BY <1>1, <1>2, <1>3, <1>4, <1>5, <1>6, PTL DEF SignInSpec

-----------------------------------------------------------------------------
(***************************************************************************)
(* The console.  What any number of visits is answered, and the links to   *)
(* the broker, for any people, sessions and number of consents.            *)
(***************************************************************************)
Roles == {"NONE", "GUEST", "LAPSED", "MEMBER", "LP", "GP"}
VisitStages == {"free", "social", "upserted", "admitted", "verified", "exchanging", "linking",
           "looking", "checking", "reading"} \cup Routes
VisitRecord == [at : VisitStages, who : People \cup {Nobody}, token : Tokens \cup {Nobody},
                consent : Nat, good : BOOLEAN]
ConsentRecord == [who : People, state : {"open", "lapsed", "used"}]
LinkRecord == [who : {Gp}, consent : redeemed, good : {TRUE}]

\* A visit that is past the look at its state is the operator's, and one that
\* links has taken the grant of its consent.
Worthy(b) ==
    /\ b.at \notin {"free", "logout"} => b.who \in People
    /\ b.at \in {"verified", "exchanging", "linking"} => b.who = Gp /\ b.good = TRUE
    /\ b.at = "linking" => b.consent \in redeemed

\* The state of the stores: only the operator is GP, only the operator links.
StoresInv ==
    /\ role \in [People -> Roles] /\ \A p \in People : role[p] = "GP" => p = Gp
    /\ session \in [Tokens -> People \cup {Nobody}]
    /\ consents \in Seq(ConsentRecord)
    /\ linked \subseteq {Gp}

VisitsInv ==
    /\ visit \in [Visits -> VisitRecord]
    /\ \A v \in Visits : Worthy(visit[v])
    /\ \A v \in Visits : visit[v].at = "linking" =>
          \A i \in DOMAIN links : links[i].consent # visit[v].consent
    /\ \A v, w \in Visits :
          /\ visit[v].at = "linking" /\ visit[w].at = "linking"
          /\ visit[v].consent = visit[w].consent
          => v = w

LinksInv ==
    /\ links \in Seq(LinkRecord)
    /\ \A i, j \in DOMAIN links : links[i].consent = links[j].consent => i = j

ConsoleInv == StoresInv /\ VisitsInv /\ LinksInv /\ unearned = FALSE

-----------------------------------------------------------------------------
LEMMA FreeVisit == Free \in VisitRecord /\ Worthy(Free)
BY DEF Free, VisitRecord, VisitStages, Worthy

\* An answer that is earned, and a step to the next stage.
LEMMA Answered ==
    ASSUME ConsoleInv, NEW v \in Visits, NEW what, Answer(v, what), Earned(what, visit[v].who)
    PROVE  visit' = [visit EXCEPT ![v] = Free] /\ unearned' = FALSE
BY DEF Answer, ConsoleInv

LEMMA Stepped ==
    ASSUME ConsoleInv, NEW v \in Visits, NEW stage \in VisitStages, Step(v, stage)
    PROVE  /\ unearned' = FALSE
           /\ \E b \in VisitRecord :
                 /\ visit' = [visit EXCEPT ![v] = b]
                 /\ b.at = stage /\ b.who = visit[v].who /\ b.token = visit[v].token
                 /\ b.consent = visit[v].consent /\ b.good = visit[v].good
<1>1. visit[v] \in VisitRecord
  BY DEF ConsoleInv, VisitsInv
<1>2. PICK b : b = [visit[v] EXCEPT !.at = stage]
  OBVIOUS
<1>3. /\ b \in VisitRecord /\ b.at = stage /\ b.who = visit[v].who /\ b.token = visit[v].token
      /\ b.consent = visit[v].consent /\ b.good = visit[v].good
  BY <1>1, <1>2 DEF VisitRecord
<1>4. visit' = [visit EXCEPT ![v] = b]
  BY <1>2 DEF Step
<1> QED
  BY <1>3, <1>4 DEF Step, ConsoleInv

\* One visit moves, and takes a grant at most that nobody had.
LEMMA VisitMoves ==
    ASSUME ConsoleInv, links' = links, redeemed \subseteq redeemed',
           NEW v \in Visits, NEW b \in VisitRecord, visit' = [visit EXCEPT ![v] = b],
           Worthy(b)', b.at = "linking" => b.consent \notin redeemed
    PROVE  VisitsInv' /\ LinksInv'
<1>1. /\ visit \in [Visits -> VisitRecord] /\ \A w \in Visits : Worthy(visit[w])
      /\ links \in Seq(LinkRecord)
  BY DEF ConsoleInv, VisitsInv, LinksInv
<1>2. visit' \in [Visits -> VisitRecord]
  BY <1>1
<1>3. visit'[v] = b /\ \A w \in Visits : w # v => visit'[w] = visit[w]
  BY <1>1
<1>4. \A w \in Visits : visit[w].at = "linking" => visit[w].consent \in redeemed
  BY <1>1 DEF Worthy
<1>5. \A i \in DOMAIN links : links[i].consent \in redeemed
  <2>1. \A r \in LinkRecord : r.consent \in redeemed
    BY DEF LinkRecord
  <2>2. \A i \in DOMAIN links : links[i] \in LinkRecord
    BY <1>1
  <2> QED
    BY <2>1, <2>2
<1>6. ASSUME NEW w \in Visits PROVE Worthy(visit[w])'
  <2>1. CASE w = v
    BY <1>3, <2>1 DEF Worthy
  <2>2. CASE w # v
    BY <1>1, <1>3, <2>2 DEF Worthy
  <2> QED
    BY <2>1, <2>2
<1>7. ASSUME NEW w \in Visits, visit'[w].at = "linking", NEW i \in DOMAIN links'
      PROVE  links'[i].consent # visit'[w].consent
  <2>1. CASE w = v
    BY <1>3, <1>5, <1>7, <2>1
  <2>2. CASE w # v
    BY <1>3, <1>7, <2>2 DEF ConsoleInv, VisitsInv
  <2> QED
    BY <2>1, <2>2
<1>8. ASSUME NEW w \in Visits, NEW u \in Visits, visit'[w].at = "linking",
             visit'[u].at = "linking", visit'[w].consent = visit'[u].consent
      PROVE  w = u
  <2>1. CASE w # v /\ u # v
    BY <1>3, <1>8, <2>1 DEF ConsoleInv, VisitsInv
  <2>2. CASE w = v \/ u = v
    BY <1>3, <1>4, <1>8, <2>2
  <2> QED
    BY <2>1, <2>2
<1>9. LinksInv'
  <2>1. LinkRecord \subseteq LinkRecord'
    BY DEF LinkRecord
  <2> QED
    BY <1>1, <2>1 DEF ConsoleInv, LinksInv
<1> QED
  BY <1>2, <1>6, <1>7, <1>8, <1>9 DEF VisitsInv

\* A visit that ends, or goes on to a stage that asks no more of it.
LEMMA EndsOK ==
    ASSUME ConsoleInv, links' = links, redeemed \subseteq redeemed', StoresInv',
           NEW v \in Visits, NEW what, Answer(v, what), Earned(what, visit[v].who)
    PROVE  ConsoleInv'
<1>1. visit' = [visit EXCEPT ![v] = Free] /\ unearned' = FALSE
  BY Answered
<1>2. PICK b \in VisitRecord : b = Free /\ Worthy(b)' /\ b.at = "free"
  <2>1. Worthy(Free)'
    BY DEF Worthy, Free
  <2>2. Free.at = "free"
    BY DEF Free
  <2> QED
    BY <2>1, <2>2, FreeVisit DEF Worthy, Free
<1>3. VisitsInv' /\ LinksInv'
  BY <1>1, <1>2, VisitMoves
<1> QED
  BY <1>1, <1>3 DEF ConsoleInv

LEMMA GoesOn ==
    ASSUME ConsoleInv, links' = links, redeemed' = redeemed, StoresInv',
           NEW v \in Visits, NEW stage \in VisitStages, Step(v, stage),
           visit[v].at \notin {"free", "logout"},
           stage \in {"verified", "exchanging"} => visit[v].who = Gp /\ visit[v].good = TRUE,
           stage # "linking"
    PROVE  ConsoleInv'
<1>1. PICK b \in VisitRecord :
         /\ visit' = [visit EXCEPT ![v] = b]
         /\ b.at = stage /\ b.who = visit[v].who /\ b.token = visit[v].token
         /\ b.consent = visit[v].consent /\ b.good = visit[v].good
  BY Stepped
<1>2. visit[v].who \in People
  BY DEF ConsoleInv, VisitsInv, Worthy
<1>3. Worthy(b)'
  BY <1>1, <1>2 DEF Worthy
<1>4. VisitsInv' /\ LinksInv'
  BY <1>1, <1>3, VisitMoves
<1>5. unearned' = FALSE
  BY Stepped
<1> QED
  BY <1>4, <1>5 DEF ConsoleInv

\* What the decisions of the routes promise of an address.
LEMMA EntitledMeans ==
    ASSUME ConsoleInv, NEW p \in People, Entitled(p)
    PROVE  p = Gp \/ role[p] \in {"MEMBER", "LP"}
BY DEF Entitled, Allowed, TierOf, RoleFor, ConsoleInv, StoresInv

LEMMA TierMeans ==
    ASSUME ConsoleInv, NEW p \in People, TierOf(RoleFor(p)) \in {"real", "full"}
    PROVE  p = Gp \/ role[p] \in {"MEMBER", "LP"}
BY DEF TierOf, RoleFor, ConsoleInv, StoresInv

LEMMA WhoIsKnown ==
    ASSUME ConsoleInv, NEW v \in Visits, visit[v].at \notin {"free", "logout"}
    PROVE  visit[v].who \in People
BY DEF ConsoleInv, VisitsInv, Worthy

LEMMA StoresStay ==
    ASSUME ConsoleInv, UNCHANGED <<role, session, consents, linked>>
    PROVE  StoresInv'
BY DEF ConsoleInv, StoresInv

-----------------------------------------------------------------------------
LEMMA ArriveInv ==
    ASSUME ConsoleInv, NEW v \in Visits,
           \/ \E t \in Tokens, route \in Routes : Arrive(v, route, t)
           \/ \E p \in People : ArriveVerified(v, p)
    PROVE  ConsoleInv'
<1>1. StoresInv' /\ unearned' = FALSE /\ links' = links /\ redeemed' = redeemed
  BY StoresStay DEF Arrive, ArriveVerified, ConsoleInv
<1>2. PICK b \in VisitRecord : /\ visit' = [visit EXCEPT ![v] = b] /\ b.at \in Routes \cup {"social"}
                               /\ b.at # "logout" => b.who \in People
  <2>1. CASE \E p \in People : ArriveVerified(v, p)
    <3>1. PICK p \in People : ArriveVerified(v, p)
      BY <2>1
    <3>2. PICK b : b = [Free EXCEPT !.at = "social", !.who = p]
      OBVIOUS
    <3>3. b \in VisitRecord /\ b.at = "social" /\ b.who = p
      BY <3>2 DEF Free, VisitRecord, VisitStages
    <3> QED
      BY <3>1, <3>2, <3>3 DEF ArriveVerified
  <2>2. CASE \E t \in Tokens, route \in Routes : Arrive(v, route, t)
    <3>1. PICK t \in Tokens, route \in Routes : Arrive(v, route, t)
      BY <2>2
    <3>2. session[t] \in People \cup {Nobody} /\ (route # "logout" => session[t] # Nobody)
      BY <3>1 DEF Arrive, ConsoleInv, StoresInv
    <3>3. PICK c \in Nat, key \in Tokens \cup {Nobody} :
             visit' = [visit EXCEPT ![v] =
               [Free EXCEPT !.at = route, !.who = session[t], !.consent = c, !.token = key]]
      <4>1. consents \in Seq(ConsentRecord)
        BY DEF ConsoleInv, StoresInv
      <4>2. DOMAIN consents \subseteq Nat
        BY <4>1
      <4>3. PICK c \in IF route = "callback" THEN DOMAIN consents ELSE {0} :
              visit' = [visit EXCEPT ![v] =
                [Free EXCEPT !.at = route, !.who = session[t], !.consent = c,
                           !.token = IF route = "logout" THEN t ELSE Nobody]]
        BY <3>1 DEF Arrive
      <4>4. c \in Nat /\ (IF route = "logout" THEN t ELSE Nobody) \in Tokens \cup {Nobody}
        BY <4>2, <4>3
      <4> QED
        BY <4>3, <4>4
    <3>4. PICK b : b = [Free EXCEPT !.at = route, !.who = session[t], !.consent = c, !.token = key]
      OBVIOUS
    <3>5. b \in VisitRecord /\ b.at = route /\ b.who = session[t]
      BY <3>2, <3>4 DEF Free, VisitRecord, VisitStages
    <3> QED
      BY <3>2, <3>3, <3>4, <3>5
  <2> QED
    BY <2>1, <2>2
<1>3. b.at \notin {"verified", "exchanging", "linking"}
  BY <1>2 DEF Routes
<1>4. Worthy(b)'
  BY <1>2, <1>3 DEF Worthy
<1>5. VisitsInv' /\ LinksInv'
  BY <1>1, <1>2, <1>3, <1>4, VisitMoves
<1> QED
  BY <1>1, <1>5 DEF ConsoleInv

LEMMA TellInv ==
    ASSUME ConsoleInv, NEW v \in Visits,
           TellTier(v) \/ TellRealData(v) \/ TellRoster(v) \/ TellLink(v)
    PROVE  ConsoleInv'
<1>1. /\ StoresInv' /\ links' = links /\ redeemed' = redeemed /\ visit[v].who \in People
  BY StoresStay, WhoIsKnown DEF TellTier, TellRealData, TellRoster, TellLink
<1>2. CASE TellTier(v)
  <2>1. PICK what : what = TierOf(RoleFor(visit[v].who)) /\ Answer(v, what)
    BY <1>2 DEF TellTier
  <2>2. what \in {"real", "full", "synthetic"}
    BY <2>1 DEF TierOf
  <2>3. Earned(what, visit[v].who)
    BY <1>1, <2>1, <2>2, TierMeans DEF Earned
  <2> QED
    BY <1>1, <2>1, <2>3, EndsOK
<1>3. CASE TellRealData(v)
  <2>1. PICK what \in {"real data", "forbidden"} :
          Answer(v, what) /\ (what = "real data" => Entitled(visit[v].who))
    BY <1>3 DEF TellRealData
  <2>2. Earned(what, visit[v].who)
    BY <1>1, <2>1, EntitledMeans DEF Earned
  <2> QED
    BY <1>1, <2>1, <2>2, EndsOK
<1>4. CASE TellRoster(v)
  <2>1. PICK what \in {"roster", "forbidden"} :
          Answer(v, what) /\ (what = "roster" => visit[v].who = Gp)
    BY <1>4 DEF TellRoster, OperatorOnly
  <2>2. Earned(what, visit[v].who)
    BY <2>1 DEF Earned
  <2> QED
    BY <1>1, <2>1, <2>2, EndsOK
<1>5. CASE TellLink(v)
  <2>1. PICK what \in {"own link", "configuration"} :
          Answer(v, what) /\ (what = "own link" => visit[v].who \in linked)
    BY <1>5 DEF TellLink
  <2>2. Earned(what, visit[v].who)
    BY <2>1 DEF Earned, ConsoleInv, StoresInv
  <2> QED
    BY <1>1, <2>1, <2>2, EndsOK
<1> QED
  BY <1>2, <1>3, <1>4, <1>5

LEMMA MembersInv ==
    ASSUME ConsoleInv, NEW v \in Visits,
           (\E p \in People : Invite(v, p)) \/ Subscribe(v) \/ Upsert(v) \/ Admit(v)
    PROVE  ConsoleInv'
<1>1. /\ links' = links /\ redeemed' = redeemed /\ visit[v].at \notin {"free", "logout"}
      /\ UNCHANGED <<session, consents, linked>>
  BY DEF Invite, Subscribe, Upsert, Admit
<1>2. visit[v].who \in People /\ role \in [People -> Roles]
  BY <1>1, WhoIsKnown DEF ConsoleInv, StoresInv
<1>3. StoresInv'
  <2>1. role' = role \/ \E p \in People, r \in Roles \ {"GP"} : role' = [role EXCEPT ![p] = r]
                     \/ \E q \in People : role' = [role EXCEPT ![q] = role[q]]
    BY <1>2 DEF Invite, Subscribe, Upsert, Admit, Roles
  <2>2. /\ role' \in [People -> Roles]
        /\ \A p \in People : role'[p] = role[p] \/ role'[p] # "GP"
    BY <1>2, <2>1
  <2> QED
    BY <1>1, <2>2 DEF ConsoleInv, StoresInv
<1>4. CASE Subscribe(v)
  BY <1>1, <1>3, <1>4, EndsOK DEF Subscribe, Earned
<1>5. CASE Upsert(v)
  BY <1>1, <1>3, <1>5, GoesOn DEF Upsert, VisitStages
<1>6. CASE Admit(v)
  <2>1. CASE Step(v, "admitted")
    BY <1>1, <1>3, <2>1, GoesOn DEF VisitStages
  <2>2. CASE Answer(v, "forbidden")
    BY <1>1, <1>3, <2>2, EndsOK DEF Earned
  <2> QED
    BY <1>6, <2>1, <2>2 DEF Admit
<1>7. ASSUME NEW p \in People, Invite(v, p) PROVE ConsoleInv'
  <2>1. PICK what \in {"invited", "forbidden"} :
          Answer(v, what) /\ (what = "invited" => visit[v].who = Gp)
    BY <1>7 DEF Invite, OperatorOnly
  <2>2. Earned(what, visit[v].who)
    BY <2>1 DEF Earned
  <2> QED
    BY <1>1, <1>3, <2>1, <2>2, EndsOK
<1> QED
  BY <1>4, <1>5, <1>6, <1>7

LEMMA SessionsInv ==
    ASSUME ConsoleInv, NEW v \in Visits,
           DeleteSession(v) \/ \E t \in Tokens : CreateSession(v, t)
    PROVE  ConsoleInv'
<1>1. links' = links /\ redeemed' = redeemed /\ UNCHANGED <<role, consents, linked>>
  BY DEF DeleteSession, CreateSession
<1>2. PICK what \in {"logged out", "session"} : Answer(v, what)
  BY DEF DeleteSession, CreateSession
<1>3. Earned(what, visit[v].who)
  BY <1>2 DEF Earned
<1>4. StoresInv'
  <2>1. session \in [Tokens -> People \cup {Nobody}] /\ visit[v].who \in People \cup {Nobody}
    BY DEF ConsoleInv, StoresInv, VisitsInv, VisitRecord
  <2>2. session' \in [Tokens -> People \cup {Nobody}]
    BY <2>1 DEF DeleteSession, CreateSession
  <2> QED
    BY <1>1, <2>2 DEF ConsoleInv, StoresInv
<1> QED
  BY <1>1, <1>2, <1>3, <1>4, EndsOK

LEMMA ConsentMarked ==
    ASSUME NEW s \in Seq(ConsentRecord), NEW c, NEW mark \in {"open", "lapsed", "used"}
    PROVE  [s EXCEPT ![c].state = mark] \in Seq(ConsentRecord)
<1>1. PICK t : t = [s EXCEPT ![c].state = mark]
  OBVIOUS
<1>2. s \in [1..Len(s) -> ConsentRecord] /\ Len(s) \in Nat
  OBVIOUS
<1>3. \A r \in ConsentRecord : [r EXCEPT !.state = mark] \in ConsentRecord
  BY DEF ConsentRecord
<1>4. \A i \in 1..Len(s) : s[i] \in ConsentRecord
  BY <1>2
<1>5. t = [i \in 1..Len(s) |-> IF i = c THEN [s[i] EXCEPT !.state = mark] ELSE s[i]]
  BY <1>1, <1>2
<1>6. t \in [1..Len(s) -> ConsentRecord]
  BY <1>3, <1>4, <1>5
<1>7. t \in Seq(ConsentRecord)
  BY <1>2, <1>6
<1> QED
  BY <1>1, <1>7

LEMMA ConsentInv ==
    ASSUME ConsoleInv, NEW v \in Visits, AskConsent(v)
    PROVE  ConsoleInv'
<1>1. /\ links' = links /\ redeemed' = redeemed /\ UNCHANGED <<role, session, linked>>
      /\ visit[v].who \in People /\ consents \in Seq(ConsentRecord)
  BY WhoIsKnown DEF AskConsent, ConsoleInv, StoresInv
<1>2. PICK what \in {"consent", "forbidden"} :
        Answer(v, what) /\ (what = "consent" => visit[v].who = Gp)
  BY DEF AskConsent, MayLink, OperatorOnly
<1>3. Earned(what, visit[v].who)
  BY <1>2 DEF Earned
<1>4. consents' \in Seq(ConsentRecord)
  <2>1. PICK c : c = [who |-> visit[v].who, state |-> "open"]
    OBVIOUS
  <2>3. c \in ConsentRecord
    BY <1>1, <2>1 DEF ConsentRecord
  <2>2. consents' = consents \/ consents' = Append(consents, c)
    BY <2>1 DEF AskConsent
  <2> QED
    BY <1>1, <2>2, <2>3
<1>5. StoresInv'
  BY <1>1, <1>4 DEF ConsoleInv, StoresInv
<1> QED
  BY <1>1, <1>2, <1>3, <1>5, EndsOK

LEMMA CallbackInv ==
    ASSUME ConsoleInv, NEW v \in Visits, VerifyState(v)
    PROVE  ConsoleInv'
<1>1. links' = links /\ redeemed' = redeemed /\ StoresInv'
  BY StoresStay DEF VerifyState
<1>2. CASE Answer(v, "refused")
  BY <1>1, <1>2, EndsOK DEF Earned
<1>3. CASE MayLink(visit[v].who) /\ Spendable(visit[v].consent, visit[v].who) /\ ~Answer(v, "refused")
  <2>1. PICK good : good = (consents[visit[v].consent].state = "open")
    OBVIOUS
  <2>2. good = TRUE
    <3>1. PICK c : c = consents[visit[v].consent]
      OBVIOUS
    <3>2. c = [who |-> visit[v].who, state |-> "open"]
      BY <1>3, <3>1 DEF Spendable
    <3>3. c.state = "open"
      BY <3>2
    <3> QED
      BY <2>1, <3>1, <3>3
  <2>3. visit[v] \in VisitRecord
    BY DEF ConsoleInv, VisitsInv
  <2>4. PICK b : b = [visit[v] EXCEPT !.at = "verified", !.good = good]
    OBVIOUS
  <2>5. b \in VisitRecord /\ b.at = "verified" /\ b.who = visit[v].who /\ b.good = TRUE
    BY <2>2, <2>3, <2>4 DEF VisitRecord, VisitStages
  <2>6. visit' = [visit EXCEPT ![v] = b] /\ unearned' = unearned
    BY <1>3, <2>1, <2>4 DEF VerifyState
  <2>7. visit[v].who = Gp
    BY <1>3 DEF MayLink, OperatorOnly
  <2>8. Worthy(b)'
    BY <2>5, <2>7, ConsoleAssumption DEF Worthy
  <2>9. VisitsInv' /\ LinksInv'
    BY <1>1, <2>5, <2>6, <2>8, VisitMoves
  <2> QED
    BY <1>1, <2>6, <2>9 DEF ConsoleInv
<1> QED
  BY <1>2, <1>3 DEF VerifyState

LEMMA GrantInv ==
    ASSUME ConsoleInv, NEW v \in Visits, SpendState(v)
    PROVE  ConsoleInv'
<1>1. links' = links /\ redeemed' = redeemed /\ UNCHANGED <<role, session, linked>>
      /\ visit[v].at = "verified"
  BY DEF SpendState
<1>2. visit[v].who = Gp /\ visit[v].good = TRUE
  BY <1>1 DEF ConsoleInv, VisitsInv, Worthy
<1>3. consents' \in Seq(ConsentRecord)
  <2>1. consents \in Seq(ConsentRecord)
    BY DEF ConsoleInv, StoresInv
  <2>2. CASE consents' = consents
    BY <2>1, <2>2
  <2>3. CASE consents' = [consents EXCEPT ![visit[v].consent].state = "used"]
    BY <2>1, <2>3, ConsentMarked
  <2> QED
    BY <2>2, <2>3 DEF SpendState
<1>4. StoresInv'
  BY <1>1, <1>3 DEF ConsoleInv, StoresInv
<1>5. CASE Step(v, "exchanging")
  BY <1>1, <1>2, <1>4, <1>5, GoesOn DEF VisitStages
<1>6. CASE Answer(v, "error")
  BY <1>1, <1>4, <1>6, EndsOK DEF Earned
<1> QED
  BY <1>5, <1>6 DEF SpendState

\* The broker gives one grant for a code, so that no two visits link on one.
LEMMA ExchangeInv ==
    ASSUME ConsoleInv, NEW v \in Visits, ExchangeCode(v)
    PROVE  ConsoleInv'
<1>1. links' = links /\ StoresInv' /\ visit[v].at = "exchanging" /\ redeemed \subseteq redeemed'
  BY StoresStay DEF ExchangeCode
<1>2. CASE Answer(v, "error")
  BY <1>1, <1>2, EndsOK DEF Earned
<1>3. CASE /\ Step(v, "linking") /\ visit[v].consent \notin redeemed
           /\ redeemed' = redeemed \cup {visit[v].consent}
  <2>1. PICK b \in VisitRecord :
           /\ visit' = [visit EXCEPT ![v] = b]
           /\ b.at = "linking" /\ b.who = visit[v].who /\ b.token = visit[v].token
           /\ b.consent = visit[v].consent /\ b.good = visit[v].good
    <3>1. "linking" \in VisitStages
      BY DEF VisitStages
    <3> QED
      BY <1>3, <3>1, Stepped
  <2>2. visit[v].who = Gp /\ visit[v].good = TRUE
    BY <1>1 DEF ConsoleInv, VisitsInv, Worthy
  <2>3. Worthy(b)'
    BY <1>3, <2>1, <2>2, ConsoleAssumption DEF Worthy
  <2>4. VisitsInv' /\ LinksInv'
    BY <1>1, <1>3, <2>1, <2>3, VisitMoves
  <2>5. unearned' = FALSE
    BY <1>3 DEF Step, ConsoleInv
  <2> QED
    BY <1>1, <2>4, <2>5 DEF ConsoleInv
<1> QED
  BY <1>2, <1>3 DEF ExchangeCode, TakeGrant

LEMMA LinkInv ==
    ASSUME ConsoleInv, NEW v \in Visits, Link(v)
    PROVE  ConsoleInv'
<1>1. redeemed' = redeemed /\ UNCHANGED <<role, session, consents>> /\ visit[v].at = "linking"
  BY DEF Link
<1>2. visit[v].who = Gp /\ visit[v].good = TRUE /\ visit[v].consent \in redeemed
  BY <1>1 DEF ConsoleInv, VisitsInv, Worthy
<1>3. CASE Answer(v, "error") /\ UNCHANGED <<linked, links>>
  BY <1>1, <1>3, StoresStay, EndsOK DEF Earned
<1>4. CASE /\ Answer(v, "linked") /\ linked' = linked \cup {visit[v].who}
           /\ links' = Append(links, [who |-> visit[v].who, consent |-> visit[v].consent,
                                      good |-> visit[v].good])
  <2>1. PICK new : /\ new = [who |-> visit[v].who, consent |-> visit[v].consent,
                             good |-> visit[v].good]
                   /\ links' = Append(links, new)
    BY <1>4
  <2>2. new \in LinkRecord /\ new.consent = visit[v].consent
    BY <1>2, <2>1 DEF LinkRecord
  <2>3. visit' = [visit EXCEPT ![v] = Free] /\ unearned' = FALSE
    <3>1. Earned("linked", visit[v].who)
      BY <1>2 DEF Earned
    <3> QED
      BY <1>4, <3>1, Answered
  <2>4. StoresInv'
    BY <1>1, <1>2, <1>4 DEF ConsoleInv, StoresInv
  <2>5. /\ links \in Seq(LinkRecord) /\ LinkRecord' = LinkRecord
    BY <1>1 DEF ConsoleInv, LinksInv, LinkRecord
  <2>6. /\ links' \in Seq(LinkRecord)
        /\ \A i \in DOMAIN links' : \/ i \in DOMAIN links /\ links'[i] = links[i]
                                    \/ i = Len(links) + 1 /\ links'[i] = new
    BY <2>1, <2>2, <2>5
  <2>7. \A i \in DOMAIN links : links[i].consent # visit[v].consent
    BY <1>1 DEF ConsoleInv, VisitsInv
  <2>8. LinksInv'
    <3>1. \A i, j \in DOMAIN links' : links'[i].consent = links'[j].consent => i = j
      BY <2>2, <2>6, <2>7 DEF ConsoleInv, LinksInv
    <3> QED
      BY <2>5, <2>6, <3>1 DEF LinksInv
  <2>9. /\ visit \in [Visits -> VisitRecord] /\ \A w \in Visits : Worthy(visit[w])
    BY DEF ConsoleInv, VisitsInv
  <2>10. PICK f \in VisitRecord : /\ visit' = [visit EXCEPT ![v] = f]
                                  /\ f.at = "free"
    <3>1. Free.at = "free"
      BY DEF Free
    <3> QED
      BY <2>3, <3>1, FreeVisit
  <2>11. /\ visit' \in [Visits -> VisitRecord] /\ visit'[v] = f
         /\ \A w \in Visits : w # v => visit'[w] = visit[w]
    BY <2>9, <2>10
  <2>12. ASSUME NEW w \in Visits PROVE Worthy(visit[w])'
    <3>1. CASE w = v
      BY <2>10, <2>11, <3>1 DEF Worthy
    <3>2. CASE w # v
      BY <1>1, <2>9, <2>11, <3>2 DEF Worthy
    <3> QED
      BY <3>1, <3>2
  <2>13. ASSUME NEW w \in Visits, visit'[w].at = "linking", NEW i \in DOMAIN links'
         PROVE  links'[i].consent # visit'[w].consent
    <3>1. w # v /\ visit'[w] = visit[w]
      BY <2>10, <2>11, <2>13
    <3>2. visit[w].consent # visit[v].consent
      BY <1>1, <2>13, <3>1 DEF ConsoleInv, VisitsInv
    <3>3. \A j \in DOMAIN links : links[j].consent # visit[w].consent
      BY <2>13, <3>1 DEF ConsoleInv, VisitsInv
    <3> QED
      BY <2>2, <2>6, <3>1, <3>2, <3>3
  <2>14. ASSUME NEW w \in Visits, NEW u \in Visits, visit'[w].at = "linking",
                visit'[u].at = "linking", visit'[w].consent = visit'[u].consent
         PROVE  w = u
    BY <2>10, <2>11, <2>14 DEF ConsoleInv, VisitsInv
  <2>15. VisitsInv'
    BY <2>11, <2>12, <2>13, <2>14 DEF VisitsInv
  <2> QED
    BY <2>3, <2>4, <2>8, <2>15 DEF ConsoleInv
<1> QED
  BY <1>3, <1>4 DEF Link

LEMMA BrokerInv ==
    ASSUME ConsoleInv, NEW v \in Visits,
           \/ Unlink(v) \/ DecideStatus(v) \/ DecideMarket(v) \/ CheckLink(v) \/ ReadMarket(v)
    PROVE  ConsoleInv'
<1>1. /\ links' = links /\ redeemed' = redeemed /\ UNCHANGED <<role, session, consents>>
      /\ linked' \subseteq linked /\ visit[v].at \notin {"free", "logout"}
  BY DEF Unlink, DecideStatus, DecideMarket, CheckLink, ReadMarket
<1>2. StoresInv'
  BY <1>1 DEF ConsoleInv, StoresInv
<1>3. CASE \E what \in {"unlinked", "configuration", "forbidden", "no broker linked", "error"} :
              Answer(v, what)
  BY <1>1, <1>2, <1>3, EndsOK DEF Earned
<1>4. CASE \E stage \in {"looking", "checking", "reading"} : Step(v, stage)
  <2>1. PICK stage \in {"looking", "checking", "reading"} : Step(v, stage)
    BY <1>4
  <2> QED
    BY <1>1, <1>2, <2>1, GoesOn DEF VisitStages
<1>5. CASE visit[v].who \in linked /\ Answer(v, "market data")
  <2>1. Earned("market data", visit[v].who)
    BY <1>5 DEF Earned, ConsoleInv, StoresInv
  <2> QED
    BY <1>1, <1>2, <1>5, <2>1, EndsOK
<1> QED
  BY <1>3, <1>4, <1>5 DEF Unlink, DecideStatus, DecideMarket, CheckLink, ReadMarket

LEMMA LapseInv ==
    ASSUME ConsoleInv, Lapse
    PROVE  ConsoleInv'
<1>1. UNCHANGED <<redeemed, linked, visit, unearned, links>>
  BY DEF Lapse
<1>2. VisitsInv' /\ LinksInv' /\ unearned' = FALSE
  BY <1>1 DEF ConsoleInv, VisitsInv, LinksInv, LinkRecord, Worthy, VisitRecord
<1>3. /\ role \in [People -> Roles] /\ (\A p \in People : role[p] = "GP" => p = Gp)
      /\ session \in [Tokens -> People \cup {Nobody}] /\ consents \in Seq(ConsentRecord)
      /\ linked \subseteq {Gp}
  BY DEF ConsoleInv, StoresInv
<1>4. CASE (\E p \in People : role' = [role EXCEPT ![p] = "LAPSED"]) /\ UNCHANGED <<session, consents>>
  BY <1>1, <1>2, <1>3, <1>4 DEF ConsoleInv, StoresInv, Roles
<1>5. CASE (\E t \in Tokens : session' = [session EXCEPT ![t] = Nobody]) /\ UNCHANGED <<role, consents>>
  BY <1>1, <1>2, <1>3, <1>5 DEF ConsoleInv, StoresInv
<1>6. CASE /\ \E c \in DOMAIN consents : consents' = [consents EXCEPT ![c].state = "lapsed"]
           /\ UNCHANGED <<role, session>>
  <2>1. consents' \in Seq(ConsentRecord)
    <3>1. PICK c \in DOMAIN consents : consents' = [consents EXCEPT ![c].state = "lapsed"]
      BY <1>6
    <3> QED
      BY <1>3, <3>1, ConsentMarked
  <2> QED
    BY <1>1, <1>2, <1>3, <1>6, <2>1 DEF ConsoleInv, StoresInv
<1> QED
  BY <1>4, <1>5, <1>6 DEF Lapse

LEMMA ConsoleKept ==
    ASSUME ConsoleInv, [ConsoleNext]_consoleVars
    PROVE  ConsoleInv'
<1>1. CASE UNCHANGED consoleVars
  BY <1>1 DEF consoleVars, ConsoleInv, StoresInv, VisitsInv, LinksInv, LinkRecord, Worthy,
              VisitRecord
<1>2. ASSUME NEW v \in Visits,
             \/ \E t \in Tokens : CreateSession(v, t) \/ \E route \in Routes : Arrive(v, route, t)
             \/ \E p \in People : ArriveVerified(v, p) \/ Invite(v, p)
             \/ TellTier(v) \/ TellRealData(v) \/ TellRoster(v) \/ Subscribe(v) \/ DeleteSession(v)
             \/ Upsert(v) \/ Admit(v)
             \/ AskConsent(v) \/ VerifyState(v) \/ SpendState(v) \/ ExchangeCode(v) \/ Link(v)
             \/ Unlink(v) \/ DecideStatus(v) \/ TellLink(v) \/ DecideMarket(v) \/ CheckLink(v)
             \/ ReadMarket(v)
      PROVE  ConsoleInv'
  BY <1>2, ArriveInv, TellInv, MembersInv, SessionsInv, ConsentInv, CallbackInv, GrantInv,
     ExchangeInv, LinkInv, BrokerInv
<1> QED
  BY <1>1, <1>2, LapseInv DEF ConsoleNext

LEMMA ConsoleStarts ==
    ASSUME ConsoleInit
    PROVE  ConsoleInv
<1>1. StoresInv
  BY ConsoleAssumption DEF ConsoleInit, StoresInv, Roles, ConsentRecord
<1>2. visit = [v \in Visits |-> Free] /\ links = <<>> /\ unearned = FALSE
  BY DEF ConsoleInit
<1>3. VisitsInv
  <2>1. Free.at = "free"
    BY DEF Free
  <2> QED
    BY <1>2, <2>1, FreeVisit DEF VisitsInv
<1>4. LinksInv
  BY <1>2 DEF LinksInv
<1> QED
  BY <1>1, <1>2, <1>3, <1>4 DEF ConsoleInv

(* Whatever other visits do between a visit's decision and its answer,     *)
(* real data goes to members, the broker's data and the roster to the      *)
(* operator, and each link is the operator's on a consent of its own       *)
(* (auth_app.py, the signed-in routes; tier_access.py).                    *)
THEOREM ConsoleTheorem == ConsoleSpec => []ConsoleSound
<1>1. ConsoleInit => ConsoleInv
  BY ConsoleStarts
<1>2. ConsoleInv /\ [ConsoleNext]_consoleVars => ConsoleInv'
  BY ConsoleKept
<1>3. ConsoleInv => ConsoleSound
  <2> SUFFICES ASSUME ConsoleInv PROVE ConsoleSound
    OBVIOUS
  <2>1. ASSUME NEW i \in DOMAIN links PROVE links[i].who = Gp /\ links[i].good
    <3>1. links[i] \in LinkRecord
      BY DEF ConsoleInv, LinksInv
    <3>2. links[i].who = Gp /\ links[i].good = TRUE
      BY <3>1 DEF LinkRecord
    <3> QED
      BY <3>2
  <2>2. \A i, j \in DOMAIN links : links[i].consent = links[j].consent => i = j
    BY DEF ConsoleInv, LinksInv
  <2>3. ~unearned
    BY DEF ConsoleInv
  <2> QED
    BY <2>1, <2>2, <2>3 DEF ConsoleSound, LinksConsented, AnswersEarned
<1> QED
  BY <1>1, <1>2, <1>3, PTL DEF ConsoleSpec
=============================================================================
