-------------------------- MODULE PaperSerialProofs --------------------------
(***************************************************************************)
(* What holds of the paper files when commands run one at a time, for any  *)
(* plans, terms and days, and wherever a command dies: the properties the  *)
(* runs check of serialized commands, and the refinement of PaperPosition. *)
(*                                                                         *)
(* None of them is inductive: what a command writes it has computed from   *)
(* what it read, several steps before.  SerialInv says what the memory of  *)
(* the one running command holds, at each of its steps, of the files as    *)
(* they are now.                                                           *)
(***************************************************************************)
EXTENDS PaperLifecycleProofs, PaperRefinement

Alone(q) == \A r \in Procs : r # q => Idle(r)
OneCommand == \A q \in Procs : ~Idle(q) => Alone(q)

ArtifactOf(p, close) ==
    /\ p \notin torn.closes /\ closes[p] = close
    /\ [plan |-> p, close |-> close] \in closings

(* What an entry of plan p, in the state file or about to be, rests on.    *)
EntryBacked(p, e) ==
    /\ e.status = "ABSENT" => e = NoEntry
    /\ e.status = "CLOSED" => ArtifactOf(p, e.close)
    /\ e.status \in {"OPEN", "CLOSED"} => ApprovedBy(e.hash, e.open.at)
    /\ e.status = "OPEN" /\ planFile[p].hash = e.hash => planFile[p].auth = "APPROVED"

StateBacked == \A p \in PlanIds : EntryBacked(p, state[p])

(* What a write of the state file may not lose of an entry.                *)
Keeps(old, new) ==
    /\ old.escalations \subseteq new.escalations
    /\ old.status = "CLOSED" => new.status = "CLOSED" /\ new.close = old.close

(* What a tick may make of it.                                             *)
Ticked(p, old, new) ==
    \/ new.status = old.status /\ new.hash = old.hash
    \/ \E h \in Approved :
          /\ Terms[h].id = p /\ new.hash = h
          /\ \/ old.status = "ABSENT" /\ new.status \in {"PENDING_OPEN", "OPEN"}
             \/ old.status = "PENDING_OPEN" /\ old.hash = h /\ new.status = "OPEN"

TickedEntry(p, e) ==
    EntryBacked(p, e) /\ Keeps(state[p], e) /\ Ticked(p, state[p], e)

Closing(m) ==
    /\ state[m.id].status = "OPEN"
    /\ m.st = [state EXCEPT ![m.id] = [@ EXCEPT !.status = "CLOSED", !.close = m.close]]

(* The outcome a settler carries is that of the close in the state.        *)
OutcomeOfState(p, outcome) ==
    outcome \in CloseOutcomes =>
        /\ state[p].status = "CLOSED"
        /\ outcome = OutcomeForRealizedPnl(state[p].close.pnl)

CommandSound(m) ==
    /\ m.step # "idle" => m.now <= clock /\ \A d \in decisions : d.at <= m.now
    /\ m.step = "writePlan" =>
          m.plan.hash \in issued /\ \A d \in decisions : d.hash # m.plan.hash
    /\ m.step = "scan" => m.id = None /\ \A p \in m.todo : m.st[p] = state[p]
    /\ m.step \in {"scan", "truncState", "writeState"} /\ m.id = None =>
          \A p \in PlanIds : TickedEntry(p, m.st[p])
    /\ m.step \in {"truncClose", "writeClose"} => Closing(m)
    /\ m.step = "writeClose" => m.id \in torn.closes
    /\ m.step \in {"truncState", "writeState"} /\ m.id # None =>
          m.id \in PlanIds /\ Closing(m) /\ ArtifactOf(m.id, m.close)
    /\ m.step \in {"truncManifest", "writeManifest",
                   "settle", "checkLog", "countLog", "appendLog"} => m.st = state
    /\ m.step \in {"checkLog", "countLog", "appendLog"} =>
          OutcomeOfState(m.id, m.outcome)
    /\ m.step \in {"countLog", "appendLog"} => ~Recorded(m.id, m.outcome)
    /\ m.step = "appendLog" => m.seq = Len(log) + 1

CommandsSound == \A q \in Procs : CommandSound(proc[q])

PlansDecided ==
    /\ \A p \in PlanIds : planFile[p].hash # None => planFile[p].hash \in issued
    /\ \A d \in decisions :
          /\ d.hash \in issued /\ d.at <= clock
          /\ \A p \in PlanIds : planFile[p].hash = d.hash => planFile[p].auth # "PENDING"

LogSound == OutcomeMatchesState /\ LogNumbered /\ OutcomeRecordedOnce

FilesSound ==
    /\ StateBacked /\ ManifestNotAhead
    /\ PlansDecided /\ DecisionFinal
    /\ LogSound

SerialInv == OneCommand /\ CommandsSound /\ FilesSound

PaperInv == TypeInv /\ AuthInv /\ SerialInv

-----------------------------------------------------------------------------
(* One command at a time.                                                  *)

LEMMA AtWork ==
    ASSUME OneCommand, NEW q \in Procs, proc[q].step # "idle"
    PROVE  Alone(q)
BY DEF OneCommand, Idle

LEMMA StartsAlone ==
    ASSUME Serialized, NEW q \in Procs, CanStart(q)
    PROVE  Alone(q)
BY DEF CanStart, Alone

LEMMA IdleSound == ASSUME NEW m, m.step = "idle" PROVE CommandSound(m)
BY DEF CommandSound

LEMMA IdleSoundNext == ASSUME NEW m, m.step = "idle" PROVE CommandSound(m)'
BY DEF CommandSound

(* The only command running moves on, or is started, or ends.              *)
LEMMA AloneStep ==
    ASSUME ProcsOK, NEW q \in Procs, Alone(q), NEW m, Becomes(q, m),
           CommandSound(m)'
    PROVE  OneCommand' /\ CommandsSound'
<1>1. proc'[q] = m /\ \A r \in Procs : r # q => proc'[r] = proc[r]
  BY DEF ProcsOK, Becomes
<1>2. \A r \in Procs : r # q => proc'[r].step = "idle"
  BY <1>1 DEF Alone, Idle
<1>3. OneCommand'
  BY <1>2 DEF OneCommand, Alone, Idle
<1>4. CommandsSound'
  <2> SUFFICES ASSUME NEW r \in Procs PROVE CommandSound(proc[r])'
    BY DEF CommandsSound
  <2>1. CASE r = q
    BY <1>1, <2>1
  <2>2. CASE r # q
    <3>1. \E x : x = proc'[r] /\ x.step = "idle"
      BY <1>2, <2>2
    <3> QED
      BY <3>1, IdleSoundNext
  <2> QED
    BY <2>1, <2>2
<1> QED
  BY <1>3, <1>4

-----------------------------------------------------------------------------
(* Steps that change no file but the readability of state, manifest and    *)
(* log, which the invariant does not mention.                              *)

SameFiles ==
    /\ UNCHANGED <<clock, planFile, state, manifest, closes, log, history>>
    /\ torn'.closes = torn.closes

LEMMA SameEntry ==
    ASSUME SameFiles, NEW p, NEW e, EntryBacked(p, e)
    PROVE  EntryBacked(p, e)'
BY DEF SameFiles, history, EntryBacked, ArtifactOf, ApprovedBy

LEMMA SameTicked ==
    ASSUME SameFiles, NEW p, NEW e, TickedEntry(p, e)
    PROVE  TickedEntry(p, e)'
<1>1. EntryBacked(p, e)'
  BY SameEntry DEF TickedEntry
<1>2. state' = state /\ decisions' = decisions
  BY DEF SameFiles, history
<1> QED
  BY <1>1, <1>2 DEF TickedEntry, Ticked, Approved

LEMMA SameCommand ==
    ASSUME SameFiles, NEW m, CommandSound(m)
    PROVE  CommandSound(m)'
<1>1. /\ clock' = clock /\ state' = state /\ log' = log /\ closes' = closes
      /\ issued' = issued /\ decisions' = decisions /\ closings' = closings
      /\ torn'.closes = torn.closes
  BY DEF SameFiles, history
<1>2. Closing(m) => Closing(m)'
  BY <1>1 DEF Closing
<1>3. ArtifactOf(m.id, m.close) => ArtifactOf(m.id, m.close)'
  BY <1>1 DEF ArtifactOf
<1>4. OutcomeOfState(m.id, m.outcome) => OutcomeOfState(m.id, m.outcome)'
  BY <1>1 DEF OutcomeOfState
<1>5. Recorded(m.id, m.outcome)' = Recorded(m.id, m.outcome)
  BY <1>1 DEF Recorded
<1>6. \A p : TickedEntry(p, m.st[p]) => TickedEntry(p, m.st[p])'
  BY SameTicked
<1> QED
  BY <1>1, <1>2, <1>3, <1>4, <1>5, <1>6 DEF CommandSound

LEMMA SameSound == FilesSound /\ SameFiles => FilesSound'
<1> SUFFICES ASSUME FilesSound, SameFiles PROVE FilesSound'
  OBVIOUS
<1>1. /\ clock' = clock /\ state' = state /\ log' = log /\ manifest' = manifest
      /\ planFile' = planFile /\ issued' = issued /\ decisions' = decisions
  BY DEF SameFiles, history
<1>2. StateBacked'
  <2>1. \A p, e : EntryBacked(p, e) => EntryBacked(p, e)'
    BY SameEntry
  <2> QED
    BY <1>1, <2>1 DEF FilesSound, StateBacked
<1>3. ManifestNotAhead'
  BY <1>1 DEF FilesSound, ManifestNotAhead
<1>4. PlansDecided' /\ DecisionFinal'
  BY <1>1 DEF FilesSound, PlansDecided, DecisionFinal
<1>5. LogSound'
  BY <1>1 DEF FilesSound, LogSound, OutcomeMatchesState, LogNumbered, OutcomeRecordedOnce
<1> QED
  BY <1>2, <1>3, <1>4, <1>5 DEF FilesSound

LEMMA QuietStep ==
    ASSUME ProcsOK, SerialInv, SameFiles, NEW q \in Procs, Alone(q),
           NEW m, CommandSound(m), Becomes(q, m)
    PROVE  SerialInv'
BY AloneStep, SameCommand, SameSound DEF SerialInv

LEMMA FinishQuietly ==
    ASSUME ProcsOK, SerialInv, SameFiles, NEW q \in Procs, Alone(q), Finish(q)
    PROVE  SerialInv'
BY QuietStep, IdleSound DEF Finish, IdleProcess

-----------------------------------------------------------------------------
(* Deciding.                                                               *)

LEMMA DecideStartSerial ==
    ASSUME Serialized, PaperInv, NEW q \in Procs, NEW p \in PlanIds,
           NEW v \in Verdicts, DecideStart(q, p, v)
    PROVE  SerialInv'
<1> DEFINE m == [IdleProcess EXCEPT
                    !.step = "writePlan", !.now = clock, !.id = p,
                    !.plan = [planFile[p] EXCEPT !.auth = v]]
<1>1. ProcsOK /\ SerialInv /\ SameFiles /\ Alone(q)
  BY StartsAlone DEF DecideStart, PaperInv, TypeInv, SameFiles, files
<1>2. /\ planFile[p] \in PlanRecord /\ planFile[p].hash # None
      /\ planFile[p].auth = "PENDING" /\ clock \in Nat
  BY DEF DecideStart, CanDecide, CanApprove, CanReject, PaperInv, TypeInv, TypeOK
<1>3. m.step = "writePlan" /\ m.now = clock /\ m.plan.hash = planFile[p].hash
  BY <1>2 DEF IdleProcess, PlanRecord
<1>4. /\ planFile[p].hash \in issued
      /\ \A d \in decisions : d.hash # planFile[p].hash /\ d.at <= clock
  BY <1>1, <1>2 DEF SerialInv, FilesSound, PlansDecided
<1>5. CommandSound(m)
  BY <1>2, <1>3, <1>4 DEF CommandSound
<1> QED
  BY <1>1, <1>5, QuietStep DEF DecideStart

(* No decision of this plan was ever written, so no open rests on one.     *)
LEMMA DecideWriteSerial ==
    ASSUME PaperInv, NEW q \in Procs, DecideWrite(q)
    PROVE  SerialInv'
<1> DEFINE m == proc[q]
           d == [hash |-> m.plan.hash, verdict |-> m.plan.auth, at |-> m.now]
<1>1. ProcsOK /\ SerialInv /\ m \in Process /\ CommandSound(m) /\ m.step = "writePlan"
  BY DEF DecideWrite, PaperInv, TypeInv, ProcsOK, SerialInv, CommandsSound
<1>2. Alone(q)
  BY <1>1, AtWork DEF SerialInv
<1>3. /\ m.plan.hash \in issued /\ \A x \in decisions : x.hash # m.plan.hash
      /\ m.now <= clock
  BY <1>1 DEF CommandSound
<1>4. m.id \in PlanIds /\ m.plan.auth \in Verdicts /\ Terms[m.plan.hash].id = m.id
  BY <1>1 DEF PaperInv, TypeInv, ProcsOK, MemoryOK, AuthInv, ProcsAuthorized,
              MemoryAuthorized, DecisionSound
<1>5. /\ planFile' = [planFile EXCEPT ![m.id] = m.plan]
      /\ decisions' = decisions \cup {d}
      /\ UNCHANGED <<clock, state, manifest, closes, log, torn, issued, closings>>
  BY DEF DecideWrite
<1>6. \A p \in PlanIds : planFile'[p] = IF p = m.id THEN m.plan ELSE planFile[p]
  BY <1>4, <1>5 DEF PaperInv, TypeInv, TypeOK
<1>7. OneCommand' /\ CommandsSound'
  BY <1>1, <1>2, AloneStep, IdleSoundNext DEF DecideWrite, Finish, IdleProcess
<1>8. StateBacked'
  <2> SUFFICES ASSUME NEW p \in PlanIds PROVE EntryBacked(p, state[p])'
    BY DEF StateBacked
  <2>1. EntryBacked(p, state[p])
    BY <1>1 DEF SerialInv, FilesSound, StateBacked
  <2>2. state[p].status \in {"OPEN", "CLOSED"} =>
            state[p].hash # m.plan.hash /\ ApprovedBy(state[p].hash, state[p].open.at)'
    BY <1>3, <1>5, <2>1 DEF EntryBacked, ApprovedBy
  <2> QED
    BY <1>5, <1>6, <2>1, <2>2 DEF EntryBacked, ArtifactOf
<1>9. ManifestNotAhead' /\ LogSound'
  BY <1>1, <1>5 DEF SerialInv, FilesSound, ManifestNotAhead, LogSound,
                    OutcomeMatchesState, LogNumbered, OutcomeRecordedOnce
<1>10. PlansDecided'
  <2>1. \A p \in PlanIds : planFile'[p].hash # None => planFile'[p].hash \in issued'
    BY <1>1, <1>3, <1>5, <1>6 DEF SerialInv, FilesSound, PlansDecided
  <2>2. ASSUME NEW p \in PlanIds, planFile'[p].hash = m.plan.hash
        PROVE  planFile'[p].auth # "PENDING"
    <3>1. CASE p = m.id
      BY <1>4, <1>6, <3>1 DEF Verdicts
    <3>2. CASE p # m.id
      <4>1. planFile[p].hash = m.plan.hash /\ m.plan.hash # None
        BY <1>1, <1>6, <2>2, <3>2, NoneAssumption
        DEF PaperInv, TypeInv, ProcsOK, MemoryOK
      <4>2. Terms[planFile[p].hash].id = p
        BY <4>1 DEF PaperInv, AuthInv, PlansAuthorized, PlanAuthorized
      <4> QED
        BY <1>4, <3>2, <4>1, <4>2
    <3> QED
      BY <3>1, <3>2
  <2>3. ASSUME NEW x \in decisions, NEW p \in PlanIds, planFile'[p].hash = x.hash
        PROVE  planFile'[p].auth # "PENDING"
    BY <1>1, <1>3, <1>6, <2>3 DEF SerialInv, FilesSound, PlansDecided
  <2>4. \A x \in decisions : x.hash \in issued /\ x.at <= clock
    BY <1>1 DEF SerialInv, FilesSound, PlansDecided
  <2> QED
    BY <1>3, <1>5, <2>1, <2>2, <2>3, <2>4 DEF PlansDecided
<1>11. DecisionFinal'
  BY <1>1, <1>3, <1>5 DEF SerialInv, FilesSound, DecisionFinal
<1> QED
  BY <1>7, <1>8, <1>9, <1>10, <1>11 DEF SerialInv, FilesSound

-----------------------------------------------------------------------------
(* The tick.                                                               *)

(* The entry a tick makes of a plan it finds approved.                     *)
LEMMA EntryForTicked ==
    ASSUME NEW p \in PlanIds, NEW st \in RunnerState, st[p] = state[p],
           state[p] \in Entry, EntryBacked(p, state[p]),
           PlanAuthorized(p, planFile[p]), planFile[p].auth = "APPROVED"
    PROVE  TickedEntry(p, EntryFor(st, p))
<1>1. planFile[p].hash \in Approved /\ Terms[planFile[p].hash].id = p
  BY DEF PlanAuthorized, ApprovedBy, Approved
<1>2. CASE state[p].status = "ABSENT"
  <2>1. state[p] = NoEntry
    BY <1>2 DEF EntryBacked
  <2>2. EntryFor(st, p) = NewEntry(planFile[p].hash)
    BY <1>2 DEF EntryFor
  <2>3. /\ NewEntry(planFile[p].hash).status = "PENDING_OPEN"
        /\ NewEntry(planFile[p].hash).hash = planFile[p].hash
        /\ NoEntry.status = "ABSENT" /\ NoEntry.escalations = {}
    BY DEF NewEntry, NoEntry
  <2> QED
    BY <1>1, <2>1, <2>2, <2>3 DEF TickedEntry, EntryBacked, Keeps, Ticked
<1>3. CASE state[p].status # "ABSENT"
  BY <1>3 DEF EntryFor, TickedEntry, Keeps, Ticked
<1> QED
  BY <1>2, <1>3

LEMMA EscalatedTicked ==
    ASSUME NEW p \in PlanIds, NEW e \in Entry, TickedEntry(p, e),
           e.status # "ABSENT", NEW action, NEW now
    PROVE  TickedEntry(p, Escalated(e, action, now))
<1> DEFINE x == Escalated(e, action, now)
<1>1. /\ x.status = e.status /\ x.hash = e.hash /\ x.open = e.open
      /\ x.close = e.close /\ e.escalations \subseteq x.escalations
  BY DEF Escalated, Entry
<1> QED
  BY <1>1 DEF TickedEntry, EntryBacked, Keeps, Ticked

LEMMA OpenedTicked ==
    ASSUME NEW p \in PlanIds, NEW e \in Entry, TickedEntry(p, e),
           e.status = "PENDING_OPEN", NEW now, planFile[p].auth = "APPROVED",
           PlanAuthorized(p, planFile[p]), Bound(e, planFile[p]),
           ApprovedBy(planFile[p].hash, now)
    PROVE  TickedEntry(p, Opened(e, planFile[p].hash, now))
<1> DEFINE h == planFile[p].hash
           x == Opened(e, h, now)
<1>1. /\ x.status = "OPEN" /\ x.hash = h /\ x.open.at = now
      /\ x.escalations = e.escalations /\ e.hash = h
  BY DEF Opened, Bound, Entry
<1>2. h \in Approved /\ Terms[h].id = p
  BY DEF PlanAuthorized, ApprovedBy, Approved
<1>3. EntryBacked(p, x)
  BY <1>1 DEF EntryBacked
<1>4. Keeps(state[p], x)
  BY <1>1 DEF TickedEntry, Keeps
<1>5. Ticked(p, state[p], x)
  BY <1>1, <1>2 DEF TickedEntry, Ticked
<1> QED
  BY <1>3, <1>4, <1>5 DEF TickedEntry

LEMMA VisitSerial ==
    ASSUME PaperInv, NEW q \in Procs, NEW p \in PlanIds, NEW e,
           TickedEntry(p, e), Visiting(q, p), Visit(q, p, e)
    PROVE  SerialInv'
<1> DEFINE m == [proc[q] EXCEPT !.todo = @ \ {p}, !.ticked = TRUE,
                                !.st = [@ EXCEPT ![p] = e]]
<1>1. /\ ProcsOK /\ SerialInv /\ SameFiles
      /\ proc[q] \in Process /\ proc[q].step = "scan" /\ CommandSound(proc[q])
  BY DEF Visiting, Visit, PaperInv, TypeInv, ProcsOK, SerialInv, CommandsSound,
         SameFiles, files
<1>2. Alone(q)
  BY <1>1, AtWork DEF SerialInv
<1>3. /\ m.step = "scan" /\ m.now = proc[q].now /\ m.id = proc[q].id
      /\ m.todo = proc[q].todo \ {p} /\ m.st = [proc[q].st EXCEPT ![p] = e]
  BY <1>1 DEF Process
<1>4. \A r \in PlanIds : m.st[r] = IF r = p THEN e ELSE proc[q].st[r]
  BY <1>1, <1>3 DEF Process, RunnerState
<1>5. m.todo \subseteq PlanIds
  BY <1>1, <1>3 DEF Process
<1>6. CommandSound(m)
  <2> HIDE DEF m
  <2> QED
    BY <1>1, <1>3, <1>4, <1>5 DEF CommandSound
<1> QED
  BY <1>1, <1>2, <1>6, QuietStep DEF Visit

LEMMA TickStartSerial ==
    ASSUME Serialized, PaperInv, NEW q \in Procs, TickStart(q)
    PROVE  SerialInv'
<1> DEFINE m == [IdleProcess EXCEPT
                    !.step = "scan", !.now = clock, !.st = state,
                    !.todo = {p \in PlanIds : HasPlanFile(p)}]
<1>1. ProcsOK /\ SerialInv /\ SameFiles /\ Alone(q)
  BY StartsAlone DEF TickStart, PaperInv, TypeInv, SameFiles, files
<1>2. m.step = "scan" /\ m.now = clock /\ m.st = state /\ m.id = None
  BY DEF IdleProcess
<1>3. clock \in Nat /\ \A d \in decisions : d.at <= clock
  BY <1>1 DEF SerialInv, FilesSound, PlansDecided, PaperInv, TypeInv, TypeOK
<1>4. \A p \in PlanIds : TickedEntry(p, state[p])
  BY <1>1 DEF SerialInv, FilesSound, StateBacked, TickedEntry, Keeps, Ticked
<1>5. CommandSound(m)
  <2> HIDE DEF m
  <2> QED
    BY <1>2, <1>3, <1>4 DEF CommandSound
<1> QED
  BY <1>1, <1>5, QuietStep DEF TickStart

LEMMA TickSerial ==
    ASSUME PaperInv, NEW q \in Procs, TickStep(q)
    PROVE  SerialInv'
<1>1. /\ ProcsOK /\ SerialInv /\ proc[q] \in Process /\ proc[q].step = "scan"
      /\ CommandSound(proc[q]) /\ Alone(q)
  BY AtWork
  DEF TickStep, TickUnapproved, TickUnbound, TickPendingOpen, TickOpen, TickClosed,
      TickEnd, Visiting, PaperInv, TypeInv, ProcsOK, SerialInv, CommandsSound
<1>2. ASSUME NEW p \in PlanIds, Visiting(q, p), planFile[p].auth = "APPROVED"
      PROVE  /\ EntryFor(proc[q].st, p) \in Entry
             /\ TickedEntry(p, EntryFor(proc[q].st, p))
             /\ EntryFor(proc[q].st, p).status # "ABSENT"
             /\ PlanAuthorized(p, planFile[p]) /\ planFile[p] \in PlanRecord
  <2>1. planFile[p] \in PlanRecord /\ PlanAuthorized(p, planFile[p])
    BY DEF PaperInv, TypeInv, TypeOK, AuthInv, PlansAuthorized
  <2>2. proc[q].st[p] = state[p] /\ state[p] \in Entry /\ EntryBacked(p, state[p])
    BY <1>1, <1>2 DEF Visiting, CommandSound, SerialInv, FilesSound, StateBacked,
                      PaperInv, TypeInv, TypeOK, RunnerState
  <2>3. proc[q].st \in RunnerState
    BY <1>1 DEF Process
  <2>4. EntryFor(proc[q].st, p).status # "ABSENT"
    BY DEF EntryFor, NewEntry, NoEntry
  <2> QED
    BY <1>2, <2>1, <2>2, <2>3, <2>4, EntryForTypes, EntryForTicked
<1>3. ASSUME NEW p \in PlanIds, TickUnapproved(q, p) PROVE SerialInv'
  <2> DEFINE m == [proc[q] EXCEPT !.todo = @ \ {p}]
  <2>1. /\ m.step = "scan" /\ m.now = proc[q].now /\ m.id = proc[q].id
        /\ m.st = proc[q].st /\ m.todo \subseteq proc[q].todo
    BY <1>1 DEF Process
  <2>2. CommandSound(m)
    BY <1>1, <2>1 DEF CommandSound
  <2> QED
    BY <1>1, <1>3, <2>2, QuietStep DEF TickUnapproved, SameFiles, files
<1>4. ASSUME NEW p \in PlanIds, TickUnbound(q, p) PROVE SerialInv'
  BY <1>2, <1>4, EscalatedTicked, VisitSerial DEF TickUnbound
<1>5. ASSUME NEW p \in PlanIds, TickPendingOpen(q, p) PROVE SerialInv'
  <2> DEFINE e == EntryFor(proc[q].st, p)
             opened == Opened(e, planFile[p].hash, proc[q].now)
  <2>1. Visiting(q, p) /\ planFile[p].auth = "APPROVED" /\ e.status = "PENDING_OPEN"
        /\ Bound(e, planFile[p])
    BY <1>5 DEF TickPendingOpen
  <2>2. PICK meets \in BOOLEAN :
           Visit(q, p, IF OpensNow(planFile[p], meets, proc[q].now)
                       THEN opened ELSE e)
    BY <1>5 DEF TickPendingOpen
  <2>3. TickedEntry(p, e) /\ e \in Entry /\ PlanAuthorized(p, planFile[p])
    BY <1>2, <2>1
  <2>4. ApprovedBy(planFile[p].hash, proc[q].now)
    BY <1>1, <2>1, <2>3 DEF PlanAuthorized, ApprovedBy, CommandSound
  <2>5. TickedEntry(p, opened)
    BY <2>1, <2>3, <2>4, OpenedTicked
  <2> HIDE DEF e, opened
  <2> QED
    BY <2>1, <2>2, <2>3, <2>5, VisitSerial
<1>6. ASSUME NEW p \in PlanIds, TickOpen(q, p) PROVE SerialInv'
  <2> DEFINE e == EntryFor(proc[q].st, p)
  <2>1. PICK flags \in ProviderFlags :
           Visit(q, p, Monitored(e, planFile[p].hash, flags, proc[q].now))
    BY <1>6 DEF TickOpen
  <2>2. TickedEntry(p, Monitored(e, planFile[p].hash, flags, proc[q].now))
    BY <1>2, <1>6, EscalatedTicked DEF TickOpen, Monitored
  <2> QED
    BY <1>6, <2>1, <2>2, VisitSerial DEF TickOpen
<1>7. ASSUME NEW p \in PlanIds, TickClosed(q, p) PROVE SerialInv'
  BY <1>2, <1>7, VisitSerial DEF TickClosed
<1>8. ASSUME TickEnd(q) PROVE SerialInv'
  <2>1. SameFiles
    BY <1>8 DEF TickEnd, SameFiles, files
  <2>2. CASE Finish(q)
    BY <1>1, <2>1, <2>2, FinishQuietly
  <2>3. CASE Goto(q, "truncState")
    <3> DEFINE m == [proc[q] EXCEPT !.step = "truncState"]
    <3>1. /\ m.step = "truncState" /\ m.now = proc[q].now /\ m.id = proc[q].id
          /\ m.st = proc[q].st
      BY <1>1 DEF Process
    <3>2. CommandSound(m)
      BY <1>1, <3>1 DEF CommandSound
    <3> QED
      BY <1>1, <2>1, <2>3, <3>2, QuietStep DEF Goto
  <2> QED
    BY <1>8, <2>2, <2>3 DEF TickEnd
<1> QED
  BY <1>3, <1>4, <1>5, <1>6, <1>7, <1>8 DEF TickStep

-----------------------------------------------------------------------------
(* Writing the state file and the manifest.                                *)

(* What is about to become the state file.                                 *)
LEMMA SavedEntries ==
    ASSUME PaperInv, NEW q \in Procs, proc[q].step \in {"truncState", "writeState"},
           NEW p \in PlanIds
    PROVE  EntryBacked(p, proc[q].st[p]) /\ Keeps(state[p], proc[q].st[p])
<1> DEFINE m == proc[q]
<1>1. CommandSound(m) /\ EntryBacked(p, state[p])
  BY DEF PaperInv, SerialInv, CommandsSound, FilesSound, StateBacked
<1>2. CASE m.id = None
  BY <1>1, <1>2 DEF CommandSound, TickedEntry
<1>3. CASE m.id # None
  <2> DEFINE c == [state[m.id] EXCEPT !.status = "CLOSED", !.close = m.close]
  <2>1. m.id \in PlanIds /\ Closing(m) /\ ArtifactOf(m.id, m.close)
    BY <1>1, <1>3 DEF CommandSound
  <2>2. state \in [PlanIds -> Entry]
    BY DEF PaperInv, TypeInv, TypeOK, RunnerState
  <2>3. m.st[p] = IF p = m.id THEN c ELSE state[p]
    BY <2>1, <2>2 DEF Closing
  <2>4. /\ c.status = "CLOSED" /\ c.close = m.close /\ c.hash = state[m.id].hash
        /\ c.open = state[m.id].open /\ c.escalations = state[m.id].escalations
    BY <2>1, <2>2 DEF Entry
  <2>5. CASE p = m.id
    BY <1>1, <2>1, <2>3, <2>4, <2>5 DEF EntryBacked, Keeps, Closing
  <2>6. CASE p # m.id
    BY <1>1, <2>3, <2>6 DEF Keeps
  <2> QED
    BY <2>5, <2>6
<1> QED
  BY <1>2, <1>3

LEMMA LinesTyped ==
    ASSUME PaperInv
    PROVE  \A i \in DOMAIN log : log[i] \in LogEntry /\ log[i].plan \in PlanIds
<1>1. log \in Seq(LogEntry)
  BY DEF PaperInv, TypeInv, TypeOK
<1>2. \A i \in DOMAIN log : log[i] \in LogEntry
  BY <1>1
<1> QED
  BY <1>2 DEF LogEntry

LEMMA WriteStateSerial ==
    ASSUME PaperInv, NEW q \in Procs, WriteState(q)
    PROVE  SerialInv'
<1> DEFINE m == proc[q]
           n == [m EXCEPT !.step = "truncManifest"]
<1>1. /\ ProcsOK /\ SerialInv /\ m \in Process /\ CommandSound(m)
      /\ m.step = "writeState"
  BY DEF WriteState, PaperInv, TypeInv, ProcsOK, SerialInv, CommandsSound
<1>2. Alone(q)
  BY <1>1, AtWork DEF SerialInv
<1>3. /\ state' = m.st /\ torn'.closes = torn.closes
      /\ UNCHANGED <<clock, planFile, manifest, closes, log, history>>
  BY DEF WriteState, PaperInv, TypeInv, TypeOK
<1>4. \A p \in PlanIds : EntryBacked(p, m.st[p]) /\ Keeps(state[p], m.st[p])
  BY <1>1, SavedEntries
<1>5. n.step = "truncManifest" /\ n.st = m.st /\ n.now = m.now
  BY <1>1 DEF Process
<1>6. OneCommand' /\ CommandsSound'
  <2>1. \A x : x.step = "truncManifest" /\ x.st = state' /\ x.now = m.now
                  => CommandSound(x)'
    BY <1>1, <1>3 DEF CommandSound, history
  <2>2. \E x : x = n /\ Becomes(q, x) /\ CommandSound(x)'
    BY <1>3, <1>5, <2>1 DEF WriteState, Goto
  <2> QED
    BY <1>1, <1>2, <2>2, AloneStep
<1>7. StateBacked'
  BY <1>3, <1>4 DEF StateBacked, EntryBacked, ArtifactOf, ApprovedBy, history
<1>8. ManifestNotAhead'
  BY <1>1, <1>3, <1>4 DEF SerialInv, FilesSound, ManifestNotAhead, Keeps
<1>9. PlansDecided' /\ DecisionFinal'
  BY <1>1, <1>3 DEF SerialInv, FilesSound, PlansDecided, DecisionFinal, history
<1>10. LogSound'
  <2>1. \A i \in DOMAIN log : log[i].plan \in PlanIds
    BY LinesTyped
  <2>2. OutcomeMatchesState'
    BY <1>1, <1>3, <1>4, <2>1
    DEF SerialInv, FilesSound, LogSound, OutcomeMatchesState, Keeps
  <2> QED
    BY <1>1, <1>3, <2>2
    DEF SerialInv, FilesSound, LogSound, LogNumbered, OutcomeRecordedOnce
<1> QED
  BY <1>6, <1>7, <1>8, <1>9, <1>10 DEF SerialInv, FilesSound

LEMMA TruncSerial ==
    ASSUME PaperInv, NEW q \in Procs, TruncState(q) \/ TruncManifest(q)
    PROVE  SerialInv'
<1> DEFINE m == proc[q]
<1>1. /\ ProcsOK /\ SerialInv /\ m \in Process /\ CommandSound(m)
      /\ m.step \in {"truncState", "truncManifest"}
  BY DEF TruncState, TruncManifest, PaperInv, TypeInv, ProcsOK, SerialInv, CommandsSound
<1>2. Alone(q)
  BY <1>1, AtWork DEF SerialInv
<1>3. SameFiles
  BY DEF TruncState, TruncManifest, SameFiles, PaperInv, TypeInv, TypeOK
<1>4. CASE TruncState(q)
  <2> DEFINE n == [m EXCEPT !.step = "writeState"]
  <2>1. /\ n.step = "writeState" /\ n.now = m.now /\ n.id = m.id /\ n.st = m.st
        /\ n.close = m.close /\ m.step = "truncState"
    BY <1>1, <1>4 DEF Process, TruncState
  <2>2. CommandSound(n)
    <3> HIDE DEF n, m
    <3> QED
      BY <1>1, <2>1 DEF CommandSound, Closing
  <2> QED
    BY <1>1, <1>2, <1>3, <1>4, <2>2, QuietStep DEF TruncState, Goto
<1>5. CASE TruncManifest(q)
  <2> DEFINE n == [m EXCEPT !.step = "writeManifest"]
  <2>1. n.step = "writeManifest" /\ n.now = m.now /\ n.st = m.st
        /\ m.step = "truncManifest"
    BY <1>1, <1>5 DEF Process, TruncManifest
  <2>2. CommandSound(n)
    <3> HIDE DEF n, m
    <3> QED
      BY <1>1, <2>1 DEF CommandSound
  <2> QED
    BY <1>1, <1>2, <1>3, <1>5, <2>2, QuietStep DEF TruncManifest, Goto
<1> QED
  BY <1>4, <1>5

LEMMA WriteManifestSerial ==
    ASSUME PaperInv, NEW q \in Procs, WriteManifest(q)
    PROVE  SerialInv'
<1>1. /\ ProcsOK /\ SerialInv /\ CommandSound(proc[q]) /\ proc[q].step = "writeManifest"
  BY DEF WriteManifest, PaperInv, TypeInv, ProcsOK, SerialInv, CommandsSound
<1>2. Alone(q)
  BY <1>1, AtWork DEF SerialInv
<1>3. /\ manifest' = ManifestOf(state) /\ torn'.closes = torn.closes
      /\ UNCHANGED <<clock, planFile, state, closes, log, history>>
  BY <1>1 DEF WriteManifest, CommandSound, PaperInv, TypeInv, TypeOK
<1>4. OneCommand' /\ CommandsSound'
  BY <1>1, <1>2, AloneStep, IdleSoundNext DEF WriteManifest, Finish, IdleProcess
<1>5. StateBacked'
  BY <1>1, <1>3 DEF SerialInv, FilesSound, StateBacked, EntryBacked, ArtifactOf,
                    ApprovedBy, history
<1>6. ManifestNotAhead'
  BY <1>3 DEF ManifestNotAhead, ManifestOf
<1>7. PlansDecided' /\ DecisionFinal' /\ LogSound'
  BY <1>1, <1>3
  DEF SerialInv, FilesSound, PlansDecided, DecisionFinal, LogSound, LogNumbered,
      OutcomeMatchesState, OutcomeRecordedOnce, history
<1> QED
  BY <1>4, <1>5, <1>6, <1>7 DEF SerialInv, FilesSound

-----------------------------------------------------------------------------
(* The close.                                                              *)

LEMMA CloseReadSerial ==
    ASSUME Serialized, PaperInv, NEW q \in Procs,
           \/ \E p \in PlanIds : CloseStart(q, p)
           \/ \E pnl \in CloseSigns : CloseReadState(q, pnl)
           \/ CloseRefused(q)
    PROVE  SerialInv'
<1>1. ProcsOK /\ SerialInv /\ SameFiles
  BY DEF CloseStart, CloseReadState, CloseRefused, PaperInv, TypeInv, SameFiles, files
<1>2. ASSUME NEW p \in PlanIds, CloseStart(q, p) PROVE SerialInv'
  <2> DEFINE m == [IdleProcess EXCEPT !.step = "readState", !.now = clock,
                                      !.id = p, !.plan = planFile[p]]
  <2>1. m.step = "readState" /\ m.now = clock
    BY DEF IdleProcess
  <2>2. clock \in Nat /\ \A d \in decisions : d.at <= clock
    BY <1>1 DEF SerialInv, FilesSound, PlansDecided, PaperInv, TypeInv, TypeOK
  <2>3. CommandSound(m)
    <3> HIDE DEF m
    <3> QED
      BY <2>1, <2>2 DEF CommandSound
  <2>4. Alone(q)
    BY <1>2, StartsAlone DEF CloseStart
  <2> QED
    BY <1>1, <1>2, <2>3, <2>4, QuietStep DEF CloseStart
<1>3. ASSUME proc[q].step = "readState"
      PROVE  Alone(q) /\ proc[q] \in Process /\ CommandSound(proc[q])
  BY <1>1, <1>3, AtWork DEF SerialInv, CommandsSound, ProcsOK
<1>4. ASSUME NEW pnl \in CloseSigns, CloseReadState(q, pnl) PROVE SerialInv'
  <2> DEFINE m == proc[q]
             record == [hash |-> m.plan.hash, at |-> m.now, pnl |-> pnl]
             closed == [state EXCEPT ![m.id].status = "CLOSED", ![m.id].close = record]
             n == [m EXCEPT !.step = FirstWrite, !.close = record, !.st = closed]
  <2>1. m.step = "readState" /\ state[m.id].status = "OPEN" /\ Becomes(q, n)
    BY <1>4 DEF CloseReadState, Closable
  <2>2. Alone(q) /\ m \in Process /\ CommandSound(m) /\ m.id \in PlanIds
    BY <1>1, <1>3, <2>1 DEF ProcsOK, MemoryOK
  <2>3. closed = [state EXCEPT ![m.id] = [@ EXCEPT !.status = "CLOSED", !.close = record]]
    BY <2>2 DEF PaperInv, TypeInv, TypeOK, RunnerState
  <2>4. /\ n.step = "truncClose" /\ n.now = m.now /\ n.id = m.id
        /\ n.close = record /\ n.st = closed
    BY <2>2 DEF Process, FirstWrite
  <2>5. Closing(n)
    <3> HIDE DEF n, closed, record
    <3> QED
      BY <2>1, <2>3, <2>4 DEF Closing
  <2>6. CommandSound(n)
    <3> HIDE DEF n
    <3> QED
      BY <2>1, <2>2, <2>4, <2>5 DEF CommandSound
  <2> QED
    BY <1>1, <2>1, <2>2, <2>6, QuietStep
<1>5. CASE CloseRefused(q)
  BY <1>1, <1>3, <1>5, FinishQuietly DEF CloseRefused
<1> QED
  BY <1>2, <1>4, <1>5

(* The artifact being rewritten is that of a position still open.          *)
LEMMA OtherArtifacts ==
    ASSUME PaperInv, NEW m, Closing(m),
           UNCHANGED <<clock, planFile, state, manifest, log, issued, decisions>>,
           \A p : p # m.id => closes'[p] = closes[p],
           closings \subseteq closings',
           torn'.closes \subseteq torn.closes \cup {m.id}
    PROVE  FilesSound'
<1>1. FilesSound
  BY DEF PaperInv, SerialInv
<1>2. StateBacked'
  <2> SUFFICES ASSUME NEW p \in PlanIds PROVE EntryBacked(p, state[p])'
    BY DEF StateBacked
  <2>1. EntryBacked(p, state[p])
    BY <1>1 DEF FilesSound, StateBacked
  <2>2. state[p].status = "CLOSED" => ArtifactOf(p, state[p].close)'
    BY <2>1 DEF EntryBacked, ArtifactOf, Closing
  <2> QED
    BY <2>1, <2>2 DEF EntryBacked, ApprovedBy
<1> QED
  BY <1>1, <1>2
  DEF FilesSound, ManifestNotAhead, PlansDecided, DecisionFinal, LogSound,
      LogNumbered, OutcomeMatchesState, OutcomeRecordedOnce

LEMMA CloseWriteSerial ==
    ASSUME PaperInv, NEW q \in Procs, TruncClose(q) \/ WriteClose(q)
    PROVE  SerialInv'
<1> DEFINE m == proc[q]
<1>1. /\ ProcsOK /\ SerialInv /\ m \in Process /\ CommandSound(m)
      /\ m.step \in {"truncClose", "writeClose"} /\ m.id \in PlanIds
  BY DEF TruncClose, WriteClose, PaperInv, TypeInv, ProcsOK, MemoryOK, SerialInv,
         CommandsSound
<1>2. Alone(q)
  BY <1>1, AtWork DEF SerialInv
<1>3. Closing(m) /\ m.now <= clock /\ \A d \in decisions : d.at <= m.now
  BY <1>1 DEF CommandSound
<1>4. CASE TruncClose(q)
  <2> DEFINE n == [m EXCEPT !.step = "writeClose"]
  <2>1. /\ torn'.closes = torn.closes \cup {m.id}
        /\ UNCHANGED <<clock, planFile, state, manifest, closes, log, history>>
    BY <1>4 DEF TruncClose, PaperInv, TypeInv, TypeOK
  <2>2. /\ n.step = "writeClose" /\ n.now = m.now /\ n.id = m.id /\ n.st = m.st
        /\ n.close = m.close
    BY <1>1 DEF Process
  <2>3. \E x : x = n /\ Becomes(q, x) /\ CommandSound(x)'
    <3>1. Becomes(q, n)
      BY <1>4 DEF TruncClose, Goto
    <3> HIDE DEF n, m
    <3> QED
      BY <1>3, <2>1, <2>2, <3>1 DEF CommandSound, Closing, history
  <2>4. FilesSound'
    BY <1>3, <2>1, OtherArtifacts DEF history
  <2> QED
    BY <1>1, <1>2, <2>3, <2>4, AloneStep DEF SerialInv
<1>5. CASE WriteClose(q)
  <2> DEFINE n == [m EXCEPT !.step = "truncState"]
  <2>1. m.id \in torn.closes /\ m.id # None
    BY <1>1, <1>5, NoneAssumption DEF WriteClose, CommandSound
  <2>2. torn'.closes = torn.closes \ {m.id}
    BY <1>5, <2>1 DEF WriteClose, Mangled, PaperInv, TypeInv, TypeOK
  <2>3. /\ closes' = [closes EXCEPT ![m.id] = m.close]
        /\ closings' = closings \cup {[plan |-> m.id, close |-> m.close]}
        /\ UNCHANGED <<clock, planFile, state, manifest, log, issued, decisions>>
    BY <1>5 DEF WriteClose
  <2>4. /\ n.step = "truncState" /\ n.now = m.now /\ n.id = m.id /\ n.st = m.st
        /\ n.close = m.close
    BY <1>1 DEF Process
  <2>5. \A p, c : p = m.id /\ c = m.close => ArtifactOf(p, c)'
    BY <1>1, <2>2, <2>3 DEF ArtifactOf, PaperInv, TypeInv, TypeOK
  <2>6. \E x : x = n /\ Becomes(q, x) /\ CommandSound(x)'
    <3>1. Becomes(q, n)
      BY <1>5 DEF WriteClose, Goto
    <3> HIDE DEF n, m
    <3> QED
      BY <1>1, <1>3, <2>1, <2>3, <2>4, <2>5, <3>1 DEF CommandSound, Closing
  <2>7. FilesSound'
    BY <1>1, <1>3, <2>2, <2>3, OtherArtifacts DEF PaperInv, TypeInv, TypeOK
  <2> QED
    BY <1>1, <1>2, <2>6, <2>7, AloneStep DEF SerialInv
<1> QED
  BY <1>4, <1>5

-----------------------------------------------------------------------------
(* The settler.                                                            *)

(* What a settler derives of a close is the outcome of the state's close.  *)
LEMMA DerivedFromState ==
    ASSUME NEW p \in PlanIds, StateBacked, NEW now,
           NEW outcome \in SettlableOutcomes(p, state[p], now)
    PROVE  OutcomeOfState(p, outcome)
<1>1. EntryBacked(p, state[p])
  BY DEF StateBacked
<1>2. CASE state[p].status = "CLOSED"
  <2>1. outcome = OutcomeForRealizedPnl(closes[p].pnl) /\ closes[p] = state[p].close
    BY <1>1, <1>2 DEF SettlableOutcomes, EntryBacked, ArtifactOf
  <2> QED
    BY <1>2, <2>1 DEF OutcomeOfState
<1>3. CASE state[p].status = "OPEN"
  <2>1. outcome \in {"EXPIRED_WORTHLESS", "ASSIGNED", "UNKNOWN"}
    BY <1>3 DEF SettlableOutcomes, ExpirationOutcome
  <2> QED
    BY <2>1 DEF OutcomeOfState, CloseOutcomes
<1>4. state[p].status \in {"OPEN", "CLOSED"}
  BY DEF SettlableOutcomes
<1> QED
  BY <1>2, <1>3, <1>4

(* The settler's steps before it writes the line.                          *)
LEMMA SettlingSerial ==
    ASSUME Serialized, PaperInv, NEW q \in Procs,
           \/ SettleStart(q)
           \/ \E p \in PlanIds : SettleSkip(q, p) \/ SettleObserve(q, p)
           \/ SettleEnd(q) \/ CheckLog(q) \/ CountLog(q)
    PROVE  SerialInv'
<1> DEFINE m == proc[q]
<1>1. ProcsOK /\ SerialInv /\ SameFiles /\ m \in Process /\ CommandSound(m)
  BY DEF SettleStart, SettleSkip, SettleObserve, SettleEnd, CheckLog, CountLog,
         PaperInv, TypeInv, ProcsOK, SerialInv, CommandsSound, SameFiles, files
<1>2. m.step # "idle" => Alone(q)
  BY <1>1, AtWork DEF SerialInv
<1>3. ASSUME NEW n, Becomes(q, n), m.step # "idle", n.now = m.now, n.step = "settle",
             n.st = m.st, m.st = state
      PROVE  SerialInv'
  <2>1. CommandSound(n)
    BY <1>1, <1>3 DEF CommandSound
  <2> QED
    BY <1>1, <1>2, <1>3, <2>1, QuietStep
<1>4. CASE SettleStart(q)
  <2> DEFINE n == [IdleProcess EXCEPT
                      !.step = "settle", !.now = clock, !.st = state,
                      !.todo = {p \in PlanIds : state[p].status # "ABSENT"}]
  <2>1. n.step = "settle" /\ n.now = clock /\ n.st = state
    BY DEF IdleProcess
  <2>2. clock \in Nat /\ \A d \in decisions : d.at <= clock
    BY <1>1 DEF SerialInv, FilesSound, PlansDecided, PaperInv, TypeInv, TypeOK
  <2>3. CommandSound(n)
    <3> HIDE DEF n
    <3> QED
      BY <2>1, <2>2 DEF CommandSound
  <2>4. Alone(q)
    BY <1>4, StartsAlone DEF SettleStart
  <2> QED
    BY <1>1, <1>4, <2>3, <2>4, QuietStep DEF SettleStart
<1>5. ASSUME NEW p \in PlanIds, SettleSkip(q, p) PROVE SerialInv'
  <2> DEFINE n == [m EXCEPT !.todo = @ \ {p}]
  <2>1. n.step = "settle" /\ n.now = m.now /\ n.st = m.st /\ m.step = "settle"
    BY <1>1, <1>5 DEF SettleSkip, Process
  <2>2. m.st = state
    BY <1>1, <2>1 DEF CommandSound
  <2> QED
    BY <1>3, <1>5, <2>1, <2>2 DEF SettleSkip
<1>6. ASSUME NEW p \in PlanIds, SettleObserve(q, p) PROVE SerialInv'
  <2>1. m.step = "settle" /\ m.st = state
    BY <1>1, <1>6 DEF SettleObserve, CommandSound
  <2>2. PICK outcome \in SettlableOutcomes(p, state[p], m.now) :
           Becomes(q, [m EXCEPT !.step = "checkLog", !.todo = @ \ {p},
                                !.id = p, !.outcome = outcome])
    BY <1>6, <2>1 DEF SettleObserve
  <2> DEFINE n == [m EXCEPT !.step = "checkLog", !.todo = @ \ {p},
                            !.id = p, !.outcome = outcome]
  <2>3. /\ n.step = "checkLog" /\ n.now = m.now /\ n.st = m.st
        /\ n.id = p /\ n.outcome = outcome
    BY <1>1 DEF Process
  <2>4. OutcomeOfState(p, outcome)
    BY <1>1, DerivedFromState DEF SerialInv, FilesSound
  <2>5. CommandSound(n)
    <3> HIDE DEF n
    <3> QED
      BY <1>1, <2>1, <2>3, <2>4 DEF CommandSound
  <2> QED
    BY <1>1, <1>2, <2>1, <2>2, <2>5, QuietStep
<1>7. CASE SettleEnd(q)
  BY <1>1, <1>2, <1>7, FinishQuietly DEF SettleEnd
<1>8. CASE CheckLog(q)
  <2>1. m.step = "checkLog" /\ m.st = state /\ Alone(q)
    BY <1>1, <1>2, <1>8 DEF CheckLog, CommandSound
  <2>2. CASE Finish(q)
    BY <1>1, <2>1, <2>2, FinishQuietly
  <2>3. CASE NextPlan(q)
    <3> DEFINE n == [m EXCEPT !.step = "settle", !.id = None, !.outcome = None, !.seq = 0]
    <3>1. n.step = "settle" /\ n.now = m.now /\ n.st = m.st
      BY <1>1 DEF Process
    <3> QED
      BY <1>3, <2>1, <2>3, <3>1 DEF NextPlan
  <2>4. CASE ~Recorded(m.id, m.outcome) /\ Goto(q, "countLog")
    <3> DEFINE n == [m EXCEPT !.step = "countLog"]
    <3>1. /\ n.step = "countLog" /\ n.now = m.now /\ n.st = m.st
          /\ n.id = m.id /\ n.outcome = m.outcome
      BY <1>1 DEF Process
    <3>2. CommandSound(n)
      <4> HIDE DEF n
      <4> QED
        BY <1>1, <2>1, <2>4, <3>1 DEF CommandSound
    <3> QED
      BY <1>1, <2>1, <2>4, <3>2, QuietStep DEF Goto
  <2> QED
    BY <1>8, <2>2, <2>3, <2>4 DEF CheckLog
<1>9. CASE CountLog(q)
  <2> DEFINE n == [m EXCEPT !.step = "appendLog", !.seq = Len(log) + 1]
  <2>1. /\ n.step = "appendLog" /\ n.now = m.now /\ n.st = m.st /\ n.id = m.id
        /\ n.outcome = m.outcome /\ n.seq = Len(log) + 1 /\ m.step = "countLog"
    BY <1>1, <1>9 DEF Process, CountLog
  <2>2. CommandSound(n)
    <3> HIDE DEF n
    <3> QED
      BY <1>1, <2>1 DEF CommandSound
  <2> QED
    BY <1>1, <1>2, <1>9, <2>1, <2>2, QuietStep DEF CountLog
<1> QED
  BY <1>4, <1>5, <1>6, <1>7, <1>8, <1>9

(* The line appended: the next number, a pair not yet in the log, and the  *)
(* outcome of the close in the state.                                      *)
LEMMA AppendSerial ==
    ASSUME PaperInv, NEW q \in Procs, AppendLog(q)
    PROVE  SerialInv'
<1> DEFINE m == proc[q]
           line == [plan |-> m.id, hash |-> m.st[m.id].hash,
                    outcome |-> m.outcome, seq |-> m.seq, at |-> m.now]
           n == [m EXCEPT !.step = "settle", !.id = None, !.outcome = None, !.seq = 0]
<1>1. /\ ProcsOK /\ SerialInv /\ m \in Process /\ CommandSound(m)
      /\ m.step = "appendLog"
  BY DEF AppendLog, PaperInv, TypeInv, ProcsOK, SerialInv, CommandsSound
<1>2. Alone(q)
  BY <1>1, AtWork DEF SerialInv
<1>3. /\ log \in Seq(LogEntry) /\ (log' = log \/ log' = Append(log, line))
      /\ UNCHANGED <<clock, planFile, state, manifest, closes, torn, history>>
  BY DEF AppendLog, PaperInv, TypeInv, TypeOK
<1>4. n.step = "settle" /\ n.now = m.now /\ n.st = m.st
  BY <1>1 DEF Process
<1>5. OneCommand' /\ CommandsSound'
  <2>1. \E x : x = n /\ Becomes(q, x) /\ CommandSound(x)'
    <3>1. Becomes(q, n)
      BY DEF AppendLog, NextPlan
    <3> HIDE DEF n, m
    <3> QED
      BY <1>1, <1>3, <1>4, <3>1 DEF CommandSound, history
  <2> QED
    BY <1>1, <1>2, <2>1, AloneStep
<1>6. /\ line.plan = m.id /\ line.outcome = m.outcome /\ line.seq = Len(log) + 1
      /\ OutcomeOfState(m.id, m.outcome) /\ ~Recorded(m.id, m.outcome)
  BY <1>1 DEF CommandSound
<1>7. LogSound
  BY <1>1 DEF SerialInv, FilesSound
<1>8. LogSound'
  <2>1. CASE log' = log
    BY <1>3, <1>7, <2>1 DEF LogSound, OutcomeMatchesState, LogNumbered,
                            OutcomeRecordedOnce
  <2>2. CASE log' = Append(log, line)
    <3> HIDE DEF line, m
    <3>1. /\ DOMAIN log' = DOMAIN log \cup {Len(log) + 1} /\ log'[Len(log) + 1] = line
          /\ \A i \in DOMAIN log : log'[i] = log[i] /\ i # Len(log) + 1
      BY <1>3, <2>2
    <3>2. OutcomeMatchesState'
      BY <1>3, <1>6, <1>7, <3>1 DEF LogSound, OutcomeMatchesState, OutcomeOfState
    <3>3. LogNumbered'
      BY <1>6, <1>7, <3>1 DEF LogSound, LogNumbered
    <3>4. OutcomeRecordedOnce'
      BY <1>6, <1>7, <3>1 DEF LogSound, OutcomeRecordedOnce, Recorded
    <3> QED
      BY <3>2, <3>3, <3>4 DEF LogSound
  <2> QED
    BY <1>3, <2>1, <2>2
<1>9. StateBacked'
  BY <1>1, <1>3 DEF SerialInv, FilesSound, StateBacked, EntryBacked, ArtifactOf,
                    ApprovedBy, history
<1>10. ManifestNotAhead' /\ PlansDecided' /\ DecisionFinal'
  BY <1>1, <1>3 DEF SerialInv, FilesSound, ManifestNotAhead, PlansDecided,
                    DecisionFinal, history
<1> QED
  BY <1>5, <1>8, <1>9, <1>10 DEF SerialInv, FilesSound

-----------------------------------------------------------------------------
(* A new plan, the passing of time, a crash.                               *)

(* No position was opened under a plan that is only now written.           *)
LEMMA IssueSerial ==
    ASSUME PaperInv, NEW h \in PlanHashes, IssuePlan(h)
    PROVE  SerialInv'
<1> DEFINE id == Terms[h].id
<1>1. SerialInv /\ FilesSound /\ ProcsOK
  BY DEF PaperInv, SerialInv, TypeInv
<1>2. /\ h \notin issued /\ issued' = issued \cup {h}
      /\ UNCHANGED <<clock, state, manifest, closes, log, torn, proc, decisions, closings>>
  BY DEF IssuePlan
<1>3. \A p \in PlanIds :
          planFile'[p] = IF p = id THEN [hash |-> h, auth |-> "PENDING"] ELSE planFile[p]
  BY DEF IssuePlan, PaperInv, TypeInv, TypeOK
<1>4. \A d \in decisions : d.hash # h /\ d.hash \in issued /\ d.at <= clock
  BY <1>1, <1>2 DEF FilesSound, PlansDecided
<1>5. ASSUME NEW p \in PlanIds, NEW e, EntryBacked(p, e) PROVE EntryBacked(p, e)'
  BY <1>2, <1>3, <1>4, <1>5 DEF EntryBacked, ArtifactOf, ApprovedBy
<1>6. ASSUME NEW p \in PlanIds, NEW e, TickedEntry(p, e) PROVE TickedEntry(p, e)'
  BY <1>2, <1>5, <1>6 DEF TickedEntry, Ticked, Approved
<1>7. \A x : CommandSound(x) => CommandSound(x)'
  BY <1>2, <1>6 DEF CommandSound, Closing, ArtifactOf, OutcomeOfState, Recorded
<1>8. OneCommand' /\ CommandsSound'
  BY <1>1, <1>2, <1>7 DEF SerialInv, OneCommand, CommandsSound, Alone, Idle
<1>9. StateBacked'
  BY <1>1, <1>2, <1>5 DEF FilesSound, StateBacked
<1>10. PlansDecided'
  <2>1. \A p \in PlanIds : planFile'[p].hash # None => planFile'[p].hash \in issued'
    BY <1>1, <1>2, <1>3 DEF FilesSound, PlansDecided
  <2>2. \A d \in decisions, p \in PlanIds :
            planFile'[p].hash = d.hash => planFile'[p].auth # "PENDING"
    BY <1>1, <1>3, <1>4 DEF FilesSound, PlansDecided
  <2> QED
    BY <1>2, <1>4, <2>1, <2>2 DEF PlansDecided
<1>11. ManifestNotAhead' /\ DecisionFinal' /\ LogSound'
  BY <1>1, <1>2 DEF FilesSound, ManifestNotAhead, DecisionFinal, LogSound,
                    LogNumbered, OutcomeMatchesState, OutcomeRecordedOnce
<1> QED
  BY <1>8, <1>9, <1>10, <1>11 DEF SerialInv, FilesSound

LEMMA TimeSerial ==
    ASSUME PaperInv, PassTime
    PROVE  SerialInv'
<1>1. SerialInv /\ FilesSound /\ ProcsOK /\ TypeOK
  BY DEF PaperInv, SerialInv, TypeInv
<1>2. /\ clock' = clock + 1 /\ clock \in Nat
      /\ UNCHANGED <<planFile, state, manifest, closes, log, torn, proc,
                     issued, decisions, closings>>
  BY <1>1 DEF PassTime, TypeOK, files, history
<1>3. \A p, e : EntryBacked(p, e) => EntryBacked(p, e)'
  BY <1>2 DEF EntryBacked, ArtifactOf, ApprovedBy
<1>4. \A p, e : TickedEntry(p, e) => TickedEntry(p, e)'
  BY <1>2, <1>3 DEF TickedEntry, Ticked, Approved
<1>5. ASSUME NEW x \in Process, CommandSound(x) PROVE CommandSound(x)'
  <2>1. x.now \in Nat
    BY <1>5 DEF Process
  <2>2. x.now <= clock => x.now <= clock + 1
    BY <1>2, <2>1
  <2> QED
    BY <1>2, <1>4, <1>5, <2>2
    DEF CommandSound, Closing, ArtifactOf, OutcomeOfState, Recorded
<1>6. OneCommand' /\ CommandsSound'
  BY <1>1, <1>2, <1>5 DEF SerialInv, OneCommand, CommandsSound, Alone, Idle, ProcsOK
<1>7. StateBacked'
  BY <1>1, <1>2, <1>3 DEF FilesSound, StateBacked
<1>8. PlansDecided'
  <2>1. \A d \in decisions : d.at \in Nat /\ d.at <= clock
    BY <1>1 DEF FilesSound, PlansDecided, TypeOK
  <2>2. \A d \in decisions : d.at <= clock'
    BY <1>2, <2>1
  <2> QED
    BY <1>1, <1>2, <2>2 DEF FilesSound, PlansDecided
<1>9. ManifestNotAhead' /\ DecisionFinal' /\ LogSound'
  BY <1>1, <1>2 DEF FilesSound, ManifestNotAhead, DecisionFinal, LogSound,
                    LogNumbered, OutcomeMatchesState, OutcomeRecordedOnce
<1> QED
  BY <1>6, <1>7, <1>8, <1>9 DEF SerialInv, FilesSound

LEMMA CrashSerial ==
    ASSUME PaperInv, NEW q \in Procs, Crash(q)
    PROVE  SerialInv'
<1>1. ProcsOK /\ SerialInv /\ proc[q].step # "idle"
  BY DEF Crash, Idle, PaperInv, TypeInv
<1>2. Alone(q)
  BY <1>1, AtWork DEF SerialInv
<1>3. SameFiles
  BY DEF Crash, SameFiles, PaperInv, TypeInv, TypeOK
<1> QED
  BY <1>1, <1>2, <1>3, FinishQuietly DEF Crash

-----------------------------------------------------------------------------
(* The invariant.                                                          *)

LEMMA InitSerial == Init => SerialInv
<1> SUFFICES ASSUME Init PROVE SerialInv
  OBVIOUS
<1>1. OneCommand /\ CommandsSound
  BY IdleSound DEF Init, OneCommand, CommandsSound, Idle, IdleProcess
<1>2. StateBacked
  BY DEF Init, DefaultState, NoEntry, StateBacked, EntryBacked
<1>3. ManifestNotAhead
  BY DEF Init, ManifestNotAhead, ManifestOf
<1>4. PlansDecided /\ DecisionFinal
  BY DEF Init, NoPlan, PlansDecided, DecisionFinal
<1>5. LogSound
  BY DEF Init, LogSound, OutcomeMatchesState, LogNumbered, OutcomeRecordedOnce
<1> QED
  BY <1>1, <1>2, <1>3, <1>4, <1>5 DEF SerialInv, FilesSound

LEMMA InitPaper == Init => PaperInv
BY InitTypes, InitAuthorized, InitSerial DEF PaperInv

LEMMA StutterSerial ==
    ASSUME PaperInv, UNCHANGED vars
    PROVE  SerialInv'
<1>1. UNCHANGED <<clock, planFile, state, manifest, closes, log, torn, proc,
                  issued, decisions, closings>>
  BY DEF vars, files, history
<1>2. SameFiles /\ SerialInv
  BY <1>1 DEF SameFiles, history, PaperInv
<1>3. OneCommand' /\ CommandsSound'
  BY <1>1, <1>2, SameCommand DEF SerialInv, OneCommand, CommandsSound, Alone, Idle
<1> QED
  BY <1>2, <1>3, SameSound DEF SerialInv

LEMMA StepPaper ==
    ASSUME Serialized, PaperInv, [Next]_vars
    PROVE  PaperInv'
<1>1. TypeInv' /\ AuthInv'
  BY StepTypes, StepAuthorized DEF PaperInv
<1>2. ASSUME NEW q \in Procs, Decide(q) \/ TickStart(q) \/ TickStep(q) \/ SaveStep(q)
      PROVE  SerialInv'
  BY <1>2, DecideStartSerial, DecideWriteSerial, TickStartSerial, TickSerial,
     TruncSerial, WriteStateSerial, WriteManifestSerial
  DEF Decide, SaveStep
<1>3. ASSUME NEW q \in Procs, CloseStep(q) \/ \E p \in PlanIds : CloseStart(q, p)
      PROVE  SerialInv'
  BY <1>3, CloseReadSerial, CloseWriteSerial DEF CloseStep
<1>4. ASSUME NEW q \in Procs, SettleStart(q) \/ SettleStep(q) PROVE SerialInv'
  BY <1>4, SettlingSerial, AppendSerial DEF SettleStep
<1> QED
  BY <1>1, <1>2, <1>3, <1>4, IssueSerial, TimeSerial, CrashSerial, StutterSerial
  DEF PaperInv, Next

LEMMA PaperInvHolds == Serialized /\ Spec => []PaperInv
<1>1. Serialized /\ PaperInv /\ [Next]_vars => PaperInv'
  BY StepPaper
<1>2. Serialized => []Serialized
  OBVIOUS
<1> QED
  BY InitPaper, <1>1, <1>2, PTL DEF Spec

-----------------------------------------------------------------------------
(* What follows of one state.                                              *)

(* Close artifact, state file, manifest and outcome log tell one history   *)
(* when commands run one at a time, at every instant of every command and  *)
(* after any crash: what a command died before writing is missing          *)
(* everywhere or is still consistent (close_paper_position writes the      *)
(* artifact first, run_tick the state before the manifest).                *)
THEOREM FilesTellOneHistory == Serialized /\ Spec => []HistoryConsistent
<1>1. PaperInv => HistoryConsistent
  BY DEF PaperInv, SerialInv, FilesSound, StateBacked, EntryBacked, ArtifactOf,
         LogSound, HistoryConsistent, FilesAgree, ClosedHasArtifact, LogAgrees
<1> QED
  BY <1>1, PaperInvHolds, PTL

(* An open rests on an approval no later than itself, and while the plan   *)
(* file still holds its plan, the file says APPROVED: no second command    *)
(* decides a plan (paper_trade_workflow.py, runner.py).                    *)
THEOREM OpensRestOnApprovals == Serialized /\ Spec => []OpensKept
<1>1. PaperInv => OpensKept
  BY DEF PaperInv, SerialInv, FilesSound, StateBacked, EntryBacked, OpensKept,
         OpenFollowsApproval, OpenManaged
<1> QED
  BY <1>1, PaperInvHolds, PTL

(* Commands that run one at a time decide a plan once, although decide     *)
(* takes the plan from a file it replaces and dies wherever it dies.       *)
THEOREM DecidedOnce == Serialized /\ Spec => []DecisionFinal
<1>1. PaperInv => DecisionFinal
  BY DEF PaperInv, SerialInv, FilesSound
<1> QED
  BY <1>1, PaperInvHolds, PTL

(* A settlement that is repeated, or that died between its count and its   *)
(* append, records no (plan, outcome) pair twice (settler.py).             *)
THEOREM SettledOnce == Serialized /\ Spec => []OutcomeRecordedOnce
<1>1. PaperInv => OutcomeRecordedOnce
  BY DEF PaperInv, SerialInv, FilesSound, LogSound
<1> QED
  BY <1>1, PaperInvHolds, PTL

-----------------------------------------------------------------------------
(* What follows of one step.                                               *)

(* Three writes change the state file and the record of human acts.        *)
LEMMA PositionWriters ==
    ASSUME Next
    PROVE  \/ UNCHANGED <<state, decisions, closings>>
           \/ \E q \in Procs : DecideWrite(q) \/ WriteClose(q) \/ WriteState(q)
<1> DEFINE Same == UNCHANGED <<state, decisions, closings>>
<1>1. ASSUME NEW q \in Procs, NEW p \in PlanIds, NEW e, Visit(q, p, e) PROVE Same
  BY <1>1 DEF Visit, files, history
<1>2. ASSUME NEW q \in Procs, TickStep(q) PROVE Same
  BY <1>1, <1>2 DEF TickStep, TickUnapproved, TickUnbound, TickPendingOpen,
                    TickOpen, TickClosed, TickEnd, files, history
<1>3. ASSUME NEW q \in Procs, SettleStep(q) PROVE Same
  BY <1>3 DEF SettleStep, SettleSkip, SettleObserve, SettleEnd, CheckLog, CountLog,
              AppendLog, files, history
<1>4. ASSUME NEW q \in Procs, CloseStep(q) \/ \E p \in PlanIds : CloseStart(q, p)
      PROVE  Same \/ WriteClose(q)
  BY <1>4 DEF CloseStep, CloseStart, CloseReadState, CloseRefused, TruncClose,
              files, history
<1>5. ASSUME NEW q \in Procs, TickStart(q) \/ SettleStart(q) \/ Crash(q) PROVE Same
  BY <1>5 DEF TickStart, SettleStart, Crash, files, history
<1>6. ASSUME NEW q \in Procs, SaveStep(q) \/ Decide(q)
      PROVE  Same \/ WriteState(q) \/ DecideWrite(q)
  BY <1>6 DEF SaveStep, TruncState, TruncManifest, WriteManifest, Decide, DecideStart,
              files, history
<1>7. CASE PassTime \/ \E h \in PlanHashes : IssuePlan(h)
  BY <1>7 DEF PassTime, IssuePlan, files, history
<1> QED
  BY <1>2, <1>3, <1>4, <1>5, <1>6, <1>7 DEF Next

LEMMA StepKeeps ==
    ASSUME PaperInv, [Next]_vars, NEW p \in PlanIds
    PROVE  Keeps(state[p], state'[p])
<1>1. CASE UNCHANGED state
  BY <1>1 DEF Keeps
<1>2. ASSUME NEW q \in Procs, WriteState(q) PROVE Keeps(state[p], state'[p])
  BY <1>2, SavedEntries DEF WriteState
<1>3. ASSUME NEW q \in Procs, DecideWrite(q) \/ WriteClose(q) PROVE UNCHANGED state
  BY <1>3 DEF DecideWrite, WriteClose
<1> QED
  BY <1>1, <1>2, <1>3, PositionWriters DEF vars, files

(* A close, once in the state file, is neither undone nor replaced by a    *)
(* later tick, a second close or a command that died half way, when        *)
(* commands run one at a time.                                             *)
THEOREM ClosesAreFinal == Serialized /\ Spec => ClosedStaysClosed
<1>1. PaperInv /\ [Next]_vars =>
         [\A p \in PlanIds : state[p].status = "CLOSED" =>
             /\ state'[p].status = "CLOSED"
             /\ state'[p].close = state[p].close]_vars
  BY StepKeeps DEF Keeps
<1> QED
  BY <1>1, PaperInvHolds, PTL DEF Spec, ClosedStaysClosed

(* No write of the state file loses an escalation a human has yet to see.  *)
THEOREM EscalationsWait == Serialized /\ Spec => EscalationsKept
<1>1. PaperInv /\ [Next]_vars =>
         [\A p \in PlanIds : state[p].escalations \subseteq state'[p].escalations]_vars
  BY StepKeeps DEF Keeps
<1> QED
  BY <1>1, PaperInvHolds, PTL DEF Spec, EscalationsKept

LEMMA CloseWritten ==
    ASSUME PaperInv, NEW q \in Procs, WriteClose(q)
    PROVE  proc[q].id \in PlanIds /\ state[proc[q].id].status = "OPEN"
<1>1. CommandSound(proc[q]) /\ MemoryOK(proc[q]) /\ proc[q].step = "writeClose"
  BY DEF WriteClose, PaperInv, TypeInv, ProcsOK, SerialInv, CommandsSound
<1> QED
  BY <1>1 DEF CommandSound, Closing, MemoryOK

(* The state still says OPEN when the artifact of a close is written,      *)
(* although it was read before the artifact was truncated.                 *)
THEOREM ClosesOpenPositions == Serialized /\ Spec => CloseOnlyWhenOpen
<1>1. PaperInv /\ [Next]_vars =>
         [\A c \in closings' \ closings : state[c.plan].status = "OPEN"]_vars
  <2> SUFFICES ASSUME PaperInv, Next, NEW c \in closings' \ closings
               PROVE  state[c.plan].status = "OPEN"
    OBVIOUS
  <2>1. PICK q \in Procs : WriteClose(q)
    <3>1. ~ UNCHANGED closings
      OBVIOUS
    <3>2. \A q \in Procs : DecideWrite(q) \/ WriteState(q) => UNCHANGED closings
      BY DEF DecideWrite, WriteState, history
    <3> QED
      BY <3>1, <3>2, PositionWriters
  <2>2. c.plan = proc[q].id
    BY <2>1 DEF WriteClose
  <2> QED
    BY <2>1, <2>2, CloseWritten
<1> QED
  BY <1>1, PaperInvHolds, PTL DEF Spec, CloseOnlyWhenOpen

-----------------------------------------------------------------------------
(* The refinement of PaperPosition.                                        *)

(* Writing a decision approves a plan, or nothing when it is a rejection.  *)
LEMMA DecideRefines ==
    ASSUME PaperInv, NEW q \in Procs, DecideWrite(q)
    PROVE  [Abstract!Next]_(Abstract!vars)
<1> DEFINE m == proc[q]
           d == [hash |-> m.plan.hash, verdict |-> m.plan.auth, at |-> m.now]
<1>1. /\ decisions' = decisions \cup {d}
      /\ UNCHANGED <<state, closings>> /\ d.hash \in PlanHashes
  BY DEF DecideWrite, PaperInv, TypeInv, ProcsOK, MemoryOK
<1>2. Position' = Position /\ {c.plan : c \in closings}' = {c.plan : c \in closings}
  BY <1>1 DEF Position
<1>3. CASE d.verdict = "APPROVED"
  <2>1. Approved' = Approved \cup {d.hash}
    BY <1>1, <1>3 DEF Approved
  <2>2. Abstract!Approve(d.hash)
    BY <1>2, <2>1 DEF Abstract!Approve
  <2> QED
    BY <1>1, <2>2 DEF Abstract!Next
<1>4. CASE d.verdict # "APPROVED"
  <2>1. Approved' = Approved
    BY <1>1, <1>4 DEF Approved
  <2> QED
    BY <1>2, <2>1 DEF Abstract!vars
<1> QED
  BY <1>3, <1>4

LEMMA PlansOfAdded ==
    ASSUME NEW S, NEW p, NEW x
    PROVE  {c.plan : c \in S \cup {[plan |-> p, close |-> x]}}
              = {c.plan : c \in S} \cup {p}
<1>1. [plan |-> p, close |-> x].plan = p
  OBVIOUS
<1> QED
  BY <1>1

(* Writing a close artifact is the human's will.                           *)
LEMMA WriteCloseRefines ==
    ASSUME PaperInv, NEW q \in Procs, WriteClose(q)
    PROVE  [Abstract!Next]_(Abstract!vars)
<1>1. PICK id \in PlanIds : id = proc[q].id /\ state[id].status = "OPEN"
  BY CloseWritten
<1>2. PICK x : /\ closings' = closings \cup {[plan |-> id, close |-> x]}
               /\ UNCHANGED <<state, decisions>>
  BY <1>1 DEF WriteClose
<1>3. Position' = Position /\ Approved' = Approved
  BY <1>2 DEF Position, Approved
<1>4. {c.plan : c \in closings}' = {c.plan : c \in closings} \cup {id}
  BY <1>2, PlansOfAdded
<1>5. Position[id].status = "OPEN"
  BY <1>1 DEF Position
<1>6. Abstract!Will(id)
  BY <1>3, <1>4, <1>5 DEF Abstract!Will
<1> QED
  BY <1>1, <1>6 DEF Abstract!Next

(* Writing the state file is a tick of all plans or the close of one.      *)
LEMMA WriteStateRefines ==
    ASSUME PaperInv, NEW q \in Procs, WriteState(q)
    PROVE  [Abstract!Next]_(Abstract!vars)
<1> DEFINE m == proc[q]
<1>1. /\ CommandSound(m) /\ m \in Process /\ m.step = "writeState"
      /\ state' = m.st /\ UNCHANGED <<decisions, closings>>
      /\ state \in RunnerState
  BY DEF WriteState, history, PaperInv, TypeInv, TypeOK, ProcsOK, SerialInv, CommandsSound
<1>2. Approved' = Approved /\ {c.plan : c \in closings}' = {c.plan : c \in closings}
  BY <1>1 DEF Approved
<1>3. \A p \in PlanIds : m.st[p] \in Entry /\ state[p] \in Entry
  BY <1>1 DEF Process, RunnerState
<1>4. CASE m.id = None
  <2>1. ASSUME NEW p \in PlanIds
        PROVE  Abstract!Advances(p, Position[p], Position'[p])
    <3>1. Ticked(p, state[p], m.st[p]) /\ EntryBacked(p, state[p])
      BY <1>1, <1>4 DEF CommandSound, TickedEntry, PaperInv, SerialInv, FilesSound,
                        StateBacked
    <3>2. Position'[p] = [status |-> m.st[p].status, hash |-> m.st[p].hash]
      BY <1>1 DEF Position
    <3>3. Position[p] = [status |-> state[p].status, hash |-> state[p].hash]
      BY DEF Position
    <3>4. \A h \in Approved : [x \in PlanHashes |-> Terms[x].id][h] = Terms[h].id
      BY DEF Approved, PaperInv, TypeInv, TypeOK
    <3>5. state[p].status = "ABSENT" => state[p].hash = None
      BY <3>1 DEF EntryBacked, NoEntry
    <3> QED
      BY <3>1, <3>2, <3>3, <3>4, <3>5
      DEF Ticked, Abstract!Advances, Abstract!Untracked, Abstract!At
  <2>2. Position' \in [PlanIds -> [status : {"ABSENT", "PENDING_OPEN", "OPEN", "CLOSED"},
                                   hash : PlanHashes \cup {None}]]
    BY <1>1, <1>3 DEF Position, Entry, OptHash
  <2>3. Abstract!Tick
    BY <1>2, <2>1, <2>2 DEF Abstract!Tick
  <2> QED
    BY <2>3 DEF Abstract!Next
<1>5. CASE m.id # None
  <2>1. PICK id \in PlanIds : id = m.id /\ Closing(m) /\ ArtifactOf(id, m.close)
    BY <1>1, <1>5 DEF CommandSound
  <2> DEFINE c == [state[id] EXCEPT !.status = "CLOSED", !.close = m.close]
  <2>2. id \in {x.plan : x \in closings}
    BY <2>1 DEF ArtifactOf
  <2>3. c.status = "CLOSED" /\ c.hash = state[id].hash
    BY <1>3, <2>1 DEF Entry
  <2>4. \A p \in PlanIds : m.st[p] = IF p = id THEN c ELSE state[p]
    BY <1>1, <2>1 DEF Closing, RunnerState
  <2>5. Position' = [Position EXCEPT ![id] = [@ EXCEPT !.status = "CLOSED"]]
    <3>1. Position' = [p \in PlanIds |-> [status |-> m.st[p].status, hash |-> m.st[p].hash]]
      BY <1>1 DEF Position
    <3> HIDE DEF c, m
    <3>2. Position' = [p \in PlanIds |->
                          [status |-> IF p = id THEN "CLOSED" ELSE state[p].status,
                           hash |-> state[p].hash]]
      BY <2>1, <2>3, <2>4, <3>1
    <3> QED
      BY <3>2 DEF Position
  <2>6. Position[id].status = "OPEN"
    BY <2>1 DEF Closing, Position
  <2>7. Abstract!Close(id)
    BY <1>2, <2>2, <2>5, <2>6 DEF Abstract!Close
  <2> QED
    BY <2>1, <2>7 DEF Abstract!Next
<1> QED
  BY <1>4, <1>5

(* Files and commands, one command at a time, keep the lifecycle's promise:*)
(* every position is tracked under an approved plan, opened once, closed   *)
(* by a human once and for good.                                           *)
THEOREM PositionImplemented == Serialized /\ Spec => ImplementsPosition
<1>1. Init => Abstract!Init
  BY DEF Init, Abstract!Init, Approved, Position, DefaultState, NoEntry,
         Abstract!Untracked
<1>2. PaperInv /\ [Next]_vars => [Abstract!Next]_(Abstract!vars)
  <2> SUFFICES ASSUME PaperInv, [Next]_vars PROVE [Abstract!Next]_(Abstract!vars)
    OBVIOUS
  <2>1. CASE UNCHANGED <<state, decisions, closings>>
    BY <2>1 DEF Abstract!vars, Position, Approved
  <2>2. CASE UNCHANGED vars
    BY <2>1, <2>2 DEF vars, files, history
  <2> QED
    BY <2>1, <2>2, DecideRefines, WriteCloseRefines, WriteStateRefines, PositionWriters
<1> QED
  BY <1>1, <1>2, PaperInvHolds, PTL DEF Spec, ImplementsPosition, Abstract!Spec
=============================================================================
