------------------------ MODULE PaperLifecycleProofs ------------------------
(***************************************************************************)
(* Theorems about the paper lifecycle, for any plans, terms, number of     *)
(* processes, interleaving and crashes.                                    *)
(***************************************************************************)
EXTENDS PaperLifecycle, FiniteSetTheorems, SequenceTheorems, TLAPS

-----------------------------------------------------------------------------
(* Type correctness.  TypeOK is not inductive: what DecideWrite, WriteClose *)
(* and AppendLog put on disk comes from the memory of a process, which     *)
(* holds an identity, a decided plan or an outcome only from certain steps *)
(* on.                                                                     *)

MemoryOK(m) ==
    /\ m \in Process
    /\ m.step = "writePlan" =>
          m.id \in PlanIds /\ m.plan.hash \in PlanHashes /\ m.plan.auth \in Verdicts
    /\ m.step \in {"readState", "truncClose", "writeClose"} => m.id \in PlanIds
    /\ m.step \in {"checkLog", "countLog", "appendLog"} =>
          m.id \in PlanIds /\ m.outcome \in Outcomes

ProcsOK ==
    /\ proc \in [Procs -> Process]
    /\ \A q \in Procs : MemoryOK(proc[q])

TypeInv == TypeOK /\ ProcsOK

LEMMA ProcUpdate ==
    ASSUME ProcsOK, NEW q \in Procs, NEW m, MemoryOK(m), Becomes(q, m)
    PROVE  ProcsOK'
BY DEF ProcsOK, Becomes, MemoryOK

LEMMA EntryTypes ==
    /\ NoEntry \in Entry
    /\ \A h \in OptHash : NewEntry(h) \in Entry
    /\ DefaultState \in RunnerState
BY DEF NoEntry, NewEntry, Entry, OpenRecord, NoOpen, CloseRecord, NoClose,
       OptHash, Signs, DefaultState, RunnerState

LEMMA ManifestTypes ==
    ASSUME NEW st \in RunnerState
    PROVE  ManifestOf(st) \in [PlanIds -> SUBSET Escalation]
BY DEF ManifestOf, RunnerState, Entry

LEMMA IdleTypes == MemoryOK(IdleProcess)
BY EntryTypes DEF MemoryOK, IdleProcess, Process, Steps, PlanRecord, NoPlan,
                  OptHash, CloseRecord, NoClose, Signs

LEMMA InitTypes == Init => TypeInv
<1> SUFFICES ASSUME Init PROVE TypeInv
  OBVIOUS
<1>1. ProcsOK
  BY IdleTypes DEF Init, ProcsOK, MemoryOK
<1>2. planFile \in [PlanIds -> PlanRecord]
  BY DEF Init, NoPlan, PlanRecord, OptHash
<1>3. closes \in [PlanIds -> CloseRecord]
  BY DEF Init, NoClose, CloseRecord, OptHash, Signs
<1>4. state \in RunnerState /\ manifest \in [PlanIds -> SUBSET Escalation]
  BY EntryTypes, ManifestTypes DEF Init
<1> QED
  BY <1>1, <1>2, <1>3, <1>4 DEF Init, TypeInv, TypeOK, ProcsOK

(* A step that leaves the files alone is typed when the memory of its      *)
(* process is.                                                             *)
LEMMA MemoryStep ==
    ASSUME TypeInv, NEW q \in Procs, NEW m, MemoryOK(m), Becomes(q, m),
           UNCHANGED <<clock, files, history>>
    PROVE  TypeInv'
<1>1. ProcsOK'
  BY ProcUpdate DEF TypeInv
<1> QED
  BY <1>1 DEF TypeInv, TypeOK, ProcsOK, files, history

LEMMA FinishStep ==
    ASSUME TypeInv, NEW q \in Procs, Finish(q), UNCHANGED <<clock, files, history>>
    PROVE  TypeInv'
BY MemoryStep, IdleTypes DEF Finish

LEMMA GotoOK ==
    ASSUME ProcsOK, NEW q \in Procs, Goto(q, "truncState") \/ Goto(q, "writeState")
              \/ Goto(q, "truncManifest") \/ Goto(q, "writeManifest")
    PROVE  ProcsOK'
<1>1. PICK s \in {"truncState", "writeState", "truncManifest", "writeManifest"} :
          Goto(q, s)
  OBVIOUS
<1>2. MemoryOK([proc[q] EXCEPT !.step = s])
  BY DEF ProcsOK, MemoryOK, Process, Steps
<1> QED
  BY <1>1, <1>2, ProcUpdate DEF Goto

LEMMA VisitStep ==
    ASSUME TypeInv, NEW q \in Procs, NEW p \in PlanIds, NEW e \in Entry,
           Visiting(q, p), Visit(q, p, e)
    PROVE  TypeInv'
<1> DEFINE m == [proc[q] EXCEPT !.todo = @ \ {p}, !.ticked = TRUE,
                                !.st = [@ EXCEPT ![p] = e]]
<1>1. proc[q] \in Process /\ proc[q].step = "scan"
  BY DEF TypeInv, ProcsOK, Visiting
<1>2. [proc[q].st EXCEPT ![p] = e] \in RunnerState
  BY <1>1 DEF Process, RunnerState
<1>3. MemoryOK(m)
  BY <1>1, <1>2 DEF MemoryOK, Process
<1> QED
  BY <1>3, MemoryStep DEF Visit

(* The entry a tick works on, and what each branch of the tick makes of it.*)
LEMMA EntryForTypes ==
    ASSUME NEW st \in RunnerState, NEW p \in PlanIds,
           planFile[p] \in PlanRecord
    PROVE  EntryFor(st, p) \in Entry
BY EntryTypes DEF EntryFor, RunnerState, PlanRecord

LEMMA EscalatedTypes ==
    ASSUME NEW e \in Entry, NEW action \in EscalationActions, NEW now \in Nat
    PROVE  Escalated(e, action, now) \in Entry
BY DEF Escalated, Entry, Escalation

LEMMA OpenedTypes ==
    ASSUME NEW e \in Entry, NEW h \in OptHash, NEW now \in Nat
    PROVE  Opened(e, h, now) \in Entry
BY DEF Opened, Entry, OpenRecord

LEMMA MonitoredTypes ==
    ASSUME NEW e \in Entry, NEW h, NEW flags, NEW now \in Nat
    PROVE  Monitored(e, h, flags, now) \in Entry
<1>1. LifecycleAction(h, flags, now) \in EscalationActions \cup {"MONITOR"}
  BY DEF LifecycleAction, EscalationActions
<1> QED
  BY <1>1, EscalatedTypes DEF Monitored

(* Every step of Next keeps TypeInv, one step per action.                  *)
LEMMA DecideTypes ==
    ASSUME TypeInv, NEW q \in Procs, Decide(q) PROVE TypeInv'
<1>1. ASSUME NEW p \in PlanIds, NEW v \in Verdicts, DecideStart(q, p, v)
      PROVE  TypeInv'
  <2> DEFINE m == [IdleProcess EXCEPT
                      !.step = "writePlan", !.now = clock, !.id = p,
                      !.plan = [planFile[p] EXCEPT !.auth = v]]
  <2>1. planFile[p] \in PlanRecord /\ planFile[p].hash \in PlanHashes
    BY <1>1 DEF DecideStart, TypeInv, TypeOK, PlanRecord, OptHash
  <2>2. IdleProcess \in Process
    BY IdleTypes DEF MemoryOK
  <2>3. MemoryOK(m)
    <3>1. m.plan \in PlanRecord /\ m.plan.hash \in PlanHashes /\ m.plan.auth = v
      BY <2>1, <2>2 DEF PlanRecord, IdleProcess
    <3>2. clock \in Nat
      BY DEF TypeInv, TypeOK
    <3>3. m \in Process
      BY <2>2, <3>1, <3>2 DEF Process, Steps
    <3> QED
      BY <2>2, <3>1, <3>3 DEF MemoryOK, IdleProcess
  <2> QED
    BY <1>1, <2>3, MemoryStep DEF DecideStart
<1>2. ASSUME DecideWrite(q) PROVE TypeInv'
  <2>1. ProcsOK'
    BY <1>2, ProcUpdate, IdleTypes DEF DecideWrite, Finish, TypeInv
  <2>2. /\ proc[q].id \in PlanIds /\ proc[q].plan \in PlanRecord
        /\ proc[q].plan.hash \in PlanHashes /\ proc[q].plan.auth \in Verdicts
        /\ proc[q].now \in Nat
    BY <1>2 DEF DecideWrite, TypeInv, ProcsOK, MemoryOK, Process
  <2>3. planFile' \in [PlanIds -> PlanRecord]
    BY <1>2, <2>2 DEF DecideWrite, TypeInv, TypeOK
  <2>4. decisions' \subseteq [hash : PlanHashes, verdict : Verdicts, at : Nat]
    BY <1>2, <2>2 DEF DecideWrite, TypeInv, TypeOK
  <2> QED
    BY <1>2, <2>1, <2>3, <2>4 DEF DecideWrite, TypeInv, TypeOK, ProcsOK
<1> QED
  BY <1>1, <1>2 DEF Decide

LEMMA TickTypes ==
    ASSUME TypeInv, NEW q \in Procs, TickStart(q) \/ TickStep(q)
    PROVE  TypeInv'
<1>0. /\ proc[q] \in Process /\ MemoryOK(proc[q])
      /\ \A p \in PlanIds : planFile[p] \in PlanRecord
      /\ \A p \in PlanIds : EntryFor(proc[q].st, p) \in Entry
  BY EntryForTypes DEF TypeInv, TypeOK, ProcsOK, MemoryOK, Process
<1>1. ASSUME TickStart(q) PROVE TypeInv'
  <2> DEFINE m == [IdleProcess EXCEPT
                      !.step = "scan", !.now = clock, !.st = state,
                      !.todo = {p \in PlanIds : HasPlanFile(p)}]
  <2>1. MemoryOK(m)
    BY IdleTypes DEF MemoryOK, Process, Steps, TypeInv, TypeOK
  <2> QED
    BY <1>1, <2>1, MemoryStep DEF TickStart
<1>2. ASSUME NEW p \in PlanIds, TickUnapproved(q, p) PROVE TypeInv'
  <2>1. MemoryOK([proc[q] EXCEPT !.todo = @ \ {p}])
    BY <1>0 DEF MemoryOK, Process
  <2> QED
    BY <1>2, <2>1, MemoryStep DEF TickUnapproved
<1>3. ASSUME NEW p \in PlanIds, TickUnbound(q, p) PROVE TypeInv'
  <2>1. Escalated(EntryFor(proc[q].st, p), "BLOCK_AND_ESCALATE", proc[q].now) \in Entry
    BY <1>0, EscalatedTypes DEF EscalationActions, Process
  <2> QED
    BY <1>3, <2>1, VisitStep DEF TickUnbound
<1>4. ASSUME NEW p \in PlanIds, TickPendingOpen(q, p) PROVE TypeInv'
  <2>1. Opened(EntryFor(proc[q].st, p), planFile[p].hash, proc[q].now) \in Entry
    BY <1>0, OpenedTypes DEF Process, PlanRecord
  <2> QED
    BY <1>0, <1>4, <2>1, VisitStep DEF TickPendingOpen
<1>5. ASSUME NEW p \in PlanIds, TickOpen(q, p) PROVE TypeInv'
  <2>1. PICK flags \in ProviderFlags :
           Visit(q, p, Monitored(EntryFor(proc[q].st, p), planFile[p].hash,
                                 flags, proc[q].now))
    BY <1>5 DEF TickOpen
  <2>2. Monitored(EntryFor(proc[q].st, p), planFile[p].hash, flags, proc[q].now) \in Entry
    BY <1>0, MonitoredTypes DEF Process, PlanRecord
  <2> QED
    BY <1>5, <2>1, <2>2, VisitStep DEF TickOpen
<1>6. ASSUME NEW p \in PlanIds, TickClosed(q, p) PROVE TypeInv'
  BY <1>0, <1>6, VisitStep DEF TickClosed
<1>7. ASSUME TickEnd(q) PROVE TypeInv'
  <2>1. CASE Finish(q)
    BY <1>7, <2>1, FinishStep DEF TickEnd
  <2>2. CASE Goto(q, "truncState")
    BY <1>7, <2>2, GotoOK DEF TickEnd, TypeInv, TypeOK, ProcsOK, files, history
  <2> QED
    BY <1>7, <2>1, <2>2 DEF TickEnd
<1> QED
  BY <1>1, <1>2, <1>3, <1>4, <1>5, <1>6, <1>7 DEF TickStep

LEMMA SaveTypes ==
    ASSUME TypeInv, NEW q \in Procs, SaveStep(q) PROVE TypeInv'
<1>0. proc[q].st \in RunnerState
  BY DEF TypeInv, ProcsOK, Process
<1>1. CASE TruncState(q)
  BY <1>1, GotoOK DEF TruncState, TypeInv, TypeOK, ProcsOK, history
<1>2. CASE WriteState(q)
  BY <1>0, <1>2, GotoOK DEF WriteState, Mangled, TypeInv, TypeOK, ProcsOK, history
<1>3. CASE TruncManifest(q)
  BY <1>3, GotoOK DEF TruncManifest, TypeInv, TypeOK, ProcsOK, history
<1>4. CASE WriteManifest(q)
  <2>1. ProcsOK'
    BY <1>4, ProcUpdate, IdleTypes DEF WriteManifest, Finish, TypeInv
  <2> QED
    BY <1>0, <1>4, <2>1, ManifestTypes
    DEF WriteManifest, Mangled, TypeInv, TypeOK, ProcsOK, history
<1> QED
  BY <1>1, <1>2, <1>3, <1>4 DEF SaveStep

LEMMA CloseTypes ==
    ASSUME TypeInv, NEW q \in Procs,
           CloseStep(q) \/ \E p \in PlanIds : CloseStart(q, p)
    PROVE  TypeInv'
<1>0. proc[q] \in Process /\ MemoryOK(proc[q])
  BY DEF TypeInv, ProcsOK, MemoryOK
<1>1. ASSUME NEW p \in PlanIds, CloseStart(q, p) PROVE TypeInv'
  <2> DEFINE m == [IdleProcess EXCEPT !.step = "readState", !.now = clock,
                                      !.id = p, !.plan = planFile[p]]
  <2>1. MemoryOK(m)
    BY IdleTypes DEF MemoryOK, Process, Steps, TypeInv, TypeOK
  <2> QED
    BY <1>1, <2>1, MemoryStep DEF CloseStart
<1>2. ASSUME NEW pnl \in CloseSigns, CloseReadState(q, pnl) PROVE TypeInv'
  <2> DEFINE record == [hash |-> proc[q].plan.hash, at |-> proc[q].now, pnl |-> pnl]
             st == [state EXCEPT ![proc[q].id].status = "CLOSED",
                                 ![proc[q].id].close = record]
             m == [proc[q] EXCEPT !.step = FirstWrite, !.close = record, !.st = st]
  <2>1. proc[q].id \in PlanIds
    BY <1>0, <1>2 DEF CloseReadState, MemoryOK
  <2>2. record \in CloseRecord
    BY <1>0, LifecycleAssumption DEF Process, CloseRecord, PlanRecord
  <2>3. st \in RunnerState
    <3>1. state[proc[q].id] \in Entry /\ state \in [PlanIds -> Entry]
      BY <2>1 DEF TypeInv, TypeOK, RunnerState
    <3>2. [state[proc[q].id] EXCEPT !.status = "CLOSED", !.close = record] \in Entry
      BY <2>2, <3>1 DEF Entry
    <3>3. st = [state EXCEPT ![proc[q].id] =
                   [state[proc[q].id] EXCEPT !.status = "CLOSED", !.close = record]]
      BY <2>1, <3>1, ZenonT(30)
    <3> QED
      BY <2>1, <3>1, <3>2, <3>3 DEF RunnerState
  <2>4. MemoryOK(m)
    BY <1>0, <2>1, <2>2, <2>3 DEF MemoryOK, Process, Steps, FirstWrite
  <2> QED
    BY <1>2, <2>4, MemoryStep DEF CloseReadState
<1>3. CASE CloseRefused(q)
  BY <1>3, FinishStep DEF CloseRefused
<1>4. CASE TruncClose(q)
  <2>1. MemoryOK([proc[q] EXCEPT !.step = "writeClose"])
    BY <1>0, <1>4 DEF TruncClose, MemoryOK, Process, Steps
  <2>2. ProcsOK'
    BY <1>4, <2>1, ProcUpdate DEF TruncClose, Goto, TypeInv
  <2>3. proc[q].id \in PlanIds
    BY <1>0, <1>4 DEF TruncClose, MemoryOK
  <2> QED
    BY <1>4, <2>2, <2>3 DEF TruncClose, TypeInv, TypeOK, ProcsOK, history
<1>5. CASE WriteClose(q)
  <2>1. ProcsOK'
    BY <1>5, GotoOK DEF WriteClose, TypeInv
  <2>2. proc[q].id \in PlanIds /\ proc[q].close \in CloseRecord
    BY <1>0, <1>5 DEF WriteClose, MemoryOK, Process
  <2>3. closes' \in [PlanIds -> CloseRecord]
    BY <1>5, <2>2 DEF WriteClose, TypeInv, TypeOK
  <2>4. torn' \in [ state : BOOLEAN, manifest : BOOLEAN, log : BOOLEAN,
                    closes : SUBSET PlanIds ]
    BY <1>5, <2>2 DEF WriteClose, TypeInv, TypeOK
  <2>5. closings' \subseteq [plan : PlanIds, close : CloseRecord]
    BY <1>5, <2>2 DEF WriteClose, TypeInv, TypeOK
  <2> QED
    BY <1>5, <2>1, <2>3, <2>4, <2>5 DEF WriteClose, TypeInv, TypeOK, ProcsOK
<1> QED
  BY <1>1, <1>2, <1>3, <1>4, <1>5 DEF CloseStep

LEMMA OutcomeTypes ==
    ASSUME NEW p, NEW e, NEW now
    PROVE  SettlableOutcomes(p, e, now) \subseteq Outcomes
BY DEF SettlableOutcomes, OutcomeForRealizedPnl, ExpirationOutcome, Outcomes

LEMMA NextPlanOK ==
    ASSUME ProcsOK, NEW q \in Procs, NextPlan(q) PROVE ProcsOK'
<1> DEFINE m == [proc[q] EXCEPT !.step = "settle", !.id = None,
                                !.outcome = None, !.seq = 0]
<1>1. proc[q] \in Process
  BY DEF ProcsOK
<1>2. m \in Process /\ m.step = "settle"
  BY <1>1 DEF Process, Steps
<1>3. MemoryOK(m)
  <2> HIDE DEF m
  <2> QED
    BY <1>2 DEF MemoryOK
<1> QED
  BY <1>3, ProcUpdate DEF NextPlan

LEMMA SettleTypes ==
    ASSUME TypeInv, NEW q \in Procs, SettleStart(q) \/ SettleStep(q)
    PROVE  TypeInv'
<1>0. proc[q] \in Process /\ MemoryOK(proc[q])
  BY DEF TypeInv, ProcsOK, MemoryOK
<1>1. CASE SettleStart(q)
  <2> DEFINE m == [IdleProcess EXCEPT
                      !.step = "settle", !.now = clock, !.st = state,
                      !.todo = {p \in PlanIds : state[p].status # "ABSENT"}]
  <2>1. MemoryOK(m)
    BY IdleTypes DEF MemoryOK, Process, Steps, TypeInv, TypeOK
  <2> QED
    BY <1>1, <2>1, MemoryStep DEF SettleStart
<1>2. ASSUME NEW p \in PlanIds, SettleSkip(q, p) PROVE TypeInv'
  <2>1. MemoryOK([proc[q] EXCEPT !.todo = @ \ {p}])
    BY <1>0 DEF MemoryOK, Process
  <2> QED
    BY <1>2, <2>1, MemoryStep DEF SettleSkip
<1>3. ASSUME NEW p \in PlanIds, SettleObserve(q, p) PROVE TypeInv'
  <2>1. PICK outcome \in Outcomes :
           Becomes(q, [proc[q] EXCEPT !.step = "checkLog", !.todo = @ \ {p},
                                      !.id = p, !.outcome = outcome])
    BY <1>3, OutcomeTypes DEF SettleObserve
  <2>2. MemoryOK([proc[q] EXCEPT !.step = "checkLog", !.todo = @ \ {p},
                                 !.id = p, !.outcome = outcome])
    BY <1>0 DEF MemoryOK, Process, Steps
  <2> QED
    BY <1>3, <2>1, <2>2, MemoryStep DEF SettleObserve
<1>4. CASE SettleEnd(q)
  BY <1>4, FinishStep DEF SettleEnd
<1>5. CASE CheckLog(q)
  <2>1. MemoryOK([proc[q] EXCEPT !.step = "countLog"])
    BY <1>0, <1>5 DEF CheckLog, MemoryOK, Process, Steps
  <2>2. CASE Goto(q, "countLog")
    BY <1>5, <2>1, <2>2, MemoryStep DEF CheckLog, Goto
  <2>3. CASE NextPlan(q)
    <3>1. ProcsOK'
      BY <2>3, NextPlanOK DEF TypeInv
    <3> QED
      BY <1>5, <3>1 DEF CheckLog, TypeInv, TypeOK, ProcsOK, files, history
  <2>4. CASE Finish(q)
    BY <1>5, <2>4, FinishStep DEF CheckLog
  <2> QED
    BY <1>5, <2>2, <2>3, <2>4 DEF CheckLog
<1>6. CASE CountLog(q)
  <2> DEFINE m == [proc[q] EXCEPT !.step = "appendLog", !.seq = Len(log) + 1]
  <2>1. Len(log) + 1 \in Nat
    BY DEF TypeInv, TypeOK
  <2>2. MemoryOK(m)
    BY <1>0, <1>6, <2>1 DEF CountLog, MemoryOK, Process, Steps
  <2> QED
    BY <1>6, <2>2, MemoryStep DEF CountLog
<1>7. CASE AppendLog(q)
  <2> DEFINE line == [plan |-> proc[q].id, hash |-> proc[q].st[proc[q].id].hash,
                      outcome |-> proc[q].outcome, seq |-> proc[q].seq,
                      at |-> proc[q].now]
  <2>1. ProcsOK'
    BY <1>7, NextPlanOK DEF AppendLog, TypeInv
  <2>2. proc[q].id \in PlanIds /\ proc[q].outcome \in Outcomes
    BY <1>0, <1>7 DEF AppendLog, MemoryOK
  <2>3. line \in LogEntry
    BY <1>0, <2>2 DEF LogEntry, Process, RunnerState, Entry
  <2>4. log' \in Seq(LogEntry)
    BY <1>7, <2>3 DEF AppendLog, TypeInv, TypeOK
  <2> QED
    BY <1>7, <2>1, <2>4 DEF AppendLog, TypeInv, TypeOK, ProcsOK, history
<1> QED
  BY <1>1, <1>2, <1>3, <1>4, <1>5, <1>6, <1>7 DEF SettleStep

LEMMA StepTypes == TypeInv /\ [Next]_vars => TypeInv'
<1> SUFFICES ASSUME TypeInv, [Next]_vars PROVE TypeInv'
  OBVIOUS
<1>1. CASE PassTime
  BY <1>1 DEF PassTime, TypeInv, TypeOK, ProcsOK, files, history
<1>2. ASSUME NEW h \in PlanHashes, IssuePlan(h) PROVE TypeInv'
  <2>1. [hash |-> h, auth |-> "PENDING"] \in PlanRecord
    BY DEF PlanRecord, OptHash
  <2>2. planFile' \in [PlanIds -> PlanRecord]
    BY <1>2, <2>1 DEF IssuePlan, TypeInv, TypeOK
  <2> QED
    BY <1>2, <2>2 DEF IssuePlan, TypeInv, TypeOK, ProcsOK
<1>3. ASSUME NEW q \in Procs, Crash(q) PROVE TypeInv'
  <2>1. ProcsOK'
    BY <1>3, ProcUpdate, IdleTypes DEF Crash, Finish, TypeInv
  <2> QED
    BY <1>3, <2>1 DEF Crash, TypeInv, TypeOK, ProcsOK, history
<1>4. CASE UNCHANGED vars
  BY <1>4 DEF vars, TypeInv, TypeOK, ProcsOK, files, history
<1> QED
  BY <1>1, <1>2, <1>3, <1>4, DecideTypes, TickTypes, SaveTypes, CloseTypes,
     SettleTypes DEF Next

(* Whatever the commands interleave and wherever they die, every file and  *)
(* every process memory holds values of the right kind: a plan file a plan,*)
(* the log only outcomes, and no position is closed, decided or settled    *)
(* under an identity that is not a plan's.                                 *)
THEOREM TypeCorrect == Spec => []TypeOK
<1>1. TypeInv => TypeOK
  BY DEF TypeInv
<1> QED
  BY <1>1, InitTypes, StepTypes, PTL DEF Spec

-----------------------------------------------------------------------------
(* Authorization.  OpenAuthorized is not inductive: the state file is      *)
(* overwritten with a copy a process read earlier, and a plan file with a  *)
(* decision taken earlier.  AuthInv says the same of what the processes    *)
(* hold, and that a plan file saying APPROVED rests on a human approval    *)
(* (decisions only grow, so what was authorized stays authorized).         *)

PlanAuthorized(p, plan) ==
    /\ plan.hash # None => Terms[plan.hash].id = p
    /\ plan.auth = "APPROVED" =>
          /\ plan.hash # None
          /\ Terms[plan.hash].machine = "PASS"
          /\ Terms[plan.hash].compliance = "PASS"
          /\ ApprovedBy(plan.hash, Terms[plan.hash].expires)

DecisionSound(m) ==
    m.step = "writePlan" =>
        /\ Terms[m.plan.hash].id = m.id
        /\ m.plan.auth = "APPROVED" =>
              /\ Terms[m.plan.hash].machine = "PASS"
              /\ Terms[m.plan.hash].compliance = "PASS"
              /\ m.now <= Terms[m.plan.hash].expires

MemoryAuthorized(m) ==
    /\ DecisionSound(m)
    /\ \A p \in PlanIds : EntryAuthorized(p, m.st[p])

ProcsAuthorized == \A q \in Procs : MemoryAuthorized(proc[q])
PlansAuthorized == \A p \in PlanIds : PlanAuthorized(p, planFile[p])

AuthInv == PlansAuthorized /\ ProcsAuthorized /\ OpenAuthorized

LEMMA ApprovedMono ==
    ASSUME decisions \subseteq decisions', NEW h, NEW t, ApprovedBy(h, t)
    PROVE  ApprovedBy(h, t)'
BY DEF ApprovedBy

LEMMA EntryMono ==
    ASSUME decisions \subseteq decisions', NEW p, NEW e, EntryAuthorized(p, e)
    PROVE  EntryAuthorized(p, e)'
BY ApprovedMono DEF EntryAuthorized

LEMMA PlanMono ==
    ASSUME decisions \subseteq decisions', NEW p, NEW plan, PlanAuthorized(p, plan)
    PROVE  PlanAuthorized(p, plan)'
BY ApprovedMono DEF PlanAuthorized

LEMMA MemoryMono ==
    ASSUME decisions \subseteq decisions', NEW m, MemoryAuthorized(m)
    PROVE  MemoryAuthorized(m)'
BY EntryMono DEF MemoryAuthorized, DecisionSound

LEMMA ProcsAuthorizedUpdate ==
    ASSUME ProcsOK, ProcsAuthorized, decisions \subseteq decisions',
           NEW q \in Procs, NEW m, MemoryAuthorized(m), Becomes(q, m)
    PROVE  ProcsAuthorized'
<1> SUFFICES ASSUME NEW r \in Procs PROVE MemoryAuthorized(proc[r])'
  BY DEF ProcsAuthorized
<1>1. CASE r = q
  <2>1. proc'[r] = m
    BY <1>1 DEF ProcsOK, Becomes
  <2> QED
    BY <2>1, MemoryMono
<1>2. CASE r # q
  <2>1. proc'[r] = proc[r] /\ MemoryAuthorized(proc[r])
    BY <1>2 DEF ProcsOK, Becomes, ProcsAuthorized
  <2> QED
    BY <2>1, MemoryMono
<1> QED
  BY <1>1, <1>2

(* A step that leaves the plan files, the state and the decisions alone.   *)
LEMMA AuthorizedMemoryStep ==
    ASSUME ProcsOK, AuthInv, NEW q \in Procs, NEW m, MemoryAuthorized(m),
           Becomes(q, m), UNCHANGED <<planFile, state, decisions>>
    PROVE  AuthInv'
<1>1. ProcsAuthorized'
  BY ProcsAuthorizedUpdate DEF AuthInv
<1>2. PlansAuthorized'
  BY DEF AuthInv, PlansAuthorized, PlanAuthorized, ApprovedBy
<1>3. OpenAuthorized'
  BY DEF AuthInv, OpenAuthorized, EntryAuthorized, ApprovedBy
<1> QED
  BY <1>1, <1>2, <1>3 DEF AuthInv

LEMMA IdleAuthorized == MemoryAuthorized(IdleProcess)
BY DEF MemoryAuthorized, DecisionSound, EntryAuthorized, IdleProcess,
       DefaultState, NoEntry

LEMMA InitAuthorized == Init => AuthInv
<1> SUFFICES ASSUME Init PROVE AuthInv
  OBVIOUS
<1>1. ProcsAuthorized
  BY IdleAuthorized DEF Init, ProcsAuthorized
<1>2. PlansAuthorized
  BY DEF Init, PlansAuthorized, PlanAuthorized, NoPlan
<1>3. OpenAuthorized
  BY DEF Init, OpenAuthorized, EntryAuthorized, DefaultState, NoEntry
<1> QED
  BY <1>1, <1>2, <1>3 DEF AuthInv

(* What the tick and the close make of an entry is authorized when the     *)
(* entry was; an entry is opened under an approved plan it is bound to.    *)
LEMMA EntryForAuthorized ==
    ASSUME NEW st \in RunnerState, NEW p \in PlanIds, EntryAuthorized(p, st[p])
    PROVE  EntryAuthorized(p, EntryFor(st, p))
BY DEF EntryFor, EntryAuthorized, NewEntry, NoEntry

LEMMA EscalatedAuthorized ==
    ASSUME NEW p, NEW e \in Entry, NEW action, NEW now, EntryAuthorized(p, e)
    PROVE  EntryAuthorized(p, Escalated(e, action, now))
BY DEF Escalated, EntryAuthorized, Entry

LEMMA MonitoredAuthorized ==
    ASSUME NEW p, NEW e \in Entry, NEW h, NEW flags, NEW now, EntryAuthorized(p, e)
    PROVE  EntryAuthorized(p, Monitored(e, h, flags, now))
BY EscalatedAuthorized DEF Monitored

LEMMA OpenedAuthorized ==
    ASSUME NEW p, NEW e \in Entry, NEW plan \in PlanRecord, NEW now \in Nat,
           NEW meets \in BOOLEAN, PlanAuthorized(p, plan), Bound(e, plan),
           OpensNow(plan, meets, now)
    PROVE  EntryAuthorized(p, Opened(e, plan.hash, now))
<1> DEFINE o == Opened(e, plan.hash, now)
<1>1. plan.auth = "APPROVED"
  BY DEF OpensNow, FillReady
<1>2. /\ plan.hash # None /\ Terms[plan.hash].id = p
      /\ Terms[plan.hash].machine = "PASS" /\ Terms[plan.hash].compliance = "PASS"
      /\ ApprovedBy(plan.hash, Terms[plan.hash].expires)
  BY <1>1 DEF PlanAuthorized
<1>3. o.hash = plan.hash /\ o.open.hash = plan.hash /\ o.open.at = now
  BY DEF Opened, Bound, Entry
<1>4. /\ now <= Terms[plan.hash].expires
      /\ Terms[plan.hash].quotedAt <= now
      /\ now <= Terms[plan.hash].quotedAt + Terms[plan.hash].quoteMaxAge
  BY DEF OpensNow, FillReady, QuotesFresh
<1>5. Terms[plan.hash].quotedAt \in Nat /\ Terms[plan.hash].quoteMaxAge \in Nat
  BY <1>2, TermsAssumption DEF PlanRecord, OptHash, TermsRecord
<1>6. now - Terms[plan.hash].quotedAt <= Terms[plan.hash].quoteMaxAge
  BY <1>4, <1>5
<1> QED
  BY <1>2, <1>3, <1>4, <1>6 DEF EntryAuthorized

LEMMA VisitAuthorized ==
    ASSUME ProcsOK, AuthInv, NEW q \in Procs, NEW p \in PlanIds, NEW e,
           EntryAuthorized(p, e), Visiting(q, p), Visit(q, p, e)
    PROVE  AuthInv'
<1> DEFINE m == [proc[q] EXCEPT !.todo = @ \ {p}, !.ticked = TRUE,
                                !.st = [@ EXCEPT ![p] = e]]
<1>1. /\ proc[q] \in Process /\ proc[q].step = "scan"
      /\ \A r \in PlanIds : EntryAuthorized(r, proc[q].st[r])
  BY DEF ProcsOK, Visiting, AuthInv, ProcsAuthorized, MemoryAuthorized
<1>2. m.step = "scan" /\ m.st = [proc[q].st EXCEPT ![p] = e]
  BY <1>1 DEF Process
<1>3. \A r \in PlanIds : EntryAuthorized(r, m.st[r])
  BY <1>1, <1>2 DEF Process, RunnerState
<1>4. MemoryAuthorized(m)
  BY <1>2, <1>3 DEF MemoryAuthorized, DecisionSound
<1> QED
  BY <1>4, AuthorizedMemoryStep DEF Visit, files, history

LEMMA DecideAuthorized ==
    ASSUME TypeInv, AuthInv, NEW q \in Procs, Decide(q) PROVE AuthInv'
<1>1. ASSUME NEW p \in PlanIds, NEW v \in Verdicts, DecideStart(q, p, v)
      PROVE  AuthInv'
  <2> DEFINE m == [IdleProcess EXCEPT
                      !.step = "writePlan", !.now = clock, !.id = p,
                      !.plan = [planFile[p] EXCEPT !.auth = v]]
  <2>1. /\ planFile[p] \in PlanRecord /\ planFile[p].hash # None
        /\ Terms[planFile[p].hash].id = p
        /\ CanDecide(planFile[p].hash, planFile[p].auth, v, clock)
    BY <1>1 DEF DecideStart, TypeInv, TypeOK, AuthInv, PlansAuthorized, PlanAuthorized
  <2>2. m.plan.hash = planFile[p].hash /\ m.plan.auth = v
    BY <2>1 DEF IdleProcess, PlanRecord
  <2>3. m.id = p /\ m.now = clock /\ m.st = DefaultState
    BY DEF IdleProcess
  <2>4. DecisionSound(m)
    BY <2>1, <2>2, <2>3 DEF DecisionSound, CanDecide, CanApprove, CanReject
  <2>5. MemoryAuthorized(m)
    BY <2>3, <2>4 DEF MemoryAuthorized, EntryAuthorized, DefaultState, NoEntry
  <2> QED
    BY <1>1, <2>5, AuthorizedMemoryStep DEF DecideStart, TypeInv, files, history
<1>2. ASSUME DecideWrite(q) PROVE AuthInv'
  <2> DEFINE m == proc[q]
             d == [hash |-> m.plan.hash, verdict |-> m.plan.auth, at |-> m.now]
  <2>1. /\ m.step = "writePlan" /\ m.id \in PlanIds /\ DecisionSound(m)
        /\ m.plan \in PlanRecord /\ m.plan.hash \in PlanHashes /\ m.now \in Nat
    BY <1>2 DEF DecideWrite, TypeInv, ProcsOK, MemoryOK, Process, AuthInv,
                ProcsAuthorized, MemoryAuthorized
  <2>2. decisions \subseteq decisions' /\ d \in decisions'
    BY <1>2 DEF DecideWrite
  <2>3. ProcsAuthorized'
    BY <1>2, <2>2, ProcsAuthorizedUpdate, IdleAuthorized
    DEF DecideWrite, Finish, TypeInv, AuthInv
  <2>4. OpenAuthorized'
    BY <1>2, <2>2, EntryMono DEF DecideWrite, AuthInv, OpenAuthorized
  <2>5. \A p, plan : p = m.id /\ plan = m.plan => PlanAuthorized(p, plan)'
    <3>1. m.plan.hash # None /\ Terms[m.plan.hash].id = m.id
      BY <2>1, NoneAssumption DEF DecisionSound
    <3>2. m.plan.auth = "APPROVED" =>
             \E x \in decisions' : /\ x.hash = m.plan.hash /\ x.verdict = "APPROVED"
                                   /\ x.at <= Terms[m.plan.hash].expires
      BY <2>1, <2>2 DEF DecisionSound
    <3> QED
      BY <2>1, <3>1, <3>2 DEF PlanAuthorized, ApprovedBy, DecisionSound
  <2>6. PlansAuthorized'
    BY <1>2, <2>1, <2>2, <2>5, PlanMono
    DEF DecideWrite, AuthInv, PlansAuthorized, TypeInv, TypeOK
  <2> QED
    BY <2>3, <2>4, <2>6 DEF AuthInv
<1> QED
  BY <1>1, <1>2 DEF Decide

LEMMA TickAuthorized ==
    ASSUME TypeInv, AuthInv, NEW q \in Procs, TickStart(q) \/ TickStep(q)
    PROVE  AuthInv'
<1>0. /\ ProcsOK /\ proc[q] \in Process /\ MemoryAuthorized(proc[q])
      /\ \A p \in PlanIds : planFile[p] \in PlanRecord
      /\ \A p \in PlanIds : EntryFor(proc[q].st, p) \in Entry
      /\ \A p \in PlanIds : EntryAuthorized(p, EntryFor(proc[q].st, p))
      /\ \A p \in PlanIds : PlanAuthorized(p, planFile[p])
  BY EntryForTypes, EntryForAuthorized
  DEF TypeInv, TypeOK, ProcsOK, MemoryOK, Process, AuthInv, ProcsAuthorized,
      PlansAuthorized, MemoryAuthorized
<1>1. ASSUME TickStart(q) PROVE AuthInv'
  <2> DEFINE m == [IdleProcess EXCEPT
                      !.step = "scan", !.now = clock, !.st = state,
                      !.todo = {p \in PlanIds : HasPlanFile(p)}]
  <2>1. MemoryAuthorized(m)
    BY DEF MemoryAuthorized, DecisionSound, IdleProcess, AuthInv, OpenAuthorized
  <2> QED
    BY <1>0, <1>1, <2>1, AuthorizedMemoryStep DEF TickStart, files, history
<1>2. ASSUME NEW p \in PlanIds, TickUnapproved(q, p) PROVE AuthInv'
  <2>1. MemoryAuthorized([proc[q] EXCEPT !.todo = @ \ {p}])
    BY <1>0 DEF MemoryAuthorized, DecisionSound, Process
  <2> QED
    BY <1>0, <1>2, <2>1, AuthorizedMemoryStep DEF TickUnapproved, files, history
<1>3. ASSUME NEW p \in PlanIds, TickUnbound(q, p) PROVE AuthInv'
  BY <1>0, <1>3, EscalatedAuthorized, VisitAuthorized DEF TickUnbound
<1>4. ASSUME NEW p \in PlanIds, TickPendingOpen(q, p) PROVE AuthInv'
  <2> DEFINE e == EntryFor(proc[q].st, p)
             opened == Opened(e, planFile[p].hash, proc[q].now)
  <2>1. PICK meets \in BOOLEAN :
           Visit(q, p, IF OpensNow(planFile[p], meets, proc[q].now)
                       THEN opened ELSE e)
    BY <1>4 DEF TickPendingOpen
  <2>2. CASE OpensNow(planFile[p], meets, proc[q].now)
    <3>1. EntryAuthorized(p, opened)
      BY <1>0, <1>4, <2>2, OpenedAuthorized DEF TickPendingOpen, Process
    <3> QED
      BY <1>0, <1>4, <2>1, <2>2, <3>1, VisitAuthorized DEF TickPendingOpen
  <2>3. CASE ~OpensNow(planFile[p], meets, proc[q].now)
    BY <1>0, <1>4, <2>1, <2>3, VisitAuthorized DEF TickPendingOpen
  <2> QED
    BY <2>2, <2>3
<1>5. ASSUME NEW p \in PlanIds, TickOpen(q, p) PROVE AuthInv'
  BY <1>0, <1>5, MonitoredAuthorized, VisitAuthorized DEF TickOpen
<1>6. ASSUME NEW p \in PlanIds, TickClosed(q, p) PROVE AuthInv'
  BY <1>0, <1>6, VisitAuthorized DEF TickClosed
<1>7. ASSUME TickEnd(q) PROVE AuthInv'
  <2>1. CASE Finish(q)
    BY <1>0, <1>7, <2>1, IdleAuthorized, AuthorizedMemoryStep
    DEF TickEnd, Finish, files, history
  <2>2. CASE Goto(q, "truncState")
    <3>1. MemoryAuthorized([proc[q] EXCEPT !.step = "truncState"])
      BY <1>0 DEF MemoryAuthorized, DecisionSound, Process
    <3> QED
      BY <1>0, <1>7, <2>2, <3>1, AuthorizedMemoryStep DEF TickEnd, Goto, files, history
  <2> QED
    BY <1>7, <2>1, <2>2 DEF TickEnd
<1> QED
  BY <1>1, <1>2, <1>3, <1>4, <1>5, <1>6, <1>7 DEF TickStep

(* Going on to another step than writePlan keeps the memory authorized.    *)
LEMMA GotoAuthorized ==
    ASSUME ProcsOK, ProcsAuthorized, NEW q \in Procs, NEW s, s # "writePlan"
    PROVE  MemoryAuthorized([proc[q] EXCEPT !.step = s])
BY DEF ProcsOK, ProcsAuthorized, MemoryAuthorized, DecisionSound, Process

LEMMA SaveAuthorized ==
    ASSUME TypeInv, AuthInv, NEW q \in Procs, SaveStep(q) PROVE AuthInv'
<1>0. ProcsOK /\ ProcsAuthorized
  BY DEF TypeInv, AuthInv
<1>1. CASE TruncState(q)
  BY <1>0, <1>1, GotoAuthorized, AuthorizedMemoryStep DEF TruncState, Goto, history
<1>2. CASE WriteState(q)
  <2>1. MemoryAuthorized([proc[q] EXCEPT !.step = "truncManifest"])
    BY <1>0, GotoAuthorized
  <2>2. ProcsAuthorized'
    BY <1>0, <1>2, <2>1, ProcsAuthorizedUpdate DEF WriteState, Goto, history
  <2>3. OpenAuthorized'
    <3>1. \A p \in PlanIds : EntryAuthorized(p, proc[q].st[p])
      BY <1>0 DEF ProcsAuthorized, MemoryAuthorized
    <3> QED
      BY <1>2, <3>1, EntryMono DEF WriteState, OpenAuthorized, history
  <2>4. PlansAuthorized'
    BY <1>2, PlanMono DEF WriteState, AuthInv, PlansAuthorized, history
  <2> QED
    BY <2>2, <2>3, <2>4 DEF AuthInv
<1>3. CASE TruncManifest(q)
  BY <1>0, <1>3, GotoAuthorized, AuthorizedMemoryStep DEF TruncManifest, Goto, history
<1>4. CASE WriteManifest(q)
  BY <1>0, <1>4, IdleAuthorized, AuthorizedMemoryStep DEF WriteManifest, Finish, history
<1> QED
  BY <1>1, <1>2, <1>3, <1>4 DEF SaveStep

LEMMA CloseAuthorized ==
    ASSUME TypeInv, AuthInv, NEW q \in Procs,
           CloseStep(q) \/ \E p \in PlanIds : CloseStart(q, p)
    PROVE  AuthInv'
<1>0. ProcsOK /\ ProcsAuthorized /\ proc[q] \in Process /\ MemoryOK(proc[q])
  BY DEF TypeInv, AuthInv, ProcsOK, MemoryOK
<1>1. ASSUME NEW p \in PlanIds, CloseStart(q, p) PROVE AuthInv'
  <2>1. MemoryAuthorized([IdleProcess EXCEPT !.step = "readState", !.now = clock,
                                             !.id = p, !.plan = planFile[p]])
    BY IdleAuthorized DEF MemoryAuthorized, DecisionSound, IdleProcess
  <2> QED
    BY <1>0, <1>1, <2>1, AuthorizedMemoryStep DEF CloseStart, files, history
<1>2. ASSUME NEW pnl \in CloseSigns, CloseReadState(q, pnl) PROVE AuthInv'
  <2> DEFINE record == [hash |-> proc[q].plan.hash, at |-> proc[q].now, pnl |-> pnl]
             e == [state[proc[q].id] EXCEPT !.status = "CLOSED", !.close = record]
             st == [state EXCEPT ![proc[q].id].status = "CLOSED",
                                 ![proc[q].id].close = record]
             m == [proc[q] EXCEPT !.step = FirstWrite, !.close = record, !.st = st]
  <2>1. proc[q].id \in PlanIds /\ state \in [PlanIds -> Entry]
    BY <1>0, <1>2 DEF CloseReadState, MemoryOK, TypeInv, TypeOK, RunnerState
  <2>2. st = [state EXCEPT ![proc[q].id] = e]
    BY <2>1, ZenonT(30)
  <2>3. EntryAuthorized(proc[q].id, state[proc[q].id])
    BY <2>1 DEF AuthInv, OpenAuthorized
  <2>4. /\ state[proc[q].id].status = "OPEN"
        /\ e.hash = state[proc[q].id].hash /\ e.open = state[proc[q].id].open
    BY <1>2, <2>1 DEF CloseReadState, Closable, Entry
  <2>5. EntryAuthorized(proc[q].id, e)
    BY <2>3, <2>4 DEF EntryAuthorized
  <2>6. \A p \in PlanIds : EntryAuthorized(p, st[p])
    BY <2>1, <2>2, <2>5 DEF AuthInv, OpenAuthorized
  <2>7. m.step = "truncClose" /\ m.st = st
    BY <1>0 DEF Process, FirstWrite
  <2>8. MemoryAuthorized(m)
    BY <2>6, <2>7 DEF MemoryAuthorized, DecisionSound
  <2> QED
    BY <1>0, <1>2, <2>8, AuthorizedMemoryStep DEF CloseReadState, files, history
<1>3. CASE CloseRefused(q)
  BY <1>0, <1>3, IdleAuthorized, AuthorizedMemoryStep
  DEF CloseRefused, Finish, files, history
<1>4. CASE TruncClose(q)
  BY <1>0, <1>4, GotoAuthorized, AuthorizedMemoryStep DEF TruncClose, Goto, history
<1>5. CASE WriteClose(q)
  BY <1>0, <1>5, GotoAuthorized, AuthorizedMemoryStep DEF WriteClose, Goto
<1> QED
  BY <1>1, <1>2, <1>3, <1>4, <1>5 DEF CloseStep

LEMMA SettleAuthorized ==
    ASSUME TypeInv, AuthInv, NEW q \in Procs, SettleStart(q) \/ SettleStep(q)
    PROVE  AuthInv'
<1>0. /\ ProcsOK /\ ProcsAuthorized /\ proc[q] \in Process
      /\ MemoryAuthorized(proc[q])
  BY DEF TypeInv, AuthInv, ProcsOK, ProcsAuthorized
<1>1. CASE SettleStart(q)
  <2> DEFINE m == [IdleProcess EXCEPT
                      !.step = "settle", !.now = clock, !.st = state,
                      !.todo = {p \in PlanIds : state[p].status # "ABSENT"}]
  <2>1. MemoryAuthorized(m)
    BY DEF MemoryAuthorized, DecisionSound, IdleProcess, AuthInv, OpenAuthorized
  <2> QED
    BY <1>0, <1>1, <2>1, AuthorizedMemoryStep DEF SettleStart, files, history
<1>2. ASSUME NEW p \in PlanIds, SettleSkip(q, p) PROVE AuthInv'
  <2>1. MemoryAuthorized([proc[q] EXCEPT !.todo = @ \ {p}])
    BY <1>0 DEF MemoryAuthorized, DecisionSound, Process
  <2> QED
    BY <1>0, <1>2, <2>1, AuthorizedMemoryStep DEF SettleSkip, files, history
<1>3. ASSUME NEW p \in PlanIds, SettleObserve(q, p) PROVE AuthInv'
  <2>1. PICK outcome :
           Becomes(q, [proc[q] EXCEPT !.step = "checkLog", !.todo = @ \ {p},
                                      !.id = p, !.outcome = outcome])
    BY <1>3 DEF SettleObserve
  <2>2. MemoryAuthorized([proc[q] EXCEPT !.step = "checkLog", !.todo = @ \ {p},
                                         !.id = p, !.outcome = outcome])
    BY <1>0 DEF MemoryAuthorized, DecisionSound, Process
  <2> QED
    BY <1>0, <1>3, <2>1, <2>2, AuthorizedMemoryStep DEF SettleObserve, files, history
<1>4. CASE SettleEnd(q)
  BY <1>0, <1>4, IdleAuthorized, AuthorizedMemoryStep
  DEF SettleEnd, Finish, files, history
<1>5. MemoryAuthorized([proc[q] EXCEPT !.step = "settle", !.id = None,
                                       !.outcome = None, !.seq = 0])
  BY <1>0 DEF MemoryAuthorized, DecisionSound, Process
<1>6. CASE CheckLog(q)
  BY <1>0, <1>5, <1>6, IdleAuthorized, GotoAuthorized, AuthorizedMemoryStep
  DEF CheckLog, Finish, NextPlan, Goto, files, history
<1>7. CASE CountLog(q)
  <2>1. MemoryAuthorized([proc[q] EXCEPT !.step = "appendLog", !.seq = Len(log) + 1])
    BY <1>0 DEF MemoryAuthorized, DecisionSound, Process
  <2> QED
    BY <1>0, <1>7, <2>1, AuthorizedMemoryStep DEF CountLog, files, history
<1>8. CASE AppendLog(q)
  BY <1>0, <1>5, <1>8, AuthorizedMemoryStep DEF AppendLog, NextPlan, history
<1> QED
  BY <1>1, <1>2, <1>3, <1>4, <1>6, <1>7, <1>8 DEF SettleStep

LEMMA StepAuthorized == TypeInv /\ AuthInv /\ [Next]_vars => AuthInv'
<1> SUFFICES ASSUME TypeInv, AuthInv, [Next]_vars PROVE AuthInv'
  OBVIOUS
<1>1. CASE UNCHANGED <<planFile, state, proc, decisions>>
  <2>1. \A p \in PlanIds : PlanAuthorized(p, planFile[p])'
    BY <1>1 DEF AuthInv, PlansAuthorized, PlanAuthorized, ApprovedBy
  <2>2. \A p, e : EntryAuthorized(p, e) => EntryAuthorized(p, e)'
    BY <1>1 DEF EntryAuthorized, ApprovedBy
  <2>3. \A q \in Procs : MemoryAuthorized(proc[q])'
    <3>1. \A m : MemoryAuthorized(m) => MemoryAuthorized(m)'
      BY <2>2 DEF MemoryAuthorized, DecisionSound
    <3> QED
      BY <1>1, <3>1 DEF AuthInv, ProcsAuthorized
  <2>4. OpenAuthorized'
    BY <1>1, <2>2 DEF AuthInv, OpenAuthorized
  <2> QED
    BY <2>1, <2>3, <2>4 DEF AuthInv, PlansAuthorized, ProcsAuthorized
<1>2. ASSUME NEW h \in PlanHashes, IssuePlan(h) PROVE AuthInv'
  <2>1. /\ decisions' = decisions /\ state' = state /\ proc' = proc
        /\ planFile' = [planFile EXCEPT ![Terms[h].id] =
                            [hash |-> h, auth |-> "PENDING"]]
    BY <1>2 DEF IssuePlan
  <2>2. ProcsAuthorized' /\ OpenAuthorized'
    <3>1. \A p, e : EntryAuthorized(p, e) => EntryAuthorized(p, e)'
      BY <2>1 DEF EntryAuthorized, ApprovedBy
    <3>2. \A m : MemoryAuthorized(m) => MemoryAuthorized(m)'
      BY <3>1 DEF MemoryAuthorized, DecisionSound
    <3> QED
      BY <2>1, <3>1, <3>2 DEF AuthInv, ProcsAuthorized, OpenAuthorized
  <2>3. \A p \in PlanIds :
           planFile'[p] = IF p = Terms[h].id THEN [hash |-> h, auth |-> "PENDING"]
                                             ELSE planFile[p]
    BY <2>1 DEF TypeInv, TypeOK
  <2>4. PlansAuthorized'
    <3> SUFFICES ASSUME NEW p \in PlanIds PROVE PlanAuthorized(p, planFile[p])'
      BY DEF PlansAuthorized
    <3>1. PlanAuthorized(p, planFile[p])
      BY DEF AuthInv, PlansAuthorized
    <3>2. CASE p = Terms[h].id
      BY <2>1, <2>3, <3>2 DEF PlanAuthorized
    <3>3. CASE p # Terms[h].id
      BY <2>1, <2>3, <3>1, <3>3 DEF PlanAuthorized, ApprovedBy
    <3> QED
      BY <3>2, <3>3
  <2> QED
    BY <2>2, <2>4 DEF AuthInv
<1>3. ASSUME NEW q \in Procs, Crash(q) PROVE AuthInv'
  BY <1>3, IdleAuthorized, AuthorizedMemoryStep DEF Crash, Finish, TypeInv, history
<1> QED
  BY <1>1, <1>2, <1>3, DecideAuthorized, TickAuthorized, SaveAuthorized,
     CloseAuthorized, SettleAuthorized
  DEF Next, PassTime, vars, files, history

(* No position is ever recorded as opened but under its own plan, passed   *)
(* by machine risk and compliance, approved by a human in the window, and  *)
(* opened in the window on fresh quotes; for any plans, any number of      *)
(* commands, any interleaving of their reads and writes, and any crash     *)
(* (approve_paper_trade, evaluate_paper_fill, execute_paper_open).         *)
THEOREM PositionsAuthorized == Spec => []OpenAuthorized
<1>1. Init => TypeInv /\ AuthInv
  BY InitTypes, InitAuthorized
<1>2. TypeInv /\ AuthInv /\ [Next]_vars => TypeInv' /\ AuthInv'
  BY StepTypes, StepAuthorized
<1>3. AuthInv => OpenAuthorized
  BY DEF AuthInv
<1> QED
  BY <1>1, <1>2, <1>3, PTL DEF Spec

-----------------------------------------------------------------------------
(***************************************************************************)
(* The settler's outcomes are justified, for any plans, any number of      *)
(* commands, any interleaving and any crashes.                             *)
(*                                                                         *)
(* OutcomeJustified is not inductive: a line comes from the memory of a    *)
(* settler, and its outcome from a close artifact.  OutcomeInv adds that   *)
(* an artifact, once there, is that of a human close, and that an outcome  *)
(* in memory is justified already; AuthInv gives the approval.             *)
(***************************************************************************)

ArtifactsRecorded ==
    \A p \in PlanIds :
        closes[p] # NoClose => [plan |-> p, close |-> closes[p]] \in closings

MemoryJustified(m) ==
    m.step \in {"checkLog", "countLog", "appendLog"} =>
        Justified(m.id, m.st[m.id].hash, m.outcome, m.now)

ProcsJustified == \A q \in Procs : MemoryJustified(proc[q])

OutcomeInv == ArtifactsRecorded /\ ProcsJustified /\ OutcomeJustified

HistoryGrows == decisions \subseteq decisions' /\ closings \subseteq closings'

LEMMA JustifiedMono ==
    ASSUME HistoryGrows, NEW p, NEW h, NEW o, NEW t, Justified(p, h, o, t)
    PROVE  Justified(p, h, o, t)'
BY DEF HistoryGrows, Justified

LEMMA HistoryStep ==
    ASSUME Next PROVE HistoryGrows
<1>1. ASSUME NEW q \in Procs, Decide(q) PROVE HistoryGrows
  BY <1>1 DEF Decide, DecideStart, DecideWrite, history, HistoryGrows
<1>2. ASSUME NEW q \in Procs, TickStart(q) PROVE HistoryGrows
  BY <1>2 DEF TickStart, history, HistoryGrows
<1>3. ASSUME NEW q \in Procs, TickStep(q) PROVE HistoryGrows
  <2>1. UNCHANGED history
    BY <1>3 DEF TickStep, TickUnapproved, TickUnbound, TickPendingOpen,
                TickOpen, TickClosed, TickEnd, Visit
  <2> QED
    BY <2>1 DEF history, HistoryGrows
<1>4. ASSUME NEW q \in Procs, SaveStep(q) PROVE HistoryGrows
  BY <1>4 DEF SaveStep, TruncState, WriteState, TruncManifest, WriteManifest,
              history, HistoryGrows
<1>5. ASSUME NEW q \in Procs, NEW p \in PlanIds, CloseStart(q, p)
      PROVE  HistoryGrows
  BY <1>5 DEF CloseStart, history, HistoryGrows
<1>6. ASSUME NEW q \in Procs, CloseStep(q) PROVE HistoryGrows
  BY <1>6 DEF CloseStep, CloseReadState, CloseRefused, TruncClose, WriteClose,
              history, HistoryGrows
<1>7. ASSUME NEW q \in Procs, SettleStart(q) \/ SettleStep(q) PROVE HistoryGrows
  <2>1. UNCHANGED history
    BY <1>7 DEF SettleStart, SettleStep, SettleSkip, SettleObserve, SettleEnd,
                CheckLog, CountLog, AppendLog
  <2> QED
    BY <2>1 DEF history, HistoryGrows
<1>8. ASSUME NEW q \in Procs, Crash(q) PROVE HistoryGrows
  BY <1>8 DEF Crash, history, HistoryGrows
<1>9. CASE PassTime \/ \E h \in PlanHashes : IssuePlan(h)
  BY <1>9 DEF PassTime, IssuePlan, history, HistoryGrows
<1> QED
  BY <1>1, <1>2, <1>3, <1>4, <1>5, <1>6, <1>7, <1>8, <1>9 DEF Next

LEMMA ProcsJustifiedUpdate ==
    ASSUME ProcsOK, ProcsJustified, HistoryGrows,
           NEW q \in Procs, NEW m, MemoryJustified(m), Becomes(q, m)
    PROVE  ProcsJustified'
<1> SUFFICES ASSUME NEW r \in Procs PROVE MemoryJustified(proc[r])'
  BY DEF ProcsJustified
<1>1. \E x : proc'[r] = x /\ MemoryJustified(x)
  BY DEF ProcsOK, Becomes, ProcsJustified
<1> QED
  BY <1>1, JustifiedMono DEF MemoryJustified

(* A step that leaves the artifacts and the log alone.                     *)
LEMMA JustifiedStep ==
    ASSUME ProcsOK, OutcomeInv, HistoryGrows, NEW q \in Procs, NEW m,
           MemoryJustified(m), Becomes(q, m), UNCHANGED <<closes, log>>
    PROVE  OutcomeInv'
<1>1. ProcsJustified'
  BY ProcsJustifiedUpdate DEF OutcomeInv
<1>2. ArtifactsRecorded'
  BY DEF OutcomeInv, ArtifactsRecorded, HistoryGrows
<1>3. OutcomeJustified'
  BY JustifiedMono DEF OutcomeInv, OutcomeJustified
<1> QED
  BY <1>1, <1>2, <1>3 DEF OutcomeInv

Unsettled(m) == m.step \notin {"checkLog", "countLog", "appendLog"}

LEMMA GotoUnsettled ==
    ASSUME ProcsOK, NEW q \in Procs, NEW s,
           s \notin {"checkLog", "countLog", "appendLog"}
    PROVE  Unsettled([proc[q] EXCEPT !.step = s])
BY DEF ProcsOK, Process, Unsettled

LEMMA IdleUnsettled == Unsettled(IdleProcess)
BY DEF IdleProcess, Unsettled

(* Outside the settler a process holds no outcome: it is enough to name    *)
(* the memory each action leaves.                                          *)
LEMMA UnsettledStep ==
    ASSUME ProcsOK, OutcomeInv, HistoryGrows, NEW q \in Procs, NEW m,
           Unsettled(m), Becomes(q, m), UNCHANGED <<closes, log>>
    PROVE  OutcomeInv'
BY JustifiedStep DEF MemoryJustified, Unsettled

LEMMA RunnerJustified ==
    ASSUME TypeInv, OutcomeInv, HistoryGrows, NEW q \in Procs,
           Decide(q) \/ TickStart(q) \/ TickStep(q) \/ SaveStep(q)
    PROVE  OutcomeInv'
<1>0. ProcsOK /\ proc[q] \in Process
  BY DEF TypeInv, ProcsOK
<1>1. CASE Decide(q)
  <2>1. \A p, v : Unsettled([IdleProcess EXCEPT
                      !.step = "writePlan", !.now = clock, !.id = p,
                      !.plan = [planFile[p] EXCEPT !.auth = v]])
    BY DEF Unsettled, IdleProcess
  <2> QED
    BY <1>0, <1>1, <2>1, IdleUnsettled, UnsettledStep
    DEF Decide, DecideStart, DecideWrite, Finish, files
<1>2. CASE TickStart(q)
  <2>1. Unsettled([IdleProcess EXCEPT
                      !.step = "scan", !.now = clock, !.st = state,
                      !.todo = {p \in PlanIds : HasPlanFile(p)}])
    BY DEF Unsettled, IdleProcess
  <2> QED
    BY <1>0, <1>2, <2>1, UnsettledStep DEF TickStart, files
<1>3. CASE TickStep(q)
  <2>1. ASSUME NEW p \in PlanIds, NEW e, Visiting(q, p), Visit(q, p, e)
        PROVE  OutcomeInv'
    <3>1. Unsettled([proc[q] EXCEPT !.todo = @ \ {p}, !.ticked = TRUE,
                                    !.st = [@ EXCEPT ![p] = e]])
      BY <1>0, <2>1 DEF Visiting, Unsettled, Process
    <3> QED
      BY <1>0, <2>1, <3>1, UnsettledStep DEF Visit, files
  <2>2. ASSUME NEW p \in PlanIds, TickUnapproved(q, p) PROVE OutcomeInv'
    <3>1. Unsettled([proc[q] EXCEPT !.todo = @ \ {p}])
      BY <1>0, <2>2 DEF TickUnapproved, Visiting, Unsettled, Process
    <3> QED
      BY <1>0, <2>2, <3>1, UnsettledStep DEF TickUnapproved, files
  <2>3. ASSUME NEW p \in PlanIds,
               TickUnbound(q, p) \/ TickPendingOpen(q, p)
                  \/ TickOpen(q, p) \/ TickClosed(q, p)
        PROVE  OutcomeInv'
    BY <2>1, <2>3 DEF TickUnbound, TickPendingOpen, TickOpen, TickClosed
  <2>4. CASE TickEnd(q)
    BY <1>0, <2>4, IdleUnsettled, GotoUnsettled, UnsettledStep
    DEF TickEnd, Finish, Goto, files
  <2> QED
    BY <1>3, <2>2, <2>3, <2>4 DEF TickStep
<1>4. CASE SaveStep(q)
  BY <1>0, <1>4, IdleUnsettled, GotoUnsettled, UnsettledStep
  DEF SaveStep, TruncState, WriteState, TruncManifest, WriteManifest, Finish, Goto
<1> QED
  BY <1>1, <1>2, <1>3, <1>4

LEMMA CloseJustified ==
    ASSUME TypeInv, OutcomeInv, HistoryGrows, NEW q \in Procs,
           CloseStep(q) \/ \E p \in PlanIds : CloseStart(q, p)
    PROVE  OutcomeInv'
<1>0. ProcsOK /\ proc[q] \in Process
  BY DEF TypeInv, ProcsOK
<1>1. ASSUME NEW p \in PlanIds, CloseStart(q, p) PROVE OutcomeInv'
  <2>1. Unsettled([IdleProcess EXCEPT !.step = "readState", !.now = clock,
                                      !.id = p, !.plan = planFile[p]])
    BY DEF Unsettled, IdleProcess
  <2> QED
    BY <1>0, <1>1, <2>1, UnsettledStep DEF CloseStart, files
<1>2. ASSUME NEW pnl \in CloseSigns, CloseReadState(q, pnl) PROVE OutcomeInv'
  <2>1. \A c, st : Unsettled([proc[q] EXCEPT !.step = FirstWrite, !.close = c, !.st = st])
    BY <1>0 DEF Unsettled, Process, FirstWrite
  <2> QED
    BY <1>0, <1>2, <2>1, UnsettledStep DEF CloseReadState, files
<1>3. CASE CloseRefused(q)
  BY <1>0, <1>3, IdleUnsettled, UnsettledStep DEF CloseRefused, Finish, files
<1>4. CASE TruncClose(q)
  BY <1>0, <1>4, GotoUnsettled, UnsettledStep DEF TruncClose, Goto
<1>5. CASE WriteClose(q)
  <2>1. Unsettled([proc[q] EXCEPT !.step = "truncState"])
    BY <1>0, GotoUnsettled
  <2>2. ProcsJustified'
    BY <1>0, <1>5, <2>1, ProcsJustifiedUpdate
    DEF WriteClose, Goto, OutcomeInv, MemoryJustified, Unsettled
  <2>3. OutcomeJustified'
    BY <1>5, JustifiedMono DEF WriteClose, OutcomeInv, OutcomeJustified
  <2>4. ArtifactsRecorded'
    BY <1>5 DEF WriteClose, OutcomeInv, ArtifactsRecorded, TypeInv, TypeOK
  <2> QED
    BY <2>2, <2>3, <2>4 DEF OutcomeInv
<1> QED
  BY <1>1, <1>2, <1>3, <1>4, <1>5 DEF CloseStep

(* The outcome a settler derives from the state it read: the approval is   *)
(* that of the open position, the rest the artifact's or the calendar's.   *)
LEMMA DerivedJustified ==
    ASSUME TypeInv, AuthInv, OutcomeInv, NEW p \in PlanIds, NEW e \in Entry,
           NEW now \in Nat, EntryAuthorized(p, e),
           NEW outcome \in SettlableOutcomes(p, e, now)
    PROVE  Justified(p, e.hash, outcome, now)
<1>1. e.status \in {"OPEN", "CLOSED"}
  BY DEF SettlableOutcomes
<1>2. \E d \in decisions : d.hash = e.hash /\ d.verdict = "APPROVED"
  BY <1>1 DEF EntryAuthorized, ApprovedBy
<1>3. CASE e.status = "CLOSED"
  <2>1. closes[p] # NoClose /\ outcome = OutcomeForRealizedPnl(closes[p].pnl)
    BY <1>3 DEF SettlableOutcomes
  <2>2. [plan |-> p, close |-> closes[p]] \in closings
    BY <2>1 DEF OutcomeInv, ArtifactsRecorded
  <2>3. outcome \in CloseOutcomes
    BY <2>1 DEF OutcomeForRealizedPnl, CloseOutcomes
  <2> QED
    BY <1>2, <2>1, <2>2, <2>3 DEF Justified
<1>4. CASE e.status = "OPEN"
  <2>1. Date(now) >= Terms[e.hash].expiration
    BY <1>4 DEF SettlableOutcomes, AtExpiration
  <2>2. outcome \notin CloseOutcomes
    BY <1>4 DEF SettlableOutcomes, ExpirationOutcome, CloseOutcomes
  <2> QED
    BY <1>2, <2>1, <2>2 DEF Justified
<1> QED
  BY <1>1, <1>3, <1>4

LEMMA SettleJustified ==
    ASSUME TypeInv, AuthInv, OutcomeInv, HistoryGrows, NEW q \in Procs,
           SettleStart(q) \/ SettleStep(q)
    PROVE  OutcomeInv'
<1>0. /\ ProcsOK /\ proc[q] \in Process /\ MemoryOK(proc[q])
      /\ MemoryJustified(proc[q])
  BY DEF TypeInv, ProcsOK, OutcomeInv, ProcsJustified
<1>1. CASE SettleStart(q)
  <2>1. Unsettled([IdleProcess EXCEPT
                      !.step = "settle", !.now = clock, !.st = state,
                      !.todo = {p \in PlanIds : state[p].status # "ABSENT"}])
    BY DEF Unsettled, IdleProcess
  <2> QED
    BY <1>0, <1>1, <2>1, UnsettledStep DEF SettleStart, files
<1>2. ASSUME NEW p \in PlanIds, SettleSkip(q, p) PROVE OutcomeInv'
  <2>1. Unsettled([proc[q] EXCEPT !.todo = @ \ {p}])
    BY <1>0, <1>2 DEF SettleSkip, Unsettled, Process
  <2> QED
    BY <1>0, <1>2, <2>1, UnsettledStep DEF SettleSkip, files
<1>3. ASSUME NEW p \in PlanIds, SettleObserve(q, p) PROVE OutcomeInv'
  <2>1. PICK outcome \in SettlableOutcomes(p, proc[q].st[p], proc[q].now) :
           Becomes(q, [proc[q] EXCEPT !.step = "checkLog", !.todo = @ \ {p},
                                      !.id = p, !.outcome = outcome])
    BY <1>3 DEF SettleObserve
  <2> DEFINE m == [proc[q] EXCEPT !.step = "checkLog", !.todo = @ \ {p},
                                  !.id = p, !.outcome = outcome]
  <2>2. proc[q].st[p] \in Entry /\ proc[q].now \in Nat
    BY <1>0 DEF Process, RunnerState
  <2>3. EntryAuthorized(p, proc[q].st[p])
    BY DEF AuthInv, ProcsAuthorized, MemoryAuthorized
  <2>4. Justified(p, proc[q].st[p].hash, outcome, proc[q].now)
    BY <2>2, <2>3, DerivedJustified
  <2>5. m.id = p /\ m.outcome = outcome /\ m.st = proc[q].st /\ m.now = proc[q].now
    BY <1>0 DEF Process
  <2>6. MemoryJustified(m)
    BY <2>4, <2>5 DEF MemoryJustified
  <2> QED
    BY <1>0, <1>3, <2>1, <2>6, JustifiedStep DEF SettleObserve, files
<1>4. CASE SettleEnd(q)
  BY <1>0, <1>4, IdleUnsettled, UnsettledStep DEF SettleEnd, Finish, files
<1>5. Unsettled([proc[q] EXCEPT !.step = "settle", !.id = None,
                                !.outcome = None, !.seq = 0])
  BY <1>0 DEF Unsettled, Process
<1>6. CASE CheckLog(q)
  <2>1. MemoryJustified([proc[q] EXCEPT !.step = "countLog"])
    BY <1>0, <1>6 DEF CheckLog, MemoryJustified, Process
  <2> QED
    BY <1>0, <1>5, <1>6, <2>1, IdleUnsettled, UnsettledStep, JustifiedStep
    DEF CheckLog, Finish, NextPlan, Goto, files
<1>7. CASE CountLog(q)
  <2>1. MemoryJustified([proc[q] EXCEPT !.step = "appendLog", !.seq = Len(log) + 1])
    BY <1>0, <1>7 DEF CountLog, MemoryJustified, Process
  <2> QED
    BY <1>0, <1>7, <2>1, JustifiedStep DEF CountLog, files
<1>8. CASE AppendLog(q)
  <2> DEFINE line == [plan |-> proc[q].id, hash |-> proc[q].st[proc[q].id].hash,
                      outcome |-> proc[q].outcome, seq |-> proc[q].seq,
                      at |-> proc[q].now]
  <2>1. ProcsJustified'
    BY <1>0, <1>5, <1>8, ProcsJustifiedUpdate
    DEF AppendLog, NextPlan, OutcomeInv, MemoryJustified, Unsettled
  <2>2. ArtifactsRecorded'
    BY <1>8 DEF AppendLog, OutcomeInv, ArtifactsRecorded, history
  <2>3. Justified(line.plan, line.hash, line.outcome, line.at)
    BY <1>0, <1>8 DEF AppendLog, MemoryJustified
  <2>4. log \in Seq(LogEntry) /\ (log' = log \/ log' = Append(log, line))
    BY <1>8 DEF AppendLog, TypeInv, TypeOK
  <2>5. ASSUME NEW i \in DOMAIN log'
        PROVE  Justified(log'[i].plan, log'[i].hash, log'[i].outcome, log'[i].at)
    <3>1. CASE i \in DOMAIN log /\ log'[i] = log[i]
      BY <3>1 DEF OutcomeInv, OutcomeJustified
    <3>2. CASE log'[i] = line
      BY <2>3, <3>2
    <3> QED
      BY <2>4, <3>1, <3>2
  <2>6. OutcomeJustified'
    <3>1. \A p, h, o, t : Justified(p, h, o, t) => Justified(p, h, o, t)'
      BY JustifiedMono
    <3> QED
      BY <2>5, <3>1 DEF OutcomeJustified
  <2> QED
    BY <2>1, <2>2, <2>6 DEF OutcomeInv
<1> QED
  BY <1>1, <1>2, <1>3, <1>4, <1>6, <1>7, <1>8 DEF SettleStep

LEMMA InitJustified == Init => OutcomeInv
BY DEF Init, OutcomeInv, ArtifactsRecorded, ProcsJustified, MemoryJustified,
       IdleProcess, OutcomeJustified

LEMMA StepJustified == TypeInv /\ AuthInv /\ OutcomeInv /\ [Next]_vars => OutcomeInv'
<1> SUFFICES ASSUME TypeInv, AuthInv, OutcomeInv, [Next]_vars PROVE OutcomeInv'
  OBVIOUS
<1>1. CASE UNCHANGED <<closes, log, proc, decisions, closings>>
  BY <1>1 DEF OutcomeInv, ArtifactsRecorded, ProcsJustified, MemoryJustified,
              OutcomeJustified, Justified
<1>2. CASE Next
  <2>1. HistoryGrows /\ ProcsOK
    BY <1>2, HistoryStep DEF TypeInv
  <2>2. ASSUME NEW q \in Procs, Crash(q) PROVE OutcomeInv'
    BY <2>1, <2>2, IdleUnsettled, UnsettledStep DEF Crash, Finish
  <2>3. CASE PassTime \/ \E h \in PlanHashes : IssuePlan(h)
    BY <1>1, <2>3 DEF PassTime, IssuePlan, files, history
  <2> QED
    BY <1>2, <2>1, <2>2, <2>3, RunnerJustified, CloseJustified, SettleJustified
    DEF Next
<1>3. CASE UNCHANGED vars
  BY <1>1, <1>3 DEF vars, files, history
<1> QED
  BY <1>2, <1>3

(* No outcome in the log is a guess: each rests on a human approval and on *)
(* a recorded human close of that sign or on the plan's expiration date    *)
(* (settle_paper_outcomes), for any interleaving and any crashes.          *)
THEOREM OutcomesJustified == Spec => []OutcomeJustified
<1>1. Init => TypeInv /\ AuthInv /\ OutcomeInv
  BY InitTypes, InitAuthorized, InitJustified
<1>2. TypeInv /\ AuthInv /\ OutcomeInv /\ [Next]_vars
         => TypeInv' /\ AuthInv' /\ OutcomeInv'
  BY StepTypes, StepAuthorized, StepJustified
<1>3. OutcomeInv => OutcomeJustified
  BY DEF OutcomeInv
<1> QED
  BY <1>1, <1>2, <1>3, PTL DEF Spec

-----------------------------------------------------------------------------
(* The outcome log under overlapping settlements.  A process that has      *)
(* checked the log and has not written yet is about to append; what it     *)
(* will append may have been written since.                                *)

Appending(m) == m.step \in {"countLog", "appendLog"}
Pending(p, outcome) ==
    {q \in Procs : Appending(proc[q]) /\ proc[q].id = p /\ proc[q].outcome = outcome}
LineOf(m) ==
    [plan |-> m.id, hash |-> m.st[m.id].hash, outcome |-> m.outcome, seq |-> m.seq, at |-> m.now]

\* What a step means to the log: process q goes on with memory m.
Elsewhere(q, m) == ~Appending(m) /\ log' = log
Checked(q, m) ==
    /\ proc[q].step = "checkLog" /\ ~Recorded(proc[q].id, proc[q].outcome)
    /\ m = [proc[q] EXCEPT !.step = "countLog"] /\ log' = log
Counted(q, m) ==
    /\ proc[q].step = "countLog"
    /\ m = [proc[q] EXCEPT !.step = "appendLog", !.seq = Len(log) + 1] /\ log' = log
Appended(q, m) ==
    /\ proc[q].step = "appendLog" /\ ~Appending(m)
    /\ log' = Append(log, LineOf(proc[q]))
LogStep(q, m) ==
    /\ Becomes(q, m)
    /\ \/ Elsewhere(q, m) \/ Checked(q, m) \/ Counted(q, m) \/ Appended(q, m)

LEMMA SettleLogs ==
    ASSUME TypeInv, NEW q \in Procs, SettleStart(q) \/ SettleStep(q)
    PROVE  \E m : LogStep(q, m)
<1>0. proc[q] \in Process
  BY DEF TypeInv, ProcsOK
<1>1. CASE SettleStart(q)
  <2>1. PICK m : /\ m = [IdleProcess EXCEPT
                          !.step = "settle", !.now = clock, !.st = state,
                          !.todo = {p \in PlanIds : state[p].status # "ABSENT"}]
                 /\ Becomes(q, m) /\ log' = log
    BY <1>1 DEF SettleStart, files
  <2>2. m.step = "settle"
    BY <2>1 DEF IdleProcess
  <2> QED
    BY <2>1, <2>2 DEF LogStep, Elsewhere, Appending
<1>2. ASSUME NEW p \in PlanIds, SettleSkip(q, p) PROVE \E m : LogStep(q, m)
  <2>1. PICK m : m = [proc[q] EXCEPT !.todo = @ \ {p}] /\ Becomes(q, m) /\ log' = log
    BY <1>2 DEF SettleSkip, files
  <2>2. m.step = "settle"
    BY <1>0, <1>2, <2>1 DEF SettleSkip, Process
  <2> QED
    BY <2>1, <2>2 DEF LogStep, Elsewhere, Appending
<1>3. ASSUME NEW p \in PlanIds, SettleObserve(q, p) PROVE \E m : LogStep(q, m)
  <2>1. PICK outcome \in SettlableOutcomes(p, proc[q].st[p], proc[q].now) :
           Becomes(q, [proc[q] EXCEPT !.step = "checkLog", !.todo = @ \ {p},
                                      !.id = p, !.outcome = outcome])
    BY <1>3 DEF SettleObserve
  <2>2. PICK m : /\ m = [proc[q] EXCEPT !.step = "checkLog", !.todo = @ \ {p},
                                        !.id = p, !.outcome = outcome]
                 /\ Becomes(q, m) /\ log' = log
    BY <1>3, <2>1 DEF SettleObserve, files
  <2>3. m.step = "checkLog"
    BY <1>0, <2>2 DEF Process
  <2> QED
    BY <2>2, <2>3 DEF LogStep, Elsewhere, Appending
<1>4. ASSUME Becomes(q, IdleProcess), log' = log PROVE \E m : LogStep(q, m)
  <2>1. IdleProcess.step = "idle"
    BY DEF IdleProcess
  <2> QED
    BY <1>4, <2>1 DEF LogStep, Elsewhere, Appending
<1>5. CASE SettleEnd(q)
  BY <1>4, <1>5 DEF SettleEnd, Finish, files
<1>6. PICK rest : rest = [proc[q] EXCEPT !.step = "settle", !.id = None,
                                         !.outcome = None, !.seq = 0]
  OBVIOUS
<1>7. ~Appending(rest)
  BY <1>0, <1>6 DEF Appending, Process
<1>8. CASE CheckLog(q)
  <2>1. proc[q].step = "checkLog" /\ log' = log
    BY <1>8 DEF CheckLog, files
  <2>2. CASE Finish(q)
    BY <1>4, <2>1, <2>2 DEF Finish
  <2>3. CASE NextPlan(q)
    BY <1>6, <1>7, <2>1, <2>3 DEF NextPlan, LogStep, Elsewhere
  <2>4. CASE ~Recorded(proc[q].id, proc[q].outcome) /\ Goto(q, "countLog")
    BY <2>1, <2>4 DEF Goto, LogStep, Checked
  <2> QED
    BY <1>8, <2>2, <2>3, <2>4 DEF CheckLog
<1>9. CASE CountLog(q)
  BY <1>9 DEF CountLog, LogStep, Counted, files
<1>10. CASE AppendLog(q)
  <2>1. proc[q].step = "appendLog" /\ Becomes(q, rest)
    BY <1>6, <1>10 DEF AppendLog, NextPlan
  <2>2. CASE log' = log
    BY <1>7, <2>1, <2>2 DEF LogStep, Elsewhere
  <2>3. CASE log' = Append(log, LineOf(proc[q]))
    BY <1>7, <2>1, <2>3 DEF LogStep, Appended
  <2> QED
    BY <1>10, <2>2, <2>3 DEF AppendLog, LineOf
<1> QED
  BY <1>1, <1>2, <1>3, <1>5, <1>8, <1>9, <1>10 DEF SettleStep

\* A step of another command leaves the log alone and is about to append nothing.
LEMMA OtherStep ==
    ASSUME TypeInv, NEW q \in Procs,
           \/ Decide(q) \/ TickStart(q) \/ TickStep(q) \/ SaveStep(q) \/ CloseStep(q)
           \/ (\E p \in PlanIds : CloseStart(q, p)) \/ Crash(q)
    PROVE  \E m : LogStep(q, m)
<1>0. proc[q] \in Process
  BY DEF TypeInv, ProcsOK
<1>1. ASSUME NEW m, Becomes(q, m), log' = log, m.step \notin {"countLog", "appendLog"}
      PROVE  \E n : LogStep(q, n)
  BY <1>1 DEF LogStep, Elsewhere, Appending
<1>2. IdleProcess.step = "idle"
  BY DEF IdleProcess
<1>3. CASE Finish(q) /\ log' = log
  BY <1>1, <1>2, <1>3 DEF Finish
<1>4. ASSUME NEW s, Goto(q, s), log' = log, s \notin {"countLog", "appendLog"}
      PROVE  \E n : LogStep(q, n)
  <2>1. [proc[q] EXCEPT !.step = s].step = s
    BY <1>0 DEF Process
  <2> QED
    BY <1>1, <1>4, <2>1 DEF Goto
<1>5. CASE Decide(q)
  <2>1. CASE DecideWrite(q)
    BY <1>3, <2>1 DEF DecideWrite
  <2>2. ASSUME NEW p \in PlanIds, NEW v \in Verdicts, DecideStart(q, p, v)
        PROVE  \E n : LogStep(q, n)
    BY <1>1, <2>2 DEF DecideStart, IdleProcess, files
  <2> QED
    BY <1>5, <2>1, <2>2 DEF Decide
<1>6. CASE TickStart(q)
  BY <1>1, <1>6 DEF TickStart, IdleProcess, files
<1>7. CASE TickStep(q)
  <2>1. ASSUME NEW p, NEW e, Visiting(q, p), Visit(q, p, e)
        PROVE  \E n : LogStep(q, n)
    <3>1. PICK m : /\ m = [proc[q] EXCEPT !.todo = @ \ {p}, !.ticked = TRUE,
                                          !.st = [@ EXCEPT ![p] = e]]
                   /\ Becomes(q, m) /\ log' = log
      BY <2>1 DEF Visit, files
    <3>2. m.step = "scan"
      BY <1>0, <2>1, <3>1 DEF Visiting, Process
    <3> QED
      BY <1>1, <3>1, <3>2
  <2>2. ASSUME NEW p \in PlanIds, TickUnapproved(q, p) PROVE \E n : LogStep(q, n)
    <3>1. PICK m : m = [proc[q] EXCEPT !.todo = @ \ {p}] /\ Becomes(q, m) /\ log' = log
      BY <2>2 DEF TickUnapproved, files
    <3>2. m.step = "scan"
      BY <1>0, <2>2, <3>1 DEF TickUnapproved, Visiting, Process
    <3> QED
      BY <1>1, <3>1, <3>2
  <2>3. CASE TickEnd(q)
    BY <1>3, <1>4, <2>3 DEF TickEnd, files
  <2> QED
    BY <1>7, <2>1, <2>2, <2>3
    DEF TickStep, TickUnbound, TickPendingOpen, TickOpen, TickClosed
<1>8. CASE SaveStep(q)
  BY <1>3, <1>4, <1>8 DEF SaveStep, TruncState, WriteState, TruncManifest, WriteManifest
<1>9. ASSUME NEW p \in PlanIds, CloseStart(q, p) PROVE \E n : LogStep(q, n)
  BY <1>1, <1>9 DEF CloseStart, IdleProcess, files
<1>10. CASE CloseStep(q)
  <2>1. ASSUME NEW pnl \in CloseSigns, CloseReadState(q, pnl) PROVE \E n : LogStep(q, n)
    <3>1. PICK record, st :
            /\ Becomes(q, [proc[q] EXCEPT !.step = FirstWrite, !.close = record, !.st = st])
            /\ log' = log
      BY <2>1 DEF CloseReadState, files
    <3>2. PICK m : /\ m = [proc[q] EXCEPT !.step = FirstWrite, !.close = record, !.st = st]
                   /\ Becomes(q, m)
      BY <3>1
    <3>3. m.step = "truncClose"
      BY <1>0, <3>2 DEF Process, FirstWrite
    <3> QED
      BY <1>1, <3>1, <3>2, <3>3
  <2>2. CASE CloseRefused(q)
    BY <1>3, <2>2 DEF CloseRefused, files
  <2>3. CASE TruncClose(q) \/ WriteClose(q)
    BY <1>4, <2>3 DEF TruncClose, WriteClose
  <2> QED
    BY <1>10, <2>1, <2>2, <2>3 DEF CloseStep
<1>11. CASE Crash(q)
  BY <1>3, <1>11 DEF Crash
<1> QED
  BY <1>5, <1>6, <1>7, <1>8, <1>9, <1>10, <1>11

LEMMA StepsOfLog ==
    ASSUME TypeInv, [Next]_vars
    PROVE  UNCHANGED <<proc, log>> \/ \E q \in Procs : \E m : LogStep(q, m)
<1>1. CASE PassTime \/ (\E h \in PlanHashes : IssuePlan(h)) \/ UNCHANGED vars
  BY <1>1 DEF PassTime, IssuePlan, vars, files
<1>2. ASSUME NEW q \in Procs,
             \/ Decide(q) \/ TickStart(q) \/ TickStep(q) \/ SaveStep(q) \/ CloseStep(q)
             \/ (\E p \in PlanIds : CloseStart(q, p)) \/ Crash(q)
             \/ SettleStart(q) \/ SettleStep(q)
      PROVE  \E m : LogStep(q, m)
  BY <1>2, SettleLogs, OtherStep
<1> QED
  BY <1>1, <1>2 DEF Next

(* Lines of one outcome are at most as many as the processes: those that   *)
(* had checked the log when the first was written may each add one, and    *)
(* those that check it later find it there.                                *)
RepeatInv ==
    /\ \A p \in PlanIds, outcome \in Outcomes :
          Lines(p, outcome) # {} =>
              Cardinality(Lines(p, outcome)) + Cardinality(Pending(p, outcome))
                  <= Cardinality(Procs)
    /\ \A i \in DOMAIN log : log[i].seq \in 1..i
    /\ \A q \in Procs : proc[q].step = "appendLog" => proc[q].seq \in 1..(Len(log) + 1)

LEMMA LogSets ==
    ASSUME TypeInv, NEW p, NEW outcome
    PROVE  /\ IsFiniteSet(Procs) /\ Cardinality(Procs) \in Nat
           /\ IsFiniteSet(Lines(p, outcome)) /\ Cardinality(Lines(p, outcome)) \in Nat
           /\ IsFiniteSet(Pending(p, outcome)) /\ Cardinality(Pending(p, outcome)) \in Nat
           /\ Cardinality(Pending(p, outcome)) <= Cardinality(Procs)
           /\ Len(log) \in Nat /\ DOMAIN log = 1..Len(log)
<1>1. IsFiniteSet(Procs) /\ Pending(p, outcome) \subseteq Procs
  BY LifecycleAssumption DEF Pending
<1>2. Len(log) \in Nat /\ DOMAIN log = 1..Len(log)
  BY LenProperties DEF TypeInv, TypeOK
<1>3. IsFiniteSet(1..Len(log)) /\ Lines(p, outcome) \subseteq 1..Len(log)
  BY <1>2, FS_Interval DEF Lines
<1> QED
  BY <1>1, <1>2, <1>3, FS_Subset, FS_CardinalityType

\* The lines after a step that appends line, or none.
LEMMA LinesAfter ==
    ASSUME TypeInv, NEW line, NEW p, NEW outcome, log' = Append(log, line)
    PROVE  /\ DOMAIN log' = 1..(Len(log) + 1) /\ Len(log') = Len(log) + 1
           /\ \A i \in 1..Len(log) : log'[i] = log[i]
           /\ log'[Len(log) + 1] = line
           /\ Lines(p, outcome)' = IF line.plan = p /\ line.outcome = outcome
                                   THEN Lines(p, outcome) \cup {Len(log) + 1}
                                   ELSE Lines(p, outcome)
           /\ Len(log) + 1 \notin Lines(p, outcome)
<1>1. Len(log) \in Nat /\ DOMAIN log = 1..Len(log)
  BY LenProperties DEF TypeInv, TypeOK
<1>2. /\ DOMAIN log' = 1..(Len(log) + 1) /\ Len(log') = Len(log) + 1
      /\ \A i \in 1..Len(log) : log'[i] = log[i]
      /\ log'[Len(log) + 1] = line
  BY <1>1 DEF TypeInv, TypeOK
<1>3. 1..(Len(log) + 1) = 1..Len(log) \cup {Len(log) + 1}
  BY <1>1
<1>4. Len(log) + 1 \notin 1..Len(log)
  BY <1>1
<1>5. CASE line.plan = p /\ line.outcome = outcome
  BY <1>1, <1>2, <1>3, <1>4, <1>5, ZenonT(30) DEF Lines
<1>6. CASE ~(line.plan = p /\ line.outcome = outcome)
  BY <1>1, <1>2, <1>3, <1>4, <1>6, ZenonT(30) DEF Lines
<1> QED
  BY <1>1, <1>2, <1>4, <1>5, <1>6 DEF Lines

LEMMA RepeatStep ==
    ASSUME TypeInv, RepeatInv, NEW q \in Procs, NEW m, LogStep(q, m), TypeInv'
    PROVE  RepeatInv'
<1>0. /\ proc[q] \in Process /\ MemoryOK(proc[q]) /\ proc' = [proc EXCEPT ![q] = m]
      /\ DOMAIN proc = Procs
  BY DEF TypeInv, ProcsOK, LogStep, Becomes
<1>1. proc'[q] = m /\ \A r \in Procs : r # q => proc'[r] = proc[r]
  BY <1>0
<1>2. Len(log) \in Nat /\ DOMAIN log = 1..Len(log)
  BY LogSets
<1>3. ASSUME NEW p, NEW outcome,
             ~Appending(m) \/ (Appending(proc[q]) /\ m.id = proc[q].id /\ m.outcome = proc[q].outcome)
      PROVE  Pending(p, outcome)' \subseteq Pending(p, outcome)
  BY <1>1, <1>3 DEF Pending
<1>4. ASSUME NEW p \in PlanIds, NEW outcome \in Outcomes, log' = log,
             Pending(p, outcome)' \subseteq Pending(p, outcome)
      PROVE  Lines(p, outcome)' # {} =>
                Cardinality(Lines(p, outcome)') + Cardinality(Pending(p, outcome)')
                    <= Cardinality(Procs)
  <2>1. Cardinality(Pending(p, outcome)') <= Cardinality(Pending(p, outcome))
        /\ Cardinality(Pending(p, outcome)') \in Nat
    BY <1>4, LogSets, FS_Subset, FS_CardinalityType
  <2>2. Lines(p, outcome)' = Lines(p, outcome)
    BY <1>4 DEF Lines
  <2> QED
    BY <2>1, <2>2, LogSets DEF RepeatInv
<1>5. CASE Elsewhere(q, m)
  <2>1. log' = log /\ ~Appending(m)
    BY <1>5 DEF Elsewhere
  <2>2. \A r \in Procs : proc'[r].step = "appendLog" => r # q
    BY <1>1, <2>1 DEF Appending
  <2> QED
    BY <1>1, <1>3, <1>4, <2>1, <2>2 DEF RepeatInv
<1>6. CASE Checked(q, m)
  <2>1. /\ log' = log /\ proc[q].step = "checkLog"
        /\ m.step = "countLog" /\ m.id = proc[q].id /\ m.outcome = proc[q].outcome
        /\ Lines(m.id, m.outcome) = {}
    BY <1>0, <1>6 DEF Checked, Process, Recorded, Lines
  <2>2. ASSUME NEW p \in PlanIds, NEW outcome \in Outcomes
        PROVE  Lines(p, outcome)' # {} =>
                  Cardinality(Lines(p, outcome)') + Cardinality(Pending(p, outcome)')
                      <= Cardinality(Procs)
    <3>1. CASE m.id = p /\ m.outcome = outcome
      BY <2>1, <3>1 DEF Lines
    <3>2. CASE ~(m.id = p /\ m.outcome = outcome)
      <4>1. Pending(p, outcome)' \subseteq Pending(p, outcome)
        BY <1>1, <3>2 DEF Pending
      <4> QED
        BY <1>4, <2>1, <4>1
    <3> QED
      BY <3>1, <3>2
  <2>3. \A r \in Procs : proc'[r].step = "appendLog" => r # q
    BY <1>1, <2>1
  <2> QED
    BY <1>1, <2>1, <2>2, <2>3 DEF RepeatInv
<1>7. CASE Counted(q, m)
  <2>1. /\ log' = log /\ proc[q].step = "countLog" /\ m.seq = Len(log) + 1
        /\ m.id = proc[q].id /\ m.outcome = proc[q].outcome
    <3>1. PICK n : n = [proc[q] EXCEPT !.step = "appendLog", !.seq = Len(log) + 1]
      OBVIOUS
    <3>2. n.seq = Len(log) + 1 /\ n.id = proc[q].id /\ n.outcome = proc[q].outcome
      BY <1>0, <3>1 DEF Process
    <3> QED
      BY <1>7, <3>1, <3>2 DEF Counted
  <2>2. Appending(proc[q])
    BY <2>1 DEF Appending
  <2>3. m.seq \in 1..(Len(log) + 1)
    BY <1>2, <2>1
  <2>4. \A r \in Procs : proc'[r].step = "appendLog" => proc'[r].seq \in 1..(Len(log') + 1)
    BY <1>1, <2>1, <2>3 DEF RepeatInv
  <2> QED
    BY <1>3, <1>4, <2>1, <2>2, <2>4 DEF RepeatInv
<1>8. CASE Appended(q, m)
  <2>1. /\ proc[q].step = "appendLog" /\ ~Appending(m) /\ Appending(proc[q])
        /\ log' = Append(log, LineOf(proc[q]))
    BY <1>8 DEF Appended, Appending
  <2>2. /\ LineOf(proc[q]).plan = proc[q].id /\ LineOf(proc[q]).outcome = proc[q].outcome
        /\ LineOf(proc[q]).seq = proc[q].seq
    BY DEF LineOf
  <2>3. ASSUME NEW p \in PlanIds, NEW outcome \in Outcomes
        PROVE  Lines(p, outcome)' # {} =>
                  Cardinality(Lines(p, outcome)') + Cardinality(Pending(p, outcome)')
                      <= Cardinality(Procs)
    <3>1. CASE proc[q].id = p /\ proc[q].outcome = outcome
      <4>1. q \in Pending(p, outcome) /\ Pending(p, outcome)' = Pending(p, outcome) \ {q}
        BY <1>1, <2>1, <3>1 DEF Pending
      <4>2. Cardinality(Pending(p, outcome)') = Cardinality(Pending(p, outcome)) - 1
        BY <4>1, LogSets, FS_RemoveElement
      <4>3. Cardinality(Lines(p, outcome)') = Cardinality(Lines(p, outcome)) + 1
        BY <2>1, <2>2, <3>1, LinesAfter, LogSets, FS_AddElement
      <4>4. CASE Lines(p, outcome) = {}
        <5>1. Cardinality(Lines(p, outcome)) = 0
          BY <4>4, FS_EmptySet
        <5> QED
          BY <4>2, <4>3, <5>1, LogSets
      <4>5. CASE Lines(p, outcome) # {}
        BY <4>2, <4>3, <4>5, LogSets DEF RepeatInv
      <4> QED
        BY <4>4, <4>5
    <3>2. CASE ~(proc[q].id = p /\ proc[q].outcome = outcome)
      <4>1. Pending(p, outcome)' = Pending(p, outcome)
        BY <1>1, <2>1, <3>2 DEF Pending
      <4>2. Lines(p, outcome)' = Lines(p, outcome)
        BY <2>1, <2>2, <3>2, LinesAfter
      <4> QED
        BY <4>1, <4>2 DEF RepeatInv
    <3> QED
      BY <3>1, <3>2
  <2>4. /\ DOMAIN log' = 1..(Len(log) + 1) /\ Len(log') = Len(log) + 1
        /\ \A i \in 1..Len(log) : log'[i] = log[i]
        /\ log'[Len(log) + 1].seq = proc[q].seq
    BY <2>1, <2>2, LinesAfter
  <2>5. proc[q].seq \in 1..(Len(log) + 1)
    BY <2>1 DEF RepeatInv
  <2>6. \A i \in DOMAIN log' : log'[i].seq \in 1..i
    <3> TAKE i \in DOMAIN log'
    <3>1. i \in 1..Len(log) \/ i = Len(log) + 1
      BY <1>2, <2>4
    <3> QED
      BY <1>2, <2>4, <2>5, <3>1 DEF RepeatInv
  <2>7. \A r \in Procs : proc'[r].step = "appendLog" => proc'[r].seq \in 1..(Len(log') + 1)
    <3> SUFFICES ASSUME NEW r \in Procs, proc'[r].step = "appendLog"
                 PROVE  proc'[r].seq \in 1..(Len(log') + 1)
      OBVIOUS
    <3>1. r # q
      BY <1>1, <2>1 DEF Appending
    <3>2. proc'[r].seq \in 1..(Len(log) + 1)
      BY <1>1, <3>1 DEF RepeatInv
    <3> QED
      BY <1>2, <2>4, <3>2
  <2> QED
    BY <2>3, <2>6, <2>7 DEF RepeatInv
<1> QED
  BY <1>5, <1>6, <1>7, <1>8 DEF LogStep

(* However settlements overlap, and wherever they die, a line of the       *)
(* outcome log is repeated at most once per process, and is never numbered *)
(* beyond its place (settler.py, paper_log.py).                            *)
THEOREM RepeatsAreBounded == Spec => []RepeatsBounded
<1>1. Init => RepeatInv
  BY DEF Init, RepeatInv, Lines, IdleProcess
<1>2. TypeInv /\ TypeInv' /\ RepeatInv /\ [Next]_vars => RepeatInv'
  <2> SUFFICES ASSUME TypeInv, TypeInv', RepeatInv, [Next]_vars PROVE RepeatInv'
    OBVIOUS
  <2>1. CASE UNCHANGED <<proc, log>>
    BY <2>1 DEF RepeatInv, Lines, Pending
  <2> QED
    BY <2>1, StepsOfLog, RepeatStep
<1>3. TypeInv /\ RepeatInv => RepeatsBounded
  <2> SUFFICES ASSUME TypeInv, RepeatInv,
                      NEW p \in PlanIds, NEW outcome \in Outcomes
               PROVE  Cardinality(Lines(p, outcome)) <= Cardinality(Procs)
    BY DEF RepeatsBounded, RepeatInv
  <2>1. CASE Lines(p, outcome) = {}
    BY <2>1, LogSets, FS_EmptySet
  <2>2. CASE Lines(p, outcome) # {}
    BY <2>2, LogSets DEF RepeatInv
  <2> QED
    BY <2>1, <2>2
<1> QED
  BY <1>1, <1>2, <1>3, InitTypes, StepTypes, PTL DEF Spec

(* Both of them: what overlapping settlements leave of the promises of the *)
(* outcome log (settler.py: "UNKNOWN, never a guess", "never recorded      *)
(* twice").                                                                *)
THEOREM LogIsKept == Spec => []LogKept
BY OutcomesJustified, RepeatsAreBounded, PTL DEF LogKept

(* Settlements that do not overlap, whatever else runs: no two processes   *)
(* are between checking the log and appending to it.                       *)
SettlersApart ==
    \A q, r \in Procs :
        /\ proc[q].step \in {"checkLog", "countLog", "appendLog"}
        /\ proc[r].step \in {"checkLog", "countLog", "appendLog"}
        => q = r

ApartInv ==
    /\ OutcomeRecordedOnce /\ LogNumbered
    /\ \A q \in Procs : Appending(proc[q]) => Lines(proc[q].id, proc[q].outcome) = {}
    /\ \A q \in Procs : proc[q].step = "appendLog" => proc[q].seq = Len(log) + 1

LEMMA ApartStep ==
    ASSUME TypeInv, SettlersApart, ApartInv, NEW q \in Procs, NEW m, LogStep(q, m)
    PROVE  ApartInv'
<1>0. proc[q] \in Process /\ proc' = [proc EXCEPT ![q] = m] /\ DOMAIN proc = Procs
  BY DEF TypeInv, ProcsOK, LogStep, Becomes
<1>1. proc'[q] = m /\ \A r \in Procs : r # q => proc'[r] = proc[r]
  BY <1>0
<1>2. ASSUME log' = log,
             Appending(m) => Lines(m.id, m.outcome) = {},
             m.step = "appendLog" => m.seq = Len(log) + 1
      PROVE  ApartInv'
  <2>1. \A r \in Procs : Appending(proc'[r]) => Lines(proc'[r].id, proc'[r].outcome) = {}
    BY <1>1, <1>2 DEF ApartInv
  <2>2. \A r \in Procs : proc'[r].step = "appendLog" => proc'[r].seq = Len(log) + 1
    BY <1>1, <1>2 DEF ApartInv
  <2>3. OutcomeRecordedOnce' /\ LogNumbered'
    BY <1>2 DEF ApartInv, OutcomeRecordedOnce, LogNumbered
  <2> QED
    BY <1>2, <2>1, <2>2, <2>3 DEF ApartInv, Lines
<1>3. CASE Elsewhere(q, m)
  BY <1>2, <1>3 DEF Elsewhere, Appending
<1>4. CASE Checked(q, m)
  <2>1. /\ log' = log /\ m.step = "countLog" /\ m.id = proc[q].id
        /\ m.outcome = proc[q].outcome /\ Lines(proc[q].id, proc[q].outcome) = {}
    BY <1>0, <1>4 DEF Checked, Process, Recorded, Lines
  <2> QED
    BY <1>2, <2>1
<1>5. CASE Counted(q, m)
  <2>1. PICK n : n = [proc[q] EXCEPT !.step = "appendLog", !.seq = Len(log) + 1]
    OBVIOUS
  <2>2. n.seq = Len(log) + 1 /\ n.id = proc[q].id /\ n.outcome = proc[q].outcome
    BY <1>0, <2>1 DEF Process
  <2>3. m = n /\ log' = log /\ Appending(proc[q])
    BY <1>5, <2>1 DEF Counted, Appending
  <2> QED
    BY <1>2, <2>2, <2>3 DEF ApartInv
<1>6. CASE Appended(q, m)
  <2>1. /\ proc[q].step = "appendLog" /\ Appending(proc[q]) /\ ~Appending(m)
        /\ log' = Append(log, LineOf(proc[q]))
    BY <1>6 DEF Appended, Appending
  <2>2. \A r \in Procs : ~Appending(proc'[r])
    BY <1>1, <2>1 DEF SettlersApart, Appending
  <2>3. /\ LineOf(proc[q]).plan = proc[q].id /\ LineOf(proc[q]).outcome = proc[q].outcome
        /\ LineOf(proc[q]).seq = Len(log) + 1
    BY <2>1 DEF LineOf, ApartInv
  <2>4. /\ DOMAIN log' = 1..(Len(log) + 1) /\ log'[Len(log) + 1] = LineOf(proc[q])
        /\ \A i \in 1..Len(log) : log'[i] = log[i]
    BY <2>1, LinesAfter
  <2>5. Len(log) \in Nat /\ DOMAIN log = 1..Len(log)
    BY LogSets
  <2>6. \A i \in DOMAIN log' : i \in DOMAIN log \/ i = Len(log) + 1
    BY <2>4, <2>5
  <2>7. LogNumbered'
    BY <2>3, <2>4, <2>5, <2>6 DEF ApartInv, LogNumbered
  <2>8. \A i \in DOMAIN log :
           ~(log[i].plan = proc[q].id /\ log[i].outcome = proc[q].outcome)
    BY <2>1 DEF ApartInv, Lines
  <2>9. OutcomeRecordedOnce'
    BY <2>3, <2>4, <2>5, <2>6, <2>8 DEF ApartInv, OutcomeRecordedOnce
  <2> QED
    BY <2>2, <2>7, <2>9 DEF ApartInv, Appending
<1> QED
  BY <1>3, <1>4, <1>5, <1>6 DEF LogStep

(* A (plan, outcome) pair is recorded once and the lines are numbered in   *)
(* order in every run whose settlements keep apart: other commands may     *)
(* overlap them, and each other, and any of them may die.                  *)
THEOREM SettledOnceApart ==
    Spec /\ []SettlersApart => [](OutcomeRecordedOnce /\ LogNumbered)
<1>1. Init => ApartInv
  BY DEF Init, ApartInv, OutcomeRecordedOnce, LogNumbered, IdleProcess, Appending
<1>2. TypeInv /\ SettlersApart /\ ApartInv /\ [Next]_vars => ApartInv'
  <2> SUFFICES ASSUME TypeInv, SettlersApart, ApartInv, [Next]_vars PROVE ApartInv'
    OBVIOUS
  <2>1. CASE UNCHANGED <<proc, log>>
    BY <2>1 DEF ApartInv, OutcomeRecordedOnce, LogNumbered, Lines
  <2> QED
    BY <2>1, StepsOfLog, ApartStep
<1>3. ApartInv => OutcomeRecordedOnce /\ LogNumbered
  BY DEF ApartInv
<1> QED
  BY <1>1, <1>2, <1>3, InitTypes, StepTypes, PTL DEF Spec
=============================================================================
