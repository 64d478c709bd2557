--------------------------- MODULE PaperLifecycle ---------------------------
(***************************************************************************)
(* The paper-trade lifecycle of hedge_desk/paper and hedge_desk/paper_log: *)
(* plan files, the runner's state file, its escalation manifest, the close *)
(* artifacts and the outcome log, and the four commands that read and      *)
(* write them (decide, tick, close, settle).  Each command is an operating *)
(* system process: it reads files, computes, and writes files one at a     *)
(* time, without a lock, and may die between two steps.                    *)
(*                                                                         *)
(* Only plan files are replaced atomically.  The other JSON files are      *)
(* truncated and then written, two steps here; between them, or for good   *)
(* if the writer dies, the file does not parse and every reader fails.     *)
(* The contents variables hold the last complete text of each file, and    *)
(* `torn' tells which of them is unreadable now.                           *)
(***************************************************************************)
EXTENDS PaperWorkflow, Sequences, FiniteSets

CONSTANTS
    Procs,         \* command processes alive at a time
    Serialized,    \* TRUE: an operator starts a command when none runs
    MayCrash,      \* TRUE: a process may die between two steps
    ProviderFlags, \* what the lifecycle provider reports, failure included
    Observable,    \* what market data may show at expiration
    CloseSigns,    \* signs of profit a human close may realise
    MaxClock       \* bound: the last instant

ASSUME LifecycleAssumption ==
    /\ IsFiniteSet(Procs)
    /\ Serialized \in BOOLEAN /\ MayCrash \in BOOLEAN
    /\ ProviderFlags \subseteq LifecycleFlags
    /\ Observable \subseteq Observations
    /\ CloseSigns \subseteq Signs
    /\ MaxClock \in Nat

VARIABLES
    clock,     \* wall clock
    planFile,  \* plans/<id>.json
    state,     \* state.json: the runner's entry of each plan
    manifest,  \* escalations.json
    closes,    \* closes/<id>.json
    log,       \* the outcome log, a JSON line per outcome
    torn,      \* files whose text does not parse
    proc,      \* memory of each process
    issued,    \* history: plans whose file has been written
    decisions, \* history: human decisions written to a plan file
    closings   \* history: human closes written to an artifact

files == <<planFile, state, manifest, closes, log, torn>>
history == <<issued, decisions, closings>>
vars == <<clock, files, proc, history>>

-----------------------------------------------------------------------------
(* Contents of the files.                                                  *)

OptHash == PlanHashes \cup {None}
PlanRecord == [hash : OptHash, auth : {"PENDING"} \cup Verdicts]
NoPlan == [hash |-> None, auth |-> "PENDING"]

OpenRecord == [hash : OptHash, at : Nat]
NoOpen == [hash |-> None, at |-> 0]

CloseRecord == [hash : OptHash, at : Nat, pnl : Signs]
NoClose == [hash |-> None, at |-> 0, pnl |-> 0]

Escalation == [action : EscalationActions, at : Nat]

Entry ==
    [ status : {"ABSENT", "PENDING_OPEN", "OPEN", "CLOSED"},
      hash   : OptHash,
      open   : OpenRecord,
      close  : CloseRecord,
      escalations : SUBSET Escalation ]

NoEntry ==
    [ status |-> "ABSENT", hash |-> None, open |-> NoOpen,
      close |-> NoClose, escalations |-> {} ]

NewEntry(h) == [NoEntry EXCEPT !.status = "PENDING_OPEN", !.hash = h]

RunnerState == [PlanIds -> Entry]
DefaultState == [p \in PlanIds |-> NoEntry]
ManifestOf(st) == [p \in PlanIds |-> st[p].escalations]

LogEntry ==
    [ plan : PlanIds, hash : OptHash, outcome : Outcomes, seq : Nat, at : Nat ]

(* A process: which step it is about to take, the time it was given, and   *)
(* what it has read and computed so far.                                   *)
Steps ==
    { "idle",
      "writePlan",                         \* decide
      "scan",                              \* tick
      "readState", "truncClose", "writeClose",             \* close
      "truncState", "writeState", "truncManifest", "writeManifest",
      "settle", "checkLog", "countLog", "appendLog" }      \* settle

Process ==
    [ step : Steps, now : Nat,
      plan : PlanRecord,             \* plan file read, or about to be written
      st : RunnerState,              \* state read, with the changes made
      todo : SUBSET PlanIds,         \* plans still to visit
      ticked : BOOLEAN,              \* some approved plan was visited
      id : PlanIds \cup {None},      \* plan being closed or settled
      close : CloseRecord,
      outcome : Outcomes \cup {None},
      seq : Nat ]

IdleProcess ==
    [ step |-> "idle", now |-> 0, plan |-> NoPlan, st |-> DefaultState,
      todo |-> {}, ticked |-> FALSE, id |-> None, close |-> NoClose,
      outcome |-> None, seq |-> 0 ]

TypeOK ==
    /\ clock \in Nat
    /\ planFile \in [PlanIds -> PlanRecord]
    /\ state \in RunnerState
    /\ manifest \in [PlanIds -> SUBSET Escalation]
    /\ closes \in [PlanIds -> CloseRecord]
    /\ log \in Seq(LogEntry)
    /\ torn \in [ state : BOOLEAN, manifest : BOOLEAN, log : BOOLEAN,
                  closes : SUBSET PlanIds ]
    /\ proc \in [Procs -> Process]
    /\ issued \subseteq PlanHashes
    /\ decisions \subseteq [hash : PlanHashes, verdict : Verdicts, at : Nat]
    /\ closings \subseteq [plan : PlanIds, close : CloseRecord]

Init ==
    /\ clock = 0
    /\ planFile = [p \in PlanIds |-> NoPlan]
    /\ state = DefaultState
    /\ manifest = ManifestOf(DefaultState)
    /\ closes = [p \in PlanIds |-> NoClose]
    /\ log = <<>>
    /\ torn = [state |-> FALSE, manifest |-> FALSE, log |-> FALSE, closes |-> {}]
    /\ proc = [q \in Procs |-> IdleProcess]
    /\ issued = {} /\ decisions = {} /\ closings = {}

-----------------------------------------------------------------------------
(* Process plumbing.                                                       *)

Idle(q) == proc[q].step = "idle"

CanStart(q) ==
    /\ Idle(q)
    /\ Serialized => \A r \in Procs : Idle(r)

(* Process q continues with memory m.                                      *)
Becomes(q, m) == proc' = [proc EXCEPT ![q] = m]
Goto(q, s) == Becomes(q, [proc[q] EXCEPT !.step = s])
Finish(q) == Becomes(q, IdleProcess)

PassTime ==
    /\ clock < MaxClock
    /\ clock' = clock + 1
    /\ UNCHANGED <<files, proc, history>>

(* The process dies; it leaves the files as they are.  Dying in the write  *)
(* of a log line may leave a part of the line.                             *)
Crash(q) ==
    /\ MayCrash
    /\ ~Idle(q)
    /\ Finish(q)
    /\ \E cut \in {FALSE, proc[q].step = "appendLog"} :
          torn' = [torn EXCEPT !.log = @ \/ cut]
    /\ UNCHANGED <<clock, planFile, state, manifest, closes, log, history>>

-----------------------------------------------------------------------------
(* Creating a plan and deciding on it.                                     *)

(* The machine side writes a new PENDING plan.  The same identity may be   *)
(* issued again with new quotes: the file is replaced.                     *)
IssuePlan(h) ==
    /\ h \notin issued
    /\ CanCreate(h, clock)
    /\ planFile' = [planFile EXCEPT ![Terms[h].id] =
                        [hash |-> h, auth |-> "PENDING"]]
    /\ issued' = issued \cup {h}
    /\ UNCHANGED <<clock, state, manifest, closes, log, torn, proc,
                   decisions, closings>>

(* --paper-decide loads the plan file into a queue of its own, which takes *)
(* a PENDING plan only, and decides.                                       *)
DecideStart(q, p, verdict) ==
    /\ CanStart(q)
    /\ planFile[p].hash # None
    /\ CanDecide(planFile[p].hash, planFile[p].auth, verdict, clock)
    /\ Becomes(q, [IdleProcess EXCEPT
                      !.step = "writePlan", !.now = clock, !.id = p,
                      !.plan = [planFile[p] EXCEPT !.auth = verdict]])
    /\ UNCHANGED <<clock, files, history>>

(* os.replace of the plan file, whatever it holds by now.                  *)
DecideWrite(q) ==
    LET m == proc[q] IN
    /\ m.step = "writePlan"
    /\ planFile' = [planFile EXCEPT ![m.id] = m.plan]
    /\ decisions' = decisions \cup
          {[hash |-> m.plan.hash, verdict |-> m.plan.auth, at |-> m.now]}
    /\ Finish(q)
    /\ UNCHANGED <<clock, state, manifest, closes, log, torn,
                   issued, closings>>

-----------------------------------------------------------------------------
(* The tick: read the state, visit each plan file, write state, manifest.  *)

HasPlanFile(p) == planFile[p].hash # None

TickStart(q) ==
    /\ CanStart(q)
    /\ \E p \in PlanIds : HasPlanFile(p)
    /\ ~torn.state
    /\ Becomes(q, [IdleProcess EXCEPT
                      !.step = "scan", !.now = clock, !.st = state,
                      !.todo = {p \in PlanIds : HasPlanFile(p)}])
    /\ UNCHANGED <<clock, files, history>>

(* Visit of plan p, leaving entry e in the working copy of the state.      *)
Visit(q, p, e) ==
    /\ Becomes(q, [proc[q] EXCEPT !.todo = @ \ {p}, !.ticked = TRUE,
                                  !.st = [@ EXCEPT ![p] = e]])
    /\ UNCHANGED <<clock, files, history>>

Visiting(q, p) == proc[q].step = "scan" /\ p \in proc[q].todo

(* Seeded fault: a re-issued plan starts its entry afresh.                 *)
EntryForRenewed(st, p) ==
    IF st[p].hash # planFile[p].hash THEN NewEntry(planFile[p].hash) ELSE st[p]

(* The entry of an approved plan, created on its first visit.              *)
EntryFor(st, p) ==
    IF st[p].status = "ABSENT" THEN NewEntry(planFile[p].hash) ELSE st[p]

Escalated(e, action, now) ==
    [e EXCEPT !.escalations = @ \cup {[action |-> action, at |-> now]}]

TickUnapproved(q, p) ==
    /\ Visiting(q, p)
    /\ planFile[p].auth # "APPROVED"
    /\ Becomes(q, [proc[q] EXCEPT !.todo = @ \ {p}])
    /\ UNCHANGED <<clock, files, history>>

(* Seeded fault: the state's plan hash is not compared.                    *)
BoundUnchecked(e, plan) == TRUE

(* The entry was made for this plan, not for an earlier issue of its id.   *)
Bound(e, plan) == e.hash = plan.hash

TickUnbound(q, p) ==
    LET e == EntryFor(proc[q].st, p) IN
    /\ Visiting(q, p)
    /\ planFile[p].auth = "APPROVED"
    /\ ~Bound(e, planFile[p])
    /\ Visit(q, p, Escalated(e, "BLOCK_AND_ESCALATE", proc[q].now))

Opened(e, h, now) ==
    [e EXCEPT !.status = "OPEN", !.open = [hash |-> h, at |-> now]]

OpensNow(plan, marketMeetsTerms, now) ==
    /\ now <= Terms[plan.hash].expires
    /\ FillReady(plan.hash, plan.auth, marketMeetsTerms, now)
    /\ CanExecuteOpen(plan.hash, plan.auth, now)

(* _tick_pending_open: every unready cause leaves the entry pending.       *)
TickPendingOpen(q, p) ==
    LET e == EntryFor(proc[q].st, p)
        now == proc[q].now
    IN
    /\ Visiting(q, p)
    /\ planFile[p].auth = "APPROVED"
    /\ Bound(e, planFile[p])
    /\ e.status = "PENDING_OPEN"
    /\ \E marketMeetsTerms \in BOOLEAN :
          Visit(q, p, IF OpensNow(planFile[p], marketMeetsTerms, now)
                      THEN Opened(e, planFile[p].hash, now) ELSE e)

(* Seeded faults: every check escalates; a review closes the position.     *)
MonitoredAlways(e, h, flags, now) ==
    Escalated(e, LifecycleAction(h, flags, now), now)

MonitoredAutoClose(e, h, flags, now) ==
    IF LifecycleAction(h, flags, now) = "MONITOR" THEN e
    ELSE [e EXCEPT !.status = "CLOSED"]

(* _tick_open: monitor or escalate, and nothing else.                      *)
Monitored(e, h, flags, now) ==
    LET action == LifecycleAction(h, flags, now) IN
    IF action = "MONITOR" THEN e ELSE Escalated(e, action, now)

TickOpen(q, p) ==
    LET e == EntryFor(proc[q].st, p) IN
    /\ Visiting(q, p)
    /\ planFile[p].auth = "APPROVED"
    /\ Bound(e, planFile[p])
    /\ e.status = "OPEN"
    /\ \E flags \in ProviderFlags :
          Visit(q, p, Monitored(e, planFile[p].hash, flags, proc[q].now))

TickClosed(q, p) ==
    LET e == EntryFor(proc[q].st, p) IN
    /\ Visiting(q, p)
    /\ planFile[p].auth = "APPROVED"
    /\ Bound(e, planFile[p])
    /\ e.status = "CLOSED"
    /\ Visit(q, p, e)

(* Seeded fault: a tick that changed no status writes nothing.             *)
TickEndIfStatusChanged(q) ==
    /\ proc[q].step = "scan"
    /\ proc[q].todo = {}
    /\ IF \E p \in PlanIds : proc[q].st[p].status # state[p].status
       THEN Goto(q, "truncState") ELSE Finish(q)
    /\ UNCHANGED <<clock, files, history>>

(* A tick that visited no approved plan writes nothing.                    *)
TickEnd(q) ==
    /\ proc[q].step = "scan"
    /\ proc[q].todo = {}
    /\ IF proc[q].ticked THEN Goto(q, "truncState") ELSE Finish(q)
    /\ UNCHANGED <<clock, files, history>>

-----------------------------------------------------------------------------
(* Writing the state file and then the manifest: tail of tick and close.   *)

TruncState(q) ==
    /\ proc[q].step = "truncState"
    /\ torn' = [torn EXCEPT !.state = TRUE]
    /\ Goto(q, "writeState")
    /\ UNCHANGED <<clock, planFile, state, manifest, closes, log, history>>

(* If another writer completed the file since it was truncated here, the   *)
(* shorter of the two texts leaves a tail of the longer one.               *)
Mangled(stillTruncated) == IF stillTruncated THEN {FALSE} ELSE BOOLEAN

WriteState(q) ==
    /\ proc[q].step = "writeState"
    /\ state' = proc[q].st
    /\ \E bad \in Mangled(torn.state) : torn' = [torn EXCEPT !.state = bad]
    /\ Goto(q, "truncManifest")
    /\ UNCHANGED <<clock, planFile, manifest, closes, log, history>>

TruncManifest(q) ==
    /\ proc[q].step = "truncManifest"
    /\ torn' = [torn EXCEPT !.manifest = TRUE]
    /\ Goto(q, "writeManifest")
    /\ UNCHANGED <<clock, planFile, state, manifest, closes, log, history>>

WriteManifest(q) ==
    /\ proc[q].step = "writeManifest"
    /\ manifest' = ManifestOf(proc[q].st)
    /\ \E bad \in Mangled(torn.manifest) :
          torn' = [torn EXCEPT !.manifest = bad]
    /\ Finish(q)
    /\ UNCHANGED <<clock, planFile, state, closes, log, history>>

-----------------------------------------------------------------------------
(* The human close: artifact first, then state and manifest.               *)

CloseStart(q, p) ==
    /\ CanStart(q)
    /\ HasPlanFile(p)
    /\ Becomes(q, [IdleProcess EXCEPT !.step = "readState", !.now = clock,
                                      !.id = p, !.plan = planFile[p]])
    /\ UNCHANGED <<clock, files, history>>

(* Seeded fault: a closed position may be closed again.                    *)
ClosableTwice(e, plan, now) ==
    /\ e.status \in {"OPEN", "CLOSED"}
    /\ Bound(e, plan)
    /\ CanClose(plan.hash, plan.auth, e.open, now)

(* Guards of close_paper_position and close_paper_trade.                   *)
Closable(e, plan, now) ==
    /\ e.status = "OPEN"
    /\ Bound(e, plan)
    /\ CanClose(plan.hash, plan.auth, e.open, now)

(* Seeded fault: the state is written first.                               *)
FirstWriteState == "truncState"

(* The artifact is written before the state.                               *)
FirstWrite == "truncClose"

CloseReadState(q, pnl) ==
    LET m == proc[q]
        record == [hash |-> m.plan.hash, at |-> m.now, pnl |-> pnl]
    IN
    /\ m.step = "readState"
    /\ ~torn.state
    /\ Closable(state[m.id], m.plan, m.now)
    /\ Becomes(q, [m EXCEPT
          !.step = FirstWrite, !.close = record,
          !.st = [state EXCEPT ![m.id].status = "CLOSED",
                               ![m.id].close = record]])
    /\ UNCHANGED <<clock, files, history>>

(* Refused: unreadable state, a failed guard, or exit quotes that          *)
(* evaluate_premium_exit does not accept.                                  *)
CloseRefused(q) ==
    /\ proc[q].step = "readState"
    /\ Finish(q)
    /\ UNCHANGED <<clock, files, history>>

TruncClose(q) ==
    /\ proc[q].step = "truncClose"
    /\ torn' = [torn EXCEPT !.closes = @ \cup {proc[q].id}]
    /\ Goto(q, "writeClose")
    /\ UNCHANGED <<clock, planFile, state, manifest, closes, log, history>>

WriteClose(q) ==
    LET m == proc[q] IN
    /\ m.step = "writeClose"
    /\ closes' = [closes EXCEPT ![m.id] = m.close]
    /\ \E bad \in Mangled(m.id \in torn.closes) :
          torn' = [torn EXCEPT !.closes =
                      IF bad THEN @ \cup {m.id} ELSE @ \ {m.id}]
    /\ closings' = closings \cup {[plan |-> m.id, close |-> m.close]}
    /\ Goto(q, "truncState")
    /\ UNCHANGED <<clock, planFile, state, manifest, log, issued, decisions>>

-----------------------------------------------------------------------------
(* The settler: read the state, derive each outcome, append it once.       *)

StateExists == \E p \in PlanIds : state[p].status # "ABSENT"

SettleStart(q) ==
    /\ CanStart(q)
    /\ StateExists
    /\ ~torn.state
    /\ Becomes(q, [IdleProcess EXCEPT
                      !.step = "settle", !.now = clock, !.st = state,
                      !.todo = {p \in PlanIds : state[p].status # "ABSENT"}])
    /\ UNCHANGED <<clock, files, history>>

(* Seeded fault: an option is taken for expired on the day before.         *)
AtExpirationEarly(h, now) == Date(now) + 1 >= Terms[h].expiration

AtExpiration(h, now) == Date(now) >= Terms[h].expiration

(* Outcomes the settler may derive for entry e of plan p; none when it     *)
(* skips the plan.                                                         *)
SettlableOutcomes(p, e, now) ==
    CASE e.status = "CLOSED" ->
            IF /\ closes[p] # NoClose /\ p \notin torn.closes
               /\ Bound(e, planFile[p])
            THEN {OutcomeForRealizedPnl(closes[p].pnl)} ELSE {}
      [] e.status = "OPEN" ->
            IF Bound(e, planFile[p]) /\ AtExpiration(e.hash, now)
            THEN {ExpirationOutcome(seen) : seen \in Observable} ELSE {}
      [] OTHER -> {}

SettleSkip(q, p) ==
    LET m == proc[q] IN
    /\ m.step = "settle" /\ p \in m.todo
    /\ SettlableOutcomes(p, m.st[p], m.now) = {}
    /\ Becomes(q, [m EXCEPT !.todo = @ \ {p}])
    /\ UNCHANGED <<clock, files, history>>

SettleObserve(q, p) ==
    LET m == proc[q] IN
    /\ m.step = "settle" /\ p \in m.todo
    /\ \E outcome \in SettlableOutcomes(p, m.st[p], m.now) :
          Becomes(q, [m EXCEPT !.step = "checkLog", !.todo = @ \ {p},
                               !.id = p, !.outcome = outcome])
    /\ UNCHANGED <<clock, files, history>>

SettleEnd(q) ==
    /\ proc[q].step = "settle" /\ proc[q].todo = {}
    /\ Finish(q)
    /\ UNCHANGED <<clock, files, history>>

(* Seeded fault: only the last line is compared.                           *)
RecordedLast(p, outcome) ==
    log # <<>> /\ log[Len(log)].plan = p /\ log[Len(log)].outcome = outcome

Recorded(p, outcome) ==
    \E i \in DOMAIN log : log[i].plan = p /\ log[i].outcome = outcome

NextPlan(q) ==
    Becomes(q, [proc[q] EXCEPT !.step = "settle", !.id = None,
                               !.outcome = None, !.seq = 0])

(* read_log raises on a line that does not parse: the run stops.           *)
CheckLog(q) ==
    LET m == proc[q] IN
    /\ m.step = "checkLog"
    /\ \/ torn.log /\ Finish(q)
       \/ ~torn.log /\ Recorded(m.id, m.outcome) /\ NextPlan(q)
       \/ ~torn.log /\ ~Recorded(m.id, m.outcome) /\ Goto(q, "countLog")
    /\ UNCHANGED <<clock, files, history>>

(* append_outcome numbers the line by counting the lines already there.    *)
CountLog(q) ==
    LET m == proc[q] IN
    /\ m.step = "countLog"
    /\ Becomes(q, [m EXCEPT !.step = "appendLog", !.seq = Len(log) + 1])
    /\ UNCHANGED <<clock, files, history>>

(* A line appended to a partial line is lost with it.                      *)
AppendLog(q) ==
    LET m == proc[q]
        line == [plan |-> m.id, hash |-> m.st[m.id].hash,
                 outcome |-> m.outcome, seq |-> m.seq, at |-> m.now]
    IN
    /\ m.step = "appendLog"
    /\ log' = IF torn.log THEN log ELSE Append(log, line)
    /\ NextPlan(q)
    /\ UNCHANGED <<clock, planFile, state, manifest, closes, torn, history>>

-----------------------------------------------------------------------------
Decide(q) ==
    \/ \E p \in PlanIds, v \in Verdicts : DecideStart(q, p, v)
    \/ DecideWrite(q)

TickStep(q) ==
    \/ \E p \in PlanIds :
          \/ TickUnapproved(q, p) \/ TickUnbound(q, p)
          \/ TickPendingOpen(q, p) \/ TickOpen(q, p) \/ TickClosed(q, p)
    \/ TickEnd(q)

SaveStep(q) ==
    TruncState(q) \/ WriteState(q) \/ TruncManifest(q) \/ WriteManifest(q)

CloseStep(q) ==
    \/ \E pnl \in CloseSigns : CloseReadState(q, pnl)
    \/ CloseRefused(q) \/ TruncClose(q) \/ WriteClose(q)

SettleStep(q) ==
    \/ \E p \in PlanIds : SettleSkip(q, p) \/ SettleObserve(q, p)
    \/ SettleEnd(q) \/ CheckLog(q) \/ CountLog(q) \/ AppendLog(q)

Next ==
    \/ PassTime
    \/ \E h \in PlanHashes : IssuePlan(h)
    \/ \E q \in Procs :
          \/ Decide(q)
          \/ TickStart(q) \/ TickStep(q) \/ SaveStep(q)
          \/ CloseStep(q) \/ \E p \in PlanIds : CloseStart(q, p)
          \/ SettleStart(q) \/ SettleStep(q)
          \/ Crash(q)

Spec == Init /\ [][Next]_vars

(* Scheduling.  A running command takes its next step; the scheduler       *)
(* starts ticks on the 15-minute cadence, so again and again whenever a    *)
(* process is free to run one.  Humans, crashes and settlements owe        *)
(* nothing; time passes.                                                   *)
Running(q) == DecideWrite(q) \/ TickStep(q) \/ SaveStep(q)
              \/ CloseStep(q) \/ SettleStep(q)

Fairness ==
    /\ WF_vars(PassTime)
    /\ \A q \in Procs : WF_vars(Running(q)) /\ SF_vars(TickStart(q))

FairSpec == Spec /\ Fairness

-----------------------------------------------------------------------------
(* Properties.                                                             *)

ApprovedBy(h, t) ==
    \E d \in decisions : d.hash = h /\ d.verdict = "APPROVED" /\ d.at <= t

(* What entitles the runner to an open position of plan p: a plan of that  *)
(* identity that passed machine risk and compliance, a human approval in   *)
(* its window, and an open in the window on quotes still fresh.            *)
EntryAuthorized(p, e) ==
    e.status \in {"OPEN", "CLOSED"} =>
        LET h == e.hash IN
        /\ h # None /\ e.open.hash = h
        /\ Terms[h].id = p
        /\ Terms[h].machine = "PASS" /\ Terms[h].compliance = "PASS"
        /\ ApprovedBy(h, Terms[h].expires)
        /\ e.open.at <= Terms[h].expires
        /\ Terms[h].quotedAt <= e.open.at
        /\ e.open.at - Terms[h].quotedAt <= Terms[h].quoteMaxAge

(* Every position the runner ever records as opened was so entitled        *)
(* (execute_paper_open, evaluate_paper_fill, approve_paper_trade), however *)
(* the processes interleave and wherever they die.                         *)
OpenAuthorized == \A p \in PlanIds : EntryAuthorized(p, state[p])

(* The recorded open is not older than the approval it rests on            *)
(* (execute_paper_open compares opened_at with the quotes and the expiry,  *)
(* not with decided_at).                                                   *)
OpenFollowsApproval ==
    \A p \in PlanIds : state[p].status \in {"OPEN", "CLOSED"} =>
        ApprovedBy(state[p].hash, state[p].open.at)

(* While the plan file still holds the plan an open position was opened    *)
(* under, it says APPROVED; otherwise the tick passes the position by and  *)
(* close_paper_trade refuses to close it.                                  *)
OpenManaged ==
    \A p \in PlanIds :
        state[p].status = "OPEN" /\ planFile[p].hash = state[p].hash
            => planFile[p].auth = "APPROVED"

(* An approval precedes the open and outlasts it.                          *)
OpensKept == OpenFollowsApproval /\ OpenManaged

(* A plan receives one human decision (PaperReviewQueue.decide: "A second  *)
(* decision on the same plan is refused").                                 *)
DecisionFinal ==
    \A d1, d2 \in decisions : d1.hash = d2.hash => d1 = d2

(* A recorded close is never undone or replaced: not by a tick that read   *)
(* the state earlier, not after a crash, not by a second close.            *)
ClosedStaysClosed ==
    [][\A p \in PlanIds : state[p].status = "CLOSED" =>
           /\ state'[p].status = "CLOSED"
           /\ state'[p].close = state[p].close]_vars

(* A human close is recorded only while the state says OPEN                *)
(* (close_paper_position: "A plan that is not OPEN is refused").           *)
CloseOnlyWhenOpen ==
    [][\A c \in closings' \ closings : state[c.plan].status = "OPEN"]_vars

(* A CLOSED position has a readable close artifact that agrees with the    *)
(* state: close_paper_position writes the artifact first, so the settler   *)
(* never finds it missing, cut short or of another close.                  *)
ClosedHasArtifact ==
    \A p \in PlanIds : state[p].status = "CLOSED" =>
        /\ p \notin torn.closes
        /\ closes[p] = state[p].close
        /\ [plan |-> p, close |-> closes[p]] \in closings

(* The manifest the humans read never shows an escalation the state file   *)
(* does not hold.                                                          *)
ManifestNotAhead ==
    \A p \in PlanIds : manifest[p] \subseteq state[p].escalations

(* What the files say of each other holds at any crash: a CLOSED position  *)
(* has its artifact, and the manifest is never ahead of the state.         *)
FilesAgree == ClosedHasArtifact /\ ManifestNotAhead

(* An escalation, once recorded, keeps waiting for its human: no later     *)
(* write of the state file loses it (list_pending_escalations: "the runner *)
(* never auto-resolves").                                                  *)
EscalationsKept ==
    [][\A p \in PlanIds : state[p].escalations \subseteq state'[p].escalations]_vars

(* A (plan, outcome) pair is recorded once (settler.py: "never recorded    *)
(* twice"), though each run decides from a log it read before.             *)
OutcomeRecordedOnce ==
    \A i, j \in DOMAIN log :
        log[i].plan = log[j].plan /\ log[i].outcome = log[j].outcome => i = j

(* Overlapping settlements may repeat a line (settler.py checks the log and *)
(* paper_log.py appends to it later), but only those that were under way    *)
(* when it was first written: a line occurs once per process at most, and   *)
(* none is numbered beyond its place.                                       *)
Lines(p, outcome) == {i \in DOMAIN log : log[i].plan = p /\ log[i].outcome = outcome}
RepeatsBounded ==
    /\ \A p \in PlanIds, outcome \in Outcomes :
           Cardinality(Lines(p, outcome)) <= Cardinality(Procs)
    /\ \A i \in DOMAIN log : log[i].seq \in 1..i

(* What an outcome of plan p, settled at t under hash h, rests on: a human *)
(* close of p with that sign of profit, or the plan's expiration; and      *)
(* either way a human approval of the plan.                                *)
Justified(p, h, outcome, t) ==
    /\ \E d \in decisions : d.hash = h /\ d.verdict = "APPROVED"
    /\ \/ /\ outcome \in CloseOutcomes
          /\ \E c \in closings :
                c.plan = p /\ OutcomeForRealizedPnl(c.close.pnl) = outcome
       \/ /\ outcome \notin CloseOutcomes
          /\ Date(t) >= Terms[h].expiration

(* Every outcome in the log was observed and never guessed (settler.py),   *)
(* although a settler works from a state and a log it read earlier.        *)
OutcomeJustified ==
    \A i \in DOMAIN log :
        Justified(log[i].plan, log[i].hash, log[i].outcome, log[i].at)

(* What the outcome log keeps when settlements overlap: each line is       *)
(* justified, and repeated at most once per process.                       *)
LogKept == OutcomeJustified /\ RepeatsBounded

(* A close outcome in the log is the outcome of the close in the state:    *)
(* a close whose process died before the state was written, and that was   *)
(* made again later, is never the one recorded.                            *)
OutcomeMatchesState ==
    \A i \in DOMAIN log :
        log[i].outcome \in CloseOutcomes =>
            /\ state[log[i].plan].status = "CLOSED"
            /\ log[i].outcome =
                  OutcomeForRealizedPnl(state[log[i].plan].close.pnl)

(* The lines of the log are numbered 1, 2, 3, ... (append_outcome counts   *)
(* the lines before it opens the file to append).                          *)
LogNumbered == \A i \in DOMAIN log : log[i].seq = i

(* The log agrees with the state it was written from, line by line.        *)
LogAgrees == OutcomeMatchesState /\ LogNumbered

(* State file, close artifact, manifest and log tell one history, wherever *)
(* a command died between two of its writes.                               *)
HistoryConsistent == FilesAgree /\ LogAgrees

(* A position still open at expiration reaches a human: under its approved *)
(* plan it is escalated in the manifest, unless a human closes it or the   *)
(* plan file is replaced.                                                  *)
ExpirationEscalated ==
    \A p \in PlanIds, h \in PlanHashes :
        (/\ state[p].status = "OPEN" /\ state[p].hash = h
         /\ planFile[p].hash = h
         /\ Date(clock) >= Terms[h].expiration)
        ~> \/ state[p].status = "CLOSED"
           \/ planFile[p].hash # h
           \/ \E e \in manifest[p] : Date(e.at) >= Terms[h].expiration

(* An escalation recorded in the state file is eventually in the manifest. *)
EscalationPublished ==
    \A p \in PlanIds, a \in EscalationActions, t \in 0..MaxClock :
        [action |-> a, at |-> t] \in state[p].escalations
            ~> [action |-> a, at |-> t] \in manifest[p]

(* An escalation always arrives: a tick that visits an expired position    *)
(* records one (runner.py), and what is recorded gets published.           *)
HumanReached == ExpirationEscalated /\ EscalationPublished
=============================================================================
