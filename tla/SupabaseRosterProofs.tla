------------------------ MODULE SupabaseRosterProofs ------------------------
(***************************************************************************)
(* Proofs about SupabaseRoster, for any addresses, any number of threads   *)
(* and any cap.  Nothing here assumes that a request waits for another:    *)
(* what is proved holds of the roles and of the audit trail however the    *)
(* calls of the threads interleave and wherever they are cut off.          *)
(***************************************************************************)
EXTENDS SupabaseRoster, FiniteSetTheorems, TLAPS

-----------------------------------------------------------------------------
(* The shape of the trail.  Rows are numbered from 1 without a gap, one    *)
(* row to a number, and a row, written or about to be, carries the number  *)
(* and the hash that follow a row of the table.                            *)

Numbered(n) ==
    /\ \A r \in trail : r.hash.seq \in 1..n
    /\ \A k \in 1..n : \E r \in trail : r.hash.seq = k

OneRowEach == \A r, s \in trail : r.hash.seq = s.hash.seq => r = s

Follows(k, p) ==
    \/ k = 1 /\ p = Genesis
    \/ \E s \in trail : k = s.hash.seq + 1 /\ p = s.hash

TrailInv ==
    /\ TypeOK
    /\ \E n \in Nat : Numbered(n)
    /\ OneRowEach
    /\ \A r \in trail : Follows(r.hash.seq, r.prev)
    /\ \A t \in Threads :
          At(t, "postTrail") => Follows(thread[t].seq, thread[t].prev)

(* The row LastRow chooses exists when the table is not empty.             *)
LEMMA LastRowExists ==
    ASSUME TypeOK, trail # {}, NEW n \in Nat, Numbered(n)
    PROVE  LastRow \in trail /\ LastRow.hash.seq = n
<1>1. PICK q \in trail : TRUE
  OBVIOUS
<1>2. q.hash.seq \in 1..n
  BY DEF Numbered
<1>3. n \in 1..n
  BY <1>2
<1>4. PICK r \in trail : r.hash.seq = n
  BY <1>3 DEF Numbered
<1>5. \A s \in trail : s.hash.seq <= r.hash.seq
  BY <1>4 DEF Numbered
<1>6. /\ LastRow \in trail
      /\ \A s \in trail : s.hash.seq <= LastRow.hash.seq
  BY <1>5 DEF LastRow
<1>7. n <= LastRow.hash.seq
  BY <1>4, <1>6
<1>8. LastRow.hash.seq \in 1..n
  BY <1>6 DEF Numbered
<1>9. QED
  BY <1>6, <1>7, <1>8

(* What GetTrail computes from the last row follows a row of the table.    *)
LEMMA NextRowFollows ==
    ASSUME TrailInv
    PROVE  /\ NextSeq \in Nat
           /\ PrevHash \in Digest \cup {Genesis}
           /\ Follows(NextSeq, PrevHash)
<1>1. CASE trail = {}
  BY <1>1 DEF NextSeq, PrevHash, Follows
<1>2. CASE trail # {}
  <2>1. PICK n \in Nat : Numbered(n)
    BY DEF TrailInv
  <2>2. LastRow \in trail /\ LastRow.hash.seq = n
    BY <1>2, <2>1, LastRowExists DEF TrailInv
  <2>3. LastRow.hash \in Digest
    BY <2>2 DEF TrailInv, TypeOK, TrailRow
  <2>4. NextSeq = LastRow.hash.seq + 1 /\ PrevHash = LastRow.hash
    BY <1>2 DEF NextSeq, PrevHash
  <2>5. QED
    BY <2>2, <2>3, <2>4 DEF Follows
<1>3. QED
  BY <1>1, <1>2

-----------------------------------------------------------------------------
(* What the steps do to the threads and to the roles, whatever step it is. *)

LEMMA IdleThreadType == IdleThread \in Thread
BY SupabaseAssumption DEF IdleThread, Thread, Steps, Requests

(* Every step but GetTrail and PostTrail: one thread ends or moves on to a *)
(* step other than the audit insert, one role at most is written.          *)
QuietStep(t) ==
    /\ trail' = trail
    /\ role' \in [Emails -> RoleOrAbsent]
    /\ \E m \in Thread : /\ m.step # "postTrail"
                         /\ thread' = [thread EXCEPT ![t] = m]

LEMMA GotoType ==
    ASSUME TypeOK, NEW t \in Threads, NEW step \in Steps \ {"postTrail"},
           Goto(t, step)
    PROVE  \E m \in Thread : /\ m.step # "postTrail"
                             /\ thread' = [thread EXCEPT ![t] = m]
<1> DEFINE m == [thread[t] EXCEPT !.step = step]
<1>1. thread[t] \in Thread
  BY DEF TypeOK
<1>2. m \in Thread /\ m.step # "postTrail"
  BY <1>1 DEF Thread
<1>3. thread' = [thread EXCEPT ![t] = m]
  BY DEF Goto
<1>4. QED
  BY <1>2, <1>3

LEMMA FinishType ==
    ASSUME NEW t \in Threads, Finish(t)
    PROVE  \E m \in Thread : /\ m.step # "postTrail"
                             /\ thread' = [thread EXCEPT ![t] = m]
BY IdleThreadType DEF Finish, IdleThread

LEMMA BeginType ==
    ASSUME NEW t \in Threads, NEW request \in Requests, NEW e \in Emails,
           NEW step \in Steps \ {"postTrail"}, Begin(t, request, e, step)
    PROVE  \E m \in Thread : /\ m.step # "postTrail"
                             /\ thread' = [thread EXCEPT ![t] = m]
<1> DEFINE m == [IdleThread EXCEPT !.step = step, !.request = request,
                                   !.email = e]
<1>1. m \in Thread /\ m.step # "postTrail"
  BY IdleThreadType DEF Thread, IdleThread
<1>2. QED
  BY <1>1 DEF Begin

LEMMA WriteType ==
    ASSUME TypeOK, NEW e \in Emails, NEW r \in RoleOrAbsent,
           Write(e, r) \/ UNCHANGED role
    PROVE  role' \in [Emails -> RoleOrAbsent]
BY DEF TypeOK, Write

LEMMA RequestQuiet ==
    ASSUME TypeOK, NEW t \in Threads, Request(t)
    PROVE  QuietStep(t)
<1>1. UNCHANGED <<role, trail>>
  BY DEF Request, SignIn, Subscribe, GiveSeat, StartUp, LinkBroker
<1>2. \E request \in Requests, e \in Emails, step \in Steps \ {"postTrail"} :
         Begin(t, request, e, step)
  BY SupabaseAssumption
     DEF Request, SignIn, Subscribe, GiveSeat, StartUp, LinkBroker, Requests,
         Steps
<1>3. QED
  BY <1>1, <1>2, BeginType DEF QuietStep, TypeOK

LEMMA RosterCallQuiet ==
    ASSUME TypeOK, NEW t \in Threads, RosterCall(t)
    PROVE  QuietStep(t)
<1>1. trail' = trail
  BY DEF RosterCall, GetGuest, PostGuest, PatchGuest, GetSubscriber,
         PatchSubscribed, CountLps, PostLp, PatchLp, GetGp, PostGp, PatchGp
<1>2. \/ Finish(t)
      \/ \E step \in Steps \ {"postTrail"} : Goto(t, step)
  BY DEF RosterCall, GetGuest, PostGuest, PatchGuest, GetSubscriber, Steps,
         PatchSubscribed, CountLps, PostLp, PatchLp, GetGp, PostGp, PatchGp
<1>3. \E m \in Thread : /\ m.step # "postTrail"
                        /\ thread' = [thread EXCEPT ![t] = m]
  BY <1>2, GotoType, FinishType
<1>4. thread[t].email \in Emails
  BY DEF TypeOK, Thread
<1>5. \/ UNCHANGED role
      \/ \E e \in Emails, r \in RoleOrAbsent : Write(e, r)
  BY <1>4, SupabaseAssumption
     DEF RosterCall, GetGuest, PostGuest, PatchGuest, GetSubscriber,
         PatchSubscribed, CountLps, PostLp, PatchLp, GetGp, PostGp, PatchGp,
         RoleOrAbsent, Roles
<1>6. role' \in [Emails -> RoleOrAbsent]
  BY <1>5, WriteType, SupabaseAssumption DEF TypeOK
<1>7. QED
  BY <1>1, <1>3, <1>6 DEF QuietStep

LEMMA AbandonQuiet ==
    ASSUME TypeOK, NEW t \in Threads, Abandon(t)
    PROVE  QuietStep(t)
BY FinishType DEF Abandon, QuietStep, TypeOK

LEMMA OneThreadMoves ==
    ASSUME TypeOK, NEW t \in Threads,
           Request(t) \/ RosterCall(t) \/ TrailCall(t) \/ Abandon(t)
    PROVE  \A u \in Threads : u # t => thread'[u] = thread[u]
<1>1. thread \in [Threads -> Thread]
  BY DEF TypeOK
<1>2. CASE TrailCall(t)
  BY <1>1, <1>2 DEF TrailCall, GetTrail, PostTrail, Finish
<1>3. CASE Request(t) \/ RosterCall(t) \/ Abandon(t)
  <2>1. QuietStep(t)
    BY <1>3, RequestQuiet, RosterCallQuiet, AbandonQuiet
  <2>2. QED
    BY <1>1, <2>1 DEF QuietStep
<1>4. QED
  BY <1>2, <1>3

-----------------------------------------------------------------------------
(* The trail invariant is inductive.                                       *)

LEMMA TrailInit == Init => TrailInv
<1> SUFFICES ASSUME Init PROVE TrailInv
  OBVIOUS
<1>1. TypeOK
  BY IdleThreadType DEF Init, TypeOK, RoleOrAbsent
<1>2. Numbered(0)
  BY DEF Init, Numbered
<1>3. OneRowEach /\ \A r \in trail : Follows(r.hash.seq, r.prev)
  BY DEF Init, OneRowEach
<1>4. \A t \in Threads : ~At(t, "postTrail")
  BY DEF Init, At, IdleThread
<1>5. QED
  BY <1>1, <1>2, <1>3, <1>4 DEF TrailInv

LEMMA QuietKeepsTrail ==
    ASSUME TrailInv, NEW t \in Threads, QuietStep(t)
    PROVE  TrailInv'
<1>1. PICK m \in Thread : /\ m.step # "postTrail"
                          /\ thread' = [thread EXCEPT ![t] = m]
  BY DEF QuietStep
<1>2. TypeOK'
  BY <1>1 DEF TrailInv, TypeOK, QuietStep
<1>3. (\E n \in Nat : Numbered(n))' /\ OneRowEach'
  BY DEF TrailInv, QuietStep, Numbered, OneRowEach
<1>4. \A k, p : Follows(k, p) <=> Follows(k, p)'
  BY DEF QuietStep, Follows
<1>5. (\A r \in trail : Follows(r.hash.seq, r.prev))'
  BY <1>4 DEF TrailInv, QuietStep
<1>6. ASSUME NEW u \in Threads, At(u, "postTrail")'
      PROVE  Follows(thread[u].seq, thread[u].prev)'
  <2>1. u # t /\ thread'[u] = thread[u]
    BY <1>1, <1>6 DEF At, TrailInv, TypeOK
  <2>2. QED
    BY <1>6, <2>1, <1>4 DEF TrailInv, At
<1>7. QED
  BY <1>2, <1>3, <1>5, <1>6 DEF TrailInv

LEMMA GetKeepsTrail ==
    ASSUME TrailInv, NEW t \in Threads, GetTrail(t)
    PROVE  TrailInv'
<1> DEFINE m == [thread[t] EXCEPT !.step = "postTrail",
                                  !.seq = NextSeq, !.prev = PrevHash]
<1>1. thread[t] \in Thread /\ thread \in [Threads -> Thread]
  BY DEF TrailInv, TypeOK
<1>2. /\ m \in Thread
      /\ m.seq = NextSeq /\ m.prev = PrevHash
  BY <1>1, NextRowFollows DEF Thread, Steps
<1>3. thread' = [thread EXCEPT ![t] = m] /\ UNCHANGED <<role, trail>>
  BY <1>1 DEF GetTrail
<1> HIDE DEF m
<1>4. TypeOK'
  BY <1>2, <1>3 DEF TrailInv, TypeOK
<1>5. (\E n \in Nat : Numbered(n))' /\ OneRowEach'
  BY <1>3 DEF TrailInv, Numbered, OneRowEach
<1>6. \A k, p : Follows(k, p) <=> Follows(k, p)'
  BY <1>3 DEF Follows
<1>7. (\A r \in trail : Follows(r.hash.seq, r.prev))'
  BY <1>3, <1>6 DEF TrailInv
<1>8. ASSUME NEW u \in Threads, At(u, "postTrail")'
      PROVE  Follows(thread[u].seq, thread[u].prev)'
  <2>1. CASE u = t
    BY <2>1, <1>1, <1>2, <1>3, <1>6, NextRowFollows
  <2>2. CASE u # t
    BY <2>2, <1>1, <1>3, <1>6, <1>8 DEF TrailInv, At
  <2>3. QED
    BY <2>1, <2>2
<1>9. QED
  BY <1>4, <1>5, <1>7, <1>8 DEF TrailInv

(* The insert that finds its number free: its row comes after the last.    *)
LEMMA AppendKeepsTrail ==
    ASSUME TrailInv, NEW t \in Threads, PostTrail(t), NEW row \in TrailRow,
           row.hash.seq = thread[t].seq, row.prev = thread[t].prev,
           \A r \in trail : r.hash.seq # row.hash.seq,
           trail' = trail \cup {row}
    PROVE  /\ (\E n \in Nat : Numbered(n))'
           /\ OneRowEach'
           /\ row.hash.seq > 0
           /\ Follows(row.hash.seq, row.prev)
<1>1. Follows(row.hash.seq, row.prev)
  BY DEF TrailInv, PostTrail, At
<1>2. PICK n \in Nat : Numbered(n)
  BY DEF TrailInv
<1>3. row.hash.seq = n + 1
  <2>1. row.hash.seq \in 1..n+1
    BY <1>1, <1>2 DEF Follows, Numbered
  <2>2. row.hash.seq \notin 1..n
    BY <1>2 DEF Numbered
  <2>3. QED
    BY <2>1, <2>2
<1>4. Numbered(n + 1)'
  <2>1. ASSUME NEW k \in 1..n+1
        PROVE  \E r \in trail' : r.hash.seq = k
    <3>1. CASE k = n + 1
      BY <3>1, <1>3
    <3>2. CASE k \in 1..n
      BY <3>2, <1>2 DEF Numbered
    <3>3. QED
      BY <3>1, <3>2
  <2>2. \A r \in trail' : r.hash.seq \in 1..n+1
    BY <1>2, <1>3 DEF Numbered
  <2>3. QED
    BY <2>1, <2>2 DEF Numbered
<1>5. OneRowEach'
  BY DEF TrailInv, OneRowEach
<1>6. QED
  BY <1>1, <1>3, <1>4, <1>5

LEMMA PostKeepsTrail ==
    ASSUME TrailInv, NEW t \in Threads, PostTrail(t)
    PROVE  TrailInv'
<1> DEFINE row == AuditRow(thread[t])
<1>1. thread[t] \in Thread /\ thread \in [Threads -> Thread]
  BY DEF TrailInv, TypeOK
<1>2. /\ row \in TrailRow
      /\ row.hash.seq = thread[t].seq /\ row.prev = thread[t].prev
  BY <1>1 DEF Thread, TrailRow, AuditRow, EventOf, Digest, Events
<1>3. thread' = [thread EXCEPT ![t] = IdleThread] /\ UNCHANGED role
  BY DEF PostTrail, Finish
<1>4. trail \subseteq trail'
  BY DEF PostTrail
<1>5. \A k, p : Follows(k, p) => Follows(k, p)'
  BY <1>4 DEF Follows
<1>6. ASSUME NEW u \in Threads, At(u, "postTrail")'
      PROVE  Follows(thread[u].seq, thread[u].prev)'
  <2>1. u # t /\ thread'[u] = thread[u]
    BY <1>1, <1>3, <1>6 DEF At, IdleThread
  <2>2. QED
    BY <1>5, <1>6, <2>1 DEF TrailInv, At
<1>7. CASE \E r \in trail : r.hash.seq = thread[t].seq
  <2>1. trail' = trail
    BY <1>7 DEF PostTrail
  <2>2. TypeOK'
    BY <2>1, <1>1, <1>3, IdleThreadType DEF TrailInv, TypeOK
  <2>3. (\E n \in Nat : Numbered(n))' /\ OneRowEach'
    BY <2>1 DEF TrailInv, Numbered, OneRowEach
  <2>4. QED
    BY <2>1, <2>2, <2>3, <1>5, <1>6 DEF TrailInv
<1>8. CASE \A r \in trail : r.hash.seq # thread[t].seq
  <2>1. trail' = trail \cup {row}
    BY <1>8 DEF PostTrail
  <2> HIDE DEF row
  <2>2. /\ (\E n \in Nat : Numbered(n))' /\ OneRowEach'
        /\ row.hash.seq > 0
        /\ Follows(row.hash.seq, row.prev)
    BY <2>1, <1>2, <1>8, AppendKeepsTrail
  <2>3. TypeOK'
    BY <2>1, <2>2, <1>1, <1>2, <1>3, IdleThreadType DEF TrailInv, TypeOK
  <2>4. (\A r \in trail : Follows(r.hash.seq, r.prev))'
    BY <2>1, <2>2, <1>5 DEF TrailInv
  <2>5. QED
    BY <2>2, <2>3, <2>4, <1>6 DEF TrailInv
<1>9. QED
  BY <1>7, <1>8

LEMMA TrailStep == TrailInv /\ [Next]_vars => TrailInv'
<1> SUFFICES ASSUME TrailInv, [Next]_vars PROVE TrailInv'
  OBVIOUS
<1>1. CASE UNCHANGED vars
  BY <1>1 DEF vars, TrailInv, TypeOK, Numbered, OneRowEach, Follows, At
<1>2. ASSUME NEW t \in Threads, Request(t) \/ RosterCall(t) \/ Abandon(t)
      PROVE  TrailInv'
  BY <1>2, QuietKeepsTrail, RequestQuiet, RosterCallQuiet, AbandonQuiet
     DEF TrailInv
<1>3. ASSUME NEW t \in Threads, TrailCall(t)
      PROVE  TrailInv'
  BY <1>3, GetKeepsTrail, PostKeepsTrail DEF TrailCall
<1>4. QED
  BY <1>1, <1>2, <1>3 DEF Next

THEOREM TrailInvariant == Spec => []TrailInv
BY TrailInit, TrailStep, PTL DEF Spec

(* Roles, rows and threads keep their types: in particular the number a    *)
(* new row is given is one more than that of the last row there is.        *)
THEOREM TypeCorrect == Spec => []TypeOK
BY TrailInvariant, PTL DEF TrailInv

LEMMA TrailInvVerifies == TrailInv => ChainIntact
<1> SUFFICES ASSUME TrailInv, NEW r \in trail
             PROVE  \/ /\ r.prev = Genesis
                       /\ \A s \in trail : r.hash.seq <= s.hash.seq
                    \/ \E s \in trail : Precedes(s, r) /\ r.prev = s.hash
  BY DEF ChainIntact
<1>1. \A s \in trail : s.hash.seq \in Nat /\ s.hash.seq > 0
  BY DEF TrailInv, TypeOK, TrailRow, Digest
<1>2. CASE r.hash.seq = 1 /\ r.prev = Genesis
  BY <1>1, <1>2
<1>3. ASSUME NEW s \in trail, r.hash.seq = s.hash.seq + 1, r.prev = s.hash
      PROVE  Precedes(s, r) /\ r.prev = s.hash
  BY <1>1, <1>3 DEF Precedes
<1>4. QED
  BY <1>2, <1>3 DEF TrailInv, Follows

(* The audit trail always verifies: whichever threads append at the same   *)
(* time, and wherever a request is cut off, each row follows the one       *)
(* before it (verify_chain of membership_audit.py).                        *)
THEOREM TrailVerifies == Spec => []ChainIntact
BY TrailInvariant, TrailInvVerifies, PTL

-----------------------------------------------------------------------------
(* Roles only rise, an LP seat for the GP's own address apart.             *)

RoleKept(e) == \/ Rank(role[e]) <= Rank(role'[e])
               \/ role[e] = "GP" /\ role'[e] = "LP"

LEMMA WriteKept ==
    ASSUME TypeOK, NEW a \in Emails, NEW r \in Roles, Write(a, r),
           \/ role[a] = "ABSENT"
           \/ r = "MEMBER" /\ role[a] = "GUEST"
           \/ r \in {"LP", "GP"},
           NEW e \in Emails
    PROVE  RoleKept(e)
<1>1. role[e] \in RoleOrAbsent
  BY DEF TypeOK
<1>2. CASE e = a
  <2>1. role'[e] = r
    BY <1>2 DEF Write, TypeOK
  <2>2. QED
    BY <1>1, <1>2, <2>1 DEF RoleKept, Rank, RoleOrAbsent, Roles
<1>3. CASE e # a
  <2>1. role'[e] = role[e]
    BY <1>3 DEF Write, TypeOK
  <2>2. QED
    BY <1>1, <2>1 DEF RoleKept, Rank, RoleOrAbsent, Roles
<1>4. QED
  BY <1>2, <1>3

LEMMA SameRoleKept ==
    ASSUME TypeOK, UNCHANGED role, NEW e \in Emails
    PROVE  RoleKept(e)
<1>1. role[e] \in RoleOrAbsent
  BY DEF TypeOK
<1>2. QED
  BY <1>1 DEF RoleKept, Rank, RoleOrAbsent, Roles

(* The write of each call, if it writes a role at all.                     *)
LEMMA RoleWrites ==
    ASSUME TypeOK, [Next]_vars
    PROVE  \/ UNCHANGED role
           \/ \E a \in Emails, r \in Roles :
                 /\ Write(a, r)
                 /\ \/ role[a] = "ABSENT"
                    \/ r = "MEMBER" /\ role[a] = "GUEST"
                    \/ r \in {"LP", "GP"}
<1>1. CASE UNCHANGED vars
  BY <1>1 DEF vars
<1>2. ASSUME NEW t \in Threads, Request(t) \/ TrailCall(t) \/ Abandon(t)
      PROVE  UNCHANGED role
  BY <1>2 DEF Request, SignIn, Subscribe, GiveSeat, StartUp, LinkBroker,
              TrailCall,
              GetTrail, PostTrail, Abandon
<1>3. ASSUME NEW t \in Threads, RosterCall(t)
      PROVE  \/ UNCHANGED role
             \/ \E a \in Emails, r \in Roles :
                   /\ Write(a, r)
                   /\ \/ role[a] = "ABSENT"
                      \/ r = "MEMBER" /\ role[a] = "GUEST"
                      \/ r \in {"LP", "GP"}
  <2>1. thread[t].email \in Emails /\ GpEmail \in Emails
    BY SupabaseAssumption DEF TypeOK, Thread
  <2>2. QED
    BY <1>3, <2>1
       DEF RosterCall, GetGuest, PostGuest, PatchGuest, GetSubscriber, Roles,
           PatchSubscribed, CountLps, PostLp, PatchLp, GetGp, PostGp, PatchGp
<1>4. QED
  BY <1>1, <1>2, <1>3 DEF Next

LEMMA StepKeepsRoles ==
    ASSUME TypeOK, [Next]_vars, NEW e \in Emails
    PROVE  RoleKept(e)
BY RoleWrites, WriteKept, SameRoleKept

(* No call of any thread lowers a role that another thread has raised since *)
(* it was read; only an LP seat for the GP's own address does              *)
(* (upsert_guest, set_subscribed and ensure_gp of supabase_membership.py). *)
THEOREM RolesKept == Spec => RoleNeverLowered
<1>1. TypeOK /\ [Next]_vars =>
         [\A e \in Emails : \/ Rank(role[e]) <= Rank(role'[e])
                            \/ role[e] = "GP" /\ role'[e] = "LP"]_vars
  BY StepKeepsRoles DEF RoleKept
<1>2. QED
  BY <1>1, TypeCorrect, PTL DEF Spec, RoleNeverLowered

-----------------------------------------------------------------------------
(* The trail tells the truth: what a row reports was written before the    *)
(* row was, and is not undone.                                             *)

Reported(request) == Proven(EventOf(request))

ThreadTruthful(m) ==
    /\ m.step \in {"getSubscriber", "patchSubscribed"} =>
          role[m.email] # "ABSENT" /\ m.request # "invite"
    /\ m.step \in {"getTrail", "postTrail"} =>
          role[m.email] \in Reported(m.request)

TruthInv ==
    /\ TrailTruthful
    /\ \A t \in Threads : ThreadTruthful(thread[t])

LEMMA KeptRoles ==
    ASSUME TypeOK, TypeOK', NEW e \in Emails, RoleKept(e)
    PROVE  /\ role[e] # "ABSENT" => role'[e] # "ABSENT"
           /\ role[e] \in {"LP", "GP"} => role'[e] \in {"LP", "GP"}
           /\ role[e] \in {"MEMBER", "LP", "GP"} =>
                 role'[e] \in {"MEMBER", "LP", "GP"}
<1>1. role[e] \in RoleOrAbsent /\ role'[e] \in RoleOrAbsent
  BY DEF TypeOK
<1>2. QED
  BY <1>1 DEF RoleKept, Rank, RoleOrAbsent, Roles

LEMMA EventOfType == \A request : EventOf(request) \in Events
BY DEF EventOf, Events

LEMMA KeptProven ==
    ASSUME TypeOK, TypeOK', NEW e \in Emails, RoleKept(e),
           NEW event \in Events, role[e] \in Proven(event)
    PROVE  role'[e] \in Proven(event)
<1>1. role'[e] \in RoleOrAbsent
  BY DEF TypeOK
<1>2. QED
  BY <1>1, KeptRoles DEF Events, Proven, Roles, RoleOrAbsent

LEMMA KeptTrail ==
    ASSUME TypeOK, TypeOK', TrailTruthful, trail' = trail,
           \A e \in Emails : RoleKept(e)
    PROVE  TrailTruthful'
<1>1. \A r \in trail : r.hash.email \in Emails /\ r.hash.event \in Events
  BY DEF TypeOK, TrailRow, Digest
<1>2. QED
  BY <1>1, KeptProven DEF TrailTruthful

LEMMA TruthInit == Init => TruthInv
BY DEF Init, TruthInv, TrailTruthful, ThreadTruthful, IdleThread

(* A thread that has just moved is truthful at its new step.               *)
LEMMA MovedTruthful ==
    ASSUME TypeOK, NEW t \in Threads, ThreadTruthful(thread[t]),
           Request(t) \/ RosterCall(t) \/ TrailCall(t) \/ Abandon(t)
    PROVE  ThreadTruthful(thread[t])'
<1>1. /\ thread \in [Threads -> Thread] /\ thread[t] \in Thread
      /\ role \in [Emails -> RoleOrAbsent] /\ thread[t].email \in Emails
  BY DEF TypeOK, Thread
<1>2. CASE Finish(t)
  BY <1>1, <1>2 DEF Finish, IdleThread, ThreadTruthful
<1>3. CASE Request(t)
  <2>1. ASSUME NEW e \in Emails, NEW request \in Requests, NEW step \in Steps,
               Begin(t, request, e, step), UNCHANGED role,
               step \notin {"getTrail", "postTrail", "patchSubscribed"},
               step = "getSubscriber" =>
                  role[e] # "ABSENT" /\ request # "invite"
        PROVE  ThreadTruthful(thread[t])'
    <3>1. thread'[t] = [IdleThread EXCEPT !.step = step, !.request = request,
                                          !.email = e]
      BY <1>1, <2>1 DEF Begin
    <3>2. /\ thread'[t].step = step /\ thread'[t].request = request
          /\ thread'[t].email = e
      BY <3>1 DEF IdleThread
    <3>3. QED
      BY <2>1, <3>2 DEF ThreadTruthful
  <2>2. ASSUME NEW e \in Emails,
               \/ SignIn(t, e) \/ GiveSeat(t, "invite", e)
               \/ GiveSeat(t, "promote", e)
        PROVE  ThreadTruthful(thread[t])'
    BY <2>1, <2>2 DEF SignIn, GiveSeat, Requests, Steps
  <2>3. ASSUME NEW e \in Emails, Subscribe(t, e)
        PROVE  ThreadTruthful(thread[t])'
    BY <2>1, <2>3 DEF Subscribe, Requests, Steps
  <2>4. ASSUME StartUp(t)
        PROVE  ThreadTruthful(thread[t])'
    BY <2>1, <2>4, SupabaseAssumption DEF StartUp, Requests, Steps
  <2>5. ASSUME LinkBroker(t)
        PROVE  ThreadTruthful(thread[t])'
    <3>1. thread'[t] = [IdleThread EXCEPT !.step = "getTrail",
                           !.request = "link", !.email = GpEmail]
      BY <1>1, <2>5 DEF LinkBroker, Begin
    <3>2. /\ thread'[t].step = "getTrail" /\ thread'[t].request = "link"
          /\ thread'[t].email = GpEmail
      BY <3>1 DEF IdleThread
    <3>3. role'[GpEmail] \in Reported("link")
      BY <1>1, <2>5, SupabaseAssumption
         DEF LinkBroker, Reported, EventOf, Proven, RoleOrAbsent, Roles
    <3>4. QED
      BY <3>2, <3>3 DEF ThreadTruthful
  <2>6. QED
    BY <1>3, <2>2, <2>3, <2>4, <2>5 DEF Request
<1>4. ASSUME NEW step \in Steps, Goto(t, step)
      PROVE  /\ thread'[t].step = step
             /\ thread'[t].email = thread[t].email
             /\ thread'[t].request = thread[t].request
  BY <1>1, <1>4 DEF Goto, Thread
<1>5. CASE GetSubscriber(t)
  BY <1>1, <1>4, <1>5 DEF GetSubscriber, At, Steps, ThreadTruthful,
     Reported, EventOf, Proven, RoleOrAbsent, Roles
<1>6. CASE PatchSubscribed(t)
  BY <1>1, <1>4, <1>6 DEF PatchSubscribed, Write, At, Steps, ThreadTruthful,
     Reported, EventOf, Proven, RoleOrAbsent, Roles
<1>7. CASE PatchLp(t)
  BY <1>1, <1>2, <1>4, <1>7 DEF PatchLp, Write, At, Steps, ThreadTruthful,
     Reported, EventOf, Proven
<1>8. CASE GetTrail(t)
  <2>1. /\ thread'[t].step = "postTrail"
        /\ thread'[t].email = thread[t].email
        /\ thread'[t].request = thread[t].request
    BY <1>1, <1>8 DEF GetTrail, Thread
  <2>2. QED
    BY <2>1, <1>8 DEF GetTrail, At, ThreadTruthful, Reported
<1>9. CASE GetGuest(t) \/ CountLps(t) \/ PostLp(t) \/ GetGp(t)
  <2>1. \/ Finish(t)
        \/ \E step \in Steps \ {"getTrail", "postTrail", "getSubscriber",
                                "patchSubscribed"} : Goto(t, step)
    BY <1>9 DEF GetGuest, CountLps, PostLp, GetGp, Steps
  <2>2. QED
    BY <1>2, <1>4, <2>1 DEF ThreadTruthful
<1>10. CASE PostGuest(t) \/ PatchGuest(t) \/ PostGp(t) \/ PatchGp(t)
            \/ PostTrail(t) \/ Abandon(t)
  BY <1>2, <1>10 DEF PostGuest, PatchGuest, PostGp, PatchGp, PostTrail, Abandon
<1>11. QED
  BY <1>3, <1>5, <1>6, <1>7, <1>8, <1>9, <1>10 DEF RosterCall, TrailCall

LEMMA TruthStep ==
    ASSUME TypeOK, TypeOK', TruthInv, [Next]_vars
    PROVE  TruthInv'
<1>1. \A e \in Emails : RoleKept(e)
  BY StepKeepsRoles
<1>2. thread \in [Threads -> Thread]
  BY DEF TypeOK
<1>3. ASSUME NEW u \in Threads, thread'[u] = thread[u]
      PROVE  ThreadTruthful(thread[u])'
  <2>1. ThreadTruthful(thread[u]) /\ thread[u] \in Thread
    BY <1>2 DEF TruthInv
  <2>2. thread[u].email \in Emails
    BY <2>1 DEF Thread
  <2>3. QED
    BY <1>1, <1>3, <2>1, <2>2, KeptRoles, KeptProven, EventOfType
       DEF ThreadTruthful, Reported
<1>4. CASE UNCHANGED vars
  BY <1>1, <1>3, <1>4, KeptTrail DEF vars, TruthInv
<1>5. ASSUME NEW t \in Threads,
             Request(t) \/ RosterCall(t) \/ TrailCall(t) \/ Abandon(t)
      PROVE  TruthInv'
  <2>1. \A u \in Threads : u # t => thread'[u] = thread[u]
    BY <1>5, OneThreadMoves
  <2>2. ThreadTruthful(thread[t])'
    BY <1>5, MovedTruthful DEF TruthInv
  <2>3. \A u \in Threads : ThreadTruthful(thread[u])'
    BY <1>3, <2>1, <2>2
  <2>4. CASE trail' = trail
    BY <2>3, <2>4, <1>1, KeptTrail DEF TruthInv
  <2>5. CASE trail' # trail
    <3>1. PostTrail(t) /\ trail' = trail \cup {AuditRow(thread[t])}
      <4>1. ~Request(t) /\ ~RosterCall(t) /\ ~Abandon(t)
        BY <2>5, RequestQuiet, RosterCallQuiet, AbandonQuiet DEF QuietStep
      <4>2. QED
        BY <4>1, <1>5, <2>5 DEF TrailCall, GetTrail, PostTrail
    <3>2. role[thread[t].email] \in Reported(thread[t].request)
      BY <3>1 DEF PostTrail, At, TruthInv, ThreadTruthful
    <3>3. role' = role
      BY <3>1 DEF PostTrail
    <3>4. TrailTruthful'
      BY <3>1, <3>2, <3>3
         DEF TruthInv, TrailTruthful, AuditRow, Reported
    <3>5. QED
      BY <2>3, <3>4 DEF TruthInv
  <2>6. QED
    BY <2>4, <2>5
<1>6. QED
  BY <1>4, <1>5 DEF Next

(* What the trail reports has happened and still shows: each invited       *)
(* address is LP or GP, each subscribed one is at least a MEMBER (the      *)
(* subscribe and invite handlers of auth_app.py audit after the write).    *)
THEOREM TrailTruth == Spec => []TrailTruthful
<1>1. Init => TruthInv
  BY TruthInit
<1>2. TypeOK /\ TypeOK' /\ TruthInv /\ [Next]_vars => TruthInv'
  BY TruthStep
<1>3. TruthInv => TrailTruthful
  BY DEF TruthInv
<1>4. QED
  BY <1>1, <1>2, <1>3, TypeCorrect, PTL DEF Spec

(* The trail verifies and never lies of the roster, at once: what an       *)
(* auditor who runs verify_chain may conclude of the rows it reads.        *)
THEOREM TrailIsSound == Spec => []TrailSound
<1>1. ChainIntact /\ TrailTruthful => TrailSound
  BY DEF TrailSound
<1>2. QED
  BY <1>1, TrailVerifies, TrailTruth, PTL

-----------------------------------------------------------------------------
(***************************************************************************)
(* What SupabaseRoster promises when the GP sends one request at a time:   *)
(* the LP cap, and that the calls of the Supabase store amount to the      *)
(* operations of MembershipStore.  With overlapping requests of the GP     *)
(* neither holds (run FindLpCap).                                          *)
(***************************************************************************)

(* One request at a time gives seats, so what it has counted stays true    *)
(* until it has written; ensure_gp can only free a seat.                   *)

SeatSteps == {"countLps", "postLp", "patchLp"}

OneSeating == \A t, u \in Threads : Seating(t) /\ Seating(u) => t = u

Counted(t) ==
    /\ thread[t].step \in SeatSteps => Seating(t)
    /\ At(t, "postLp") => Cardinality(Lps) < MaxLpMembers
    /\ At(t, "patchLp") =>
          Cardinality(Lps \cup {thread[t].email}) <= MaxLpMembers

SeatInv ==
    /\ OneSeating
    /\ LpCapRespected
    /\ \A t \in Threads : Counted(t)

LEMMA LpsFinite ==
    /\ IsFiniteSet(Lps)
    /\ \A e : IsFiniteSet(Lps \cup {e}) 
<1>1. IsFiniteSet(Lps)
  BY SupabaseAssumption, FS_Subset DEF Lps
<1>2. QED
  BY <1>1, FS_AddElement

(* The seats taken after a write of one role.                              *)
LEMMA LpsAfter ==
    ASSUME TypeOK, NEW a \in Emails, NEW r, Write(a, r)
    PROVE  Lps' = IF r = "LP" THEN Lps \cup {a} ELSE Lps \ {a}
BY DEF TypeOK, Write, Lps

LEMMA FewerSeats ==
    ASSUME NEW S, IsFiniteSet(S), NEW T \in SUBSET S
    PROVE  /\ IsFiniteSet(T)
           /\ Cardinality(T) \in Nat /\ Cardinality(S) \in Nat
           /\ Cardinality(T) <= Cardinality(S)
BY FS_Subset, FS_CardinalityType

(* A seat more counts one more at most.                                    *)
LEMMA OneMoreSeat ==
    ASSUME NEW e
    PROVE  /\ Cardinality(Lps) \in Nat
           /\ Cardinality(Lps \cup {e}) \in Nat
           /\ Cardinality(Lps \cup {e}) =
                 IF e \in Lps THEN Cardinality(Lps) ELSE Cardinality(Lps) + 1
BY LpsFinite, FS_AddElement, FS_CardinalityType

-----------------------------------------------------------------------------
(* The seat invariant is inductive.                                        *)

LEMMA SeatInit == Init => SeatInv
<1> SUFFICES ASSUME Init PROVE SeatInv
  OBVIOUS
<1>1. Lps = {}
  BY DEF Init, Lps
<1>2. LpCapRespected
  BY <1>1, FS_EmptySet, SupabaseAssumption DEF LpCapRespected
<1>3. OneSeating /\ \A t \in Threads : Counted(t)
  BY DEF Init, OneSeating, Counted, Seating, SeatSteps, At, IdleThread
<1>4. QED
  BY <1>2, <1>3 DEF SeatInv

LEMMA StillCounted ==
    ASSUME NEW u \in Threads, Counted(u), thread'[u] = thread[u],
           Lps' \subseteq Lps
    PROVE  Counted(u)'
<1>1. Cardinality(Lps') <= Cardinality(Lps)
  BY LpsFinite, FewerSeats
<1>2. /\ Cardinality(Lps') \in Nat /\ Cardinality(Lps) \in Nat
      /\ MaxLpMembers \in Nat
  BY LpsFinite, FewerSeats, SupabaseAssumption
<1>3. CASE At(u, "patchLp")
  <2> DEFINE S == Lps \cup {thread[u].email}
             T == Lps' \cup {thread[u].email}
  <2>1. /\ Cardinality(T) \in Nat /\ Cardinality(S) \in Nat
        /\ Cardinality(T) <= Cardinality(S)
    BY LpsFinite, FewerSeats, T \subseteq S
  <2>2. Cardinality(S) <= MaxLpMembers
    BY <1>3 DEF Counted
  <2>3. Cardinality(T) <= MaxLpMembers
    BY <2>1, <2>2, <1>2
  <2>4. Seating(u)
    BY <1>3 DEF Counted, At, SeatSteps
  <2>5. QED
    BY <1>3, <2>3, <2>4 DEF Counted, At, Seating
<1>4. CASE ~At(u, "patchLp")
  BY <1>1, <1>2, <1>4 DEF Counted, At, Seating
<1>5. QED
  BY <1>3, <1>4

LEMMA StillWithinCap ==
    ASSUME LpCapRespected, Lps' \subseteq Lps
    PROVE  LpCapRespected'
<1>1. /\ Cardinality(Lps') <= Cardinality(Lps)
      /\ Cardinality(Lps') \in Nat /\ Cardinality(Lps) \in Nat
  BY LpsFinite, FewerSeats
<1>2. QED
  BY <1>1, SupabaseAssumption DEF LpCapRespected

(* A step of t that gives no seat and starts no request for one.           *)
LEMMA NoSeatGiven ==
    ASSUME SeatInv, NEW t \in Threads, Lps' \subseteq Lps,
           \A u \in Threads : u # t => thread'[u] = thread[u],
           Seating(t)' => Seating(t), Counted(t)'
    PROVE  SeatInv'
<1>1. LpCapRespected'
  BY StillWithinCap DEF SeatInv
<1>2. \A u \in Threads : Counted(u)'
  BY StillCounted DEF SeatInv
<1>3. \A u \in Threads : Seating(u)' => Seating(u)
  BY DEF Seating
<1>4. OneSeating'
  BY <1>3 DEF SeatInv, OneSeating
<1>5. QED
  BY <1>1, <1>2, <1>4 DEF SeatInv

(* A write of the LP role by the one thread that gives a seat.             *)
LEMMA SeatGiven ==
    ASSUME TypeOK, SeatInv, NEW t \in Threads, Seating(t),
           \A u \in Threads : u # t => thread'[u] = thread[u],
           Write(thread[t].email, "LP"),
           Cardinality(Lps \cup {thread[t].email}) <= MaxLpMembers,
           Seating(t)' => Seating(t),
           ~At(t, "postLp")', thread'[t].step \in SeatSteps => Seating(t)',
           At(t, "patchLp")' => thread'[t].email = thread[t].email
    PROVE  SeatInv'
<1>1. thread[t].email \in Emails
  BY DEF TypeOK, Thread
<1>2. Lps' = Lps \cup {thread[t].email}
  BY <1>1, LpsAfter
<1>3. LpCapRespected'
  BY <1>2 DEF LpCapRespected
<1>4. \A u \in Threads : u # t => ~Seating(u) /\ ~Seating(u)'
  BY DEF SeatInv, OneSeating, Seating
<1>5. OneSeating'
  BY <1>4 DEF OneSeating
<1>6. \A u \in Threads : u # t => Counted(u)'
  BY <1>4 DEF SeatInv, Counted, Seating, SeatSteps, At
<1>7. Counted(t)'
  <2>1. ASSUME At(t, "patchLp")'
        PROVE  Lps' \cup {thread'[t].email} = Lps \cup {thread[t].email}
    BY <1>2, <2>1
  <2>2. QED
    BY <2>1 DEF Counted, SeatSteps, At, Seating
<1>8. QED
  BY <1>3, <1>5, <1>6, <1>7 DEF SeatInv

(* A thread after it ends, moves on or begins.                             *)
LEMMA ThreadAfter ==
    ASSUME TypeOK, NEW t \in Threads
    PROVE  /\ Finish(t) => thread'[t] = IdleThread
           /\ \A step : Goto(t, step) =>
                 /\ thread'[t].step = step
                 /\ thread'[t].request = thread[t].request
                 /\ thread'[t].email = thread[t].email
           /\ \A request, e, step : Begin(t, request, e, step) =>
                 /\ thread'[t].step = step
                 /\ thread'[t].request = request
                 /\ thread'[t].email = e
           /\ GetTrail(t) =>
                 /\ thread'[t].step = "postTrail"
                 /\ thread'[t].request = thread[t].request
<1>1. thread \in [Threads -> Thread] /\ thread[t] \in Thread
  BY DEF TypeOK
<1>2. Finish(t) => thread'[t] = IdleThread
  BY <1>1 DEF Finish
<1>3. ASSUME NEW step, Goto(t, step)
      PROVE  /\ thread'[t].step = step
             /\ thread'[t].request = thread[t].request
             /\ thread'[t].email = thread[t].email
  BY <1>1, <1>3 DEF Goto, Thread
<1>4. ASSUME NEW request, NEW e, NEW step, Begin(t, request, e, step)
      PROVE  /\ thread'[t].step = step
             /\ thread'[t].request = request
             /\ thread'[t].email = e
  <2>1. thread'[t] = [IdleThread EXCEPT !.step = step, !.request = request,
                                        !.email = e]
    BY <1>1, <1>4 DEF Begin
  <2>2. QED
    BY <2>1 DEF IdleThread
<1>5. GetTrail(t) => /\ thread'[t].step = "postTrail"
                     /\ thread'[t].request = thread[t].request
  BY <1>1 DEF GetTrail, Thread
<1>6. QED
  BY <1>2, <1>3, <1>4, <1>5

LEMMA RequestKeepsSeats ==
    ASSUME TypeOK, SeatInv, GpSerial, NEW t \in Threads, Request(t)
    PROVE  SeatInv'
<1>1. UNCHANGED role /\ Lps' = Lps
  BY DEF Request, SignIn, Subscribe, GiveSeat, StartUp, LinkBroker, Lps
<1>2. \A u \in Threads : u # t => thread'[u] = thread[u]
  BY OneThreadMoves
<1>3. CASE \E e \in Emails : \/ SignIn(t, e) \/ Subscribe(t, e)
                             \/ StartUp(t) \/ LinkBroker(t)
  <2>1. ~Seating(t)' /\ Counted(t)'
    BY <1>3, ThreadAfter DEF SignIn, Subscribe, StartUp, LinkBroker,
       Seating, Counted, SeatSteps, At
  <2>2. QED
    BY <1>1, <1>2, <2>1, NoSeatGiven
<1>4. CASE \E e \in Emails : \/ GiveSeat(t, "invite", e)
                             \/ GiveSeat(t, "promote", e)
  <2>1. \A u \in Threads : ~Seating(u)
    BY <1>4 DEF GiveSeat
  <2>2. OneSeating'
    BY <2>1, <1>2 DEF OneSeating, Seating
  <2>3. Counted(t)'
    BY <1>4, ThreadAfter DEF GiveSeat, Seating, Counted, SeatSteps, At
  <2>4. \A u \in Threads : Counted(u)'
    BY <1>1, <1>2, <2>3, StillCounted DEF SeatInv
  <2>5. LpCapRespected'
    BY <1>1, StillWithinCap DEF SeatInv
  <2>6. QED
    BY <2>2, <2>4, <2>5 DEF SeatInv
<1>5. QED
  BY <1>3, <1>4, SupabaseAssumption DEF Request

LEMMA RosterCallKeepsSeats ==
    ASSUME TypeOK, SeatInv, NEW t \in Threads, RosterCall(t)
    PROVE  SeatInv'
<1> DEFINE e == thread[t].email
<1>1. \A u \in Threads : u # t => thread'[u] = thread[u]
  BY OneThreadMoves
<1>2. e \in Emails /\ GpEmail \in Emails
  BY SupabaseAssumption DEF TypeOK, Thread
<1>3. Counted(t) /\ LpCapRespected
  BY DEF SeatInv
<1>4. CASE CountLps(t)
  <2>1. Lps' = Lps
    BY <1>4 DEF CountLps, Lps
  <2>2. /\ Seating(t)' => Seating(t)
        /\ Counted(t)'
    BY <1>3, <1>4, <2>1, ThreadAfter
       DEF CountLps, SeatFree, Counted, Seating, SeatSteps, At, IdleThread
  <2>3. QED
    BY <1>1, <2>1, <2>2, NoSeatGiven
<1>5. CASE PostLp(t)
  <2>1. Seating(t) /\ Cardinality(Lps) < MaxLpMembers
    BY <1>3, <1>5 DEF PostLp, Counted, SeatSteps, At
  <2>2. Cardinality(Lps \cup {e}) <= MaxLpMembers
    <3>1. /\ Cardinality(Lps) \in Nat
          /\ \/ Cardinality(Lps \cup {e}) = Cardinality(Lps)
             \/ Cardinality(Lps \cup {e}) = Cardinality(Lps) + 1
      BY OneMoreSeat
    <3>2. QED
      BY <2>1, <3>1, SupabaseAssumption
  <2>3. /\ Seating(t)'
        /\ ~At(t, "postLp")'
        /\ thread'[t].email = e
    BY <1>5, <2>1, ThreadAfter DEF PostLp, Seating, At
  <2>4. QED
    BY <1>1, <1>5, <2>1, <2>2, <2>3, SeatGiven DEF PostLp
<1>6. CASE PatchLp(t)
  <2>1. Seating(t) /\ Cardinality(Lps \cup {e}) <= MaxLpMembers
    BY <1>3, <1>6 DEF PatchLp, Counted, SeatSteps, At
  <2>2. thread'[t].step \notin SeatSteps
    BY <1>6, ThreadAfter DEF PatchLp, SeatSteps, IdleThread
  <2>3. ~At(t, "postLp")' /\ ~At(t, "patchLp")'
    BY <2>2 DEF At, SeatSteps
  <2>4. QED
    BY <1>1, <1>6, <2>1, <2>2, <2>3, SeatGiven DEF PatchLp
<1>7. CASE GetGuest(t) \/ PostGuest(t) \/ PatchGuest(t) \/ GetSubscriber(t)
           \/ PatchSubscribed(t) \/ GetGp(t) \/ PostGp(t) \/ PatchGp(t)
  <2>1. \/ UNCHANGED role
        \/ \E a \in Emails, r \in Roles : Write(a, r) /\ r # "LP"
    BY <1>2, <1>7
       DEF GetGuest, PostGuest, PatchGuest, GetSubscriber, PatchSubscribed,
           GetGp, PostGp, PatchGp, Roles
  <2>2. Lps' \subseteq Lps
    BY <2>1, LpsAfter DEF Lps
  <2>3. \/ Finish(t)
        \/ \E step \in Steps \ SeatSteps : Goto(t, step)
    BY <1>7
       DEF GetGuest, PostGuest, PatchGuest, GetSubscriber, PatchSubscribed,
           GetGp, PostGp, PatchGp, Steps, SeatSteps
  <2>4. (Seating(t)' => Seating(t)) /\ Counted(t)'
    BY <2>3, ThreadAfter DEF Counted, Seating, SeatSteps, At, IdleThread
  <2>5. QED
    BY <1>1, <2>2, <2>4, NoSeatGiven
<1>8. QED
  BY <1>4, <1>5, <1>6, <1>7 DEF RosterCall

LEMMA SeatStep ==
    ASSUME TypeOK, SeatInv, GpSerial, [Next]_vars
    PROVE  SeatInv'
<1>1. CASE UNCHANGED vars
  BY <1>1 DEF vars, SeatInv, OneSeating, LpCapRespected, Lps, Counted,
     Seating, SeatSteps, At
<1>2. ASSUME NEW t \in Threads, TrailCall(t) \/ Abandon(t)
      PROVE  SeatInv'
  <2>1. Lps' = Lps
    BY <1>2 DEF TrailCall, GetTrail, PostTrail, Abandon, Lps
  <2>2. (Seating(t)' => Seating(t)) /\ Counted(t)'
    BY <1>2, ThreadAfter DEF TrailCall, PostTrail, Abandon, Counted, Seating,
       SeatSteps, At, IdleThread
  <2>3. QED
    BY <1>2, <2>1, <2>2, OneThreadMoves, NoSeatGiven
<1>3. QED
  BY <1>1, <1>2, RequestKeepsSeats, RosterCallKeepsSeats DEF Next

LEMMA SeatInvariant == GpSerial /\ Spec => []SeatInv
<1>1. ASSUME GpSerial
      PROVE  TypeOK /\ SeatInv /\ [Next]_vars => SeatInv'
  BY <1>1, SeatStep
<1>2. ASSUME GpSerial
      PROVE  Spec => []SeatInv
  BY <1>1, <1>2, SeatInit, TypeCorrect, PTL DEF Spec
<1>3. QED
  BY <1>2

(* LP seats stay within MAX_LP_MEMBERS while the GP waits for each answer, *)
(* whatever everyone else does between the count and the two writes        *)
(* (issue_lp_invite and promote_to_lp of supabase_membership.py).          *)
THEOREM CapHolds == GpSerial /\ Spec => []LpCapRespected
<1>1. SeatInv => LpCapRespected
  BY DEF SeatInv
<1>2. QED
  BY <1>1, SeatInvariant, PTL

-----------------------------------------------------------------------------
(* The Supabase store implements the SQLite one.                           *)

LEMMA RequestRefines ==
    ASSUME NEW t \in Threads, Request(t) \/ TrailCall(t) \/ Abandon(t)
    PROVE  UNCHANGED role
BY DEF Request, SignIn, Subscribe, GiveSeat, StartUp, LinkBroker, TrailCall,
       GetTrail,
       PostTrail, Abandon

(* The count of the store is that of the module (FiniteSets, instantiated  *)
(* with it).                                                               *)
LEMMA SameCount ==
    ASSUME NEW S
    PROVE  Store!Cardinality(S) = Cardinality(S)
BY DEF Store!Cardinality, Cardinality

(* A second write of the same seat changes nothing, unless another call    *)
(* has taken the role away in between: then there is room again.           *)
LEMMA SeatRefines ==
    ASSUME TypeOK, SeatInv, NEW t \in Threads, PostLp(t) \/ PatchLp(t)
    PROVE  Store!SeatLp(thread[t].email) \/ UNCHANGED role
<1> DEFINE e == thread[t].email
<1>1. role' = [role EXCEPT ![e] = "LP"] /\ e \in Emails
  BY DEF PostLp, PatchLp, Write, TypeOK, Thread
<1>2. CASE e \in Lps
  BY <1>1, <1>2 DEF Lps, TypeOK
<1>3. CASE e \notin Lps
  <2>1. /\ Cardinality(Lps) \in Nat /\ MaxLpMembers \in Nat
        /\ Cardinality(Lps \cup {e}) = Cardinality(Lps) + 1
    BY <1>3, OneMoreSeat, SupabaseAssumption
  <2>2. \/ Cardinality(Lps) < MaxLpMembers
        \/ Cardinality(Lps \cup {e}) <= MaxLpMembers
    BY DEF SeatInv, Counted, PostLp, PatchLp, At
  <2>3. Cardinality(Lps) < MaxLpMembers
    BY <2>1, <2>2
  <2>4. QED
    BY <1>1, <2>3, SameCount DEF Store!SeatLp, Store!Lps, Lps
<1>4. QED
  BY <1>2, <1>3

LEMMA RosterCallRefines ==
    ASSUME TypeOK, SeatInv, NEW t \in Threads, RosterCall(t)
    PROVE  Store!Next \/ UNCHANGED role
<1> DEFINE e == thread[t].email
<1>1. e \in Emails
  BY DEF TypeOK, Thread
<1>2. CASE PostGuest(t)
  BY <1>1, <1>2 DEF PostGuest, Write, Store!Next, Store!UpsertGuest
<1>3. CASE PatchSubscribed(t)
  BY <1>1, <1>3 DEF PatchSubscribed, Write, Store!Next, Store!SetSubscribed
<1>4. CASE PostLp(t) \/ PatchLp(t)
  BY <1>1, <1>4, SeatRefines DEF Store!Next
<1>5. CASE PostGp(t) \/ PatchGp(t)
  BY <1>5 DEF PostGp, PatchGp, Write, Store!Next, Store!EnsureGp
<1>6. CASE GetGuest(t) \/ PatchGuest(t) \/ GetSubscriber(t) \/ CountLps(t)
           \/ GetGp(t)
  BY <1>6 DEF GetGuest, PatchGuest, GetSubscriber, CountLps, GetGp
<1>7. QED
  BY <1>2, <1>3, <1>4, <1>5, <1>6 DEF RosterCall

(* Each REST call is an operation of the SQLite store or changes no role:  *)
(* no interleaving and no request cut short gives a roster that the locked *)
(* store could not have reached, the GP's requests being one at a time.    *)
THEOREM StoreImplemented == GpSerial /\ Spec => ImplementsStore
<1>1. Init => Store!Init
  BY DEF Init, Store!Init
<1>2. TypeOK /\ SeatInv /\ [Next]_vars => [Store!Next]_role
  <2> SUFFICES ASSUME TypeOK, SeatInv, [Next]_vars
               PROVE  Store!Next \/ UNCHANGED role
    OBVIOUS
  <2>1. CASE UNCHANGED vars
    BY <2>1 DEF vars
  <2>2. QED
    BY <2>1, RequestRefines, RosterCallRefines DEF Next
<1>3. QED
  BY <1>1, <1>2, TypeCorrect, SeatInvariant, PTL
     DEF Spec, ImplementsStore, Store!Spec
=============================================================================
