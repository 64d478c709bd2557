--------------------------- MODULE SupabaseRoster ---------------------------
(***************************************************************************)
(* The membership roster and its audit trail when they live in Supabase:   *)
(* hedge_desk/supabase_membership.py and the Supabase half of              *)
(* membership_audit.py, called by the request handlers of auth_app.py on   *)
(* the threads of the web server.  Nothing is locked: each REST call is a  *)
(* step, other threads run between two of them, and any call may fail, be  *)
(* answered too late, or be the last of a server that is being replaced.   *)
(***************************************************************************)
EXTENDS Naturals, FiniteSets

CONSTANTS
    Emails,
    GpEmail,
    MaxLpMembers,
    Threads,      \* requests in progress at a time
    GpSerial,     \* TRUE: the GP waits for an answer before the next request
    Genesis,      \* prev_hash of the first audit row
    MaxTrail      \* bound: rows after which no audited request starts

Roles == {"GUEST", "MEMBER", "LP", "GP"}
RoleOrAbsent == {"ABSENT"} \cup Roles
Events == {"lp_invited", "subscribed", "broker_linked"}

(* Identity of an audit row, standing for its entry_hash: the table holds  *)
(* one row of a number, so these fields tell any two hashes apart.         *)
Digest == [seq : Nat, event : Events, email : Emails]

ASSUME SupabaseAssumption ==
    /\ IsFiniteSet(Emails)
    /\ GpEmail \in Emails
    /\ MaxLpMembers \in Nat
    /\ GpSerial \in BOOLEAN
    /\ Genesis \notin Digest
    /\ MaxTrail \in Nat

VARIABLES
    role,   \* members.role by members.email, ABSENT if there is no row
    trail,  \* membership_events
    thread  \* what each thread is doing

vars == <<role, trail, thread>>

TrailRow == [hash : Digest, prev : Digest \cup {Genesis}]

Steps ==
    { "idle",
      "getGuest", "postGuest", "patchGuest",      \* upsert_guest
      "getSubscriber", "patchSubscribed",         \* set_subscribed
      "countLps", "postLp", "patchLp",            \* invite, promote
      "getGp", "postGp", "patchGp",               \* ensure_gp
      "getTrail", "postTrail" }                   \* audit.record

Requests == {"signIn", "subscribe", "invite", "promote", "startUp", "link"}

Thread ==
    [ step : Steps, request : Requests \cup {"none"}, email : Emails,
      seq : Nat, prev : Digest \cup {Genesis} ]

IdleThread ==
    [ step |-> "idle", request |-> "none", email |-> GpEmail,
      seq |-> 0, prev |-> Genesis ]

TypeOK ==
    /\ role \in [Emails -> RoleOrAbsent]
    /\ trail \subseteq TrailRow
    /\ \A r \in trail : r.hash.seq > 0
    /\ thread \in [Threads -> Thread]

Init ==
    /\ role = [e \in Emails |-> "ABSENT"]
    /\ trail = {}
    /\ thread = [t \in Threads |-> IdleThread]

-----------------------------------------------------------------------------
(* Thread plumbing.                                                        *)

At(t, step) == thread[t].step = step
Goto(t, step) == thread' = [thread EXCEPT ![t].step = step]
Finish(t) == thread' = [thread EXCEPT ![t] = IdleThread]

Begin(t, request, e, step) ==
    /\ At(t, "idle")
    /\ thread' = [thread EXCEPT ![t] =
                     [IdleThread EXCEPT !.step = step, !.request = request,
                                        !.email = e]]

Write(e, r) == role' = [role EXCEPT ![e] = r]

(* A REST call fails or its answer is lost, or the server stops: the       *)
(* request ends here, whatever it has written so far.                      *)
Abandon(t) ==
    /\ ~At(t, "idle")
    /\ Finish(t)
    /\ UNCHANGED <<role, trail>>

-----------------------------------------------------------------------------
(* Sign-in: the code request and the social login both upsert the guest.   *)

SignIn(t, e) == Begin(t, "signIn", e, "getGuest") /\ UNCHANGED <<role, trail>>

GetGuest(t) ==
    /\ At(t, "getGuest")
    /\ IF role[thread[t].email] = "ABSENT" THEN Goto(t, "postGuest")
                                           ELSE Goto(t, "patchGuest")
    /\ UNCHANGED <<role, trail>>

(* Seeded fault: the insert merges into a row made in the meantime.        *)
PostGuestMerging(t) ==
    /\ At(t, "postGuest")
    /\ Write(thread[t].email, "GUEST")
    /\ Finish(t)
    /\ UNCHANGED trail

(* A plain insert: it fails if the row exists by now.                      *)
PostGuest(t) ==
    /\ At(t, "postGuest")
    /\ IF role[thread[t].email] = "ABSENT" THEN Write(thread[t].email, "GUEST")
                                           ELSE UNCHANGED role
    /\ Finish(t)
    /\ UNCHANGED trail

(* The expiry alone is patched: of the row of a member nothing is read.    *)
PatchGuest(t) ==
    /\ At(t, "patchGuest")
    /\ Finish(t)
    /\ UNCHANGED <<role, trail>>

-----------------------------------------------------------------------------
(* Subscription.  The session of the request proves that there is a row.   *)

AuditRoom == Cardinality(trail) < MaxTrail

Subscribe(t, e) ==
    /\ role[e] # "ABSENT"
    /\ AuditRoom
    /\ Begin(t, "subscribe", e, "getSubscriber")
    /\ UNCHANGED <<role, trail>>

GetSubscriber(t) ==
    /\ At(t, "getSubscriber")
    /\ IF role[thread[t].email] = "GUEST" THEN Goto(t, "patchSubscribed")
                                          ELSE Goto(t, "getTrail")
    /\ UNCHANGED <<role, trail>>

(* Seeded fault: the patch is not restricted to a row that is still GUEST. *)
PatchSubscribedUnfiltered(t) ==
    /\ At(t, "patchSubscribed")
    /\ Write(thread[t].email, "MEMBER")
    /\ Goto(t, "getTrail")
    /\ UNCHANGED trail

PatchSubscribed(t) ==
    /\ At(t, "patchSubscribed")
    /\ IF role[thread[t].email] = "GUEST" THEN Write(thread[t].email, "MEMBER")
                                          ELSE UNCHANGED role
    /\ Goto(t, "getTrail")
    /\ UNCHANGED trail

-----------------------------------------------------------------------------
(* LP seats: issue_lp_invite, which the GP's request reaches, and          *)
(* promote_to_lp, which no handler calls and no audit row follows.         *)

Lps == {e \in Emails : role[e] = "LP"}
Seating(t) == thread[t].request \in {"invite", "promote"}

GiveSeat(t, request, e) ==
    /\ GpSerial => \A u \in Threads : ~Seating(u)
    /\ request = "invite" => AuditRoom
    /\ Begin(t, request, e, "countLps")
    /\ UNCHANGED <<role, trail>>

(* Seeded fault: the last seat is given twice.                             *)
SeatFreeOffByOne == Cardinality(Lps) <= MaxLpMembers

SeatFree == Cardinality(Lps) < MaxLpMembers

CountLps(t) ==
    /\ At(t, "countLps")
    /\ IF SeatFree THEN Goto(t, "postLp") ELSE Finish(t)
    /\ UNCHANGED <<role, trail>>

(* An insert that merges into an existing row, whatever its role.          *)
PostLp(t) ==
    /\ At(t, "postLp")
    /\ Write(thread[t].email, "LP")
    /\ Goto(t, "patchLp")
    /\ UNCHANGED trail

PatchLp(t) ==
    /\ At(t, "patchLp")
    /\ Write(thread[t].email, "LP")
    /\ IF thread[t].request = "invite" THEN Goto(t, "getTrail") ELSE Finish(t)
    /\ UNCHANGED trail

-----------------------------------------------------------------------------
(* Start-up of a server, while the one it replaces still serves.           *)

StartUp(t) ==
    Begin(t, "startUp", GpEmail, "getGp") /\ UNCHANGED <<role, trail>>

GetGp(t) ==
    /\ At(t, "getGp")
    /\ CASE role[GpEmail] = "ABSENT" -> Goto(t, "postGp")
         [] role[GpEmail] = "GP"     -> Finish(t)
         [] OTHER                    -> Goto(t, "patchGp")
    /\ UNCHANGED <<role, trail>>

PostGp(t) ==
    /\ At(t, "postGp")
    /\ IF role[GpEmail] = "ABSENT" THEN Write(GpEmail, "GP")
                                   ELSE UNCHANGED role
    /\ Finish(t)
    /\ UNCHANGED trail

PatchGp(t) ==
    /\ At(t, "patchGp")
    /\ Write(GpEmail, "GP")
    /\ Finish(t)
    /\ UNCHANGED trail

-----------------------------------------------------------------------------
(* The GP links his broker: of this request the audit row alone is here.   *)

LinkBroker(t) ==
    /\ role[GpEmail] # "ABSENT"
    /\ AuditRoom
    /\ Begin(t, "link", GpEmail, "getTrail")
    /\ UNCHANGED <<role, trail>>

-----------------------------------------------------------------------------
(* The audit row of a request that succeeded.                              *)

(* Seeded fault: rows are numbered from zero.                              *)
NextSeqFromZero ==
    IF trail = {} THEN 0 ELSE 1 + (CHOOSE r \in trail : \A s \in trail :
                                       s.hash.seq <= r.hash.seq).hash.seq

LastRow == CHOOSE r \in trail : \A s \in trail : s.hash.seq <= r.hash.seq
NextSeq == IF trail = {} THEN 1 ELSE LastRow.hash.seq + 1
PrevHash == IF trail = {} THEN Genesis ELSE LastRow.hash

GetTrail(t) ==
    /\ At(t, "getTrail")
    /\ thread' = [thread EXCEPT ![t].step = "postTrail",
                                ![t].seq = NextSeq, ![t].prev = PrevHash]
    /\ UNCHANGED <<role, trail>>

EventOf(request) == CASE request = "invite" -> "lp_invited"
                      [] request = "link"   -> "broker_linked"
                      [] OTHER              -> "subscribed"

AuditRow(m) ==
    [ hash |-> [seq |-> m.seq, event |-> EventOf(m.request), email |-> m.email],
      prev |-> m.prev ]

(* Seeded fault: the insert replaces the row of the same number.           *)
PostTrailReplacing(t) ==
    /\ At(t, "postTrail")
    /\ trail' = {r \in trail : r.hash.seq # thread[t].seq}
                    \cup {AuditRow(thread[t])}
    /\ Finish(t)
    /\ UNCHANGED role

(* seq is the primary key: a number taken by now makes the insert fail,    *)
(* and the handler answers as if the event had been recorded.              *)
PostTrail(t) ==
    /\ At(t, "postTrail")
    /\ trail' = IF \E r \in trail : r.hash.seq = thread[t].seq
                THEN trail ELSE trail \cup {AuditRow(thread[t])}
    /\ Finish(t)
    /\ UNCHANGED role

-----------------------------------------------------------------------------
Request(t) ==
    \/ \E e \in Emails :
          \/ SignIn(t, e) \/ Subscribe(t, e)
          \/ GiveSeat(t, "invite", e) \/ GiveSeat(t, "promote", e)
    \/ StartUp(t) \/ LinkBroker(t)

RosterCall(t) ==
    \/ GetGuest(t) \/ PostGuest(t) \/ PatchGuest(t)
    \/ GetSubscriber(t) \/ PatchSubscribed(t)
    \/ CountLps(t) \/ PostLp(t) \/ PatchLp(t)
    \/ GetGp(t) \/ PostGp(t) \/ PatchGp(t)

TrailCall(t) == GetTrail(t) \/ PostTrail(t)

Next ==
    \E t \in Threads : Request(t) \/ RosterCall(t) \/ TrailCall(t) \/ Abandon(t)

Spec == Init /\ [][Next]_vars

-----------------------------------------------------------------------------
(* Properties.                                                             *)

Rank(r) == CASE r = "ABSENT" -> 0 [] r = "GUEST" -> 1 [] r = "MEMBER" -> 2
             [] r = "LP" -> 3 [] r = "GP" -> 4

(* No call lowers a role that another thread has raised since it was read  *)
(* (upsert_guest: "Must never downgrade an existing role", set_subscribed: *)
(* "never downgrade LP/GP"); only a seat given to the GP's own address     *)
(* makes an LP of the GP.                                                  *)
RoleNeverLowered ==
    [][\A e \in Emails : \/ Rank(role[e]) <= Rank(role'[e])
                         \/ role[e] = "GP" /\ role'[e] = "LP"]_vars

(* LP seats stay within the cap (membership.py: "Hard-capped at            *)
(* MAX_LP_MEMBERS"), though the count and the write are two calls.         *)
LpCapRespected == Cardinality(Lps) <= MaxLpMembers

(* The trail verifies (verify_chain): the first row follows the genesis    *)
(* hash and each other row the hash of the row before it, although threads *)
(* compute rows from a last row they read earlier.                         *)
Precedes(s, r) ==
    /\ s.hash.seq < r.hash.seq
    /\ \A u \in trail : u.hash.seq < r.hash.seq => u.hash.seq <= s.hash.seq

ChainIntact ==
    \A r \in trail :
        \/ /\ r.prev = Genesis
           /\ \A s \in trail : r.hash.seq <= s.hash.seq
        \/ \E s \in trail : Precedes(s, r) /\ r.prev = s.hash

(* What the trail says has happened has, and still shows in the roster: an *)
(* address recorded as invited is LP (or GP), one recorded as subscribed   *)
(* is at least a MEMBER, one that linked a broker has a row (auth_app      *)
(* audits after the write it reports).                                     *)
Proven(event) == CASE event = "lp_invited"    -> {"LP", "GP"}
                   [] event = "subscribed"    -> {"MEMBER", "LP", "GP"}
                   [] event = "broker_linked" -> Roles

TrailTruthful == \A r \in trail : role[r.hash.email] \in Proven(r.hash.event)

(* The trail is unbroken and every row of it is true of the roster.        *)
TrailSound == ChainIntact /\ TrailTruthful

Store == INSTANCE MembershipStore

(* The roster changes as that of the SQLite store does: each REST call is  *)
(* one of its operations or changes no role ("Security semantics are       *)
(* shared with the SQLite store"); needs the GP's requests one at a time.  *)
ImplementsStore == Store!Spec
=============================================================================
