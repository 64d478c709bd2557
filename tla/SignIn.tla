-------------------------------- MODULE SignIn --------------------------------
(***************************************************************************)
(* Sign-in by a mailed code: the handlers of hedge_desk/auth_app.py, the   *)
(* limiters they ask first, and the codes, guests and sessions of either   *)
(* membership store.  A handler runs on a thread of its own, one step per  *)
(* store call; the SQLite store does a call in one step, the Supabase one  *)
(* verifies a code with a GET and a PATCH.  The same codes, under another  *)
(* purpose, are the state of the GP's broker consent.                      *)
(***************************************************************************)
EXTENDS RateLimiter

CONSTANTS
    Emails,      \* addresses that sign in
    Operator,    \* the GP's address (gp_email)
    ClientIps,   \* client addresses
    NoEmail,     \* no address
    Handlers,    \* threads of the server
    OtpTtl,      \* OTP_TTL_SECONDS
    GuestTtl,    \* GUEST_ACCESS_DAYS
    Newest,      \* LIMIT of verify_otp: codes examined
    MaxDelay,    \* longest time a handler takes
    MaxNow,      \* bound: instants
    MaxCodes     \* bound: codes issued

(* The windows of the code: 5 requests and 10 verifications in 900 s, 5    *)
(* codes examined, codes of 600 s, guests of 31 days.                      *)
ASSUME SignInAssumption ==
    /\ Emails \subseteq Addresses /\ ClientIps \subseteq Addresses /\ Operator \in Emails
    /\ {OtpTtl, GuestTtl, MaxDelay, MaxNow, MaxCodes} \subseteq Nat /\ OtpTtl > 0
    /\ Newest \in Nat /\ Limit["request_per_email"] <= Newest
    /\ OtpTtl + MaxDelay < Window
    /\ OtpTtl + 2 * MaxDelay <= GuestTtl

VARIABLES
    locked,    \* the store is the SQLite one
    codes,     \* rows of otps, in the order of their insertion
    guest,     \* guest_expires_at of each address, Absent without a row
    handler,   \* what each thread is doing
    restarted, \* history: the process was restarted
    spent,     \* history: how often each code was accepted
    late       \* history: a code was accepted by a call that began after
               \* another call had accepted it and returned

signInVars ==
    <<now, events, grants, locked, codes, guest, handler, restarted, spent, late>>

Absent == 0
FreeHandler == [at |-> "free", since |-> 0, email |-> NoEmail, code |-> 0, after |-> FALSE]
Purposes == {"signin", "broker_state"}

SignInInit ==
    /\ LimiterInit
    /\ locked \in BOOLEAN
    /\ codes = <<>>
    /\ guest = [e \in Emails |-> Absent]
    /\ handler = [h \in Handlers |-> FreeHandler]
    /\ restarted = FALSE
    /\ spent = <<>>
    /\ late = FALSE

NewCode(email, purpose) == [email |-> email, purpose |-> purpose, at |-> now, used |-> FALSE]

Goto(h, stage) == handler' = [handler EXCEPT ![h].at = stage]
Finish(h) == handler' = [handler EXCEPT ![h] = FreeHandler]

-----------------------------------------------------------------------------
(* POST /api/auth/request                                                  *)
RequestCode(h, email, ip) ==
    /\ handler[h] = FreeHandler
    /\ \/ /\ AllowRequest(email, ip)
          /\ handler' = [handler EXCEPT ![h] =
                [FreeHandler EXCEPT !.at = "requesting", !.since = now, !.email = email]]
       \/ /\ RefuseRequest(email, ip)
          /\ UNCHANGED handler
    /\ UNCHANGED <<now, locked, codes, guest, restarted, spent, late>>

\* upsert_guest, which also sets the expiry of a member, where it is not read
UpsertGuest(h) ==
    /\ handler[h].at = "requesting"
    /\ guest' = [guest EXCEPT ![handler[h].email] = now + GuestTtl]
    /\ Goto(h, "upserted")
    /\ UNCHANGED <<now, events, grants, locked, codes, restarted, spent, late>>

\* issue_otp; the mail may fail, and the code is as good as one that arrives
IssueOtp(h) ==
    /\ handler[h].at = "upserted"
    /\ Len(codes) < MaxCodes
    /\ codes' = Append(codes, NewCode(handler[h].email, "signin"))
    /\ spent' = Append(spent, 0)
    /\ Finish(h)
    /\ UNCHANGED <<now, events, grants, locked, guest, restarted, late>>

(* GET /api/broker/authorize                                               *)
Authorize ==
    /\ Len(codes) < MaxCodes
    /\ guest[Operator] # Absent
    /\ codes' = Append(codes, NewCode(Operator, "broker_state"))
    /\ spent' = Append(spent, 0)
    /\ UNCHANGED <<now, events, grants, locked, guest, handler, restarted, late>>

-----------------------------------------------------------------------------
(* POST /api/auth/verify, and the state of complete_broker_link.           *)
StartVerify(h, i) ==
    /\ handler[h] = FreeHandler
    /\ IF codes[i].purpose = "signin" THEN AllowVerify(codes[i].email)
                                      ELSE UNCHANGED <<events, grants>>
    /\ handler' = [handler EXCEPT ![h] =
          [FreeHandler EXCEPT !.at = "verifying", !.since = now, !.email = codes[i].email,
                       !.code = i, !.after = spent[i] > 0]]
    /\ UNCHANGED <<now, locked, codes, guest, restarted, spent, late>>

\* A verification with a code that is no row, or one too many.
VerifyInVain(email) ==
    /\ AllowVerify(email) \/ RefuseVerify(email)
    /\ UNCHANGED <<now, locked, codes, guest, handler, restarted, spent, late>>

(* Seeded fault: codes of every purpose are examined.                      *)
UnusedAny(email, purpose) ==
    {j \in DOMAIN codes : codes[j].email = email /\ ~codes[j].used}

Unused(email, purpose) ==
    {j \in DOMAIN codes :
        codes[j].email = email /\ codes[j].purpose = purpose /\ ~codes[j].used}

Unexpired(i) == codes[i].at + OtpTtl >= now

(* verify_otp of the SQLite store looks at the newest rows only, those of  *)
(* one instant in any order; the Supabase store looks at all of them.      *)
Rivals(i) == Unused(codes[i].email, codes[i].purpose) \ {i}
Examinable(i) ==
    locked => Cardinality({j \in Rivals(i) : codes[j].at > codes[i].at}) < Newest
SurelyExamined(i) ==
    locked => Cardinality({j \in Rivals(i) : codes[j].at >= codes[i].at}) < Newest

(* Seeded fault: rows already used are examined too.                       *)
FoundUsed(i) == Unexpired(i) /\ Examinable(i)

Found(i) == ~codes[i].used /\ Unexpired(i) /\ Examinable(i)

\* What follows an accepted code: a session, or the exchange of the consent.
AcceptCode(h) ==
    IF codes[handler[h].code].purpose = "signin" THEN Goto(h, "accepted") ELSE Finish(h)

Spend(h) ==
    LET i == handler[h].code
    IN /\ codes' = [codes EXCEPT ![i].used = TRUE]
       /\ spent' = [spent EXCEPT ![i] = @ + 1]
       /\ late' = (late \/ handler[h].after)
       /\ AcceptCode(h)

VerifyLocked(h) ==
    /\ handler[h].at = "verifying"
    /\ locked
    /\ Found(handler[h].code)
    /\ Spend(h)
    /\ UNCHANGED <<now, events, grants, locked, guest, restarted>>

SelectOtp(h) ==
    /\ handler[h].at = "verifying"
    /\ ~locked
    /\ Found(handler[h].code)
    /\ Goto(h, "matched")
    /\ UNCHANGED <<now, events, grants, locked, codes, guest, restarted, spent, late>>

PatchOtp(h) ==
    /\ handler[h].at = "matched"
    /\ Spend(h)
    /\ UNCHANGED <<now, events, grants, locked, guest, restarted>>

RefuseCode(h) ==
    /\ handler[h].at = "verifying"
    /\ \/ codes[handler[h].code].used
       \/ ~Unexpired(handler[h].code)
       \/ ~SurelyExamined(handler[h].code)
    /\ Finish(h)
    /\ UNCHANGED <<now, events, grants, locked, codes, guest, restarted, spent, late>>

\* access_for a guest; every other role is let in for good
AccessAllowed(email) == guest[email] # Absent /\ guest[email] >= now

\* access_for and create_session, or the refusal of an expired guest
OpenSession(h) ==
    /\ handler[h].at = "accepted"
    /\ Finish(h)
    /\ UNCHANGED <<now, events, grants, locked, codes, guest, restarted, spent, late>>

-----------------------------------------------------------------------------
\* A request is answered within MaxDelay.
SignInTick ==
    /\ now < MaxNow
    /\ \A h \in Handlers : handler[h] # FreeHandler => now < handler[h].since + MaxDelay
    /\ now' = now + 1
    /\ UNCHANGED <<events, grants, locked, codes, guest, handler, restarted, spent, late>>

SignInRestart ==
    /\ ~restarted
    /\ restarted' = TRUE
    /\ ForgetCalls
    /\ handler' = [h \in Handlers |-> FreeHandler]
    /\ UNCHANGED <<now, locked, codes, guest, spent, late>>

SignInNext ==
    \/ \E h \in Handlers :
          \/ \E e \in Emails, ip \in ClientIps : RequestCode(h, e, ip)
          \/ UpsertGuest(h) \/ IssueOtp(h)
          \/ \E i \in DOMAIN codes : StartVerify(h, i)
          \/ VerifyLocked(h) \/ SelectOtp(h) \/ PatchOtp(h) \/ RefuseCode(h)
          \/ OpenSession(h)
    \/ \E e \in Emails : VerifyInVain(e)
    \/ Authorize
    \/ SignInTick
    \/ SignInRestart

SignInSpec == SignInInit /\ [][SignInNext]_signInVars

-----------------------------------------------------------------------------
SignInTypeOK ==
    /\ LimiterTypeOK
    /\ locked \in BOOLEAN
    /\ codes \in Seq([email : Emails, purpose : Purposes, at : Nat, used : BOOLEAN])
    /\ guest \in [Emails -> Nat]
    /\ handler \in
         [Handlers -> [at : {"free", "requesting", "upserted", "verifying", "matched", "accepted"},
                       since : Nat, email : Emails \cup {NoEmail}, code : 0..Len(codes), after : BOOLEAN]]
    /\ {restarted, late} \subseteq BOOLEAN
    /\ spent \in [DOMAIN codes -> Nat]

\* On the SQLite store a code signs in, or confirms a consent, once, however
\* the threads that verify it overlap (verify_otp holds the store's lock over
\* the look at the row and its mark).
CodeSpentOnce == locked => \A i \in DOMAIN spent : spent[i] <= 1

\* On either store a verification that begins when a code has been accepted
\* refuses that code (verify_otp looks at unused rows only).
SpentCodeRefused == ~late

\* Verification looks at a bounded number of codes, and a code outlives no
\* guest: while the process runs, the limit on requests keeps every code that
\* was issued and has not expired among those examined, and an accepted code
\* belongs to an address that may still come in.
CodeSignsIn ==
    /\ ~restarted =>
          \A i \in DOMAIN codes :
              codes[i].purpose = "signin" /\ ~codes[i].used /\ Unexpired(i)
                  => SurelyExamined(i)
    /\ \A h \in Handlers :
          handler[h].at = "accepted" => AccessAllowed(handler[h].email)

\* A code in the mail works, once it was used no longer, and on the SQLite
\* store only once.
CodesSound == CodeSpentOnce /\ SpentCodeRefused /\ CodeSignsIn

\* A code is accepted once (membership.py:338: "Single-use"; auth_app.py:587:
\* "single-use, expiring CSRF state").
CodeSingleUse == \A i \in DOMAIN spent : spent[i] <= 1
=============================================================================
