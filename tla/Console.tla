------------------------------- MODULE Console -------------------------------
(***************************************************************************)
(* The signed-in requests of hedge_desk/auth_app.py: who may see what.     *)
(* A visit runs on a thread of its own and takes one step per store call;  *)
(* it looks up its session first, decides on the member's row where the    *)
(* route asks for it, and answers on what it has read, while other visits  *)
(* sign out, subscribe, link and unlink.  The operator's consent to link   *)
(* the broker spends a state of its own and a code of the broker.  How     *)
(* long anything lasts does not matter here: a guest's time, a session and *)
(* a state may run out at any moment.                                      *)
(***************************************************************************)
EXTENDS Naturals, Sequences

CONSTANTS
    People,      \* addresses
    Gp,          \* gp_addr, the configured GP_EMAIL
    Nobody,      \* no address
    Visits,      \* threads of the server
    Tokens,      \* bound: sessions at a time
    MaxConsents  \* bound: states issued by /api/broker/authorize

ASSUME ConsoleAssumption == Gp \in People /\ Nobody \notin People /\ MaxConsents \in Nat

VARIABLES
    role,      \* members: the role of each address, "LAPSED" once a guest's
               \* time is over, "NONE" without a row
    session,   \* sessions: who a token stands for, Nobody without a live row
    consents,  \* otps of purpose broker_state: whose, and open, lapsed or used
    redeemed,  \* external: authorization codes the broker has exchanged
    linked,    \* broker_links: who has a row
    visit,     \* what each thread is doing
    unearned,  \* history: an answer went to someone not entitled to it
    links      \* history: the links stored, by whom and on which consent

consoleVars == <<role, session, consents, redeemed, linked, visit, unearned, links>>

Free == [at |-> "free", who |-> Nobody, token |-> Nobody, consent |-> 0, good |-> FALSE]

\* ensure_gp may fail, which is only reported
ConsoleInit ==
    /\ \E ensured \in {"GP", "NONE"} :
          role = [p \in People |-> IF p = Gp THEN ensured ELSE "NONE"]
    /\ session = [t \in Tokens |-> Nobody]
    /\ consents = <<>>
    /\ redeemed = {}
    /\ linked = {}
    /\ visit = [v \in Visits |-> Free]
    /\ unearned = FALSE
    /\ links = <<>>

-----------------------------------------------------------------------------
(* The policy.                                                             *)
TierOf(r) == CASE r \in {"LP", "GP"} -> "full"
               [] r = "MEMBER" -> "real"
               [] OTHER -> "synthetic"

Allowed(r) == r \in {"GUEST", "MEMBER", "LP", "GP"}

\* _role_for: the configured GP is the GP whatever the row says
RoleFor(p) == IF p = Gp THEN "GP" ELSE role[p]

(* Seeded fault: any signed-in role will do.                               *)
EntitledByTier(p) == Allowed(role[p])

Entitled(p) == Allowed(role[p]) /\ TierOf(RoleFor(p)) \in {"real", "full"}

OperatorOnly(p) == p = Gp
AnyMember(p) == Entitled(p)   \* a seeded fault: the docstring's "member/LP only"

(* What an answer may be given to, by the promises of tier_access.py and   *)
(* of the comments of the routes.                                          *)
Earned(what, p) ==
    CASE what \in {"roster", "consent", "linked", "market data", "invited"} -> p = Gp
      [] what \in {"real data", "real", "full", "own link"} -> p = Gp \/ role[p] \in {"MEMBER", "LP"}
      [] OTHER -> TRUE

-----------------------------------------------------------------------------
Answer(v, what) ==
    /\ visit' = [visit EXCEPT ![v] = Free]
    /\ unearned' = (unearned \/ ~Earned(what, visit[v].who))
Step(v, stage) ==
    /\ visit' = [visit EXCEPT ![v].at = stage]
    /\ UNCHANGED unearned

Routes == {"tier", "real", "roster", "invite", "subscribe", "logout", "unlink",
           "status", "market", "authorize", "callback"}

(* dispatch: the session is looked up before the route; without one every  *)
(* route but logout refuses, or tells what is public.                      *)
Arrive(v, route, t) ==
    /\ visit[v] = Free
    /\ route = "logout" \/ session[t] # Nobody
    /\ \E c \in IF route = "callback" THEN DOMAIN consents ELSE {0} :
          visit' = [visit EXCEPT ![v] =
              [Free EXCEPT !.at = route, !.who = session[t], !.consent = c,
                           !.token = IF route = "logout" THEN t ELSE Nobody]]
    /\ UNCHANGED <<role, session, consents, redeemed, linked, unearned, links>>

\* /api/auth/me and /api/tier tell the tier of anyone, also of a lapsed guest
TellTier(v) ==
    /\ visit[v].at = "tier"
    /\ Answer(v, TierOf(RoleFor(visit[v].who)))
    /\ UNCHANGED <<role, session, consents, redeemed, linked, links>>

\* /api/data/real
TellRealData(v) ==
    /\ visit[v].at = "real"
    /\ Answer(v, IF Entitled(visit[v].who) THEN "real data" ELSE "forbidden")
    /\ UNCHANGED <<role, session, consents, redeemed, linked, links>>

\* /api/auth/cap, /api/auth/members and /api/auth/audit
TellRoster(v) ==
    /\ visit[v].at = "roster"
    /\ Answer(v, IF OperatorOnly(visit[v].who) THEN "roster" ELSE "forbidden")
    /\ UNCHANGED <<role, session, consents, redeemed, linked, links>>

\* /api/auth/invite: the seat is given whatever the address was before
Invite(v, p) ==
    /\ visit[v].at = "invite"
    /\ IF OperatorOnly(visit[v].who)
       THEN role' = [role EXCEPT ![p] = "LP"] /\ Answer(v, "invited")
       ELSE UNCHANGED role /\ Answer(v, "forbidden")
    /\ UNCHANGED <<session, consents, redeemed, linked, links>>

\* /api/auth/subscribe: only a guest's role changes
Subscribe(v) ==
    /\ visit[v].at = "subscribe"
    /\ role' = [role EXCEPT ![visit[v].who] =
                   IF @ \in {"NONE", "GUEST", "LAPSED"} THEN "MEMBER" ELSE @]
    /\ Answer(v, "subscribed")
    /\ UNCHANGED <<session, consents, redeemed, linked, links>>

\* /api/auth/logout
DeleteSession(v) ==
    /\ visit[v].at = "logout"
    /\ session' = [session EXCEPT ![visit[v].token] = Nobody]
    /\ Answer(v, "logged out")
    /\ UNCHANGED <<role, consents, redeemed, linked, links>>

-----------------------------------------------------------------------------
(* /api/auth/social: the verified address becomes or stays a member, and   *)
(* gets a session when it has access.                                      *)
ArriveVerified(v, p) ==
    /\ visit[v] = Free
    /\ visit' = [visit EXCEPT ![v] = [Free EXCEPT !.at = "social", !.who = p]]
    /\ UNCHANGED <<role, session, consents, redeemed, linked, unearned, links>>

\* upsert_guest: a guest's time begins anew, any other role is kept
Upsert(v) ==
    /\ visit[v].at = "social"
    /\ role' = [role EXCEPT ![visit[v].who] = IF @ \in {"NONE", "LAPSED"} THEN "GUEST" ELSE @]
    /\ Step(v, "upserted")
    /\ UNCHANGED <<session, consents, redeemed, linked, links>>

Admit(v) ==
    /\ visit[v].at = "upserted"
    /\ IF Allowed(role[visit[v].who]) THEN Step(v, "admitted") ELSE Answer(v, "forbidden")
    /\ UNCHANGED <<role, session, consents, redeemed, linked, links>>

CreateSession(v, t) ==
    /\ visit[v].at = "admitted"
    /\ session[t] = Nobody
    /\ \A w \in Visits : visit[w].token # t
    /\ session' = [session EXCEPT ![t] = visit[v].who]
    /\ Answer(v, "session")
    /\ UNCHANGED <<role, consents, redeemed, linked, links>>

-----------------------------------------------------------------------------
(* The broker.  Its routes read the row too, and decide by the address.    *)
MayLink(p) == OperatorOnly(p)

\* /api/broker/authorize
AskConsent(v) ==
    /\ visit[v].at = "authorize"
    /\ IF MayLink(visit[v].who)
       THEN /\ Len(consents) < MaxConsents
            /\ consents' = Append(consents, [who |-> visit[v].who, state |-> "open"])
            /\ Answer(v, "consent")
       ELSE UNCHANGED consents /\ Answer(v, "forbidden")
    /\ UNCHANGED <<role, session, redeemed, linked, links>>

\* verify_otp looks among the caller's own unused and unexpired states
Spendable(c, p) == consents[c] = [who |-> p, state |-> "open"]
SpendableLapsed(c, p) == consents[c].who = p /\ consents[c].state # "used"   \* a seeded fault

\* /api/broker/callback and /api/broker/link: the GET of verify_otp; the
\* SQLite store takes the next step with it
VerifyState(v) ==
    /\ visit[v].at = "callback"
    /\ IF MayLink(visit[v].who) /\ Spendable(visit[v].consent, visit[v].who)
       THEN /\ visit' = [visit EXCEPT ![v].at = "verified",
                                      ![v].good = consents[visit[v].consent].state = "open"]
            /\ UNCHANGED unearned
       ELSE Answer(v, "refused")
    /\ UNCHANGED <<role, session, consents, redeemed, linked, links>>

\* the PATCH, which may fail and the request with it
SpendState(v) ==
    /\ visit[v].at = "verified"
    /\ \/ /\ consents' = [consents EXCEPT ![visit[v].consent].state = "used"]
          /\ Step(v, "exchanging")
       \/ UNCHANGED consents /\ Answer(v, "error")
    /\ UNCHANGED <<role, session, redeemed, linked, links>>

\* the answer to an exchange may be lost, or incomplete
TakeGrant(v) == Step(v, "linking") \/ Answer(v, "error")

\* exchange_code: the broker gives one grant for a code
ExchangeCode(v) ==
    /\ visit[v].at = "exchanging"
    /\ \/ /\ visit[v].consent \notin redeemed
          /\ redeemed' = redeemed \cup {visit[v].consent}
          /\ TakeGrant(v)
       \/ UNCHANGED redeemed /\ Answer(v, "error")
    /\ UNCHANGED <<role, session, consents, linked, links>>

\* the store's link, which may fail
Link(v) ==
    /\ visit[v].at = "linking"
    /\ \/ /\ linked' = linked \cup {visit[v].who}
          /\ links' = Append(links, [who |-> visit[v].who, consent |-> visit[v].consent,
                                     good |-> visit[v].good])
          /\ Answer(v, "linked")
       \/ UNCHANGED <<linked, links>> /\ Answer(v, "error")
    /\ UNCHANGED <<role, session, consents, redeemed>>

\* /api/broker/unlink: anyone signed in, their own row
Unlink(v) ==
    /\ visit[v].at = "unlink"
    /\ linked' = linked \ {visit[v].who}
    /\ Answer(v, "unlinked")
    /\ UNCHANGED <<role, session, consents, redeemed, links>>

\* /api/broker/status: a member is told of the own link, others of none
DecideStatus(v) ==
    /\ visit[v].at = "status"
    /\ IF Entitled(visit[v].who) THEN Step(v, "looking") ELSE Answer(v, "configuration")
    /\ UNCHANGED <<role, session, consents, redeemed, linked, links>>

TellLink(v) ==
    /\ visit[v].at = "looking"
    /\ Answer(v, IF visit[v].who \in linked THEN "own link" ELSE "configuration")
    /\ UNCHANGED <<role, session, consents, redeemed, linked, links>>

\* the market data routes: the row, the caller's own link, and its tokens
DecideMarket(v) ==
    /\ visit[v].at = "market"
    /\ IF Entitled(visit[v].who) THEN Step(v, "checking") ELSE Answer(v, "forbidden")
    /\ UNCHANGED <<role, session, consents, redeemed, linked, links>>

CheckLink(v) ==
    /\ visit[v].at = "checking"
    /\ IF visit[v].who \in linked THEN Step(v, "reading") ELSE Answer(v, "no broker linked")
    /\ UNCHANGED <<role, session, consents, redeemed, linked, links>>

ReadMarket(v) ==
    /\ visit[v].at = "reading"
    /\ \/ visit[v].who \in linked /\ Answer(v, "market data")
       \/ Answer(v, "error")
    /\ UNCHANGED <<role, session, consents, redeemed, linked, links>>

-----------------------------------------------------------------------------
(* Time.                                                                   *)
Lapse ==
    /\ \/ /\ \E p \in People : role[p] = "GUEST" /\ role' = [role EXCEPT ![p] = "LAPSED"]
          /\ UNCHANGED <<session, consents>>
       \/ /\ \E t \in Tokens : session[t] # Nobody /\ session' = [session EXCEPT ![t] = Nobody]
          /\ UNCHANGED <<role, consents>>
       \/ /\ \E c \in DOMAIN consents : /\ consents[c].state = "open"
                                        /\ consents' = [consents EXCEPT ![c].state = "lapsed"]
          /\ UNCHANGED <<role, session>>
    /\ UNCHANGED <<redeemed, linked, visit, unearned, links>>

ConsoleNext ==
    \/ Lapse
    \/ \E v \in Visits :
          \/ \E t \in Tokens : CreateSession(v, t) \/ \E route \in Routes : Arrive(v, route, t)
          \/ \E p \in People : ArriveVerified(v, p) \/ Invite(v, p)
          \/ TellTier(v) \/ TellRealData(v) \/ TellRoster(v) \/ Subscribe(v) \/ DeleteSession(v)
          \/ Upsert(v) \/ Admit(v)
          \/ AskConsent(v) \/ VerifyState(v) \/ SpendState(v) \/ ExchangeCode(v) \/ Link(v)
          \/ Unlink(v) \/ DecideStatus(v) \/ TellLink(v) \/ DecideMarket(v) \/ CheckLink(v) \/ ReadMarket(v)

ConsoleSpec == ConsoleInit /\ [][ConsoleNext]_consoleVars

-----------------------------------------------------------------------------
(* Every link to the broker is the operator's, on a consent of its own     *)
(* that was good when it was looked at, although two callbacks may carry   *)
(* one state and the Supabase store spends it in a call of its own.        *)
LinksConsented ==
    /\ \A i \in DOMAIN links : links[i].who = Gp /\ links[i].good
    /\ \A i, j \in DOMAIN links : links[i].consent = links[j].consent => i = j

(* Whatever the other visits do between a visit's decision and its answer, *)
(* real data goes to members only, and the broker's data, the roster and   *)
(* the consents to the operator only, of whom no route of the market data  *)
(* asks more than to be a member with a link.                              *)
AnswersEarned == ~unearned

ConsoleSound == LinksConsented /\ AnswersEarned
=============================================================================
