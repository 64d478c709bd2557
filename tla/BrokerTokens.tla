---------------------------- MODULE BrokerTokens ----------------------------
(***************************************************************************)
(* The GP's Schwab tokens: the stored link of hedge_desk/broker_link.py,   *)
(* the token manager of brokers/schwab_tokens.py, and the requests of      *)
(* auth_app.py that link, unlink and read market data, on the threads of   *)
(* the web server.  A call of the SQLite store is one step, under its      *)
(* lock; on Supabase each REST call is.  Either way a market data request  *)
(* reads the tokens, refreshes them with the broker and stores the new     *)
(* ones in steps of its own, and other requests run in between.            *)
(*                                                                         *)
(* The broker is external: a grant has one refresh token that works; a     *)
(* refresh replaces it if the grant rotates, and always issues a new       *)
(* access token.  Tokens are numbered in the order they are issued.        *)
(***************************************************************************)
EXTENDS Naturals

CONSTANTS
    BrokerThreads,   \* requests in progress at a time
    Grants,    \* consents the GP may give
    MaxAge,    \* refresh_token_max_age
    MaxClock,  \* bound: the last instant
    MaxIssued  \* bound: issues of tokens by the broker

ASSUME BrokerAssumption ==
    MaxAge \in Nat /\ MaxClock \in Nat /\ MaxIssued \in Nat

VARIABLES
    backend,   \* which store the environment chose
    clock,
    row,       \* broker_links row of the GP: the decrypted bundle
    grant,     \* the broker's side of each grant
    issued,    \* number of the last token issued
    serving,    \* what each thread is doing
    persisted, \* history: access tokens that have been in the row
    lost       \* history: refresh tokens a request gave up before storing them

external == <<grant, issued>>
history == <<persisted, lost>>
brokerVars == <<backend, clock, row, external, serving, history>>

(* A bundle in a revision or an envelope of earlier code is "legacy"; none *)
(* of these has updated_at, and upgraded it is still "undated".            *)
Forms == {"legacy", "undated", "current"}
Token == Nat \ {0}
Bundle == [ grant : Grants, refresh : Token, access : Token,
            issuedAt : Nat, form : Forms ]
NoRow == [linked |-> FALSE]
NoBundle == [unread |-> TRUE]

ServingSteps ==
    { "idle", "postLink",                               \* link
      "getState", "patchLegacy",                        \* token_state
      "refresh", "getPersist", "patchPersist",          \* access_token
      "reread", "callApi" }

Serving == [ step : ServingSteps, bundle : Bundle \cup {NoBundle},
            forced : BOOLEAN,  \* the broker has refused an access token
            now : Nat ]
NotServing ==
    [step |-> "idle", bundle |-> NoBundle, forced |-> FALSE, now |-> 0]

BrokerTypeOK ==
    /\ backend \in {"sqlite", "supabase"}
    /\ clock \in Nat
    /\ row \in Bundle \cup {NoRow}
    /\ grant \in [Grants -> [live : Nat, rotates : BOOLEAN]]
    /\ issued \in Nat
    /\ serving \in [BrokerThreads -> Serving]
    /\ \A t \in BrokerThreads :
          serving[t].step \notin {"idle", "getState"}
             => serving[t].bundle \in Bundle
    /\ persisted \subseteq Token /\ lost \subseteq Token

Ungranted == [live |-> 0, rotates |-> FALSE]

(* There is no link, or one left by earlier code, whose refresh token is   *)
(* never used again.                                                       *)
BrokerInit ==
    /\ backend \in {"sqlite", "supabase"}
    /\ clock = 0
    /\ serving = [t \in BrokerThreads |-> NotServing]
    /\ lost = {}
    /\ \/ /\ row = NoRow
          /\ grant = [g \in Grants |-> Ungranted]
          /\ issued = 0 /\ persisted = {}
       \/ \E g \in Grants :
             /\ row = [ grant |-> g, refresh |-> 1, access |-> 1,
                        issuedAt |-> 0, form |-> "legacy" ]
             /\ grant = [[x \in Grants |-> Ungranted] EXCEPT ![g].live = 1]
             /\ issued = 1 /\ persisted = {1}

-----------------------------------------------------------------------------
(* Plumbing.                                                               *)

Reached(t, step) == serving[t].step = step
Becomes(t, m) == serving' = [serving EXCEPT ![t] = m]
Proceed(t, step) == Becomes(t, [serving[t] EXCEPT !.step = step])
Answer(t) == Becomes(t, NotServing)

StoreTokens(b) == row' = b /\ persisted' = persisted \cup {b.access}

PassTime ==
    /\ clock < MaxClock
    /\ clock' = clock + 1
    /\ UNCHANGED <<backend, row, external, serving, history>>

(* A call fails, or the server stops: the request ends here.               *)
GiveUp(t) ==
    /\ ~Reached(t, "idle")
    /\ Answer(t)
    /\ lost' = IF serving[t].step \in {"getPersist", "patchPersist"}
               THEN lost \cup {serving[t].bundle.refresh} ELSE lost
    /\ UNCHANGED <<backend, clock, row, external, persisted>>

-----------------------------------------------------------------------------
(* Link and unlink.                                                        *)

(* complete_broker_link: the broker exchanges the code of a new consent.   *)
ExchangeCode(t, g) ==
    /\ Reached(t, "idle")
    /\ grant[g] = Ungranted
    /\ issued < MaxIssued
    /\ issued' = issued + 1
    /\ \E rotates \in BOOLEAN :
          grant' = [grant EXCEPT
             ![g] = [live |-> issued + 1, rotates |-> rotates]]
    /\ Becomes(t, [NotServing EXCEPT
          !.step = "postLink",
          !.bundle = [ grant |-> g, refresh |-> issued + 1,
                       access |-> issued + 1, issuedAt |-> clock,
                       form |-> "current" ]])
    /\ UNCHANGED <<backend, clock, row, history>>

(* An upsert of the whole row.                                             *)
PostLink(t) ==
    /\ Reached(t, "postLink")
    /\ StoreTokens(serving[t].bundle)
    /\ Answer(t)
    /\ UNCHANGED <<backend, clock, external, lost>>

Unlink ==
    /\ row # NoRow
    /\ row' = NoRow
    /\ UNCHANGED <<backend, clock, external, serving, history>>

-----------------------------------------------------------------------------
(* A market data request: schwab_access, the API call, and once more with  *)
(* a forced refresh if the broker refuses the access token.                *)

StartRequest(t) ==
    /\ Reached(t, "idle")
    /\ Becomes(t, [NotServing EXCEPT !.step = "getState"])
    /\ UNCHANGED <<backend, clock, row, external, history>>

Upgraded(b) == [b EXCEPT !.form = "undated"]

(* A legacy bundle is written back upgraded; without updated_at it is of   *)
(* no use to this request or any later one.                                *)
ReadLegacy(t) ==
    /\ Reached(t, "getState")
    /\ row # NoRow /\ row.form = "legacy"
    /\ IF backend = "sqlite"
       THEN /\ row' = Upgraded(row)
            /\ Answer(t)
       ELSE /\ Becomes(t, [serving[t] EXCEPT !.step = "patchLegacy",
                                            !.bundle = Upgraded(row)])
            /\ UNCHANGED row
    /\ UNCHANGED <<backend, clock, external, history>>

PatchLegacy(t) ==
    /\ Reached(t, "patchLegacy")
    /\ IF row = NoRow THEN UNCHANGED <<row, persisted>>
                      ELSE StoreTokens(serving[t].bundle)
    /\ Answer(t)
    /\ UNCHANGED <<backend, clock, external, lost>>

(* No link, or a bundle that asks for reauthentication.                    *)
ReadUnusable(t) ==
    /\ Reached(t, "getState")
    /\ row # NoRow => row.form = "undated"
    /\ Answer(t)
    /\ UNCHANGED <<backend, clock, row, external, history>>

TooOld(b) == b.issuedAt + MaxAge <= clock

(* access_token: the access token is good for a while yet, or needs a      *)
(* refresh, which a refresh token older than seven days is not used for.   *)
ReadUsable(t) ==
    /\ Reached(t, "getState")
    /\ row # NoRow /\ row.form = "current"
    /\ LET m == [serving[t] EXCEPT !.bundle = row, !.now = clock] IN
       \/ ~serving[t].forced /\ Becomes(t, [m EXCEPT !.step = "reread"])
       \/ ~TooOld(row) /\ Becomes(t, [m EXCEPT !.step = "refresh"])
       \/ TooOld(row) /\ Answer(t)
    /\ UNCHANGED <<backend, clock, row, external, history>>

(* Seeded faults: a rotated refresh token is dropped; one that was not     *)
(* rotated is dated anew; an answer without one is stored as it is.        *)
RefreshedDroppingRotation(b, rotates, n, now) == [b EXCEPT !.access = n]

RefreshedDatedAnew(b, rotates, n, now) ==
    [b EXCEPT !.access = n, !.issuedAt = now,
              !.refresh = IF rotates THEN n ELSE @]

RefreshedWithoutFallback(b, rotates, n, now) ==
    [b EXCEPT !.access = n, !.refresh = IF rotates THEN n ELSE 0,
              !.issuedAt = IF rotates THEN now ELSE @]

Refreshed(b, rotates, n, now) ==
    [b EXCEPT !.access = n, !.refresh = IF rotates THEN n ELSE @,
              !.issuedAt = IF rotates THEN now ELSE @]

(* The broker accepts the refresh token that is live.                      *)
Refresh(t) ==
    LET b == serving[t].bundle
        g == grant[b.grant]
        n == issued + 1
    IN
    /\ Reached(t, "refresh")
    /\ b.refresh = g.live
    /\ issued < MaxIssued
    /\ issued' = n
    /\ grant' = [grant EXCEPT ![b.grant].live = IF g.rotates THEN n ELSE @]
    /\ Becomes(t, [serving[t] EXCEPT
          !.step = "getPersist",
          !.bundle = Refreshed(b, g.rotates, n, serving[t].now)])
    /\ UNCHANGED <<backend, clock, row, history>>

(* It refuses any other one; throttling and outages end the request too.   *)
RefreshRefused(t) ==
    /\ Reached(t, "refresh")
    /\ Answer(t)
    /\ UNCHANGED <<backend, clock, row, external, history>>

(* Seeded fault: a link that is gone is not noticed.                       *)
GetPersistUnlinked(t) ==
    /\ Reached(t, "getPersist")
    /\ IF backend = "sqlite" /\ row # NoRow
       THEN StoreTokens(serving[t].bundle) /\ Proceed(t, "reread")
       ELSE Proceed(t, "patchPersist") /\ UNCHANGED <<row, persisted>>
    /\ UNCHANGED <<backend, clock, external, lost>>

(* persist_schwab_tokens looks for the link and then updates it.           *)
GetPersist(t) ==
    LET b == serving[t].bundle IN
    /\ Reached(t, "getPersist")
    /\ \/ /\ row = NoRow
          /\ Answer(t)
          /\ lost' = lost \cup {b.refresh}
          /\ UNCHANGED <<row, persisted>>
       \/ /\ row # NoRow
          /\ IF backend = "sqlite"
             THEN StoreTokens(b) /\ Proceed(t, "reread")
             ELSE Proceed(t, "patchPersist") /\ UNCHANGED <<row, persisted>>
          /\ UNCHANGED lost
    /\ UNCHANGED <<backend, clock, external>>

(* Seeded fault: the update inserts a row that is not there.               *)
PatchPersistUpserting(t) ==
    /\ Reached(t, "patchPersist")
    /\ StoreTokens(serving[t].bundle)
    /\ Proceed(t, "reread")
    /\ UNCHANGED <<backend, clock, external, lost>>

(* A patch of no row succeeds.                                             *)
PatchPersist(t) ==
    LET b == serving[t].bundle IN
    /\ Reached(t, "patchPersist")
    /\ IF row = NoRow
       THEN lost' = lost \cup {b.refresh} /\ UNCHANGED <<row, persisted>>
       ELSE StoreTokens(b) /\ UNCHANGED lost
    /\ Proceed(t, "reread")
    /\ UNCHANGED <<backend, clock, external>>

(* The bundle is read once more; the token resolved before is used.        *)
Reread(t) ==
    /\ Reached(t, "reread")
    /\ IF row = NoRow THEN Answer(t) ELSE Proceed(t, "callApi")
    /\ UNCHANGED <<backend, clock, row, external, history>>

CallApi(t) ==
    /\ Reached(t, "callApi")
    /\ \/ Answer(t)
       \/ /\ ~serving[t].forced
          /\ Becomes(t, [NotServing EXCEPT !.step = "getState", !.forced = TRUE])
    /\ UNCHANGED <<backend, clock, row, external, history>>

-----------------------------------------------------------------------------
MarketData(t) ==
    \/ StartRequest(t) \/ ReadLegacy(t) \/ PatchLegacy(t) \/ ReadUnusable(t)
    \/ ReadUsable(t) \/ Refresh(t) \/ RefreshRefused(t)
    \/ GetPersist(t) \/ PatchPersist(t) \/ Reread(t) \/ CallApi(t)

BrokerNext ==
    \/ PassTime \/ Unlink
    \/ \E t \in BrokerThreads :
          \/ \E g \in Grants : ExchangeCode(t, g)
          \/ PostLink(t) \/ MarketData(t) \/ GiveUp(t)

BrokerSpec == BrokerInit /\ [][BrokerNext]_brokerVars

-----------------------------------------------------------------------------
(* Properties.                                                             *)

(* The refresh token that works for the stored grant is the stored one, or *)
(* on its way to the store, or was given up by a request that failed:      *)
(* requests that refresh the same token at once do not lose it to each     *)
(* other (access_token, persist_schwab_tokens).                            *)
LiveTokenKept ==
    row # NoRow =>
        LET live == grant[row.grant].live IN
        \/ row.refresh = live
        \/ live \in lost
        \/ \E t \in BrokerThreads :
              /\ serving[t].step \in {"getPersist", "patchPersist"}
              /\ serving[t].bundle.refresh = live

(* An access token is used for an API call after it has been stored        *)
(* (schwab_tokens.py: "It will not ... make an API call before the         *)
(* refreshed state has been persisted").                                   *)
UsedTokenPersisted ==
    \A t \in BrokerThreads :
        Reached(t, "callApi") => serving[t].bundle.access \in persisted

(* The same of the SQLite store, whose update fails when the link has been *)
(* removed since the tokens were read.                                     *)
LockedUsesPersisted == backend = "sqlite" => UsedTokenPersisted

(* A link that was removed stays removed until the GP links again: no      *)
(* request that was refreshing brings it back (unlink).                    *)
UnlinkKept ==
    [][row = NoRow /\ row' # NoRow
          => \E t \in BrokerThreads : Reached(t, "postLink") /\ row' = serving[t].bundle]_brokerVars

(* A refresh token is never dated anew: while the stored one is the same,  *)
(* so is its date of issue, which the seven days are counted from          *)
(* (refresh_issued_at).                                                    *)
AgeNotRenewed ==
    [][(row # NoRow /\ row' # NoRow /\ row'.refresh = row.refresh)
          => row'.issuedAt = row.issuedAt]_brokerVars
=============================================================================
