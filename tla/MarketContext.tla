---------------------------- MODULE MarketContext ----------------------------
(***************************************************************************)
(* The market context shown by the console                                 *)
(* (hedge_desk/market_context_service.py) and the one row that keeps it    *)
(* across restarts (market_context_storage.py).  Requests are answered     *)
(* from memory; a stale answer starts a refresh in the background, which   *)
(* reads the row once per process, asks the providers, upserts the row and *)
(* then replaces the snapshot.  Every step between two uses of the lock is *)
(* an action.                                                              *)
(***************************************************************************)
EXTENDS Naturals, FiniteSets

CONSTANTS
    Refreshers,      \* threads that may be started
    RefreshSeconds,  \* _REFRESH_SECONDS
    MaxContextTime,  \* bound: instants
    MaxRestarts      \* bound: restarts of the process

ASSUME ContextAssumption == /\ RefreshSeconds \in Nat \ {0}
                            /\ MaxContextTime \in Nat
                            /\ MaxRestarts \in Nat

VARIABLES
    clock,         \* time
    snapshot,      \* _snapshot: none, blocked, or when it was generated
    builtAt,       \* _built_at
    refreshing,    \* _refreshing
    storeChecked,  \* _store_checked
    stored,        \* external: the row "latest"; NoSnapshot if there is none
    refresher,     \* what each thread is doing, and the context it has built
    restarts,      \* restarts so far
    stranded       \* history: a thread could not be started in this process

contextVars ==
    <<clock, snapshot, builtAt, refreshing, storeChecked, stored, refresher,
      restarts, stranded>>

(* A context is the time it was generated at.  No snapshot and the BLOCKED *)
(* one are numbers below every time, so that the later of two is the       *)
(* better one.                                                             *)
NoSnapshot == 0
Blocked == 1
Context == Nat \ {NoSnapshot, Blocked}
Idle == [at |-> "idle", fresh |-> NoSnapshot]

ContextInit ==
    /\ clock = Blocked + 1
    /\ snapshot = NoSnapshot
    /\ builtAt = 0
    /\ refreshing = FALSE
    /\ storeChecked = FALSE
    /\ stored = NoSnapshot
    /\ refresher = [t \in Refreshers |-> Idle]
    /\ restarts = 0
    /\ stranded = FALSE

Stale == snapshot = NoSnapshot \/ clock - builtAt >= RefreshSeconds

\* get_market_context_snapshot that starts a refresh; the flag is set before
\* the thread is started, and starting it may fail.
Get(t) ==
    /\ Stale
    /\ ~refreshing
    /\ refresher[t] = Idle
    /\ refreshing' = TRUE
    /\ \/ /\ refresher' = [refresher EXCEPT ![t].at = "started"]
          /\ UNCHANGED stranded
       \/ /\ stranded' = TRUE
          /\ UNCHANGED refresher
    /\ UNCHANGED <<clock, snapshot, builtAt, storeChecked, stored, restarts>>

(* _refresh, from one use of the lock to the next.                         *)
CheckStore(t) ==
    /\ refresher[t].at = "started"
    /\ refresher' = [refresher EXCEPT ![t].at = IF storeChecked THEN "building" ELSE "loading"]
    /\ storeChecked' = TRUE
    /\ UNCHANGED <<clock, snapshot, builtAt, refreshing, stored, restarts, stranded>>

\* load_latest_market_context answers the row, or nothing when it fails.
Load(t) ==
    /\ refresher[t].at = "loading"
    /\ refresher' = [refresher EXCEPT ![t].at = "building"]
    /\ \/ /\ stored # NoSnapshot
          /\ snapshot = NoSnapshot
          /\ snapshot' = stored
          /\ builtAt' = clock
       \/ UNCHANGED <<snapshot, builtAt>>
    /\ UNCHANGED <<clock, refreshing, storeChecked, stored, restarts, stranded>>

BuildContext(t) ==
    /\ refresher[t].at = "building"
    /\ refresher' = [refresher EXCEPT ![t] = [at |-> "built", fresh |-> clock]]
    /\ UNCHANGED <<clock, snapshot, builtAt, refreshing, storeChecked, stored, restarts, stranded>>

\* persist_latest_market_context never raises: the row is written or not, and
\* the snapshot is published either way.
Persist(t) ==
    /\ refresher[t].at = "built"
    /\ refresher' = [refresher EXCEPT ![t].at = "persisted"]
    /\ stored' \in {stored, refresher[t].fresh}
    /\ UNCHANGED <<clock, snapshot, builtAt, refreshing, storeChecked, restarts, stranded>>

Publish(t) ==
    /\ refresher[t].at = "persisted"
    /\ refresher' = [refresher EXCEPT ![t].at = "ending"]
    /\ snapshot' = refresher[t].fresh
    /\ builtAt' = clock
    /\ UNCHANGED <<clock, refreshing, storeChecked, stored, restarts, stranded>>

(* Seeded fault: a failure shows BLOCKED whatever was shown before.        *)
FailOverwriting(t) ==
    /\ refresher[t].at = "building"
    /\ refresher' = [refresher EXCEPT ![t].at = "ending"]
    /\ snapshot' = Blocked /\ builtAt' = clock
    /\ UNCHANGED <<clock, refreshing, storeChecked, stored, restarts, stranded>>

\* The except branch: build_market_context raised.
Fail(t) ==
    /\ refresher[t].at = "building"
    /\ refresher' = [refresher EXCEPT ![t].at = "ending"]
    /\ IF snapshot = NoSnapshot
         THEN snapshot' = Blocked /\ builtAt' = clock
         ELSE UNCHANGED <<snapshot, builtAt>>
    /\ UNCHANGED <<clock, refreshing, storeChecked, stored, restarts, stranded>>

(* Seeded fault: the flag is cleared by a refresh that succeeded only.     *)
EndAfterSuccess(t) ==
    /\ refresher[t].at = "ending"
    /\ refresher' = [refresher EXCEPT ![t] = Idle]
    /\ refreshing' = (snapshot = Blocked)
    /\ UNCHANGED <<clock, snapshot, builtAt, storeChecked, stored, restarts, stranded>>

End(t) ==
    /\ refresher[t].at = "ending"
    /\ refresher' = [refresher EXCEPT ![t] = Idle]
    /\ refreshing' = FALSE
    /\ UNCHANGED <<clock, snapshot, builtAt, storeChecked, stored, restarts, stranded>>

ContextTick ==
    /\ clock < MaxContextTime
    /\ clock' = clock + 1
    /\ UNCHANGED <<snapshot, builtAt, refreshing, storeChecked, stored, refresher, restarts, stranded>>

\* The process ends, its daemon threads with it, and starts again.
ContextRestart ==
    /\ restarts < MaxRestarts
    /\ restarts' = restarts + 1
    /\ snapshot' = NoSnapshot
    /\ builtAt' = 0
    /\ refreshing' = FALSE
    /\ storeChecked' = FALSE
    /\ refresher' = [t \in Refreshers |-> Idle]
    /\ stranded' = FALSE
    /\ UNCHANGED <<clock, stored>>

RefreshStep(t) ==
    \/ CheckStore(t) \/ Load(t) \/ BuildContext(t) \/ Persist(t) \/ Publish(t)
    \/ Fail(t) \/ End(t)

ContextNext ==
    \/ \E t \in Refreshers : Get(t) \/ RefreshStep(t)
    \/ ContextTick
    \/ ContextRestart

ContextSpec == ContextInit /\ [][ContextNext]_contextVars

-----------------------------------------------------------------------------
ContextTypeOK ==
    /\ clock \in Context
    /\ snapshot \in {NoSnapshot, Blocked} \cup Context
    /\ builtAt \in Nat
    /\ {refreshing, storeChecked, stranded} \subseteq BOOLEAN
    /\ stored \in {NoSnapshot} \cup Context
    /\ refresher \in
         [Refreshers -> [at : {"idle", "started", "loading", "building", "built", "persisted", "ending"},
                         fresh : {NoSnapshot} \cup Context]]
    /\ restarts \in 0..MaxRestarts

Busy == {t \in Refreshers : refresher[t] # Idle}

\* The service "refreshes at most once at a time": one thread refreshes, and
\* _refreshing is set exactly while it does, so that a refresh that ended in
\* any way lets the next one start.  Only a thread that could not be started
\* leaves the flag set, until the process ends.
SingleFlight ==
    /\ Cardinality(Busy) <= 1
    /\ refreshing <=> (Busy # {} \/ stranded)

\* "Never replace a last-good snapshot with an exception or synthetic data":
\* while the process lives, what the console serves only moves forward, from
\* nothing or BLOCKED to a context and from a context to a later one.
SnapshotNeverWorse == [][restarts' = restarts => snapshot' >= snapshot]_contextVars
=============================================================================
