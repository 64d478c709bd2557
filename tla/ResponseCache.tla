---------------------------- MODULE ResponseCache ----------------------------
(***************************************************************************)
(* The response cache of hedge_desk/server.py: _cached answers from an     *)
(* entry that has not expired, or builds the value outside the lock and    *)
(* stores it.  Requests that miss at the same time build each their own,   *)
(* and the one that ends last is the one that stays.                       *)
(***************************************************************************)
EXTENDS Naturals, FiniteSets

CONSTANTS
    Requests,      \* threads that serve one cached endpoint
    Ttl,           \* its time to live
    MaxBuild,      \* longest time a builder takes
    MaxCacheTime   \* bound: instants

ASSUME CacheAssumption == Ttl \in Nat \ {0} /\ MaxBuild \in Nat /\ MaxCacheTime \in Nat

VARIABLES
    time,    \* monotonic()
    entry,   \* the entry: when the value was read from its source, and its deadline
    request, \* for each thread, the build it is in
    served   \* history: age of the last value served, from the cache or built

cacheVars == <<time, entry, request, served>>

NoBuild == [at |-> "free", since |-> 0, value |-> 0]

(* A value is the instant the builder read its source, from 1 on.          *)
CacheInit ==
    /\ time = 1
    /\ entry = [value |-> 0, deadline |-> 0]
    /\ request = [r \in Requests |-> NoBuild]
    /\ served = 0

(* Seeded fault: an entry is used one instant past its deadline.           *)
HitAtDeadline(r) ==
    /\ request[r] = NoBuild
    /\ entry.deadline >= time
    /\ served' = time - entry.value
    /\ UNCHANGED <<time, entry, request>>

Hit(r) ==
    /\ request[r] = NoBuild
    /\ entry.deadline > time
    /\ served' = time - entry.value
    /\ UNCHANGED <<time, entry, request>>

Miss(r) ==
    /\ request[r] = NoBuild
    /\ entry.deadline <= time
    /\ request' = [request EXCEPT ![r] = [at |-> "building", since |-> time, value |-> 0]]
    /\ UNCHANGED <<time, entry, served>>

\* Some time during the build, the source is read.
ReadSource(r) ==
    /\ request[r].at = "building"
    /\ request' = [request EXCEPT ![r].at = "built", ![r].value = time]
    /\ UNCHANGED <<time, entry, served>>

StoreEntry(r) ==
    /\ request[r].at = "built"
    /\ entry' = [value |-> request[r].value, deadline |-> time + Ttl]
    /\ served' = time - request[r].value
    /\ request' = [request EXCEPT ![r] = NoBuild]
    /\ UNCHANGED time

\* The builders' calls time out: none takes longer than MaxBuild.
CacheTick ==
    /\ time < MaxCacheTime
    /\ \A r \in Requests : request[r] # NoBuild => time < request[r].since + MaxBuild
    /\ time' = time + 1
    /\ UNCHANGED <<entry, request, served>>

CacheNext ==
    \/ \E r \in Requests : Hit(r) \/ Miss(r) \/ ReadSource(r) \/ StoreEntry(r)
    \/ CacheTick

CacheSpec == CacheInit /\ [][CacheNext]_cacheVars

-----------------------------------------------------------------------------
CacheTypeOK ==
    /\ time \in Nat
    /\ entry \in [value : Nat, deadline : Nat]
    /\ request \in [Requests -> [at : {"free", "building", "built"}, since : Nat, value : Nat]]
    /\ served \in Nat

\* Building outside the lock is "harmless for these idempotent builders"
\* (server.py:175): though an older value may replace a newer one with a
\* deadline of its own, no request is answered with a value that was read from
\* its source longer ago than a time to live and one build.
ServedAgeBounded == served < Ttl + MaxBuild
=============================================================================
