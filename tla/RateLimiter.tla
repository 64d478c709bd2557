----------------------------- MODULE RateLimiter -----------------------------
(***************************************************************************)
(* The sliding-window limiters of hedge_desk/rate_limit.py that guard the  *)
(* requests for sign-in codes and their verification.  Each limiter keeps, *)
(* under a lock of its own, the times of the calls it let through, for at  *)
(* most MaxKeys keys.                                                      *)
(***************************************************************************)
EXTENDS Naturals, Sequences, FiniteSets

CONSTANTS
    Addresses,  \* email addresses and client addresses: keys of the limiters
    Limit,      \* limit of each limiter
    Window,     \* window_seconds, the same for all of them
    MaxKeys     \* max_keys

Limiters == {"request_per_ip", "request_per_email", "verify_per_email"}

ASSUME LimiterAssumption == /\ Limit \in [Limiters -> Nat \ {0}]
                            /\ Window \in Nat \ {0}
                            /\ MaxKeys \in Nat

VARIABLES
    now,     \* the clock
    events,  \* _events of each limiter: times of calls, by key
    grants   \* history: the last Limit + 1 times each key was let through

limiterVars == <<now, events, grants>>

NoEvents == [k \in {} |-> <<>>]

LimiterInit ==
    /\ now = 0
    /\ events = [l \in Limiters |-> NoEvents]
    /\ grants = [l \in Limiters |-> [k \in Addresses |-> <<>>]]

Live(t) == t + Window > now

TimesOf(map, key) == IF key \in DOMAIN map THEN map[key] ELSE <<>>
Oldest(calls) == CHOOSE i \in calls : \A j \in calls : i <= j

\* _prune: calls leave from the front until one is live
Pruned(map, key) ==
    LET times == TimesOf(map, key)
        live == {i \in DOMAIN times : Live(times[i])}
    IN IF live = {} THEN <<>> ELSE SubSeq(times, Oldest(live), Len(times))

(* Seeded fault: room is made by forgetting every key.                     *)
EvictEvery(map) == [k \in {} |-> map[k]]

\* _evict_expired
EvictExpired(map) ==
    LET kept == {k \in DOMAIN map : map[k] # <<>> /\ Live(map[k][Len(map[k])])}
    IN [k \in kept |-> map[k]]

\* The map once allow has made room for a key, if it could.
Roomy(map, key) ==
    IF key \notin DOMAIN map /\ Cardinality(DOMAIN map) >= MaxKeys
      THEN EvictExpired(map) ELSE map

HasRoom(map, key) == key \in DOMAIN map \/ Cardinality(DOMAIN map) < MaxKeys

With(map, key, times) ==
    [k \in DOMAIN map \cup {key} |-> IF k = key THEN times ELSE map[k]]

\* SlidingWindowLimiter.allow: its answer, and the map it leaves.
Allows(l, key) ==
    LET map == Roomy(events[l], key)
    IN HasRoom(map, key) /\ Len(Pruned(map, key)) < Limit[l]

AfterAllow(l, key) ==
    LET map == Roomy(events[l], key)
        times == Pruned(map, key)
    IN IF ~HasRoom(map, key) THEN map
       ELSE With(map, key, IF Len(times) < Limit[l] THEN Append(times, now) ELSE times)

LastOf(times, n) == SubSeq(times, IF Len(times) > n THEN Len(times) - n + 1 ELSE 1, Len(times))
Granted(l, key) ==
    [grants[l] EXCEPT ![key] = LastOf(Append(@, now), Limit[l] + 1)]

(* The limiters share nothing, so the two that guard a request are asked   *)
(* in one step; the second only if the first lets the request through.     *)
AllowRequest(email, ip) ==
    /\ Allows("request_per_ip", ip)
    /\ Allows("request_per_email", email)
    /\ events' = [events EXCEPT
          !["request_per_ip"] = AfterAllow("request_per_ip", ip),
          !["request_per_email"] = AfterAllow("request_per_email", email)]
    /\ grants' = [grants EXCEPT
          !["request_per_ip"] = Granted("request_per_ip", ip),
          !["request_per_email"] = Granted("request_per_email", email)]

RefuseRequest(email, ip) ==
    \/ /\ ~Allows("request_per_ip", ip)
       /\ events' = [events EXCEPT !["request_per_ip"] = AfterAllow("request_per_ip", ip)]
       /\ grants' = grants
    \/ /\ Allows("request_per_ip", ip)
       /\ ~Allows("request_per_email", email)
       /\ events' = [events EXCEPT
             !["request_per_ip"] = AfterAllow("request_per_ip", ip),
             !["request_per_email"] = AfterAllow("request_per_email", email)]
       /\ grants' = [grants EXCEPT !["request_per_ip"] = Granted("request_per_ip", ip)]

AllowVerify(email) ==
    /\ Allows("verify_per_email", email)
    /\ events' = [events EXCEPT !["verify_per_email"] = AfterAllow("verify_per_email", email)]
    /\ grants' = [grants EXCEPT !["verify_per_email"] = Granted("verify_per_email", email)]

RefuseVerify(email) ==
    /\ ~Allows("verify_per_email", email)
    /\ events' = [events EXCEPT !["verify_per_email"] = AfterAllow("verify_per_email", email)]
    /\ grants' = grants

\* The limiters live in the process: a restart forgets every call.
ForgetCalls ==
    /\ events' = [l \in Limiters |-> NoEvents]
    /\ grants' = [l \in Limiters |-> [k \in Addresses |-> <<>>]]

-----------------------------------------------------------------------------
LimiterTypeOK ==
    /\ now \in Nat
    /\ \A l \in Limiters :
          /\ DOMAIN events[l] \subseteq Addresses
          /\ \A k \in DOMAIN events[l] : events[l][k] \in Seq(Nat)
    /\ grants \in [Limiters -> [Addresses -> Seq(Nat)]]

\* "Allow at most limit events per window_seconds for a given key", and "the
\* map stays bounded": whatever was pruned, evicted or refused on the way,
\* Limit + 1 calls that a limiter let through for a key span a whole window,
\* and no limiter remembers more than MaxKeys keys.
WindowRespected ==
    \A l \in Limiters :
        /\ Cardinality(DOMAIN events[l]) <= MaxKeys
        /\ \A k \in Addresses :
              Len(grants[l][k]) > Limit[l]
                  => grants[l][k][Limit[l] + 1] - grants[l][k][1] >= Window
=============================================================================
