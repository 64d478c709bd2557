--------------------------- MODULE PaperPosition ---------------------------
(***************************************************************************)
(* What the paper lifecycle promises of a position, without files or       *)
(* processes: a human approves plans; the runner tracks an approved plan,  *)
(* may open it, and never does more; only a human closes an open position, *)
(* once and for good.  A tick advances any number of positions at once.    *)
(***************************************************************************)
CONSTANTS PlanIds, PlanHashes, None,
          IdOf  \* [PlanHashes -> PlanIds]

VARIABLES
    approved, \* plans a human has approved
    willed,   \* positions a human has decided to close
    position  \* [PlanIds -> [status, hash]]

Untracked == [status |-> "ABSENT", hash |-> None]
At(status, h) == [status |-> status, hash |-> h]

Init ==
    /\ approved = {} /\ willed = {}
    /\ position = [p \in PlanIds |-> Untracked]

Approve(h) ==
    /\ approved' = approved \cup {h}
    /\ UNCHANGED <<willed, position>>

(* A human may decide to close an open position, and nothing else.         *)
Will(p) ==
    /\ position[p].status = "OPEN"
    /\ willed' = willed \cup {p}
    /\ UNCHANGED <<approved, position>>

(* What a tick may make of one position.                                   *)
Advances(p, old, new) ==
    \/ new = old
    \/ \E h \in approved :
          /\ IdOf[h] = p
          /\ \/ old = Untracked /\ new \in {At("PENDING_OPEN", h), At("OPEN", h)}
             \/ old = At("PENDING_OPEN", h) /\ new = At("OPEN", h)

Tick ==
    /\ \A p \in PlanIds : Advances(p, position[p], position'[p])
    /\ position' \in [PlanIds -> [status : {"ABSENT", "PENDING_OPEN", "OPEN", "CLOSED"},
                                  hash : PlanHashes \cup {None}]]
    /\ UNCHANGED <<approved, willed>>

Close(p) ==
    /\ p \in willed
    /\ position[p].status = "OPEN"
    /\ position' = [position EXCEPT ![p].status = "CLOSED"]
    /\ UNCHANGED <<approved, willed>>

Next ==
    \/ \E h \in PlanHashes : Approve(h)
    \/ Tick
    \/ \E p \in PlanIds : Will(p) \/ Close(p)

vars == <<approved, willed, position>>
Spec == Init /\ [][Next]_vars
=============================================================================
