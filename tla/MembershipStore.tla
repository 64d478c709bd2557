--------------------------- MODULE MembershipStore ---------------------------
(***************************************************************************)
(* The membership roster as hedge_desk/membership.py keeps it: one SQLite  *)
(* connection under one lock, so that every operation is a single step.    *)
(* It is what the Supabase store of SupabaseRoster is held against.        *)
(*                                                                         *)
(* Of a row only the role is kept.  guest_expires_at is read of GUEST rows *)
(* alone and set whenever one is made; the other columns decide nothing.   *)
(***************************************************************************)
EXTENDS Naturals, FiniteSets

CONSTANTS
    Emails,       \* addresses, in lower case
    GpEmail,      \* the GP's address (GP_EMAIL)
    MaxLpMembers  \* MAX_LP_MEMBERS

VARIABLE role  \* role of each address, ABSENT if it has no row

Roles == {"GUEST", "MEMBER", "LP", "GP"}
RoleOrAbsent == {"ABSENT"} \cup Roles

Init == role = [e \in Emails |-> "ABSENT"]

Lps == {e \in Emails : role[e] = "LP"}

(* A sign-in makes a guest of a stranger and leaves a member as he is.     *)
UpsertGuest(e) ==
    /\ role[e] = "ABSENT"
    /\ role' = [role EXCEPT ![e] = "GUEST"]

(* A guest subscribes; an LP or a GP who does stays an LP or a GP.         *)
SetSubscribed(e) ==
    /\ role[e] = "GUEST"
    /\ role' = [role EXCEPT ![e] = "MEMBER"]

(* promote_to_lp and issue_lp_invite: a seat is given below the cap only.  *)
SeatLp(e) ==
    /\ Cardinality(Lps) < MaxLpMembers
    /\ role' = [role EXCEPT ![e] = "LP"]

EnsureGp == role' = [role EXCEPT ![GpEmail] = "GP"]

Next ==
    \/ \E e \in Emails : UpsertGuest(e) \/ SetSubscribed(e) \/ SeatLp(e)
    \/ EnsureGp

Spec == Init /\ [][Next]_role
=============================================================================
