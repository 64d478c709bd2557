-------------------------- MODULE PaperRefinement --------------------------
(***************************************************************************)
(* The files and processes of PaperLifecycle implement PaperPosition when  *)
(* commands run one at a time: the position of a plan is what the last     *)
(* complete text of the state file says of it.                             *)
(***************************************************************************)
EXTENDS PaperLifecycle

Approved == {d.hash : d \in {x \in decisions : x.verdict = "APPROVED"}}

Position ==
    [p \in PlanIds |-> [status |-> state[p].status, hash |-> state[p].hash]]

Abstract == INSTANCE PaperPosition WITH
    approved <- Approved,
    willed <- {c.plan : c \in closings},
    position <- Position,
    IdOf <- [h \in PlanHashes |-> Terms[h].id]

(* Every step of the runner's files is a step of the promise, or none.     *)
ImplementsPosition == Abstract!Spec
=============================================================================
