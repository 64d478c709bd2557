------------------------------ MODULE MCSignIn ------------------------------
(* The limits with which TLC runs the sign-in.                             *)
EXTENDS SignIn

MCLimit == [l \in Limiters |-> IF l = "request_per_ip" THEN 2 ELSE 1]
=============================================================================
