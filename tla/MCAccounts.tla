----------------------------- MODULE MCAccounts -----------------------------
(***************************************************************************)
(* Small instances of the two components that REST calls keep: the roster  *)
(* with its trail (the GP and two other addresses, one LP seat) and the    *)
(* broker link.  A behaviour takes the steps of one of them; the other     *)
(* stays as it was initialized.  The addresses other than the GP's behave  *)
(* alike, and so do the threads and the grants.                            *)
(***************************************************************************)
EXTENDS SupabaseRoster, BrokerTokens, TLC

CONSTANTS ann, bob

VARIABLE part

AccountsInit ==
    /\ part \in {"roster", "broker"}
    /\ Init /\ BrokerInit
    /\ part = "roster" => backend = "supabase" /\ row = NoRow

AccountsNext ==
    \/ part = "roster" /\ Next /\ UNCHANGED <<brokerVars, part>>
    \/ part = "broker" /\ BrokerNext /\ UNCHANGED <<vars, part>>

AccountsSpec == AccountsInit /\ [][AccountsNext]_<<vars, brokerVars, part>>

Alike ==
    UNION {Permutations({ann, bob}), Permutations(Threads),
           Permutations(BrokerThreads), Permutations(Grants)}
=============================================================================
