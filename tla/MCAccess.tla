------------------------------ MODULE MCAccess ------------------------------
(* Who may do what (Access) and how the schema under it is upgraded        *)
(* (Migrations), checked in one run: a behaviour belongs to one of the two *)
(* models, and the other one stays where it starts.                        *)
EXTENDS Access, Migrations, TLC

CONSTANTS a, b, st, n, xa, xs, xn, t1, t2, t3

MCIdOrder == <<a, b, st, n, xa, xs, xn, t1, t2, t3>>
MCSeedSessions == (xa :> a) @@ (xs :> st)
MCSeedTokens == (t1 :> b)
MCManifests == {{a}}
MCCeilings == {{"ORDINARY"}, {"ORDINARY", "ROTATE_TOKEN"}}
\* The third event of a behaviour keeps to the requests that need two before it.
ThirdEvent == events < 3 \/ \A r \in Requests : req[r].kind \in {"idle", "LOGIN", "DELETE_STAFF", "DISABLE_STAFF", "ORDINARY"}
Interchangeable == Permutations(Requests)

VARIABLE model  \* which of the two models moves

MCNewest == [old |-> 80, new |-> 81]
MCManifestOf == [old |-> "v1", new |-> "v2"]

MCInit ==
    /\ Init
    /\ UpgradeInit
    /\ model \in {"access", "upgrade"}
    /\ model = "access" => objects = {}

MCNext ==
    \/ model = "access" /\ Next /\ ThirdEvent' /\ UNCHANGED <<upgradeVars, model>>
    \/ model = "upgrade" /\ UpgradeNext /\ UNCHANGED <<vars, model>>

MCSpec == MCInit /\ [][MCNext]_<<vars, upgradeVars, model>>
=============================================================================
