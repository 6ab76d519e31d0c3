------------------------------ MODULE MCFunds ------------------------------
(* Money, checked in one run: bills, collections and retained funds (Funds) *)
(* and the upgrade of a stay to a membership (Memberships).  A behaviour    *)
(* moves one of the two models, the other one stays where it starts.        *)
EXTENDS Funds, TLC
CONSTANTS o1, o2, b1, r1, x1, x2
MCDue == (o1 :> 0) @@ (o2 :> 1)
MCParent == (r1 :> b1)

-----------------------------------------------------------------------------
CONSTANTS Members, Phones, ListPrice, Units, Prices, MaxLodgingFacts,
          MaxPurchases, MaxPayments
VARIABLES stay, lodging, member, purchases, payments, page,
          model   \* which of the two models moves

Sale == INSTANCE Memberships WITH facts <- lodging, MaxFacts <- MaxLodgingFacts
saleVars == <<stay, lodging, member, purchases, payments, page>>

(* Either memberships of one member are sold beside a stay in a room of the *)
(* product, and nobody looks at the stay's page; or only the stay is        *)
(* upgraded, with the page open, after two money facts, or one and a        *)
(* correction of the guest.                                                 *)
Plain == stay.rooms = "matching" /\ stay.nights = 1
Corrections ==
    stay.version - (IF Sale!Converted THEN 1 ELSE 0) -
        (CASE stay.status = "RESERVED" -> 1 [] stay.status = "CHECKED_IN" -> 2 [] OTHER -> 3)
Sold ==
    /\ page = Sale!OrderPage /\ Plain /\ Corrections = 0
    /\ \E m \in Members : \A k \in DOMAIN purchases : purchases[k].member = m
    /\ lodging # <<>> =>
          /\ Len(payments) <= IF Sale!Converted THEN 3 ELSE 1
          /\ \A k \in DOMAIN purchases : purchases[k].status = "ACTIVE" \/ Len(purchases) = 1
Upgraded ==
    /\ Len(purchases) = IF Sale!Converted THEN 1 ELSE 0
    /\ Corrections <= IF Len(lodging) <= 1 THEN 1 ELSE 0
    /\ stay.status = "RESERVED" => page = Sale!OrderPage
    /\ \/ Sale!Converted \/ lodging = <<>>
       \/ Plain /\ Len(lodging) <= 2 /\ (Len(lodging) = 2 => lodging[1].method = "WECOM")

(* Funds are retained more than once from one money fact, and once from two *)
(* facts; three facts meet retained funds when two of them are its transfer. *)
FewRecords ==
    /\ Len(facts) = 2 => Len(holds) <= 1 /\ Len(entries) <= 1
    /\ Len(facts) = MaxFacts => holds = <<>> \/ \E k \in DOMAIN entries : entries[k].kind = "USE"

-----------------------------------------------------------------------------
MCInit ==
    /\ Init /\ Sale!MembersInit
    /\ model \in {"funds", "sale"}
    /\ model = "funds" => Plain /\ stay.phone = None
    /\ model = "sale" => facts = <<>>
MCNext ==
    \/ model = "funds" /\ Next /\ FewRecords' /\ UNCHANGED <<saleVars, model>>
    \/ model = "sale" /\ Sale!MembersNext /\ (Sold' \/ Upgraded') /\ UNCHANGED <<vars, model>>
MCSpec == MCInit /\ [][MCNext]_<<vars, saleVars, model>>

Symmetry == Permutations(Owners) \cup Permutations(Members) \cup Permutations(Phones)

(* The money of an upgraded stay moves into the membership as a whole.      *)
MoneyMovesWhole == Sale!MoneyMovesWhole
(* What the upgrade dialog and the orders panel send, the server accepts.   *)
FormsAreAccepted == Sale!FormsAreAccepted
=============================================================================
