---------------------------- MODULE Memberships ----------------------------
(***************************************************************************)
(* The sale of memberships, and the upgrade that turns the money of one    *)
(* ordinary stay into a membership: CREATE_MEMBER, the membership order    *)
(* commands, CONVERT_STAY_COLLECTIONS_TO_MEMBERSHIP and                    *)
(* CORRECT_ORDER_OCCUPANT of commands/effects.ts and commands/apply.ts,    *)
(* beside the browser's side of it: stayMembershipUpgrade.ts, the upgrade  *)
(* dialog of OrderDetailPage.tsx and the orders panel of MembersPage.tsx.  *)
(*                                                                         *)
(* A command is one step: its Confirm locks the stay's order, or the       *)
(* member and the membership order, before it rebuilds its effect.  One    *)
(* product is sold; orders with retained or divided money, members of      *)
(* several properties, deleted members and failed reads are left out.      *)
(***************************************************************************)
EXTENDS Integers, Sequences, FiniteSets, FiniteSetsExt, SequencesExt

CONSTANTS
    Members,
    Phones,
    ListPrice,      \* list_price_minor of the product
    Units,          \* its entitlement_units
    Prices,         \* prices a clerk may agree on
    MaxAmount,      \* bound: the largest payment
    MaxFacts,       \* bound: money facts of the stay
    MaxPurchases,   \* bound: membership orders
    MaxPayments     \* bound: payment facts of membership orders

None == "none"

VARIABLES
    stay,       \* order, stay and primary occupant of one WECOM order
    facts,      \* its collection_facts
    member,     \* phone of a member, None before it is created
    purchases,  \* membership_orders
    payments,   \* membership_payment_facts
    page        \* the order page of one browser

memberVars == <<stay, facts, member, purchases, payments, page>>

Amounts == 1..MaxAmount
Ids(s) == 1..Len(s)

(* The stay as the order view shows it: rooms says whether the product fits *)
(* the rooms of the stay, could be used there for the time being, or not.   *)
Stay(status, phone, rooms, nights) ==
    [status |-> status, phone |-> phone, rooms |-> rooms, nights |-> nights,
     owner |-> 0, version |-> 1]
Fact(type, method, n, of, rev) ==
    [type |-> type, method |-> method, amount |-> n, of |-> of, rev |-> rev]
Purchase(m, status, price) == [member |-> m, status |-> status, agreed |-> price]
Payment(k, type, n, rev, source) ==
    [order |-> k, type |-> type, amount |-> n, rev |-> rev, source |-> source]

(* reading, asked: the read and the lookup in flight; opened: the view the  *)
(* editor was opened for; resume: what the page's address asks it to do.    *)
NoView == [offered |-> FALSE]
NoDraft == [facts |-> {}]
NoPage == [at |-> None, view |-> NoView, reading |-> NoView, asked |-> NoView, dialog |-> None,
           opened |-> NoView, found |-> {}, sent |-> NoDraft, resume |-> None]
OrderPage == [NoPage EXCEPT !.at = "order"]

MembersInit ==
    /\ \E phone \in Phones \cup {None}, rooms \in {"matching", "temporary", "other"},
          nights \in {1, Units + 1} :
           stay = Stay("RESERVED", phone, rooms, nights)
    /\ facts = <<>>
    /\ member = [m \in Members |-> None]
    /\ purchases = <<>> /\ payments = <<>>
    /\ page = OrderPage

-----------------------------------------------------------------------------
(* The money of the stay. *)

SumOver(S, amount(_)) == MapThenSumSet(amount, S)
Of(fs, type) == {f \in Ids(fs) : fs[f].type = type}
Reversed(fs, f) == \E g \in Ids(fs) : fs[g].rev = f
Refunded(fs, f) ==
    SumOver({g \in Of(fs, "REFUND") : fs[g].of = f /\ ~Reversed(fs, g)}, LAMBDA g : fs[g].amount)

(* net_effect_minor *)
NetEffect(fs, f) ==
    CASE fs[f].type = "COLLECTION" -> fs[f].amount
      [] fs[f].type = "REFUND" -> -fs[f].amount
      [] OTHER -> IF fs[fs[f].rev].type = "REFUND" THEN fs[f].amount ELSE -fs[f].amount
Net(fs) == SumOver(Ids(fs), LAMBDA f : NetEffect(fs, f))

(* hasStayMembershipConversion, as the two assertions on it use it.         *)
Converted == stay.owner # 0
LodgingFundsOpen == ~Converted

RecordFact(f) ==
    /\ Len(facts) < MaxFacts
    /\ facts' = Append(facts, f)
    /\ UNCHANGED <<stay, member, purchases, payments, page>>

RecordCollection(n, method) ==
    /\ LodgingFundsOpen
    /\ RecordFact(Fact("COLLECTION", method, n, 0, 0))

RecordRefund(f, n) ==
    /\ LodgingFundsOpen
    /\ f \in Of(facts, "COLLECTION") /\ ~Reversed(facts, f)
    /\ n <= facts[f].amount - Refunded(facts, f)
    /\ RecordFact(Fact("REFUND", facts[f].method, n, f, 0))

(* REVERSE_FACT: a collection with refunds in force cannot be reversed.     *)
ReverseFact(f) ==
    /\ LodgingFundsOpen
    /\ f \in Ids(facts) /\ facts[f].type # "REVERSAL" /\ ~Reversed(facts, f)
    /\ Refunded(facts, f) = 0
    /\ RecordFact(Fact("REVERSAL", "REVERSAL", facts[f].amount, 0, f))

(* CHECK_IN and CHECK_OUT, as far as the upgrade depends on them.           *)
Fulfil ==
    /\ stay.status \in {"RESERVED", "CHECKED_IN"}
    /\ stay' = [stay EXCEPT !.version = @ + 1,
                            !.status = IF @ = "RESERVED" THEN "CHECKED_IN" ELSE "CHECKED_OUT"]
    /\ UNCHANGED <<facts, member, purchases, payments, page>>

-----------------------------------------------------------------------------
(* Members and membership orders. *)

CanCreateMember(p) == \A m \in Members : member[m] # p
CreateMember(m, p) ==
    /\ member[m] = None
    /\ CanCreateMember(p)
    /\ member' = [member EXCEPT ![m] = p]
    /\ UNCHANGED <<stay, facts, purchases, payments>>

(* agreed and list price differ exactly if a reason is given                *)
PriceExplained(price, reason) == (price # ListPrice) = reason

CreateMembershipOrder(m, price, reason) ==
    /\ Len(purchases) < MaxPurchases
    /\ member[m] # None
    /\ PriceExplained(price, reason)
    /\ purchases' = Append(purchases, Purchase(m, "DRAFT", price))
    /\ UNCHANGED <<stay, facts, member, payments, page>>

(* membershipPaymentState *)
PaidFacts(k) == {f \in Ids(payments) : payments[f].order = k}
Paid(k) ==
    SumOver(PaidFacts(k),
            LAMBDA f : IF payments[f].type = "COLLECTION" THEN payments[f].amount ELSE -payments[f].amount)
LivePayments(k) ==
    {f \in PaidFacts(k) : payments[f].type = "COLLECTION" /\ ~Reversed(payments, f)}

CanPay(k) ==
    /\ purchases[k].status \in {"DRAFT", "ACTIVE"}
    /\ purchases[k].status = "ACTIVE" => Paid(k) < purchases[k].agreed
RecordMembershipPayment(k, n) ==
    /\ Len(payments) < MaxPayments
    /\ CanPay(k)
    /\ payments' = Append(payments, Payment(k, "COLLECTION", n, 0, 0))
    /\ UNCHANGED <<stay, facts, member, purchases, page>>

CanCorrect(f) ==
    /\ purchases[payments[f].order].status = "DRAFT"
    /\ payments[f].type = "COLLECTION" /\ ~Reversed(payments, f)
CorrectMembershipPayment(f, n) ==
    /\ Len(payments) + 1 < MaxPayments
    /\ CanCorrect(f)
    /\ LET k == payments[f].order
       IN  payments' = payments \o <<Payment(k, "REVERSAL", payments[f].amount, f, 0),
                                     Payment(k, "COLLECTION", n, 0, 0)>>
    /\ UNCHANGED <<stay, facts, member, purchases, page>>

CanCancel(k) == purchases[k].status = "DRAFT" /\ PaidFacts(k) = {}
CancelMembershipOrder(k) ==
    /\ CanCancel(k)
    /\ purchases' = [purchases EXCEPT ![k].status = "VOIDED"]
    /\ UNCHANGED <<stay, facts, member, payments, page>>

(* A member has at most one membership that was activated this way.         *)
NothingActive(m) == \A k \in Ids(purchases) : purchases[k].member = m => purchases[k].status # "ACTIVE"
CanActivate(k) ==
    /\ purchases[k].status = "DRAFT"
    /\ Paid(k) > 0 /\ LivePayments(k) # {}
    /\ NothingActive(purchases[k].member)
ActivateMembershipOrder(k) ==
    /\ CanActivate(k)
    /\ purchases' = [purchases EXCEPT ![k].status = "ACTIVE"]
    /\ UNCHANGED <<stay, facts, member, payments, page>>

-----------------------------------------------------------------------------
(* CONVERT_STAY_COLLECTIONS_TO_MEMBERSHIP.  A draft names the member, the   *)
(* collections, the price, whether it gives a reason for the price and for  *)
(* the room, and the reference of the remaining payment: None, "new" or the *)
(* one of a collection of the stay.                                         *)

Drafts(choices) ==
    [member : Members, facts : choices, price : Prices, reason : BOOLEAN,
     room : BOOLEAN, ref : {None, "new", "old"}]

(* The fund graph: collections and refunds by WECOM only, no refund above   *)
(* its collection, and the residue of every collection.                     *)
FundGraphSound ==
    /\ \A f \in Ids(facts) : facts[f].type \in {"COLLECTION", "REFUND"} /\ facts[f].method = "WECOM"
    /\ \A f \in Of(facts, "REFUND") : facts[f].of \in Of(facts, "COLLECTION")
    /\ \A f \in Of(facts, "COLLECTION") : Refunded(facts, f) <= facts[f].amount
Residue(f) == facts[f].amount - Refunded(facts, f)
Residues == {f \in Of(facts, "COLLECTION") : Residue(f) > 0}

(* The product must fit every night, or be used in another room for the     *)
(* time being, with a reason, while the guest is in house.                  *)
RoomAccepted(reason) ==
    \/ stay.rooms = "matching" /\ ~reason
    \/ stay.rooms = "temporary" /\ stay.status = "CHECKED_IN" /\ reason

MemberIsTheGuest(m) == stay.phone # None /\ member[m] = stay.phone

TransferAccepted(d) ==
    LET total == SumOver(Residues, Residue)
    IN  /\ FundGraphSound
        /\ d.facts = Residues
        /\ total = Net(facts)
        /\ d.price >= total
        /\ (d.price > total) = (d.ref # None)
        /\ d.ref # "old"

ConversionAccepted(d) ==
    /\ ~Converted
    /\ stay.status \in {"CHECKED_IN", "CHECKED_OUT"}
    /\ MemberIsTheGuest(d.member)
    /\ d.price > 0 /\ PriceExplained(d.price, d.reason)
    /\ stay.nights <= Units
    /\ RoomAccepted(d.room)
    /\ TransferAccepted(d)

(* What each collection moves: a payment of the new membership order and a  *)
(* reversal in the stay, of its residue.                                    *)
MovedInFull(f) == facts[f].amount
Moved(f) == Residue(f)
Convert(d) ==
    LET k == Len(purchases) + 1
        sources == SetToSeq(d.facts)
        rest == d.price - SumOver(Residues, Residue)
    IN  /\ ConversionAccepted(d)
        /\ purchases' = Append(purchases, Purchase(d.member, "ACTIVE", d.price))
        /\ payments' = payments
              \o [i \in Ids(sources) |-> Payment(k, "COLLECTION", Moved(sources[i]), 0, sources[i])]
              \o (IF rest > 0 THEN <<Payment(k, "COLLECTION", rest, 0, 0)>> ELSE <<>>)
        /\ facts' = facts
              \o [i \in Ids(sources) |-> Fact("REVERSAL", "REVERSAL", Moved(sources[i]), 0, sources[i])]
        /\ stay' = [stay EXCEPT !.owner = k, !.version = @ + 1]

(* CORRECT_ORDER_OCCUPANT, of the phone: the caller names the prior one.    *)
CanCorrectOccupant(prior, p) == prior = stay.phone /\ p # prior
CorrectOccupant(prior, p) ==
    /\ CanCorrectOccupant(prior, p)
    /\ stay' = [stay EXCEPT !.phone = p, !.version = @ + 1]

-----------------------------------------------------------------------------
(* The order page.  Its view is what one read returned, with the server's   *)
(* word whether the upgrade is on offer (projectOrderAllowedActions).       *)

CanTransfer ==
    /\ ~Converted
    /\ \A f \in Ids(facts) : facts[f].type \in {"COLLECTION", "REFUND"} /\ facts[f].method = "WECOM"
    /\ \A f \in Of(facts, "REFUND") : facts[f].of \in Of(facts, "COLLECTION")
    /\ \A f \in Of(facts, "COLLECTION") : Refunded(facts, f) <= facts[f].amount
UpgradeOffered == stay.status \in {"CHECKED_IN", "CHECKED_OUT"} /\ ~Converted /\ CanTransfer

View == [stay |-> stay, facts |-> facts, offered |-> UpgradeOffered]

(* A lookup compares phones; a product that does not fit ends it at once.   *)
ProductFits(v) ==
    \/ v.stay.rooms = "matching"
    \/ v.stay.rooms = "temporary" /\ v.stay.status = "CHECKED_IN"
Entry(v, found) ==
    CASE ~v.offered \/ ~ProductFits(v) -> "UNAVAILABLE"
      [] v.stay.phone = None -> "CORRECT_PRIMARY_OCCUPANT"
      [] Cardinality(found) > 1 -> "UNAVAILABLE"
      [] found = {} -> "CREATE_MEMBER"
      [] OTHER -> "READY"

(* beginStayMembershipUpgrade up to its await.  Without a phone there is    *)
(* nothing to look up.                                                      *)
Begin(pg, v) ==
    IF v.stay.phone # None THEN [pg EXCEPT !.asked = v, !.resume = None]
    ELSE IF Entry(v, {}) = "CORRECT_PRIMARY_OCCUPANT"
    THEN [pg EXCEPT !.asked = NoView, !.resume = None, !.dialog = "correct", !.opened = v]
    ELSE [pg EXCEPT !.asked = NoView, !.resume = None]

Closed(pg) == [pg EXCEPT !.dialog = None, !.opened = NoView, !.found = {}]

(* onValue of the poller: an older version is dropped, a changed view       *)
(* closes the open editor.  A page that comes back from the creation of a   *)
(* member goes on by itself.                                                *)
Refreshed(pg, v) ==
    IF pg.view # NoView /\ v.stay.version < pg.view.stay.version THEN pg
    ELSE IF pg.view # v THEN [Closed(pg) EXCEPT !.view = v] ELSE pg
GoOn(pg) ==
    CASE pg.resume = "upgrade" /\ pg.view.offered -> Begin(pg, pg.view)
      [] pg.resume = "correct" -> [pg EXCEPT !.resume = None, !.dialog = "correct", !.opened = pg.view]
      [] OTHER -> pg

BeginRead ==
    /\ page.at = "order" /\ page.reading = NoView
    /\ page.view # View
    /\ page' = [page EXCEPT !.reading = View]
    /\ UNCHANGED <<stay, facts, member, purchases, payments>>
EndRead ==
    /\ page.at = "order" /\ page.reading # NoView
    /\ page' = GoOn(Refreshed([page EXCEPT !.reading = NoView], page.reading))
    /\ UNCHANGED <<stay, facts, member, purchases, payments>>

BeginUpgrade ==
    /\ page.at = "order" /\ page.sent = NoDraft /\ page.dialog = None
    /\ page.view # NoView /\ page.view.offered
    /\ page' = Begin(page, page.view)
    /\ UNCHANGED <<stay, facts, member, purchases, payments>>

(* The answer of the lookup is used with the view the lookup began with.    *)
LookedUp ==
    /\ page.at = "order" /\ page.asked # NoView
    /\ LET v == page.asked
           found == {m \in Members : member[m] = v.stay.phone}
           entry == Entry(v, found)
       IN  page' = CASE entry = "READY" ->
                          [page EXCEPT !.asked = NoView, !.dialog = "convert", !.opened = v, !.found = found]
                     [] entry = "CREATE_MEMBER" -> [NoPage EXCEPT !.at = "members", !.asked = v]
                     [] OTHER -> [page EXCEPT !.asked = NoView]
    /\ UNCHANGED <<stay, facts, member, purchases, payments>>

LookupFails ==
    /\ page.at = "order" /\ page.asked # NoView
    /\ page' = [page EXCEPT !.asked = NoView]
    /\ UNCHANGED <<stay, facts, member, purchases, payments>>

(* The form that creates the member has the guest's phone and leads back to *)
(* the order: to the upgrade, or to the guest's details.                    *)
CreateMemberHere(m) ==
    /\ page.at = "members"
    /\ CreateMember(m, page.asked.stay.phone)
    /\ page' = [OrderPage EXCEPT !.resume = "upgrade"]
CorrectSource ==
    /\ page.at = "members"
    /\ page' = [OrderPage EXCEPT !.resume = "correct"]
    /\ UNCHANGED <<stay, facts, member, purchases, payments>>

CloseEditor ==
    /\ page.dialog # None
    /\ page' = Closed(page)
    /\ UNCHANGED <<stay, facts, member, purchases, payments>>

(* stayConversionFundsState and submit of StayCollectionConversionDialog.   *)
AllCollections(v) == Of(v.facts, "COLLECTION")
Transferable(v) ==
    {f \in Of(v.facts, "COLLECTION") : v.facts[f].amount > Refunded(v.facts, f)}
TransferTotal(v) ==
    SumOver(Transferable(v), LAMBDA f : v.facts[f].amount - Refunded(v.facts, f))
FundsAllow(v) ==
    /\ \A f \in Ids(v.facts) :
           /\ v.facts[f].type \in {"COLLECTION", "REFUND"} /\ v.facts[f].method = "WECOM"
           /\ v.facts[f].type = "REFUND" => v.facts[f].of \in Of(v.facts, "COLLECTION")
    /\ \A f \in Of(v.facts, "COLLECTION") : Refunded(v.facts, f) <= v.facts[f].amount
    /\ TransferTotal(v) = Net(v.facts)
FormAllows(v, found, d) ==
    /\ v.stay.phone # None /\ ProductFits(v) /\ FundsAllow(v)
    /\ d.member \in {m \in found : member[m] = v.stay.phone}
    /\ d.room = (v.stay.rooms = "temporary")
    /\ d.price > 0 /\ d.price >= TransferTotal(v) /\ d.reason = (d.price # ListPrice)
    /\ (d.ref # None) = (d.price > TransferTotal(v))
    /\ d.ref # "old"
    /\ d.facts = Transferable(v)

Submit(d) ==
    /\ page.dialog = "convert" /\ page.sent = NoDraft /\ page.view.offered
    /\ FormAllows(page.view, page.found, d)
    /\ page' = [Closed(page) EXCEPT !.sent = d]
    /\ UNCHANGED <<stay, facts, member, purchases, payments>>

(* The command goes through and the page reads the order again, or the      *)
(* server refuses it.                                                       *)
ConvertSent ==
    /\ page.sent # NoDraft
    /\ IF ConversionAccepted(page.sent)
       THEN Convert(page.sent) /\ page' = [page EXCEPT !.sent = NoDraft, !.view = View']
       ELSE page' = [page EXCEPT !.sent = NoDraft] /\ UNCHANGED <<stay, facts, purchases, payments>>
    /\ UNCHANGED member

(* The phone is filled in and the upgrade goes on with the corrected view.  *)
CorrectHere(p) ==
    /\ page.dialog = "correct" /\ page.sent = NoDraft
    /\ CorrectOccupant(page.view.stay.phone, p)
    /\ UNCHANGED <<facts, member, purchases, payments>>
    /\ page' = Begin([Closed(page) EXCEPT !.view = View'], View')

(* Another browser corrects the phone or upgrades the stay.                 *)
CorrectElsewhere(p) ==
    /\ CorrectOccupant(stay.phone, p)
    /\ UNCHANGED <<facts, member, purchases, payments, page>>
ConvertElsewhere(d) == Convert(d) /\ UNCHANGED <<member, page>>

MembersNext ==
    \/ \E n \in Amounts, method \in {"WECOM", "CASH"} : RecordCollection(n, method)
    \/ \E f \in Ids(facts), n \in Amounts : RecordRefund(f, n)
    \/ \E f \in Ids(facts) : ReverseFact(f)
    \/ Fulfil
    \/ \E m \in Members, p \in Phones : CreateMember(m, p) /\ UNCHANGED page
    \/ \E m \in Members : CreateMemberHere(m)
    \/ \E m \in Members, price \in Prices, reason \in BOOLEAN : CreateMembershipOrder(m, price, reason)
    \/ \E k \in Ids(purchases), n \in Amounts : RecordMembershipPayment(k, n)
    \/ \E f \in Ids(payments), n \in Amounts : CorrectMembershipPayment(f, n)
    \/ \E k \in Ids(purchases) : CancelMembershipOrder(k) \/ ActivateMembershipOrder(k)
    \/ BeginRead \/ EndRead \/ BeginUpgrade \/ LookedUp \/ LookupFails \/ CorrectSource \/ CloseEditor
    \/ page.view # NoView /\ \E d \in Drafts({Transferable(page.view)}) : Submit(d)
    \/ ConvertSent
    \/ \E d \in Drafts(SUBSET Ids(facts)) : ConvertElsewhere(d)
    \/ \E p \in Phones : CorrectHere(p)
    \/ \E p \in Phones \cup {None} : CorrectElsewhere(p)

MembersSpec == MembersInit /\ [][MembersNext]_memberVars

-----------------------------------------------------------------------------
(* The orders panel of the members page, on a current view.                 *)

PanelOffersPayment(k) == purchases[k].status # "VOIDED" /\ Paid(k) < purchases[k].agreed
PanelOffersCorrection(f) ==
    LET k == payments[f].order IN purchases[k].status = "DRAFT" /\ f \in LivePayments(k)
PanelOffersCancellation(k) == purchases[k].status = "DRAFT" /\ PaidFacts(k) = {}

(* The upgrade moves the whole money of the stay and nothing else: the stay *)
(* ends at zero and stays there whatever is tried later, its reversals and  *)
(* the payments they became have the same total, and a membership in force  *)
(* has been paid for, a cancelled one never.                                *)
MoneyMovesWhole ==
    /\ Converted =>
          /\ Net(facts) = 0
          /\ \A f \in Ids(payments) : payments[f].source # 0 =>
                /\ payments[f].order = stay.owner
                /\ payments[f].amount = facts[payments[f].source].amount - Refunded(facts, payments[f].source)
          /\ SumOver(Of(facts, "COLLECTION"), LAMBDA f : facts[f].amount - Refunded(facts, f))
               = SumOver({f \in Ids(payments) : payments[f].source # 0}, LAMBDA f : payments[f].amount)
          /\ Paid(stay.owner) >= purchases[stay.owner].agreed
    /\ \A k \in Ids(purchases) :
          /\ purchases[k].status = "ACTIVE" => Paid(k) > 0 /\ LivePayments(k) # {}
          /\ purchases[k].status = "VOIDED" => PaidFacts(k) = {}

(* What the browser lets a clerk send, the server accepts.  An upgrade      *)
(* dialog that was opened on the view it shows, while that view is current  *)
(* and the product has nights enough, only sends drafts the Confirm takes;  *)
(* so do the buttons for payments, corrections and cancellations.           *)
FormsAreAccepted ==
    /\ /\ page.dialog = "convert" /\ page.opened = page.view /\ page.view = View
       /\ stay.nights <= Units
       => \A d \in Drafts({Transferable(page.view)}) : FormAllows(page.view, page.found, d) => ConversionAccepted(d)
    /\ \A k \in Ids(purchases) :
          /\ PanelOffersPayment(k) => CanPay(k)
          /\ PanelOffersCancellation(k) => CanCancel(k)
    /\ \A f \in Ids(payments) : PanelOffersCorrection(f) => CanCorrect(f)
=============================================================================
