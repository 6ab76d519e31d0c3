------------------------------ MODULE Booking ------------------------------
(***************************************************************************)
(* The price of a stay, from the price list to the order.  A manager       *)
(* publishes rates for a room type from a day on (packages/db/src/         *)
(* room-catalog.ts); every publication writes a pricing policy for every   *)
(* day on which the list changes, and moves the head of that day to it.    *)
(* The page (InventoryPage.tsx) chooses a policy among those it was loaded *)
(* with, asks for a quote as the form changes, one request at a time, and  *)
(* turns the quote on the screen into an order; the server prices quotes   *)
(* and orders (pricing.ts, pricing-service.ts, effects.ts).  Later changes *)
(* of the stay are priced with the policy the order was booked with.       *)
(*                                                                         *)
(* Amounts are in fen.  A quote runs in a REPEATABLE READ transaction      *)
(* whose snapshot is older than its catalog lock (service.ts 1477-1480),   *)
(* so it may see a list that has been replaced when it commits; a Confirm  *)
(* reads under its lock and is one step.                                   *)
(*                                                                         *)
(* Left out: free stays, backfilled stays and the occupation of rooms      *)
(* (RoomInventory); several tabs and reloads with an open request          *)
(* (WebRecovery); member nights beyond one lot (Coverage).                 *)
(***************************************************************************)
EXTENDS Integers, Sequences, FiniteSets, FiniteSetsExt

CONSTANTS
    Types, Units,
    TypeOf,         \* the type of a unit
    Factor,         \* how many times the type's rate the unit's product costs
    Kind,           \* "ROOM" or "BED"
    Rate,           \* the four anchors of each rate, by the rate's name
    Baselines,      \* the policies before the catalog was managed, by first day
    NewRates,       \* the rates that may be published for a type
    FirstDay, LastDay,
    Nights,         \* the lengths of stay a form may ask for
    ExtraNights,    \* how far EXTEND_STAY goes
    Lot,            \* the member's whole-room nights: type, until, units
    MaxChanges,     \* publications and saved rooms
    MaxTurns,       \* changes of the form, lost answers, reloads, expiries
    MaxStayChanges, \* moves and extensions of the order
    None

Days == FirstDay .. LastDay
Bands == {1, 7, 14, 30}
Rates == DOMAIN Rate

ASSUME BookingAssumption ==
    /\ TypeOf \in [Units -> Types]
    /\ Factor \in [Units -> Nat \ {0}]
    /\ Kind \in [Units -> {"ROOM", "BED"}]
    /\ Rate \in [Rates -> [Bands -> Nat \ {0}]]
    /\ \A d \in DOMAIN Baselines : Baselines[d] \in [Types -> Rates]
    /\ NewRates \in [Types -> SUBSET Rates]
    /\ \E d \in DOMAIN Baselines : d <= FirstDay
    /\ Lot.type \in Types

VARIABLES
    today,
    rates,      \* room_catalog_state.snapshot.rates, in the order published
    policies,   \* pricing_policy_versions; the version is the place
    heads,      \* room_catalog_heads: first day -> policy
    known,      \* how many of the policies the page was loaded with
    form,       \* unit, dates and member chosen, temporary room confirmed
    offer,      \* temporaryOtherRoomDraft.offer is set
    settled,    \* settledQuoteSignature
    shown,      \* the quote in the form and its quoteSignature
    asked,      \* the quote recovery record and the request behind it
    held,       \* nights of the lot held by other orders
    order,      \* the order booked from the form
    changes, turns, stayChanges

catalogVars == <<rates, policies, heads>>
tabVars == <<form, offer, settled, shown, asked>>
vars == <<today, catalogVars, known, tabVars, held, order, changes, turns, stayChanges>>

-----------------------------------------------------------------------------
(* The price list. *)

LastOf(S) == CHOOSE x \in S : \A y \in S : y <= x

BaselineAt(d) == Baselines[LastOf({b \in DOMAIN Baselines : b <= d})]

(* filter, sort by effective date and version, at(-1) *)
RateAt(rs, t, d) ==
    LET due == {i \in DOMAIN rs : rs[i].type = t /\ rs[i].from <= d}
        last == CHOOSE i \in due : \A j \in due :
                    \/ rs[j].from < rs[i].from
                    \/ rs[j].from = rs[i].from /\ j <= i
    IN  IF due = {} THEN None ELSE rs[last].rate

catalogAnchorsAt(rs, d) ==
    [t \in Types |->
        IF RateAt(rs, t, d) # None THEN RateAt(rs, t, d) ELSE BaselineAt(d)[t]]

AppliesFrom(p, d) == p.from <= d

(* The days that get a policy: every baseline's and every rate's.           *)
ListDays(rs) == DOMAIN Baselines \cup {rs[i].from : i \in DOMAIN rs}

preparePolicies(rs) ==
    [i \in 1 .. Cardinality(ListDays(rs)) |->
        LET d == CHOOSE x \in ListDays(rs) : Cardinality({y \in ListDays(rs) : y < x}) = i - 1
        IN  [from |-> d, managed |-> TRUE, list |-> catalogAnchorsAt(rs, d)]]

HeadsMovedTo(new) ==
    [d \in DOMAIN heads \cup {new[i].from : i \in DOMAIN new} |->
        IF \E i \in DOMAIN new : new[i].from = d
        THEN Len(policies) + CHOOSE i \in DOMAIN new : new[i].from = d
        ELSE heads[d]]

(* qintopia_apply_room_catalog *)
Publish(rs) ==
    LET new == preparePolicies(rs)
    IN  /\ rates' = rs
        /\ policies' = policies \o new
        /\ heads' = HeadsMovedTo(new)

(* resolveCatalogPolicyId; None while the catalog was never managed.        *)
resolveCatalogPolicyId(hs, d) ==
    LET due == {e \in DOMAIN hs : e <= d}
    IN  IF due = {} THEN None ELSE hs[LastOf(due)]

(* assertCurrentCatalogQuote *)
CurrentCatalogQuote(hs, p, d) == resolveCatalogPolicyId(hs, d) \in {None, p}

-----------------------------------------------------------------------------
(* Pricing. *)

Stay(u, a, n) == [d \in a .. (a + n - 1) |-> u]
NightsOf(stay) == Cardinality(DOMAIN stay)
Arrival(stay) == Min(DOMAIN stay)

durationBandAnchorNights(n) == IF n < 7 THEN 1 ELSE IF n < 14 THEN 7 ELSE IF n < 30 THEN 14 ELSE 30

Anchor(list, u, band) == Rate[list[TypeOf[u]]][band] * Factor[u]

roundHalfUp(num, den) == (num * 2 + den) \div (den * 2)

(* The segments of a STAY_TOTAL line: the maximal runs of one unit.         *)
Segments(list, stay) ==
    LET band == durationBandAnchorNights(NightsOf(stay))
        starts == {d \in DOMAIN stay : d - 1 \notin DOMAIN stay \/ stay[d - 1] # stay[d]}
        After(s) == CHOOSE e \in (s + 1) .. (s + NightsOf(stay)) :
                        /\ e \in starts \/ e \notin DOMAIN stay
                        /\ \A x \in (s + 1) .. (e - 1) : x \notin starts
        Segment(s) == [unit |-> stay[s], from |-> s, nights |-> After(s) - s,
                       anchor |-> Anchor(list, stay[s], band),
                       numerator |-> (After(s) - s) * Anchor(list, stay[s], band)]
    IN  {Segment(s) : s \in starts}

(* calculateDurationTimelinePricing without a member *)
StayTotal(list, stay) ==
    LET band == durationBandAnchorNights(NightsOf(stay))
        numerator == MapThenSumSet(LAMBDA g : g.numerator, Segments(list, stay))
    IN  roundHalfUp(numerator, band * 100) * 100

(* With a member every uncovered night costs the one-night price, which     *)
(* must then be whole yuan.                                                 *)
MemberPriceable(list, stay, covered) ==
    \A d \in DOMAIN stay \ covered : Anchor(list, stay[d], 1) % 100 = 0
MemberTotal(list, stay, covered) ==
    MapThenSumSet(LAMBDA d : Anchor(list, stay[d], 1), DOMAIN stay \ covered)

-----------------------------------------------------------------------------
(* Member nights. *)

FirstFree(S, k) == {d \in S : Cardinality({e \in S : e < d}) < k}

(* resolveMemberCoverage: None is ENTITLEMENT_CONFLICT.                     *)
resolveMemberCoverage(u, stay, left, day) ==
    IF TypeOf[u] # Lot.type \/ Kind[u] # "ROOM" THEN None
    ELSE IF Lot.until < day THEN {}
    ELSE FirstFree({d \in DOMAIN stay : d <= Lot.until}, left)

(* resolveTemporaryOtherRoomCoverage: every night, from the one lot of      *)
(* another type, or None.                                                   *)
resolveTemporaryOtherRoomCoverage(u, stay, left, day) ==
    IF /\ Kind[u] = "ROOM"
       /\ TypeOf[u] # Lot.type
       /\ Lot.until >= day
       /\ NightsOf(stay) <= left
       /\ \A d \in DOMAIN stay : d <= Lot.until
    THEN DOMAIN stay
    ELSE None

Left == Lot.units - held - (IF order = None THEN 0 ELSE Cardinality(order.covered))

-----------------------------------------------------------------------------
(* The page. *)

(* selectedPolicy: latest effective date, then the managed ones, then the   *)
(* latest version.                                                          *)
Before(p, i, q, j) ==
    \/ q.from < p.from
    \/ q.from = p.from /\ p.managed /\ ~q.managed
    \/ q.from = p.from /\ p.managed = q.managed /\ j < i
selectedPolicy(n, d) ==
    CHOOSE i \in 1 .. n :
        /\ AppliesFrom(policies[i], d)
        /\ \A j \in (1 .. n) \ {i} :
              AppliesFrom(policies[j], d) => Before(policies[i], i, policies[j], j)

(* currentQuoteInput; its signature is the input itself.                    *)
Input ==
    [unit |-> form.unit, arrival |-> form.arrival, nights |-> form.nights,
     member |-> form.member, temporary |-> offer /\ form.confirmed,
     policy |-> selectedPolicy(known, form.arrival)]

quoteIsCurrent == shown # None /\ shown.signature = Input

StayOf(in) == Stay(in.unit, in.arrival, in.nights)

(* createOrderPricingDraft *)
BrowserThreshold(base, target) == (IF target > base THEN target - base ELSE base - target) * 100 > base * 15
DraftReason(channel, base, target) ==
    IF channel = "WECOM" THEN target # base ELSE BrowserThreshold(base, target)
DraftComplete(channel, base, target, reason) ==
    target > 0 /\ (DraftReason(channel, base, target) => reason)

(* createOrderPricingDecision and its use in CREATE_ORDER                   *)
DecisionAccepts(channel, base, target, reason) ==
    /\ target > 0
    /\ LET diff == target - base
       IN  IF channel = "WECOM" THEN (diff # 0) = reason
           ELSE (diff * 100 > base * 15 \/ -diff * 100 > base * 15) => reason

-----------------------------------------------------------------------------

NoForm == [unit |-> CHOOSE u \in Units : Kind[u] = "ROOM" /\ TypeOf[u] # Lot.type,
           arrival |-> FirstDay, nights |-> Min(Nights), member |-> FALSE, confirmed |-> FALSE]

BaselinePolicies ==
    [i \in 1 .. Cardinality(DOMAIN Baselines) |->
        LET d == CHOOSE x \in DOMAIN Baselines :
                    Cardinality({y \in DOMAIN Baselines : y < x}) = i - 1
        IN  [from |-> d, managed |-> FALSE, list |-> Baselines[d]]]

Init ==
    /\ today = FirstDay
    /\ rates = <<>> /\ policies = BaselinePolicies
    /\ heads = [d \in {} |-> 1]
    /\ known = Len(policies)
    /\ form = NoForm /\ offer = FALSE /\ settled = None /\ shown = None /\ asked = None
    /\ held = 0 /\ order = None
    /\ changes = 0 /\ turns = 0 /\ stayChanges = 0

Turn == turns < MaxTurns /\ turns' = turns + 1

(* MANAGE_ROOM_CATALOG *)

PublishRates(t, d, a) ==
    /\ changes < MaxChanges
    /\ today <= d
    /\ Publish(Append(rates, [type |-> t, from |-> d, rate |-> a]))
    /\ changes' = changes + 1
    /\ UNCHANGED <<today, known, tabVars, held, order, turns, stayChanges>>

(* SAVE_ROOM and SET_ROOM_ACTIVE write the same list again.                 *)
SaveRoom ==
    /\ changes < MaxChanges
    /\ Publish(rates)
    /\ changes' = changes + 1
    /\ UNCHANGED <<today, known, tabVars, held, order, turns, stayChanges>>

NextDay ==
    /\ today < LastDay
    /\ today' = today + 1
    /\ UNCHANGED <<catalogVars, known, tabVars, held, order, changes, turns, stayChanges>>

(* The page is loaded again; a new form with the policies of now.           *)
Reload ==
    /\ Turn /\ asked = None
    /\ known' = Len(policies)
    /\ form' = NoForm /\ offer' = FALSE /\ settled' = None /\ shown' = None
    /\ UNCHANGED <<today, catalogVars, asked, held, order, changes, stayChanges>>

(* A unit chosen on the board: the member is cleared with the draft.        *)
ChooseUnit(u) ==
    /\ Turn /\ u # form.unit
    /\ form' = [form EXCEPT !.unit = u, !.member = FALSE, !.confirmed = FALSE]
    /\ offer' = FALSE
    /\ UNCHANGED <<today, catalogVars, known, settled, shown, asked, held, order, changes, stayChanges>>

(* Other dates take the quote's signature away.                             *)
ChooseDates(a, n) ==
    /\ Turn /\ a >= today /\ <<a, n>> # <<form.arrival, form.nights>>
    /\ form' = [form EXCEPT !.arrival = a, !.nights = n, !.confirmed = FALSE]
    /\ offer' = FALSE
    /\ settled' = None
    /\ shown' = IF shown = None THEN None ELSE [shown EXCEPT !.signature = None]
    /\ UNCHANGED <<today, catalogVars, known, asked, held, order, changes, stayChanges>>

ChooseMember ==
    /\ Turn
    /\ form' = [form EXCEPT !.member = ~@, !.confirmed = FALSE]
    /\ offer' = FALSE
    /\ UNCHANGED <<today, catalogVars, known, settled, shown, asked, held, order, changes, stayChanges>>

ConfirmTemporary ==
    /\ Turn /\ offer /\ ~form.confirmed
    /\ form' = [form EXCEPT !.confirmed = TRUE]
    /\ UNCHANGED <<today, catalogVars, known, offer, settled, shown, asked, held, order, changes, stayChanges>>

(* The effect that asks when the form has settled for 300 ms.               *)
createQuote ==
    /\ asked = None /\ order = None
    /\ settled # Input
    /\ asked' = [input |-> Input, state |-> "SENDING", at |-> "sent", view |-> None, result |-> None]
    /\ UNCHANGED <<today, catalogVars, known, form, offer, settled, shown, held, order,
                   changes, turns, stayChanges>>

(* executeQuoteCommand, before and after it has waited for its locks.       *)
BeginQuote ==
    /\ asked # None /\ asked.at = "sent"
    /\ asked' = [asked EXCEPT !.at = "begun",
                     !.view = [heads |-> heads, left |-> Left, today |-> today]]
    /\ UNCHANGED <<today, catalogVars, known, form, offer, settled, shown, held, order,
                   changes, turns, stayChanges>>

(* createQuoteInTransaction: a quote, or the refusal, with the offer of     *)
(* another room when only the type stands in the way.                       *)
QuoteResult(in, view) ==
    LET stay == StayOf(in)
        list == policies[in.policy].list
        ordinary == resolveMemberCoverage(in.unit, stay, view.left, view.today)
        temporary == resolveTemporaryOtherRoomCoverage(in.unit, stay, view.left, view.today)
        covered == IF ~in.member THEN {} ELSE IF in.temporary THEN temporary ELSE ordinary
        amount == IF in.member THEN MemberTotal(list, stay, covered) ELSE StayTotal(list, stay)
        Refusal(o) == [ok |-> FALSE, offer |-> o]
    IN  IF ~CurrentCatalogQuote(view.heads, in.policy, in.arrival) THEN Refusal("AS_IT_WAS")
        ELSE IF in.member /\ ~in.temporary /\ ordinary # DOMAIN stay /\ temporary # None
             THEN Refusal("MADE")
        ELSE IF covered = None THEN Refusal("WITHDRAWN")
        ELSE IF in.member /\ ~MemberPriceable(list, stay, covered) THEN Refusal("AS_IT_WAS")
        ELSE IF in.temporary /\ (covered # DOMAIN stay \/ amount # 0) THEN Refusal("WITHDRAWN")
        ELSE [ok |-> TRUE, covered |-> covered, amount |-> amount, fresh |-> TRUE]

FinishQuote ==
    /\ asked # None /\ asked.at = "begun"
    /\ asked' = [asked EXCEPT !.at = "done", !.view = None,
                     !.result = QuoteResult(asked.input, asked.view)]
    /\ UNCHANGED <<today, catalogVars, known, form, offer, settled, shown, held, order,
                   changes, turns, stayChanges>>

Show(in, result) ==
    /\ settled' = in
    /\ shown' = [signature |-> in, quote |-> in, covered |-> result.covered,
                 amount |-> result.amount, fresh |-> result.fresh]

ShowAsLatest(in, result) ==
    /\ settled' = Input
    /\ shown' = [signature |-> Input, quote |-> in, covered |-> result.covered,
                 amount |-> result.amount, fresh |-> result.fresh]
ShowIfLatest(in, result) ==
    IF Input = in THEN Show(in, result) ELSE UNCHANGED <<settled, shown>>

(* createQuote's answer: shown if the form still asks for it; a refusal     *)
(* settles its signature whatever the form now is.                          *)
QuoteReturns ==
    /\ asked # None /\ asked.at = "done" /\ asked.state = "SENDING"
    /\ asked' = None
    /\ IF asked.result.ok
       THEN ShowIfLatest(asked.input, asked.result) /\ UNCHANGED <<offer, form>>
       ELSE /\ settled' = asked.input
            /\ offer' = (asked.result.offer = "MADE" \/ (asked.result.offer = "AS_IT_WAS" /\ offer))
            /\ form' = IF asked.result.offer = "WITHDRAWN" THEN [form EXCEPT !.confirmed = FALSE] ELSE form
            /\ UNCHANGED shown
    /\ UNCHANGED <<today, catalogVars, known, held, order, changes, turns, stayChanges>>

AnswerLost ==
    /\ Turn /\ asked # None /\ asked.state = "SENDING"
    /\ asked' = [asked EXCEPT !.state = "UNKNOWN"]
    /\ UNCHANGED <<today, catalogVars, known, form, offer, settled, shown, held, order,
                   changes, stayChanges>>

(* recoverQuote: a request that has not arrived is fenced; a result for     *)
(* another form keeps its record.                                           *)
recoverQuote ==
    /\ asked # None /\ asked.state = "UNKNOWN" /\ asked.at # "begun"
    /\ IF asked.at = "done" /\ asked.result.ok /\ asked.result.fresh
       THEN /\ Input = asked.input /\ Show(asked.input, asked.result)
            /\ offer' = asked.input.temporary
            /\ form' = [form EXCEPT !.confirmed = asked.input.temporary]
       ELSE UNCHANGED <<settled, shown, offer, form>>
    /\ asked' = None
    /\ UNCHANGED <<today, catalogVars, known, held, order, changes, turns, stayChanges>>

(* A quote is good for 15 minutes.                                          *)
Expire ==
    /\ Turn
    /\ \/ shown # None /\ shown.fresh
       \/ asked # None /\ asked.at = "done" /\ asked.result.ok /\ asked.result.fresh
    /\ shown' = IF shown = None THEN None ELSE [shown EXCEPT !.fresh = FALSE]
    /\ asked' = IF asked # None /\ asked.at = "done" /\ asked.result.ok
                THEN [asked EXCEPT !.result.fresh = FALSE] ELSE asked
    /\ UNCHANGED <<today, catalogVars, known, form, offer, settled, held, order, changes, stayChanges>>

(* Another desk books nights of the same lot.                               *)
HoldElsewhere ==
    /\ Turn /\ Left > 0
    /\ held' = held + 1
    /\ UNCHANGED <<today, catalogVars, known, tabVars, order, changes, stayChanges>>

-----------------------------------------------------------------------------
(* The order. *)

Charged(policy, stay, covered, member, amount) ==
    [policy |-> policy, list |-> catalogAnchorsAt(rates, Arrival(stay)), stay |-> stay,
     covered |-> covered, member |-> member, amount |-> amount]

AnyQuote(q) == TRUE
QuoteStillCurrent(q) == CurrentCatalogQuote(heads, q.policy, q.arrival)

(* priceTemporaryOtherRoomQuote, priceSingleUnit: the member's nights are   *)
(* looked for again.                                                        *)
CoverageOf(q, stay, quoted) ==
    IF ~q.member THEN {}
    ELSE IF q.temporary THEN resolveTemporaryOtherRoomCoverage(q.unit, stay, Left, today)
    ELSE resolveMemberCoverage(q.unit, stay, Left, today)

(* CREATE_ORDER at the policy's price, previewed and confirmed; the form is *)
(* cleared.                                                                 *)
CreateOrder ==
    /\ asked = None /\ order = None
    /\ quoteIsCurrent
    /\ shown.fresh
    /\ LET q == shown.quote
           stay == StayOf(q)
           list == policies[q.policy].list
           covered == CoverageOf(q, stay, shown.covered)
       IN  /\ QuoteStillCurrent(q)
           /\ today <= q.arrival
           /\ covered # None
           /\ q.member => MemberPriceable(list, stay, covered)
           /\ order' = Charged(q.policy, stay, covered, q.member,
                          IF q.member THEN MemberTotal(list, stay, covered) ELSE StayTotal(list, stay))
    /\ form' = NoForm /\ offer' = FALSE /\ settled' = None /\ shown' = None
    /\ UNCHANGED <<today, catalogVars, known, asked, held, changes, turns, stayChanges>>

(* loadPricingPolicy(lockedForOrder): the order's policy, whatever its dates.*)
LockedList(o) == policies[o.policy].list

(* priceStayTimeline: the whole stay again.                                 *)
Reprice(stay) ==
    /\ stayChanges < MaxStayChanges
    /\ stayChanges' = stayChanges + 1
    /\ order' = [order EXCEPT !.stay = stay, !.amount = StayTotal(LockedList(order), stay)]
    /\ UNCHANGED <<today, catalogVars, known, tabVars, held, changes, turns>>

(* MOVE_UNIT of a paid stay from a night on *)
MoveUnit(u, d) ==
    /\ order # None /\ ~order.member
    /\ d \in DOMAIN order.stay /\ today <= d /\ order.stay[d] # u
    /\ Reprice([x \in DOMAIN order.stay |-> IF x < d THEN order.stay[x] ELSE u])

(* EXTEND_STAY in the room of the last night *)
ExtendStay(n) ==
    /\ order # None /\ ~order.member
    /\ LET last == Max(DOMAIN order.stay)
       IN  Reprice([x \in Arrival(order.stay) .. (last + n) |->
                       IF x <= last THEN order.stay[x] ELSE order.stay[last]])

MoveNight == LastDay + 3

Next ==
    \/ \E t \in Types, d \in Days : \E a \in NewRates[t] : PublishRates(t, d, a)
    \/ SaveRoom
    \/ NextDay
    \/ Reload
    \/ \E u \in Units : ChooseUnit(u)
    \/ \E a \in Days, n \in Nights : ChooseDates(a, n)
    \/ ChooseMember
    \/ ConfirmTemporary
    \/ createQuote
    \/ BeginQuote
    \/ FinishQuote
    \/ QuoteReturns
    \/ AnswerLost
    \/ recoverQuote
    \/ Expire
    \/ HoldElsewhere
    \/ CreateOrder
    \/ \E u \in Units, d \in {LastDay, MoveNight} : MoveUnit(u, d)
    \/ \E n \in ExtraNights : ExtendStay(n)

Spec == Init /\ [][Next]_vars

-----------------------------------------------------------------------------
(* Properties. *)

(* The list the manager sees: the latest rate by effective day, and of one  *)
(* day the last one published, otherwise the baseline of the day.           *)
InForce(t, d, a) ==
    \/ \E i \in DOMAIN rates :
          /\ rates[i].type = t /\ rates[i].from <= d /\ rates[i].rate = a
          /\ \A j \in DOMAIN rates : rates[j].type = t /\ rates[j].from <= d =>
                rates[j].from < rates[i].from \/ (rates[j].from = rates[i].from /\ j <= i)
    \/ /\ ~\E i \in DOMAIN rates : rates[i].type = t /\ rates[i].from <= d
       /\ \E b \in DOMAIN Baselines :
             /\ b <= d /\ Baselines[b][t] = a
             /\ ~\E c \in DOMAIN Baselines : b < c /\ c <= d

TypeOK ==
    /\ today \in Days
    /\ \A d \in DOMAIN heads : heads[d] \in DOMAIN policies /\ policies[heads[d]].from = d
    /\ known \in DOMAIN policies
    /\ form.unit \in Units /\ form.arrival \in Days /\ form.nights \in Nights
    /\ held \in 0 .. Lot.units
    /\ order # None => order.policy \in DOMAIN policies /\ order.amount \in Nat

(* room-catalog.ts 157-166, 351-355, sql 061: whatever the order in which   *)
(* rates for today and for later days are published, the head the server    *)
(* finds for an arrival holds the rates in force on that day.               *)
HeadIsTheList ==
    heads # <<>> =>
        \A d \in Days :
            LET p == resolveCatalogPolicyId(heads, d)
            IN  p # None /\ \A t \in Types : InForce(t, d, policies[p].list[t])

(* InventoryPage.tsx 1432-1440 against room-catalog.ts 351-360: a page with *)
(* all the policies chooses the one the server demands.                     *)
BrowserPicksTheHead ==
    known = Len(policies) =>
        \A d \in Days : CurrentCatalogQuote(heads, selectedPolicy(known, d), d)

(* InventoryPage.tsx 1756-1759, 1853-1859, 2115: what is ordered is the     *)
(* unit, dates and member in the form and, for a paid stay, the amount on   *)
(* the screen, although answers come back after the form has changed and    *)
(* lost ones are recovered later.                                           *)
BookedAsShown ==
    [][order = None /\ order' # None =>
          /\ order'.stay = Stay(form.unit, form.arrival, form.nights)
          /\ order'.member = form.member
          /\ ~form.member => order'.amount = shown.amount]_vars

(* n fen is the nearest whole-yuan amount to num / den fen, half up.        *)
NearestYuan(n, num, den) ==
    n % 100 = 0 /\ 2 * num - 100 * den < 2 * n * den /\ 2 * n * den <= 2 * num + 100 * den

ExactNumerator(list, stay) ==
    LET band == durationBandAnchorNights(NightsOf(stay))
    IN  MapThenSumSet(LAMBDA u : Cardinality({d \in DOMAIN stay : stay[d] = u}) * Anchor(list, u, band), Units)

FairlyCharged(o) ==
    IF o.member
    THEN o.amount = MapThenSumSet(LAMBDA d : Anchor(o.list, o.stay[d], 1), DOMAIN o.stay \ o.covered)
    ELSE NearestYuan(o.amount, ExactNumerator(o.list, o.stay),
                     durationBandAnchorNights(NightsOf(o.stay)))

(* effects.ts 1340, room-catalog.ts 357-360, pricing.ts 168-300: a stay is  *)
(* booked at the rates in force for its arrival when it is confirmed, and   *)
(* later publications, moves and extensions reckon with the same rates:     *)
(* the amount is the whole stay's price, rounded once.                      *)
ChargedByTheList == order # None => FairlyCharged(order)

(* pricing-service.ts 304-402, effects.ts 708-752: the nights of a lot are  *)
(* never promised twice, and a stay in another type of room on member       *)
(* nights is covered to the last night and free.                            *)
NightsAreThere ==
    /\ Left >= 0
    /\ order # None /\ order.member =>
          \A d \in DOMAIN order.stay : TypeOf[order.stay[d]] # Lot.type =>
              order.covered = DOMAIN order.stay /\ order.amount = 0

(* ui.tsx 1489-1542: what the browser works out again of a paid line.       *)
BrowserAccepts(list, stay, amount) ==
    LET band == durationBandAnchorNights(NightsOf(stay))
        segs == Segments(list, stay)
        total == MapThenSumSet(LAMBDA g : g.nights * g.anchor, segs)
    IN  /\ \A g \in segs :
              /\ \A d \in g.from .. (g.from + g.nights - 1) : stay[d] = g.unit
              /\ g.from = Arrival(stay) \/ \E h \in segs : h.from + h.nights = g.from
              /\ g.numerator = g.nights * g.anchor
        /\ amount = ((total * 2 + band * 100) \div (band * 200)) * 100
        /\ amount > 0

(* pricing.ts 231-300 against ui.tsx 1489-1583: the client accepts the      *)
(* calculation behind every amount the server charges, however the stay has *)
(* been moved and extended.                                                 *)
LineIsAccepted ==
    order # None /\ ~order.member =>
        BrowserAccepts(LockedList(order), order.stay, order.amount)

(* InventoryPage.tsx 427-464 against operational-facts.ts 60-178: an amount *)
(* and reason the form calls complete is accepted for the quote on screen,  *)
(* also on either side of the 15 % from which a reason is needed.           *)
DraftsAreAccepted ==
    (quoteIsCurrent /\ ~form.member) =>
        \A channel \in {"WECOM", "CTRIP"}, reason \in BOOLEAN :
        \A delta \in {-(shown.amount * 15) \div 100 - 1, -100, 0, 1,
                      (shown.amount * 15) \div 100, (shown.amount * 15) \div 100 + 1} :
            LET base == shown.amount
                target == base + delta
            IN  DraftComplete(channel, base, target, reason) =>
                    DecisionAccepts(channel, base, target,
                                    DraftReason(channel, base, target) /\ reason)

(* Server and browser reckon with the same lists from the publication of a  *)
(* rate to the last change of the stay: the head in force, the page's       *)
(* choice of it, the amount charged, the line and the drafts the page       *)
(* accepts, and the member nights behind a free stay.                       *)
PricesAgree ==
    /\ HeadIsTheList
    /\ BrowserPicksTheHead
    /\ ChargedByTheList
    /\ LineIsAccepted
    /\ DraftsAreAccepted
    /\ NightsAreThere
=============================================================================
