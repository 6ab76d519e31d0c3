----------------------------- MODULE Coverage -----------------------------
(***************************************************************************)
(* Member nights: the lot of a membership, its append-only ledger and the  *)
(* coverage items of stays, as packages/db/src/pricing-service.ts,         *)
(* orders.ts, commands/effects.ts, commands/apply.ts and                   *)
(* commands/checkout-reversal.ts keep them.                                *)
(*                                                                         *)
(* One member with one membership: every command below holds the member's  *)
(* entitlement lock from the rebuild of its effect to its commit, so it is *)
(* one step (CommandProtocol has the transactions, RoomInventory the       *)
(* rooms).  Rooms may refuse any of these commands; here they never do.    *)
(* Night d is the one from date d to d + 1.  Units are of the kind and     *)
(* room type the membership covers.                                        *)
(***************************************************************************)
EXTENDS Integers, FiniteSets, FiniteSetsExt

CONSTANTS
    Orders, Units,
    Horizon,        \* bound: the last night
    Total,          \* entitlement_units of the product
    Validity,       \* its validity_period, in days
    MaxGranted      \* bound: nights granted, adjustments included

Dates == 1..Horizon

(* A product has fewer nights than its period has days (30 in a year).     *)
ASSUME CoverageAssumption ==
    /\ Horizon \in Nat \ {0}
    /\ Total \in Nat \ {0}
    /\ Validity \in Nat /\ Total <= Validity + 1
    /\ MaxGranted \in Nat /\ Total <= MaxGranted

VARIABLES
    today,      \* the property's business date
    status,     \* of an order; "none" before it exists
    kind,       \* "cash", "member" or "converted" to a membership; "none" before it exists
    plan,       \* its stay timeline: a function from nights to units
    item,       \* its active coverage_items, by night
    shortening, \* what its latest standing SHORTEN_STAY recorded
    undo,       \* what a REVOKE_CHECK_OUT would restore
    validFrom,  \* first date of the membership; 0 before it exists
    available,  \* total_units plus the sum of the lot's ledger
    expired,    \* does the ledger have an EXPIRE entry?
    granted,    \* nights ever granted: the product's and the adjustments
    gone        \* nights charged without an item: written off or converted

vars == <<today, status, kind, plan, item, shortening, undo, validFrom, available, expired,
          granted, gone>>
lotVars == <<validFrom, available, expired, granted, gone>>
stayVars == <<status, kind, plan, item, shortening, undo>>

None == [d \in {} |-> d]
Arrival(p) == Min(DOMAIN p)
Departure(p) == Max(DOMAIN p) + 1
Nights(a, b) == a..(b - 1)
Covered(o) == DOMAIN item[o]
Held(o) == {d \in Covered(o) : item[o][d].st = "HELD"}
Consumed(o) == {d \in Covered(o) : item[o][d].st = "CONSUMED"}
ExpiresOn == validFrom + Validity
InWindow(d) == validFrom <= d /\ d <= ExpiresOn

Init ==
    /\ today = 1
    /\ status = [o \in Orders |-> "none"]
    /\ kind = [o \in Orders |-> "none"]
    /\ plan = [o \in Orders |-> None]
    /\ item = [o \in Orders |-> None]
    /\ shortening = [o \in Orders |-> {}]
    /\ undo = [o \in Orders |-> {}]
    /\ validFrom = 0 /\ available = 0 /\ expired = FALSE /\ granted = 0 /\ gone = 0

-----------------------------------------------------------------------------
(* resolveMemberCoverage: which further nights of `dates` the lot pays for. *)
(* The lot is out of the question once expired; reading it fails when its   *)
(* balance is out of range.  Nights are taken in their order.               *)

LotUsable(o, dates) ==
    /\ kind[o] # "cash"
    /\ validFrom # 0 /\ ~expired /\ today <= ExpiresOn
    /\ \E d \in dates : InWindow(d)
Readable(o, dates) == LotUsable(o, dates) => available >= 0

FirstOf(S, n) == {d \in S : Cardinality({e \in S : e < d}) < n}
Allocate(o, dates, extra) ==
    IF LotUsable(o, dates)
    THEN FirstOf({d \in dates \ Covered(o) : InWindow(d)}, available + extra)
    ELSE {}

(* What a release returns is written off at once when the lot has expired.  *)
Release(n) ==
    /\ available' = available + (IF expired THEN 0 ELSE n)
    /\ gone' = gone + (IF expired THEN n ELSE 0)

(* reconcileCoverage: HELD nights outside the new plan q are released, the  *)
(* others follow the plan's units (RELEASE and HOLD of one lot), `new` are  *)
(* held, and with st = "CONSUMED" consumeCoverage ends the command.         *)
Reconcile(o, q, new, st) ==
    LET dropped == Held(o) \ DOMAIN q
        lapsed == IF expired THEN Cardinality(dropped) ELSE 0
    IN  /\ item' = [item EXCEPT ![o] =
                      [d \in (Covered(o) \ dropped) \cup new |->
                         IF d \in Consumed(o) THEN item[o][d] ELSE [unit |-> q[d], st |-> st]]]
        /\ available' = available + Cardinality(dropped) - Cardinality(new) - lapsed
        /\ gone' = gone + lapsed

(* consumeCoverage *)
Consume(o) ==
    item' = [item EXCEPT ![o] = [d \in Covered(o) |-> [unit |-> item[o][d].unit, st |-> "CONSUMED"]]]

(* isExactConvertedCoverageGraph *)
ExactGraph(o) == Covered(o) = DOMAIN plan[o] /\ Held(o) = {}

(* loadCheckoutReversalPlan: the arrangement and the consumption before the *)
(* check-out, or before the shortening that was part of it.                 *)
Snapshot(o) == [plan |-> plan[o], item |-> item[o], shortening |-> shortening[o]]

-----------------------------------------------------------------------------
(* The membership. *)

(* ACTIVATE_MEMBERSHIP_ORDER *)
Activate ==
    /\ validFrom = 0
    /\ validFrom' = today
    /\ available' = Total /\ granted' = Total
    /\ UNCHANGED <<today, stayVars, expired, gone>>

(* ADJUST_MEMBER_ENTITLEMENT, CORRECT_MEMBER_ENTITLEMENT_BALANCE *)
Adjust(target) ==
    /\ validFrom # 0 /\ ~expired /\ today <= ExpiresOn
    /\ available >= 0 /\ target # available
    /\ granted + target - available <= MaxGranted
    /\ available' = target
    /\ granted' = granted + target - available
    /\ UNCHANGED <<today, stayVars, validFrom, expired, gone>>

(* EXPIRE_MEMBER_ENTITLEMENT.  An asOfDate after the expiry and not after   *)
(* today exists only when today is after the expiry.                        *)
Expire ==
    /\ validFrom # 0 /\ ~expired /\ today > ExpiresOn
    /\ available >= 0
    /\ expired' = TRUE
    /\ available' = 0 /\ gone' = gone + available
    /\ UNCHANGED <<today, stayVars, validFrom, granted>>

(* CONVERT_STAY_COLLECTIONS_TO_MEMBERSHIP: a stay paid in cash becomes the  *)
(* first of a new membership.  A guest in house gets consumed items, a      *)
(* departed one only ledger entries, and the check-out can then no longer   *)
(* be revoked.                                                              *)
Convert(o) ==
    LET nights == Cardinality(DOMAIN plan[o])
    IN  /\ kind[o] = "cash" /\ status[o] \in {"CHECKED_IN", "CHECKED_OUT"}
        /\ validFrom = 0 /\ nights <= Total
        /\ kind' = [kind EXCEPT ![o] = "converted"]
        /\ validFrom' = today
        /\ available' = Total - nights /\ granted' = Total
        /\ IF status[o] = "CHECKED_IN"
           THEN /\ item' = [item EXCEPT ![o] =
                              [d \in DOMAIN plan[o] |-> [unit |-> plan[o][d], st |-> "CONSUMED"]]]
                /\ UNCHANGED <<undo, gone>>
           ELSE /\ undo' = [undo EXCEPT ![o] = {}]
                /\ gone' = nights
                /\ UNCHANGED item
        /\ UNCHANGED <<today, status, plan, shortening, expired>>

-----------------------------------------------------------------------------
(* The stay. *)

(* CREATE_ORDER of a member: nothing is booked for the past.                *)
CreateMemberStay(o, u, a, b) ==
    LET q == [d \in Nights(a, b) |-> u]
    IN  /\ status[o] = "none" /\ validFrom # 0
        /\ today <= a /\ a < b
        /\ Readable(o, DOMAIN q)
        /\ status' = [status EXCEPT ![o] = "RESERVED"]
        /\ kind' = [kind EXCEPT ![o] = "member"]
        /\ plan' = [plan EXCEPT ![o] = q]
        /\ Reconcile(o, q, Allocate(o, DOMAIN q, 0), "HELD")
        /\ UNCHANGED <<today, shortening, undo, validFrom, expired, granted>>

(* CREATE_ORDER of a stay paid in cash; an arrival in the past makes it a   *)
(* backfill.                                                                *)
CreateCashStay(o, u, a, b) ==
    LET q == [d \in Nights(a, b) |-> u]
        st == IF today <= a THEN "RESERVED" ELSE IF b <= today THEN "CHECKED_OUT" ELSE "CHECKED_IN"
    IN  /\ status[o] = "none" /\ a < b
        /\ status' = [status EXCEPT ![o] = st]
        /\ kind' = [kind EXCEPT ![o] = "cash"]
        /\ plan' = [plan EXCEPT ![o] = q]
        /\ undo' = [undo EXCEPT ![o] =
                      IF st = "CHECKED_OUT" THEN {[plan |-> q, item |-> None, shortening |-> {}]} ELSE {}]
        /\ UNCHANGED <<today, item, shortening, lotVars>>

(* planStayDateChangeTimeline: an equal shift moves the units along with    *)
(* the dates; otherwise old dates keep their units.                         *)
DateChange(p, a, b) ==
    LET shift == a - Arrival(p)
        Unit(d) == IF d < Arrival(p) THEN p[Arrival(p)]
                   ELSE IF d >= Departure(p) THEN p[Departure(p) - 1] ELSE p[d]
    IN  [d \in Nights(a, b) |-> IF b - Departure(p) = shift THEN p[d - shift] ELSE Unit(d)]

(* HELD nights that the new plan drops or puts on another unit count as     *)
(* returned to the lot before it is allocated again.                        *)
Reallocatable(o, q) == {d \in Held(o) : d \in DOMAIN q => q[d] # item[o][d].unit}
RescheduleStay(o, a, b) ==
    LET p == plan[o]
        q == DateChange(p, a, b)
    IN  /\ status[o] = "RESERVED" /\ today <= a /\ a < b
        /\ <<a, b>> # <<Arrival(p), Departure(p)>>
        /\ Consumed(o) = {}
        /\ Readable(o, DOMAIN q)
        /\ plan' = [plan EXCEPT ![o] = q]
        /\ Reconcile(o, q, Allocate(o, DOMAIN q, Cardinality(Reallocatable(o, q))), "HELD")
        /\ UNCHANGED <<today, status, kind, shortening, undo, validFrom, expired, granted>>

(* EXTEND_STAY asks the lot for the added nights only and consumes them.  A *)
(* trigger refuses a consumed night outside the new dates.  A converted     *)
(* stay must stay covered throughout.                                       *)
ExtendStay(o, b) ==
    LET p == plan[o]
        q == DateChange(p, Arrival(p), b)
        added == DOMAIN q \ DOMAIN p
        new == Allocate(o, added, 0)
    IN  /\ status[o] = "CHECKED_IN" /\ Departure(p) < b
        /\ today > Departure(p) => b > today
        /\ Held(o) = {} /\ Covered(o) \subseteq DOMAIN q
        /\ kind[o] = "converted" => ExactGraph(o) /\ new = added
        /\ Readable(o, added)
        /\ plan' = [plan EXCEPT ![o] = q]
        /\ Reconcile(o, q, new, "CONSUMED")
        /\ UNCHANGED <<today, status, kind, shortening, undo, validFrom, expired, granted>>

(* SHORTEN_STAY keeps consumed nights, except that a converted stay gets    *)
(* its released nights back (restoreFutureConsumedCoverage).  A departure   *)
(* today is an early check-out.  A trigger refuses to change a converted    *)
(* stay whose lot is overdrawn.                                             *)
ShortenStay(o, b) ==
    LET p == plan[o]
        q == [d \in Nights(Arrival(p), b) |-> p[d]]
        back == IF kind[o] = "converted" THEN {d \in Covered(o) \ DOMAIN q : today <= d} ELSE {}
        left == Covered(o) \ back
    IN  /\ status[o] = "CHECKED_IN"
        /\ Arrival(p) < today /\ today < Departure(p)
        /\ today <= b /\ b < Departure(p)
        /\ Held(o) = {}
        /\ kind[o] = "converted" => ExactGraph(o)
        /\ \A s \in shortening[o] : s.current \cup s.retained = Covered(o)
        /\ \A d \in Covered(o) \ DOMAIN p : \E s \in shortening[o] : d \in s.retained
        /\ plan' = [plan EXCEPT ![o] = q]
        /\ item' = [item EXCEPT ![o] = [d \in left |-> item[o][d]]]
        /\ available' = available + Cardinality(back)
        /\ kind[o] = "converted" => available' >= 0
        /\ shortening' = [shortening EXCEPT ![o] =
                            {[current |-> left \cap DOMAIN q, retained |-> left \ DOMAIN q]}]
        /\ status' = [status EXCEPT ![o] = IF b = today THEN "CHECKED_OUT" ELSE "CHECKED_IN"]
        /\ undo' = [undo EXCEPT ![o] = IF b = today THEN {Snapshot(o)} ELSE {}]
        /\ UNCHANGED <<today, kind, validFrom, expired, granted, gone>>

(* MOVE_UNIT from date e on.  The summary it has shown counts a release and *)
(* a hold for each migrated night: it fails when a further night would be   *)
(* held.                                                                    *)
MoveUnit(o, u, e) ==
    LET p == plan[o]
        q == [d \in DOMAIN p |-> IF d < e THEN p[d] ELSE u]
    IN  /\ \/ status[o] = "RESERVED" /\ today <= Arrival(p) /\ Consumed(o) = {}
           \/ status[o] = "CHECKED_IN" /\ today < Departure(p) /\ today <= e /\ Held(o) = {}
        /\ e \in DOMAIN p /\ q # p
        /\ kind[o] = "converted" => ExactGraph(o)
        /\ Readable(o, DOMAIN p) /\ Allocate(o, DOMAIN p, 0) = {}
        /\ plan' = [plan EXCEPT ![o] = q]
        /\ Reconcile(o, q, {}, "HELD")
        /\ kind[o] = "converted" => available' >= 0
        /\ UNCHANGED <<today, status, kind, shortening, undo, validFrom, expired, granted>>

(* REPRICE_ORDER and REFRESH_MEMBER_COVERAGE of a member's stay.            *)
RefreshCoverage(o) ==
    /\ kind[o] = "member" /\ status[o] \in {"RESERVED", "CHECKED_IN"}
    /\ Readable(o, DOMAIN plan[o])
    /\ Reconcile(o, plan[o], Allocate(o, DOMAIN plan[o], 0),
                 IF status[o] = "CHECKED_IN" THEN "CONSUMED" ELSE "HELD")
    /\ UNCHANGED <<today, status, kind, plan, shortening, undo, validFrom, expired, granted>>

-----------------------------------------------------------------------------
(* Its end. *)

CheckIn(o) ==
    /\ status[o] = "RESERVED"
    /\ Arrival(plan[o]) <= today /\ today < Departure(plan[o])
    /\ status' = [status EXCEPT ![o] = "CHECKED_IN"]
    /\ Consume(o)
    /\ UNCHANGED <<today, kind, plan, shortening, undo, lotVars>>

CheckOut(o) ==
    /\ status[o] = "CHECKED_IN" /\ Departure(plan[o]) <= today
    /\ Held(o) = {}
    /\ status' = [status EXCEPT ![o] = "CHECKED_OUT"]
    /\ undo' = [undo EXCEPT ![o] = {Snapshot(o)}]
    /\ UNCHANGED <<today, kind, plan, item, shortening, lotVars>>

(* COMPLETE_STAY of a stay nobody checked in: a member's must be covered    *)
(* throughout, on the units of the plan.                                    *)
CompleteStay(o) ==
    /\ status[o] = "RESERVED" /\ Departure(plan[o]) <= today
    /\ kind[o] = "member" => /\ Held(o) = DOMAIN plan[o]
                             /\ Consumed(o) = {}
                             /\ \A d \in Held(o) : item[o][d].unit = plan[o][d]
    /\ status' = [status EXCEPT ![o] = "CHECKED_OUT"]
    /\ Consume(o)
    /\ undo' = [undo EXCEPT ![o] =
                  {[plan |-> plan[o], item |-> item'[o], shortening |-> shortening[o]]}]
    /\ UNCHANGED <<today, kind, plan, shortening, lotVars>>

(* CANCEL_ORDER, and MARK_NO_SHOW from the evening of the arrival on:       *)
(* releaseCoverage.                                                         *)
Withdraw(o, st) ==
    /\ status[o] = "RESERVED"
    /\ st = "NO_SHOW" => Arrival(plan[o]) <= today
    /\ status' = [status EXCEPT ![o] = st]
    /\ item' = [item EXCEPT ![o] = [d \in Consumed(o) |-> item[o][d]]]
    /\ Release(Cardinality(Held(o)))
    /\ UNCHANGED <<today, kind, plan, shortening, undo, validFrom, expired, granted>>

(* REVOKE_CHECK_IN: restoreConsumedCoverage returns the nights and leaves   *)
(* the items as they are.                                                   *)
RevokeCheckIn(o) ==
    /\ status[o] = "CHECKED_IN" /\ today = Arrival(plan[o])
    /\ kind[o] # "converted" /\ Held(o) = {}
    /\ status' = [status EXCEPT ![o] = "CHECK_IN_REVOKED"]
    /\ available' = available + Cardinality(Consumed(o))
    /\ UNCHANGED <<today, kind, plan, item, shortening, undo, validFrom, expired, granted, gone>>

(* REVOKE_CHECK_OUT: nights that an early check-out returned are held and   *)
(* consumed again, if the lot can still pay for all of them.                *)
RevokeCheckOut(o) ==
    /\ status[o] = "CHECKED_OUT"
    /\ \E before \in undo[o] :
         LET again == DOMAIN before.item \ Covered(o)
         IN  /\ again # {} => /\ today <= ExpiresOn /\ ~expired
                              /\ \A d \in again : InWindow(d)
                              /\ Cardinality(again) <= available
             /\ plan' = [plan EXCEPT ![o] = before.plan]
             /\ item' = [item EXCEPT ![o] = before.item]
             /\ shortening' = [shortening EXCEPT ![o] = before.shortening]
             /\ available' = available - Cardinality(again)
    /\ status' = [status EXCEPT ![o] = "CHECKED_IN"]
    /\ undo' = [undo EXCEPT ![o] = {}]
    /\ UNCHANGED <<today, kind, validFrom, expired, granted, gone>>

NextDay ==
    /\ today <= Horizon
    /\ today' = today + 1
    /\ UNCHANGED <<stayVars, lotVars>>

Membership ==
    \/ Activate
    \/ Expire
    \/ \E target \in 0..MaxGranted : Adjust(target)
    \/ \E o \in Orders : Convert(o)

Stay(o) ==
    \/ \E u \in Units, a \in Dates, b \in 2..(Horizon + 1) :
         CreateMemberStay(o, u, a, b) \/ CreateCashStay(o, u, a, b)
    \/ \E a \in Dates, b \in 2..(Horizon + 1) : RescheduleStay(o, a, b)
    \/ \E b \in 2..(Horizon + 1) : ExtendStay(o, b) \/ ShortenStay(o, b)
    \/ \E u \in Units, e \in Dates : MoveUnit(o, u, e)
    \/ RefreshCoverage(o)
    \/ CheckIn(o) \/ CheckOut(o) \/ CompleteStay(o)
    \/ \E st \in {"CANCELLED", "NO_SHOW"} : Withdraw(o, st)
    \/ RevokeCheckIn(o) \/ RevokeCheckOut(o)

Next == NextDay \/ Membership \/ \E o \in Orders : Stay(o)
Spec == Init /\ [][Next]_vars

-----------------------------------------------------------------------------
(* Type correctness. *)
TypeOK ==
    /\ today \in 1..(Horizon + 1)
    /\ \A o \in Orders :
         /\ status[o] \in {"none", "RESERVED", "CHECKED_IN", "CHECKED_OUT", "CANCELLED", "NO_SHOW",
                           "CHECK_IN_REVOKED"}
         /\ kind[o] \in {"none", "cash", "member", "converted"}
         /\ DOMAIN plan[o] \subseteq Dates /\ \A d \in DOMAIN plan[o] : plan[o][d] \in Units
         /\ Covered(o) \subseteq Dates
         /\ \A d \in Covered(o) : item[o][d] \in [unit : Units, st : {"HELD", "CONSUMED"}]
         /\ Cardinality(shortening[o]) <= 1 /\ Cardinality(undo[o]) <= 1
    /\ validFrom \in 0..(Horizon + 1) /\ available \in Int /\ expired \in BOOLEAN
    /\ granted \in 0..MaxGranted /\ gone \in Nat

(* Nights an order has cost the lot: its items, which a revoked check-in    *)
(* has returned without touching them (orders.ts 2409-2462).                *)
Charged(o) == IF status[o] = "CHECK_IN_REVOKED" THEN 0 ELSE Cardinality(Covered(o))

(* Every night granted is available, written off or charged to exactly one  *)
(* night of one stay: no sequence of holds, releases, restorations and      *)
(* re-consumptions charges a night twice or returns one twice.              *)
NightsConserved ==
    granted = available + gone + MapThenSumSet(Charged, Orders)

(* A stay and its items agree, so that the branches of effects.ts that call *)
(* the data "abnormal" and refuse to go on are dead: nothing is consumed    *)
(* before the arrival and nothing merely held after it, held nights are on  *)
(* the units of the plan, a withdrawn stay keeps no item, and a converted   *)
(* guest in house is covered on exactly the nights of the plan.             *)
CoverageFitsStay ==
    \A o \in Orders :
        /\ status[o] = "RESERVED" => /\ Consumed(o) = {}
                                    /\ Held(o) \subseteq DOMAIN plan[o]
                                    /\ \A d \in Held(o) : item[o][d].unit = plan[o][d]
        /\ status[o] \in {"CHECKED_IN", "CHECKED_OUT", "CHECK_IN_REVOKED"} => Held(o) = {}
        /\ status[o] \in {"CANCELLED", "NO_SHOW"} => Covered(o) = {}
        /\ kind[o] = "converted" /\ status[o] = "CHECKED_IN" => ExactGraph(o)

(* No command rewrites what a guest has used: a consumed night keeps its    *)
(* item and its unit for ever, save the nights still to come that the       *)
(* shortening of a converted stay gives back.                               *)
ConsumedIsFinal ==
    \A o \in Orders : \A d \in Consumed(o) :
         \/ d \in DOMAIN item'[o] /\ item'[o][d] = item[o][d]
         \/ kind[o] = "converted" /\ today <= d /\ d \notin DOMAIN plan'[o]

(* Nights released after the expiry are written off in the same command, so *)
(* an expired lot stays empty.                                              *)
ExpiredLotStaysEmpty == expired => available = 0

(* The one command that can spend more nights than the lot has is           *)
(* RESCHEDULE_STAY, of a reserved stay in two units (effects.ts 2681-2688   *)
(* counts its held nights that change units as returned, and pricing-       *)
(* service.ts 193 as preserved too).                                        *)
OverdrawnOnlyByReschedule ==
    available >= 0 /\ available' < 0 =>
        \E o \in Orders : /\ status[o] = "RESERVED" /\ status'[o] = "RESERVED"
                          /\ DOMAIN plan'[o] # DOMAIN plan[o]
                          /\ \E d, e \in DOMAIN plan[o] : plan[o][d] # plan[o][e]

(* entitlement-balance.ts 26-34: the available balance of a lot "must       *)
(* remain within" 0 and the largest integer.                                *)
NeverOverdrawn == available >= 0
=============================================================================
