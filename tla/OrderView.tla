----------------------------- MODULE OrderView -----------------------------
(***************************************************************************)
(* What an order costs, what its page offers and what the browser accepts: *)
(* the pricing decisions of packages/domain/src/operational-facts.ts, the  *)
(* pricing revisions commands/apply.ts inserts, the corrections of         *)
(* completed stays in admin-historical-stay-corrections.ts, the allowed    *)
(* actions of orders.ts and the validator of the web,                      *)
(* apps/web/src/orderViewValidation.ts, which refuses a whole order view   *)
(* when one of its facts does not follow from the others.                  *)
(*                                                                         *)
(* A night costs one at the policy price; how many nights of a member's    *)
(* stay are not covered is any number.  Money facts, guests and            *)
(* membership conversions are left out.                                    *)
(***************************************************************************)
EXTENDS StayHistory

CONSTANTS
    Channels,   \* what is sold: kinds of orders in use
    Targets,    \* contract amounts a request may ask for
    CashNights  \* bound: how many nights of a member may stay uncovered

ASSUME OrderViewAssumption ==
    /\ Channels \subseteq {"WECOM", "CTRIP", "MEMBER", "FREE"}
    /\ Targets \subseteq Nat /\ CashNights \subseteq Nat

VARIABLES
    channel,    \* booking_channel_code, stay_type and member of an order
    revisions   \* its pricing_revisions, by revision_no

viewVars == <<historyVars, channel, revisions>>

ViewInit ==
    /\ HistoryInit
    /\ channel = [o \in Orders |-> "none"]
    /\ revisions = [o \in Orders |-> <<>>]

-----------------------------------------------------------------------------
(* Prices. *)

Stayed(p) == Departure(p) - Arrival(p)
External == {"CTRIP"}
Price(basis, base, amount, manual) ==
    [basis |-> basis, base |-> base, amount |-> amount, manual |-> manual]

(* createOrderPricingDecision and stayChangePricingDecision.                *)
WecomPrice(n, t) == Price(IF t = n THEN "POLICY" ELSE "MANUAL_ADJUSTMENT", n, t, t - n)
StayPrices(ch, p) ==
    LET n == Stayed(p)
    IN  CASE ch = "FREE" -> {Price("FREE", 0, 0, 0)}
          [] ch = "MEMBER" -> {Price("MEMBER_ENTITLEMENT", k, k, 0) : k \in CashNights \cap 0..n}
          [] ch = "WECOM" -> {WecomPrice(n, t) : t \in ({n} \cup Targets) \ {0}}
          [] OTHER -> {Price("CHANNEL_CONTRACT", n, t, 0) : t \in Targets}

(* REPRICE_ORDER: a member's order takes any amount, the others those of a  *)
(* stay change.                                                             *)
RepricePrices(ch, p) ==
    IF ch = "MEMBER"
    THEN {Price("MEMBER_ENTITLEMENT", k, t, t - k) : k \in CashNights \cap 0..Stayed(p), t \in Targets}
    ELSE StayPrices(ch, p)

(* CANCEL_ORDER, MARK_NO_SHOW and REVOKE_CHECK_IN: a typed zero.            *)
ZeroPrice(ch) ==
    Price(CASE ch = "FREE" -> "FREE" [] ch = "MEMBER" -> "MEMBER_ENTITLEMENT"
            [] ch = "WECOM" -> "POLICY" [] OTHER -> "CHANNEL_CONTRACT", 0, 0, 0)

Revision(k, price, dates) == [at |-> k, price |-> price, dates |-> dates]
Latest(o) == revisions[o][Len(revisions[o])]

(* loadCheckoutReversalPlan: the revision before the shortening that ended  *)
(* the stay, or the current one.                                            *)
UndoneShortening(l) ==
    LET k == LatestCheckout(l)
    IN  k > 1 /\ l[k - 1].type = "SHORTEN_STAY" /\ l[k - 1].command = l[k].command
RevisionBefore(o, k) == revisions[o][SelectLastInSeq(revisions[o], LAMBDA r : r.at < k)]
SourceRevision(o) ==
    IF UndoneShortening(log[o]) THEN RevisionBefore(o, LatestCheckout(log[o]) - 1) ELSE Latest(o)

(* The prices a command may write for the order it leaves with plan p.      *)
PricesOf(c, ch, p) ==
    CASE c.op = "REVOKE_CHECK_OUT" -> {SourceRevision(c.s).price}
      [] c.op \in {"CANCEL_ORDER", "MARK_NO_SHOW", "REVOKE_CHECK_IN"} -> {ZeroPrice(ch)}
      [] c.op \in {"CHECK_IN", "CHECK_OUT", "COMPLETE_STAY"} -> {ZeroPrice(ch)}
      [] c.op = "CREATE_ORDER" ->
           {price \in StayPrices(ch, p) : ch \in External => price.amount > 0}
      [] OTHER -> StayPrices(ch, p)

-----------------------------------------------------------------------------
(* Commands on one order. *)

(* Nothing but a correction of guests may follow the checkout.              *)
Revocable(o) ==
    /\ LatestCheckout(log[o]) = Len(log[o])
    /\ SourceRevision(o).dates = <<Arrival(undo[o]), Departure(undo[o])>>

(* insertRevision, for the amendments of a command that change the price.   *)
RevisionsWithOldDates(o, price) ==
    LET new == {k \in (Len(log[o]) + 1)..Len(log'[o]) : log'[o][k].type \in RequiredRevisionTypes}
    IN  IF new = {} THEN revisions[o]
        ELSE LET k == Min(new)
                 before == IF plan[o] = {} THEN plan'[o] ELSE plan[o]
             IN  Append(revisions[o], Revision(k, price, <<Arrival(before), Departure(before)>>))
RevisionsAfter(o, price) ==
    LET new == {k \in (Len(log[o]) + 1)..Len(log'[o]) : log'[o][k].type \in RequiredRevisionTypes}
    IN  IF new = {} THEN revisions[o]
        ELSE LET k == Min(new) IN Append(revisions[o], Revision(k, price, log'[o][k].dates))

OrderCommand(c, ch) ==
    /\ c.op = "REVOKE_CHECK_OUT" => status[c.s] = "CHECKED_OUT" /\ Revocable(c.s)
    /\ Command(c)
    /\ channel' = [channel EXCEPT ![c.s] = ch]
    /\ \E price \in PricesOf(c, ch, plan'[c.s]) :
           revisions' = [revisions EXCEPT ![c.s] = RevisionsAfter(c.s, price)]

(* canRepriceOrder *)
CanReprice(o) ==
    \/ status[o] \in {"RESERVED", "CHECKED_IN"}
    \/ status[o] = "CHECKED_OUT" /\ channel[o] \in External

RepriceAmendment(o) ==
    [StatusAmendment(Len(log[o]) + 1, "REPRICE_ORDER", "none", "none", plan[o], 0, 0) EXCEPT
        !.dates = <<Arrival(plan[o]), Departure(plan[o])>>]

RepriceOrder(o) ==
    /\ confirmed < MaxCommands
    /\ confirmed' = confirmed + 1
    /\ CanReprice(o)
    /\ log' = [log EXCEPT ![o] = Append(@, RepriceAmendment(o))]
    /\ \E price \in RepricePrices(channel[o], plan[o]) :
           revisions' = [revisions EXCEPT ![o] = RevisionsAfter(o, price)]
    /\ UNCHANGED <<today, dataVars, pc, cmd, began, lockVars, out, channel>>

-----------------------------------------------------------------------------
(* CORRECT_HISTORICAL_STAY_ARRANGEMENTS: a set of completed stays gets a    *)
(* final arrangement each, all at once.                                     *)

Overlapping(p, q) == \E m \in p, k \in q : m[2] = k[2] /\ Conflicting(m[1], k[1])
SameKind(u, v) == (u = RoomOf[u]) = (v = RoomOf[v])
SingleUnit(p) == \A m, k \in p : m[1] = k[1]
(* No coverage item was ever written for the order.                         *)
Uncovered(o) ==
    channel[o] = "MEMBER" =>
        \A i \in DOMAIN revisions[o] :
            revisions[o][i].price.base = revisions[o][i].dates[2] - revisions[o][i].dates[1]

Correctable(o, p) ==
    /\ status[o] = "CHECKED_OUT"
    /\ SingleUnit(plan[o])
    /\ SameKind(LastUnit(plan[o]), LastUnit(p))
    /\ Departure(p) <= today
    /\ Uncovered(o)
    /\ p # plan[o]

(* The nights of all claims a stay ever had: each arrangement claims its     *)
(* nights, and a claim that is released stays in inventory_claims.          *)
ClaimedNow(o) == claims[o]
ClaimedEver(o) == UNION {log[o][k].timeline : k \in DOMAIN log[o]}

(* assertFinalSetHasNoInternalConflicts, assertNoActiveInventoryConflicts   *)
(* and assertNoOutsideCompletedConflicts, which looks for completed stays   *)
(* among the claims of the room and compares their arrangements.            *)
Candidate(z, p) == status[z] = "CHECKED_OUT" /\ DaysOf(ClaimedEver(z)) \cap DaysOf(p) # {}
NoConflicts(S, target) ==
    /\ \A o, z \in S : o # z => ~Overlapping(target[o], target[z])
    /\ \A o \in S, z \in Sources : ~Overlapping(target[o], claims[z])
    /\ \A o \in S, z \in Orders \ S : Candidate(z, target[o]) => ~Overlapping(target[o], plan[z])

CorrectionAmendment(o, p) ==
    StayAmendment(Len(log[o]) + 1, "CORRECT_HISTORICAL_STAY_ARRANGEMENT", WholeStayRun(p), p)

(* insertCopiedPricingRevision                                              *)
CopiedRevision(o, p) ==
    Revision(Len(log[o]) + 1, Latest(o).price, <<Arrival(p), Departure(p)>>)

(* The new nights are claimed and released at once: the log keeps them.     *)
CorrectHistory(S, target) ==
    /\ confirmed < MaxCommands
    /\ confirmed' = confirmed + 1
    /\ \A o \in S : Correctable(o, target[o])
    /\ NoConflicts(S, target)
    /\ plan' = [s \in Sources |-> IF s \in S THEN target[s] ELSE plan[s]]
    /\ undo' = [s \in Sources |-> IF s \in S THEN target[s] ELSE undo[s]]
    /\ log' = [o \in Orders |-> IF o \in S THEN Append(log[o], CorrectionAmendment(o, target[o]))
                                ELSE log[o]]
    /\ revisions' = [o \in Orders |-> IF o \in S THEN Append(revisions[o], CopiedRevision(o, target[o]))
                                      ELSE revisions[o]]
    /\ UNCHANGED <<today, status, claims, slot, pc, cmd, began, lockVars, out, channel>>

Stays == {Interval(u, a, d) : u \in Units, a \in Dates, d \in Dates} \ {{}}
Completed == {o \in Orders : status[o] = "CHECKED_OUT"}

ViewNextDay == HistoryNextDay /\ UNCHANGED <<channel, revisions>>

ViewNext ==
    \/ \E op \in Commands : \E c \in Requests(op) :
          \E ch \in IF op = "CREATE_ORDER" THEN Channels ELSE {channel[c.s]} : OrderCommand(c, ch)
    \/ \E o \in Orders : RepriceOrder(o)
    \/ \E S \in SUBSET Completed \ {{}} : \E target \in [S -> Stays] : CorrectHistory(S, target)
    \/ ViewNextDay

ViewSpec == ViewInit /\ [][ViewNext]_viewVars

-----------------------------------------------------------------------------
(* orderAllowedActions, for a subject that holds every grant.               *)

EnabledByStatus(op) ==
    CASE op \in {"CHECK_IN", "COMPLETE_STAY", "RESCHEDULE_STAY", "CANCEL_ORDER", "MARK_NO_SHOW"} ->
           {"RESERVED"}
      [] op \in {"CHECK_OUT", "SHORTEN_STAY", "EXTEND_STAY", "REVOKE_CHECK_IN"} -> {"CHECKED_IN"}
      [] op = "MOVE_UNIT" -> {"RESERVED", "CHECKED_IN"}
      [] OTHER -> {"CHECKED_OUT"}
FulfilmentAllowsOnDeparture(op, st, a, d) ==
    CASE op = "CHECK_IN" -> a <= today /\ today <= d
      [] op \in {"CHECK_OUT", "COMPLETE_STAY"} -> d <= today
      [] op = "SHORTEN_STAY" -> a < today /\ today < d
      [] op = "MOVE_UNIT" -> IF st = "RESERVED" THEN today <= a ELSE today < d
      [] op = "MARK_NO_SHOW" -> a <= today
      [] op = "REVOKE_CHECK_IN" -> today = a
      [] OTHER -> TRUE
FulfilmentAllows(op, st, a, d) ==
    CASE op = "CHECK_IN" -> a <= today /\ today < d
      [] op \in {"CHECK_OUT", "COMPLETE_STAY"} -> d <= today
      [] op = "SHORTEN_STAY" -> a < today /\ today < d
      [] op = "MOVE_UNIT" -> IF st = "RESERVED" THEN today <= a ELSE today < d
      [] op = "MARK_NO_SHOW" -> a <= today
      [] op = "REVOKE_CHECK_IN" -> today = a
      [] OTHER -> TRUE
Enabled(o, op) ==
    /\ status[o] \in EnabledByStatus(op)
    /\ FulfilmentAllows(op, status[o], Arrival(plan[o]), Departure(plan[o]))

(* buildCommandEffect accepts some input of the command, and the nights it  *)
(* needs are available.                                                     *)
Accepted(o, op) ==
    /\ op = "REVOKE_CHECK_OUT" => Revocable(o)
    /\ \E c \in Requests(op) :
          LET r == BuildEffect(c, today)
          IN  /\ c.s = o /\ c.a < c.d /\ Lockable(c) /\ r.ok
              /\ \A m \in r.need : UnitAvailable(o, m, r.use, today)

-----------------------------------------------------------------------------
(* assertOrderView: the facts of a view against each other.                 *)

UnitAt(p, e) == IF e \in Arrival(p)..(Departure(p) - 1) THEN UnitOn(p, e) ELSE "none"
SameTimeline(p, q, a, d) == \A e \in a..(d - 1) : UnitAt(p, e) = UnitAt(q, e)
FollowsReschedule(b, p) ==
    \A e \in Arrival(p)..(Departure(p) - 1) :
        UnitAt(p, e) = IF Stayed(b) = Stayed(p) THEN UnitAt(b, Arrival(b) + (e - Arrival(p)))
                       ELSE IF e < Arrival(b) THEN UnitAt(b, Arrival(b))
                       ELSE IF e >= Departure(b) THEN LastUnit(b) ELSE UnitAt(b, e)
(* isSingleSuffixMove and isSingleSuffixExtension.                          *)
Changed(b, p, d) == {e \in Arrival(b)..(d - 1) : UnitAt(b, e) # UnitAt(p, e)}
OneUnitFrom(p, x) == \A e \in x..(Departure(p) - 1) : UnitAt(p, e) = UnitAt(p, x)
SuffixMove(b, p) ==
    LET ch == Changed(b, p, Departure(b)) IN ch # {} /\ OneUnitFrom(p, Min(ch))
SuffixExtension(b, p) ==
    LET ch == Changed(b, p, Departure(p))
    IN  /\ ch # {}
        /\ IF Min(ch) = Departure(b) THEN UnitAt(p, Min(ch)) = LastUnit(b) ELSE OneUnitFrom(p, Min(ch))

(* validateArrangementChange *)
ChangeAccepted(type, b, p) ==
    CASE type = "CREATE_ORDER" -> b = {}
      [] type = "CORRECT_HISTORICAL_STAY_ARRANGEMENT" -> b # p
      [] type = "RESCHEDULE_STAY" ->
           <<Arrival(b), Departure(b)>> # <<Arrival(p), Departure(p)>> /\ FollowsReschedule(b, p)
      [] type = "EXTEND_STAY" ->
           Arrival(b) = Arrival(p) /\ Departure(p) > Departure(b) /\ SuffixExtension(b, p)
      [] type = "REVOKE_CHECK_OUT" ->
           /\ Arrival(b) = Arrival(p) /\ Departure(p) >= Departure(b)
           /\ SameTimeline(b, p, Arrival(b), Departure(b))
      [] type = "SHORTEN_STAY" ->
           /\ Arrival(b) = Arrival(p) /\ Departure(p) < Departure(b)
           /\ SameTimeline(b, p, Arrival(b), Departure(p))
      [] OTHER ->
           /\ <<Arrival(b), Departure(b)>> = <<Arrival(p), Departure(p)>>
           /\ SuffixMove(b, p)

(* The arrangement in force after k amendments.                             *)
ArrangementAfterFirst(o, k) == Replay(SubSeq(log[o], 1, k)).plan
HistoryItems(o) == {k \in DOMAIN log[o] : log[o][k].segment # NoSegment}
HistoryAccepted(o) ==
    \A k \in HistoryItems(o) :
        ChangeAccepted(log[o][k].type, ArrangementAfterFirst(o, k - 1), ArrangementAfterFirst(o, k))

(* arrangementAtFulfillment: the one before the first correction after it.  *)
ArrangementAt(o, k) ==
    LET later == {j \in HistoryItems(o) : j > k /\ log[o][j].type = "CORRECT_HISTORICAL_STAY_ARRANGEMENT"}
    IN  IF later = {} THEN plan[o] ELSE ArrangementAfterFirst(o, Min(later) - 1)
FulfilmentFits(o) ==
    \A k \in DOMAIN log[o] :
        LET a == log[o][k]
        IN  /\ a.type \in {"CHECK_IN", "REVOKE_CHECK_IN"} => a.effective = Arrival(ArrangementAt(o, k))
            /\ k = Replay(log[o]).checkout => a.effective = Departure(ArrangementAt(o, k))

LifecycleType(st) ==
    CASE st = "CANCELLED" -> "CANCEL_ORDER" [] st = "NO_SHOW" -> "MARK_NO_SHOW"
      [] st = "CHECK_IN_REVOKED" -> "REVOKE_CHECK_IN" [] OTHER -> "none"
RevisionType(o, i) == log[o][revisions[o][i].at].type
StandaloneReprice(o, i) == i > 1 /\ RevisionType(o, i) = "REPRICE_ORDER"
MemberReprice(o, i) ==
    LET price == revisions[o][i].price
    IN  /\ StandaloneReprice(o, i) /\ channel[o] = "MEMBER"
        /\ price.basis = "MEMBER_ENTITLEMENT" /\ price.manual = price.amount - price.base
ManualFits(o, i) ==
    LET price == revisions[o][i].price
    IN  CASE price.basis = "MANUAL_ADJUSTMENT" -> price.manual = price.amount - price.base
          [] price.basis = "MEMBER_ENTITLEMENT" -> price.manual = 0 \/ MemberReprice(o, i)
          [] OTHER -> price.manual = 0

(* The amount of the last arrangement change is the current one, unless the *)
(* latest revision repriced the order or ended it at zero.                  *)
AmountExplained(o) ==
    LET i == Len(revisions[o])
        price == Latest(o).price
        shown == RevisionBefore(o, Max(HistoryItems(o)) + 1).price.amount
    IN  \/ shown = price.amount
        \/ IF price.basis = "MEMBER_ENTITLEMENT" THEN MemberReprice(o, i)
           ELSE /\ channel[o] # "MEMBER" /\ StandaloneReprice(o, i)
                /\ \/ price.basis = "MANUAL_ADJUSTMENT"
                   \/ price.basis = "CHANNEL_CONTRACT" /\ channel[o] \in External
                   \/ price.basis = "POLICY" /\ price.base = price.amount
        \/ i > 1 /\ price.amount = 0 /\ RevisionType(o, i) = LifecycleType(status[o])

RevisionsAccepted(o) ==
    /\ \A i \in DOMAIN revisions[o] : ManualFits(o, i)
    /\ Latest(o).dates = <<Arrival(plan[o]), Departure(plan[o])>>
    /\ AmountExplained(o)

(* Enabled actions that the page does not believe.                          *)
DateOrLifecycle(st) ==
    CASE st = "RESERVED" -> {"RESCHEDULE_STAY", "CANCEL_ORDER", "MARK_NO_SHOW"}
      [] st = "CHECKED_IN" -> {"EXTEND_STAY", "SHORTEN_STAY", "REVOKE_CHECK_IN"}
      [] st = "CHECKED_OUT" -> {"REVOKE_CHECK_OUT"}
      [] OTHER -> {}
ActionsFit(o) ==
    /\ \A op \in UNION {DateOrLifecycle(st) : st \in {"RESERVED", "CHECKED_IN", "CHECKED_OUT"}} :
          Enabled(o, op) => op \in DateOrLifecycle(status[o])
    /\ Enabled(o, "MOVE_UNIT") =>
          \/ status[o] = "RESERVED" /\ today <= Arrival(plan[o])
          \/ status[o] = "CHECKED_IN" /\ today < Departure(plan[o])

(* projectOrderLifecycle, for the revisions: one for each amendment that    *)
(* prices the order, in their order, with the dates it had then.            *)
RevisionChain(o) ==
    /\ [i \in DOMAIN revisions[o] |-> revisions[o][i].at] =
           SetToSortSeq({k \in DOMAIN log[o] : log[o][k].type \in RequiredRevisionTypes}, <)
    /\ \A i \in DOMAIN revisions[o] :
          LET r == revisions[o][i]
              p == ArrangementAfterFirst(o, r.at)
          IN  /\ r.dates = <<Arrival(p), Departure(p)>>
              /\ log[o][r.at].type \in {"CANCEL_ORDER", "MARK_NO_SHOW", "REVOKE_CHECK_IN"} =>
                    r.price.base = 0 /\ r.price.amount = 0

PageAccepts(o) ==
    /\ LifecycleProjected(o)
    /\ RevisionChain(o)
    /\ ActionsFit(o)
    /\ HistoryAccepted(o)
    /\ FulfilmentFits(o)
    /\ RevisionsAccepted(o)

-----------------------------------------------------------------------------
(* Properties. *)

Known(o) == status[o] # "none"
Bases == {"POLICY", "MANUAL_ADJUSTMENT", "CHANNEL_CONTRACT", "MEMBER_ENTITLEMENT", "FREE"}

(* Every order is of a known kind, and every revision belongs to an         *)
(* amendment and carries an amount that is not negative.                    *)
ViewTypeOK ==
    /\ channel \in [Orders -> Channels \cup {"none"}]
    /\ \A o \in Orders : \A i \in DOMAIN revisions[o] :
          LET r == revisions[o][i]
          IN  /\ r.at \in DOMAIN log[o]
              /\ r.price.basis \in Bases
              /\ r.price.base \in Nat /\ r.price.amount \in Nat /\ r.price.manual \in Int
              /\ r.dates \in Dates \X (1..(Horizon + 1))

(* A checkout that nothing followed can be revoked: a pricing revision with *)
(* the dates of the arrangement to restore is always found, also when the   *)
(* stay was repriced, shortened, revoked and shortened again before.        *)
ReversalHasAPrice ==
    \A o \in Orders :
        status[o] = "CHECKED_OUT" /\ LatestCheckout(log[o]) = Len(log[o]) => Revocable(o)

(* A member's manual price copied by another command than a repricing.      *)
CopiedMemberPrice(o) ==
    \E i \in DOMAIN revisions[o] :
        /\ revisions[o][i].price.basis = "MEMBER_ENTITLEMENT" /\ revisions[o][i].price.manual # 0
        /\ RevisionType(o, i) # "REPRICE_ORDER"

(* "The view fails closed": the page of an order can always be shown.       *)
(* Whatever was moved, shortened, revoked, repriced or corrected, the       *)
(* server can replay the order and the browser, which derives the dates,    *)
(* units, amounts and actions again, refuses none of its facts; but for a   *)
(* member's manual price that a revocation or a correction has copied,      *)
(* which the browser does not expect.  A checkout that nothing followed can *)
(* be revoked: the page finds the price to restore.                         *)
OrderPageOpens ==
    /\ \A o \in Orders : Known(o) /\ ~CopiedMemberPrice(o) => PageAccepts(o)
    /\ ReversalHasAPrice

(* What the page does not look at when it offers an action.                 *)
GuestBeforeStays(o, op) == op = "CHECK_IN" /\ AwaitingCheckout(o, UnitOn(plan[o], today), today)
FollowedCheckout(o, op) == op = "REVOKE_CHECK_OUT" /\ LatestCheckout(log[o]) # Len(log[o])
Held(o, m, use) == ~UnitAvailable(o, m, use, today)
NightsHeld(o, op) ==
    LET p == plan[o]
        last == LastUnit(p)
    IN  CASE op = "EXTEND_STAY" ->
               \E e \in Departure(p)..Max({Departure(p), today}) :
                   e = Horizon \/ Held(o, <<last, e>>, "LODGING_NIGHTS")
          [] op = "RESCHEDULE_STAY" ->
               \A e \in today..(Horizon - 1) :
                   <<last, e>> \in p \/ Held(o, <<last, e>>, "LODGING_NIGHTS")
          [] op = "MOVE_UNIT" ->
               \A u \in Units \ {last} : Held(o, <<u, Departure(p) - 1>>, "PHYSICAL_USE")
          [] op = "REVOKE_CHECK_OUT" ->
               \E m \in ReversalChecks(undo[o], today) : Held(o, m, "PHYSICAL_USE")
          [] OTHER -> FALSE

(* The page and the server decide by different code (orders.ts,             *)
(* orderAllowedActions; effects.ts, buildCommandEffect).  A command the     *)
(* server would accept for an order is offered on its page, and an action   *)
(* that is offered has an input the server accepts, with three exceptions   *)
(* the page does not look at.  GuestBeforeStays: the guest before is still  *)
(* in the room.  NightsHeld: another stay holds the next night of an        *)
(* extension, every night of a new date, the last night in every other      *)
(* unit, or a night a revoked checkout restores (or the dates of the model  *)
(* end).  FollowedCheckout: the page offers REVOKE_CHECK_OUT for every      *)
(* completed stay, and checkout-reversal.ts refuses it once a repricing or  *)
(* a correction of the stay followed the checkout.                          *)
OfferedIsAccepted ==
    \A o \in Orders, op \in Commands \cap OrderCommands : Known(o) =>
        /\ Accepted(o, op) => Enabled(o, op)
        /\ Enabled(o, op) =>
              Accepted(o, op) \/ GuestBeforeStays(o, op) \/ NightsHeld(o, op) \/ FollowedCheckout(o, op)

InBooks(o) == status[o] \in {"RESERVED", "CHECKED_IN", "CHECKED_OUT"}
Gained(o) == (plan'[o] \ plan[o]) \cup (claims'[o] \ claims[o])
LastType(o) == IF log[o] = <<>> THEN "none" ELSE log[o][Len(log[o])].type

(* A night that a stay gains belongs to no other stay of the books, be it   *)
(* reserved, in house or completed and its claims released: not in a        *)
(* backfill, a move, a new date, nor in a correction of several completed   *)
(* stays, the second of the same stays included.  Two commands look at      *)
(* active claims alone and may take past nights that another stay has       *)
(* completed: a revoked checkout (checkout-reversal.ts:135) and the         *)
(* extension of an overdue stay.                                            *)
GainedNightsAreFree ==
    [][\A o \in Orders : InBooks(o)' =>
          \A z \in Orders \ {o} : InBooks(z)' /\ Overlapping(Gained(o), plan'[z]) =>
              /\ status'[z] = "CHECKED_OUT"
              /\ \/ LastType(o)' = "REVOKE_CHECK_OUT"
                 \/ LastType(o)' = "EXTEND_STAY" /\ Departure(plan[o]) < today]_viewVars
=============================================================================
