----------------------------- MODULE Evidence -----------------------------
(***************************************************************************)
(* What a stay command shows before it is confirmed.  The server builds an *)
(* effect (commands/effects.ts) that says which nights change rooms and    *)
(* which member nights are kept, returned and charged; the web client      *)
(* (apps/web/src/ui.tsx) works these out again from the two arrangements   *)
(* and refuses to show, or to recognise the receipt of, an effect that     *)
(* does not agree.  The two sides are written here one beside the other,   *)
(* over the stays and lots of Coverage; Coverage has what the command then *)
(* does.                                                                   *)
(*                                                                         *)
(* Amounts, names, and the identities of rows are left out: both sides     *)
(* copy them.                                                              *)
(***************************************************************************)
EXTENDS Coverage

(* priceStayTimeline, calculatePricing: a consumed night stays on the unit  *)
(* where it was consumed, every other covered night is on the plan's.       *)
CoverageSet(o, q, new) ==
    [d \in (Covered(o) \cap DOMAIN q) \cup new |->
        IF d \in Consumed(o) THEN item[o][d].unit ELSE q[d]]

(* timelinePairDiff: nights on one unit before and after.                   *)
Unmoved(p, q) == {d \in DOMAIN p \cap DOMAIN q : p[d] = q[d]}

-----------------------------------------------------------------------------
(* The effects. *)

(* Coverage by night and unit, as the keys of effects.ts 2745-2757.         *)
KeptByDate(o, cs) == Covered(o) \cap DOMAIN cs
Kept(o, cs) == {d \in Covered(o) \cap DOMAIN cs : cs[d] = item[o][d].unit}

(* RESCHEDULE_STAY, EXTEND_STAY *)
DateChangeEffect(o, q, new) ==
    LET cs == CoverageSet(o, q, new)
    IN  [before |-> plan[o], after |-> q, coverage |-> cs,
         kept |-> Kept(o, cs), returned |-> Covered(o) \ Kept(o, cs),
         charged |-> DOMAIN cs \ Kept(o, cs)]

(* SHORTEN_STAY *)
RestoredNights(o, q) ==
    IF kind[o] = "converted" THEN {d \in Covered(o) \ DOMAIN q : today <= d} ELSE {}
ShortenEffect(o, q) ==
    [before |-> plan[o], after |-> q, coverage |-> CoverageSet(o, q, {}),
     current |-> Covered(o) \cap DOMAIN q, restored |-> RestoredNights(o, q),
     retained |-> (Covered(o) \ DOMAIN q) \ RestoredNights(o, q),
     early |-> Departure(q) = today]

(* MOVE_UNIT: a held night whose unit changes is released and held again.   *)
MoveEffect(o, q, e) ==
    LET cs == CoverageSet(o, q, {})
        migrated == {d \in Held(o) \cap DOMAIN cs : cs[d] # item[o][d].unit}
    IN  [before |-> plan[o], after |-> q, from |-> e, coverage |-> cs,
         actual |-> IF status[o] = "CHECKED_IN" THEN {plan[o][today]} ELSE {},
         preserved |-> (Held(o) \cap DOMAIN cs) \ migrated, migrated |-> migrated,
         consumed |-> Consumed(o), converted |-> kind[o] = "converted",
         writes |-> IF kind[o] = "converted" THEN 0 ELSE 2 * Cardinality(migrated)]

(* CANCEL_ORDER, MARK_NO_SHOW, CHECK_IN, COMPLETE_STAY and REVOKE_CHECK_IN  *)
(* count items of one state.                                                *)
TransitionCount(o, from) == Cardinality({d \in Covered(o) : item[o][d].st = from})

(* CONVERT_STAY_COLLECTIONS_TO_MEMBERSHIP *)
ConversionEffect(o) ==
    [dates |-> DOMAIN plan[o], consumed |-> Cardinality(DOMAIN plan[o]),
     remaining |-> Total - Cardinality(DOMAIN plan[o]), from |-> today, until |-> today + Validity]

(* REVOKE_CHECK_OUT *)
ReversalEffect(o, before) ==
    [before |-> plan[o], after |-> before.plan, again |-> DOMAIN before.item \ Covered(o)]

(* CREATE_ORDER of a stay that is over, or under way.                       *)
BackfillEffect(a, b) ==
    [arrival |-> a, departure |-> b, status |-> IF b <= today THEN "CHECKED_OUT" ELSE "CHECKED_IN"]

-----------------------------------------------------------------------------
(* The tests of the web client. *)

(* pricingCoverageHasEvidence: covered nights are nights of the timeline,   *)
(* on its units unless the caller lets them differ.                         *)
pricingCoverageHasEvidence(cs, q, mayDiffer) ==
    \A d \in DOMAIN cs : d \in DOMAIN q /\ (cs[d] = q[d] \/ d \in mayDiffer)

(* planBDateChangeTimeline repeats planStayDateChangeTimeline.              *)
TimelineFollows(e) == e.after = DateChange(e.before, Arrival(e.after), Departure(e.after))

dateChangePreviewHasEvidence(e, member) ==
    LET same == Unmoved(e.before, e.after)
        released == DOMAIN e.before \ same
        added == DOMAIN e.after \ same
        current == DOMAIN e.coverage
    IN  /\ TimelineFollows(e)
        /\ pricingCoverageHasEvidence(e.coverage, e.after, {})
        /\ e.kept \subseteq same /\ e.returned \subseteq released /\ e.charged \subseteq added
        /\ current = e.kept \cup e.charged /\ e.kept \cap e.charged = {}
        /\ e.returned \cap current \subseteq released \cap added
        /\ member \/ current \cup e.returned = {}

shortenPreviewHasEvidence(e, member) ==
    /\ TimelineFollows(e)
    /\ Departure(e.after) < Departure(e.before)
    /\ e.early = (Departure(e.after) = today) /\ today <= Departure(e.after)
    /\ pricingCoverageHasEvidence(e.coverage, e.after, IF member THEN DOMAIN e.after ELSE {})
    /\ e.restored # {} => e.restored = DOMAIN e.before \ DOMAIN e.after
    /\ DOMAIN e.coverage = e.current
    /\ e.current \subseteq DOMAIN e.after /\ e.retained \cap DOMAIN e.after = {}
    /\ member \/ e.current \cup e.retained = {}

moveUnitPreviewHasEvidence(e, member) ==
    LET same == Unmoved(e.before, e.after)
        u == e.after[Departure(e.after) - 1]
    IN  /\ DOMAIN e.before = DOMAIN e.after /\ e.from \in DOMAIN e.before
        /\ \A d \in DOMAIN e.after : e.after[d] = IF d < e.from THEN e.before[d] ELSE u
        /\ e.after # e.before
        /\ IF e.actual = {}
           THEN today <= Arrival(e.before)
           ELSE today \in DOMAIN e.before /\ e.actual = {e.before[today]} /\ today <= e.from
        /\ pricingCoverageHasEvidence(e.coverage, e.after, e.consumed)
        /\ \A d \in DOMAIN e.coverage \cap e.consumed : e.converted \/ e.coverage[d] = e.before[d]
        /\ DOMAIN e.coverage = e.preserved \cup e.migrated \cup e.consumed
        /\ e.consumed \cap (e.preserved \cup e.migrated) = {}
        /\ e.preserved \subseteq same /\ e.migrated \cap same = {}
        /\ IF e.converted THEN member /\ e.migrated = {} /\ e.writes = 0
                          ELSE e.writes = 2 * Cardinality(e.migrated)
        /\ member \/ DOMAIN e.coverage \cup e.consumed = {}

conversionPreviewHasEvidence(e) ==
    /\ e.consumed = Cardinality(e.dates) /\ e.consumed >= 1
    /\ e.remaining >= 0 /\ e.consumed + e.remaining = Total
    /\ e.from < e.until

checkoutReversalPreviewHasEvidence(e) ==
    /\ Arrival(e.before) = Arrival(e.after) /\ Departure(e.before) <= Departure(e.after)
    /\ e.again \subseteq DOMAIN e.after

completedStayBackfillPreviewHasEvidence(e) ==
    \/ e.departure <= today /\ e.status = "CHECKED_OUT"
    \/ e.arrival < today /\ today < e.departure /\ e.status = "CHECKED_IN"

(* The entitlement rows of a commit's receipt: an item released or restored *)
(* writes one, an item newly held one, an item on another unit both.        *)
Rows(o) ==
    LET moved == {d \in Covered(o) \cap DOMAIN item'[o] : item'[o][d].unit # item[o][d].unit}
    IN  Cardinality(Covered(o) \ DOMAIN item'[o]) + Cardinality(DOMAIN item'[o] \ Covered(o))
          + 2 * Cardinality(moved)

(* The receipt has the effect again, the rows, and the status reached.      *)
dateChangeReceiptHasEvidence(e, st, rows) ==
    /\ rows = Cardinality(e.restored)
    /\ st = IF e.early THEN "CHECKED_OUT" ELSE "CHECKED_IN"
moveUnitReceiptHasEvidence(e, rows) ==
    /\ rows = e.writes
    /\ e.converted => e.migrated = {} /\ rows = 0
orderLifecycleExpectedTransition ==
    {[from |-> "RESERVED", to |-> "CANCELLED", nights |-> "HELD"],
     [from |-> "RESERVED", to |-> "NO_SHOW", nights |-> "HELD"],
     [from |-> "CHECKED_IN", to |-> "CHECK_IN_REVOKED", nights |-> "CONSUMED"]}

-----------------------------------------------------------------------------
(* The commands of a step, recognised by the stay they change: what they    *)
(* ask for is what the stay then has.                                       *)
Touched(o) == <<status[o], kind[o], plan[o], item[o]>> # <<status'[o], kind'[o], plan'[o], item'[o]>>
Change(o) == <<status[o], DOMAIN plan'[o] = DOMAIN plan[o], plan'[o] = plan[o]>>
Reschedules(o) ==
    /\ Change(o) = <<"RESERVED", FALSE, FALSE>>
    /\ RescheduleStay(o, Arrival(plan'[o]), Departure(plan'[o]))
Extends(o) ==
    /\ Change(o) = <<"CHECKED_IN", FALSE, FALSE>>
    /\ ExtendStay(o, Departure(plan'[o]))
Shortens(o) ==
    /\ Change(o) = <<"CHECKED_IN", FALSE, FALSE>>
    /\ ShortenStay(o, Departure(plan'[o]))
Moves(o, e) ==
    /\ DOMAIN plan'[o] = DOMAIN plan[o] /\ plan'[o] # plan[o]
    /\ MoveUnit(o, plan'[o][Departure(plan[o]) - 1], e)
Reprices(o) == plan'[o] = plan[o] /\ item'[o] # item[o] /\ RefreshCoverage(o)

(* The coverage the server allocates for a change of dates or a new price.  *)
NewForReschedule(o, q) == Allocate(o, DOMAIN q, Cardinality(Reallocatable(o, q)))
NewForExtension(o, q) == Allocate(o, DOMAIN q \ DOMAIN plan[o], 0)

(* Every command a step takes with stay o has been shown.                   *)
Shown(o) ==
    LET q == plan'[o]
        member == kind[o] # "cash"
    IN  /\ Reschedules(o) =>
             dateChangePreviewHasEvidence(DateChangeEffect(o, q, NewForReschedule(o, q)), member)
        /\ Extends(o) =>
             dateChangePreviewHasEvidence(DateChangeEffect(o, q, NewForExtension(o, q)), member)
        /\ Shortens(o) => shortenPreviewHasEvidence(ShortenEffect(o, q), member)
        /\ \A e \in DOMAIN q :
             Moves(o, e) => moveUnitPreviewHasEvidence(MoveEffect(o, q, e), member)
        /\ Reprices(o) =>
             pricingCoverageHasEvidence(CoverageSet(o, q, Allocate(o, DOMAIN q, 0)), q, {})
        /\ kind[o] = "cash" /\ kind'[o] = "converted" => conversionPreviewHasEvidence(ConversionEffect(o))
        /\ status[o] = "CHECKED_OUT" /\ status'[o] = "CHECKED_IN" =>
             \E before \in undo[o] : checkoutReversalPreviewHasEvidence(ReversalEffect(o, before))
        /\ status[o] = "none" /\ status'[o] \in {"CHECKED_IN", "CHECKED_OUT"} =>
             completedStayBackfillPreviewHasEvidence(BackfillEffect(Arrival(q), Departure(q)))
-----------------------------------------------------------------------------
(* Covered nights are nights of the plan, on its units.  A move of a guest  *)
(* in house, or a shortening, ends this: consumed nights stay behind.       *)
Aligned(o) == \A d \in Covered(o) : d \in DOMAIN plan[o] /\ item[o][d].unit = plan[o][d]

(* A rescheduled stay in which a night that keeps its unit is paid by the   *)
(* lot from now on, with a night that another date has given back.          *)
PaysForAnOldNight(o) ==
    Reschedules(o) /\ \E d \in Unmoved(plan[o], plan'[o]) : d \in DOMAIN item'[o] \ Covered(o)

(* The client shows every command the server would carry out for a stay     *)
(* whose member nights are where the plan has them; it refuses only stays   *)
(* with nights left behind by a move or a shortening (u1PreviewHasBusiness- *)
(* Evidence), and the rescheduling above.                                   *)
AlignedStepIsShown ==
    \A o \in Orders : Touched(o) /\ Aligned(o) /\ ~PaysForAnOldNight(o) => Shown(o)

(* A commit moves the nights its effect has announced: the lot is charged   *)
(* for what was said to be charged and returned, no night more, the items   *)
(* are on the nights and units that were shown, and the receipt with the    *)
(* rows the commit has written is recognised (receiptHasCommandEvidence).   *)
SummaryOfStepIsTrue ==
    \A o \in Orders : Touched(o) =>
         LET q == plan'[o]
             spent == (available + gone) - (available' + gone')
             Moved(e) == /\ spent = Cardinality(e.charged) - Cardinality(e.returned)
                         /\ DOMAIN item'[o] = DOMAIN e.coverage
                         /\ \A d \in DOMAIN item'[o] : item'[o][d].unit = e.coverage[d]
         IN  /\ Reschedules(o) => Moved(DateChangeEffect(o, q, NewForReschedule(o, q)))
             /\ Extends(o) => Moved(DateChangeEffect(o, q, NewForExtension(o, q)))
             /\ Shortens(o) => LET e == ShortenEffect(o, q)
                               IN  /\ dateChangeReceiptHasEvidence(e, status'[o], Rows(o))
                                   /\ spent = -Cardinality(e.restored)
                                   /\ DOMAIN item'[o] = e.current \cup e.retained
             /\ \A e \in DOMAIN q :
                  Moves(o, e) =>
                     /\ moveUnitReceiptHasEvidence(MoveEffect(o, q, e), Rows(o))
                     /\ spent = 0
                     /\ \A d \in DOMAIN item'[o] :
                          d \in DOMAIN q => item'[o][d].unit = MoveEffect(o, q, e).coverage[d]
             /\ \A t \in orderLifecycleExpectedTransition :
                  <<status[o], status'[o]>> = <<t.from, t.to>> => spent = -TransitionCount(o, t.nights)
             /\ status[o] = "RESERVED" /\ status'[o] \in {"CHECKED_IN", "CHECKED_OUT"} =>
                  Cardinality({d \in DOMAIN item'[o] : item'[o][d].st = "CONSUMED"})
                    = TransitionCount(o, "HELD")
             /\ kind[o] = "cash" /\ kind'[o] = "converted" =>
                  available' = ConversionEffect(o).remaining
             /\ status[o] = "CHECKED_OUT" /\ status'[o] = "CHECKED_IN" =>
                  \E before \in undo[o] : spent = Cardinality(ReversalEffect(o, before).again)

=============================================================================
