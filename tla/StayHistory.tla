---------------------------- MODULE StayHistory ----------------------------
(***************************************************************************)
(* The immutable history of an order and what is read back from it:        *)
(* packages/db/src/orders.ts (projectOrderLifecycle and its helpers),      *)
(* commands/checkout-reversal.ts and the amendments commands/apply.ts      *)
(* appends.  Orders, claims and availability are those of RoomInventory;   *)
(* a confirmed command is one step here, since RoomInventory shows that    *)
(* commands on the same rooms serialize.                                   *)
(*                                                                         *)
(* An amendment carries the stay segment and the dates of the pricing      *)
(* revision written with it.  Prices, guests and wording are left out.     *)
(***************************************************************************)
EXTENDS RoomInventory, SequencesExt

VARIABLE log    \* the amendments of an order, by sequence

historyVars == <<vars, log>>

HistoryInit == Init /\ log = [o \in Orders |-> <<>>]

-----------------------------------------------------------------------------
(* What a command appends. *)

NoSegment == [unit |-> "none", arrival |-> 0, departure |-> 0]
Segment(u, a, d) == [unit |-> u, arrival |-> a, departure |-> d]

(* The first night of the run of nights on one unit that contains date e.   *)
RunStart(p, e) ==
    Max({f \in Arrival(p)..e : /\ UnitOn(p, f) = UnitOn(p, e)
                               /\ f = Arrival(p) \/ UnitOn(p, f - 1) # UnitOn(p, e)})

(* trailingTimelineRun: the last run of nights on one unit.                 *)
WholeStayRun(p) == Segment(LastUnit(p), Arrival(p), Departure(p))
TrailingRun(p) ==
    Segment(LastUnit(p), RunStart(p, Departure(p) - 1), Departure(p))

(* A status amendment: the dates of its fulfilment fact, and of a pricing   *)
(* revision when the transition prices the order at zero.  The first        *)
(* sequence a command appends stands for its command_id.                    *)
StatusAmendment(id, type, from, to, p, eff, n) ==
    [type |-> type, from |-> from, to |-> to, segment |-> NoSegment, timeline |-> {},
     dates |-> IF type \in {"CANCEL_ORDER", "MARK_NO_SHOW", "REVOKE_CHECK_IN"}
               THEN <<Arrival(p), Departure(p)>> ELSE <<>>,
     effective |-> eff, recorded |-> n, checkout |-> 0, command |-> id]
(* An arrangement amendment: a stay segment, the timeline, a revision.      *)
StayAmendment(id, type, seg, p) ==
    [type |-> type, from |-> "none", to |-> "none", segment |-> seg, timeline |-> p,
     dates |-> <<Arrival(p), Departure(p)>>, effective |-> 0, recorded |-> 0,
     checkout |-> 0, command |-> id]

CheckInFact(id, p, n) ==
    StatusAmendment(id, "CHECK_IN", "RESERVED", "CHECKED_IN", p, Arrival(p), n)
CheckOutFact(id, p, n) ==
    StatusAmendment(id, "CHECK_OUT", "CHECKED_IN", "CHECKED_OUT", p, Departure(p), n)

LatestCheckout(l) == SelectLastInSeq(l, LAMBDA a : a.type = "CHECK_OUT")

(* applyCommand, appendAmendment and insertRevision.                        *)
CreateOrderAmendments(id, c, r, n) ==
    <<StayAmendment(id, c.op, Segment(c.u, c.a, c.d), r.plan)>>
    \o (IF r.status = "RESERVED" THEN <<>> ELSE <<CheckInFact(id, r.plan, n)>>)
    \o (IF r.status = "CHECKED_OUT" THEN <<CheckOutFact(id, r.plan, n)>> ELSE <<>>)

(* A shortening that ends the stay appends the checkout too.                *)
ShortenAmendments(id, c, r, n) ==
    <<StayAmendment(id, c.op, TrailingRun(r.plan), r.plan)>>
    \o (IF r.status = "CHECKED_OUT" THEN <<CheckOutFact(id, r.plan, n)>> ELSE <<>>)

MoveAmendments(id, c, r) ==
    <<StayAmendment(id, c.op, Segment(c.u, c.d, Departure(r.plan)), r.plan)>>

RevokeCheckOutAmendments(id, c, r) ==
    <<[StayAmendment(id, c.op, TrailingRun(r.plan), r.plan) EXCEPT
        !.from = "CHECKED_OUT", !.to = "CHECKED_IN", !.checkout = LatestCheckout(log[c.s])]>>

Amendments(c, r, n) ==
    LET p == r.plan
        id == Len(log[c.s]) + 1
    IN  CASE c.op = "CREATE_ORDER" -> CreateOrderAmendments(id, c, r, n)
          [] c.op \in {"RESCHEDULE_STAY", "EXTEND_STAY"} ->
               <<StayAmendment(id, c.op, TrailingRun(p), p)>>
          [] c.op = "SHORTEN_STAY" -> ShortenAmendments(id, c, r, n)
          [] c.op = "MOVE_UNIT" -> MoveAmendments(id, c, r)
          [] c.op = "CHECK_IN" -> <<CheckInFact(id, p, n)>>
          [] c.op = "CHECK_OUT" -> <<CheckOutFact(id, p, n)>>
          [] c.op = "COMPLETE_STAY" -> <<CheckInFact(id, p, n), CheckOutFact(id, p, n)>>
          [] c.op = "REVOKE_CHECK_OUT" -> RevokeCheckOutAmendments(id, c, r)
          [] OTHER -> <<StatusAmendment(id, c.op, status[c.s], r.status, p, n, n)>>

(* A whole confirmed command.                                               *)
Command(c) ==
    LET n == today
        r == BuildEffect(c, n)
        e == Effect(c.s, r, n)
    IN  /\ confirmed < MaxCommands
        /\ c.a < c.d
        /\ Lockable(c)
        /\ r.ok
        /\ \A m \in r.need : UnitAvailable(c.s, m, r.use, n)
        /\ confirmed' = confirmed + 1
        /\ status' = [status EXCEPT ![c.s] = e.status]
        /\ plan' = [plan EXCEPT ![c.s] = e.plan]
        /\ undo' = [undo EXCEPT ![c.s] = e.undo]
        /\ claims' = [claims EXCEPT ![c.s] = (@ \ e.release) \cup e.add]
        /\ slot' = SlotsAfter(c.s, e.add, e.release)
        /\ log' = IF c.s \in Orders THEN [log EXCEPT ![c.s] = @ \o Amendments(c, r, n)] ELSE log
        /\ UNCHANGED <<today, pc, cmd, began, lockVars, out>>

HistoryNextDay == NextDay /\ UNCHANGED log

HistoryNext ==
    \/ \E op \in Commands : \E c \in Requests(op) : Command(c)
    \/ HistoryNextDay

HistorySpec == HistoryInit /\ [][HistoryNext]_historyVars

-----------------------------------------------------------------------------
(* projectOrderLifecycle: the history is replayed, and every disagreement   *)
(* is a failure.  A replay is the arrangement after each amendment, whether *)
(* all were accepted, and the fulfilment facts in force.                    *)

StaySegmentTypes == {"CREATE_ORDER", "RESCHEDULE_STAY", "EXTEND_STAY", "SHORTEN_STAY", "MOVE_UNIT",
                     "REVOKE_CHECK_OUT", "CORRECT_HISTORICAL_STAY_ARRANGEMENT"}
RequiredRevisionTypes ==
    StaySegmentTypes \cup {"REPRICE_ORDER", "CANCEL_ORDER", "MARK_NO_SHOW", "REVOKE_CHECK_IN"}

(* overlayArrangement: what stays before the segment, then the segment.     *)
Overlay(p, s) == {m \in p : m[2] < s.arrival} \cup Interval(s.unit, s.arrival, s.departure)
OverlayFits(type, p, s) ==
    /\ Arrival(p) <= s.arrival /\ s.arrival < Departure(p) /\ s.arrival < s.departure
    /\ type = "MOVE_UNIT" => s.departure = Departure(p)
    /\ type = "EXTEND_STAY" => s.departure > Departure(p)
    /\ type = "SHORTEN_STAY" => s.departure < Departure(p)

(* arrangement: consecutive nights, one unit each.                          *)
IsArrangement(p) ==
    /\ p # {}
    /\ {m[2] : m \in p} = Arrival(p)..(Departure(p) - 1)
    /\ Cardinality(p) = Departure(p) - Arrival(p)

Replaced(a) ==
    a.type \in {"RESCHEDULE_STAY", "REVOKE_CHECK_OUT", "CORRECT_HISTORICAL_STAY_ARRANGEMENT"}
ArrangementAfter(p, a) ==
    IF a.type \notin StaySegmentTypes THEN p
    ELSE IF a.type = "CREATE_ORDER" THEN Interval(a.segment.unit, a.segment.arrival, a.segment.departure)
    ELSE IF Replaced(a) THEN a.timeline
    ELSE Overlay(p, a.segment)

SegmentAccepted(p, a) ==
    LET q == ArrangementAfter(p, a)
    IN  /\ (a.segment # NoSegment) = (a.type \in StaySegmentTypes)
        /\ a.type \in StaySegmentTypes \ {"CREATE_ORDER"} =>
              /\ p # {}
              /\ ~Replaced(a) => OverlayFits(a.type, p, a.segment)
              /\ IsArrangement(q)
              /\ Replaced(a) => a.segment = TrailingRun(q)
              /\ a.timeline = q

RevisionAccepted(p, a) ==
    LET q == ArrangementAfter(p, a)
    IN  /\ (a.dates # <<>>) = (a.type \in RequiredRevisionTypes)
        /\ a.dates # <<>> => a.dates = <<Arrival(q), Departure(q)>>

(* validateLifecycleStatus *)
Transition(type) ==
    CASE type = "CREATE_ORDER" -> <<"none", "RESERVED">>
      [] type = "CHECK_IN" -> <<"RESERVED", "CHECKED_IN">>
      [] type = "CHECK_OUT" -> <<"CHECKED_IN", "CHECKED_OUT">>
      [] type = "REVOKE_CHECK_OUT" -> <<"CHECKED_OUT", "CHECKED_IN">>
      [] type = "CANCEL_ORDER" -> <<"RESERVED", "CANCELLED">>
      [] type = "MARK_NO_SHOW" -> <<"RESERVED", "NO_SHOW">>
      [] type = "REVOKE_CHECK_IN" -> <<"CHECKED_IN", "CHECK_IN_REVOKED">>
      [] OTHER -> <<>>
AfterCheckout == {"CORRECT_HISTORICAL_STAY_ARRANGEMENT", "REPRICE_ORDER"}
StatusAccepted(st, a) ==
    LET t == Transition(a.type)
    IN  IF t = <<>> THEN \/ st \in {"RESERVED", "CHECKED_IN"}
                         \/ st = "CHECKED_OUT" /\ a.type \in AfterCheckout
        ELSE st = t[1] /\ (a.type # "CREATE_ORDER" => a.from = t[1] /\ a.to = t[2])

(* projectOrderFulfillment and the timing of fulfillmentRecord.             *)
FulfilmentAccepted(f, a) ==
    /\ a.type = "CHECK_OUT" => f.checkout = 0
    /\ a.type = "REVOKE_CHECK_OUT" => f.checkout # 0 /\ a.checkout = f.checkout
    /\ a.type = "CHECK_IN" => ~f.checkedIn
    /\ a.type = "REVOKE_CHECK_IN" => ~f.revoked /\ a.recorded = a.effective
    /\ a.type \in {"CHECK_IN", "CHECK_OUT"} => a.recorded >= a.effective

NoReplay == [ok |-> TRUE, plan |-> {}, before |-> {}, status |-> "none", checkout |-> 0,
             checkedIn |-> FALSE, revoked |-> FALSE, size |-> 0]
ReplayStep(f, a) ==
    LET k == f.size + 1
        t == Transition(a.type)
    IN  [ok |-> /\ f.ok
                /\ SegmentAccepted(f.plan, a)
                /\ RevisionAccepted(f.plan, a)
                /\ StatusAccepted(f.status, a)
                /\ FulfilmentAccepted(f, a),
         plan |-> ArrangementAfter(f.plan, a),
         before |-> IF a.type \in StaySegmentTypes THEN f.plan ELSE f.before,
         status |-> IF t = <<>> THEN f.status ELSE t[2],
         checkout |-> IF a.type = "CHECK_OUT" THEN k
                      ELSE IF a.type = "REVOKE_CHECK_OUT" THEN 0 ELSE f.checkout,
         checkedIn |-> f.checkedIn \/ a.type = "CHECK_IN",
         revoked |-> f.revoked \/ a.type = "REVOKE_CHECK_IN",
         size |-> k]
Replay(l) == FoldLeft(ReplayStep, NoReplay, l)

(* The replayed facts against the rows of the order, its stay and claims.   *)
LifecycleProjected(o) ==
    LET f == Replay(log[o])
    IN  /\ f.ok
        /\ f.plan = plan[o]
        /\ f.status = status[o]
        /\ claims[o] = IF status[o] \in {"RESERVED", "CHECKED_IN"} THEN f.plan ELSE {}
        /\ f.checkedIn = (status[o] \in {"CHECKED_IN", "CHECKED_OUT", "CHECK_IN_REVOKED"})
        /\ (f.checkout # 0) = (status[o] = "CHECKED_OUT")
        /\ f.revoked = (status[o] = "CHECK_IN_REVOKED")

(* loadCheckoutReversalPlan: the arrangement before the shortening that the *)
(* same command recorded, or the one that was checked out.                  *)
ReversalArrangement(l) ==
    LET k == LatestCheckout(l)
        undone == k > 1 /\ l[k - 1].type = "SHORTEN_STAY" /\ l[k - 1].command = l[k].command
    IN  IF undone THEN Replay(SubSeq(l, 1, k - 1)).before ELSE Replay(l).plan

-----------------------------------------------------------------------------
(* Properties. *)

(* The immutable history of every order replays without a failure and ends  *)
(* in the arrangement, status and claims of its rows: an order view never   *)
(* fails with INTERNAL_ERROR after any sequence of commands, such as a      *)
(* shortening that ends the stay, its revocation and a move after it.       *)
LifecycleReplays == \A o \in Orders : status[o] # "none" => LifecycleProjected(o)

(* What a REVOKE_CHECK_OUT restores is read from the history and is the     *)
(* arrangement in force before the latest checkout, whatever shortenings,   *)
(* revocations and earlier checkouts the history holds.                     *)
ReversalFromHistory ==
    \A o \in Orders : status[o] = "CHECKED_OUT" => ReversalArrangement(log[o]) = undo[o]
=============================================================================
