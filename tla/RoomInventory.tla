--------------------------- MODULE RoomInventory ---------------------------
(***************************************************************************)
(* Rooms, beds and the stays in them: packages/db/src/inventory.ts,        *)
(* departure-day-stays.ts, commands/checkout-reversal.ts and the parts of  *)
(* commands/effects.ts and commands/apply.ts that use them.  A confirmed   *)
(* command runs in one READ COMMITTED transaction: it locks the row of its *)
(* order or maintenance lock, then the room-days it may touch in the order *)
(* of their keys, rebuilds the effect, checks availability and writes.     *)
(*                                                                         *)
(* A night is a unit and a service date.  An arrangement (the effective    *)
(* stay segments) is a set of nights.  Prices, coverage and guests are     *)
(* left out, and so are catalog changes: every unit is active.             *)
(***************************************************************************)
EXTENDS Integers, FiniteSets, FiniteSetsExt

CONSTANTS
    Orders, Maintenances,   \* orders and maintenance_locks rows
    Units, RoomOf,          \* inventory_units; a room is its own room
    Rank,                   \* position of a room's id among the sorted ids
    Horizon,                \* bound: the last date
    Transactions,           \* concurrent confirmations
    Commands,               \* command types in use
    MaxCommands,            \* bound: confirmations
    AcrossMidnight          \* may a day end while a transaction is open?

Rooms == {RoomOf[u] : u \in Units}
Dates == 1..Horizon
Nights == Units \X Dates
RoomDays == Rooms \X Dates
Sources == Orders \cup Maintenances
OrderCommands == {"RESCHEDULE_STAY", "EXTEND_STAY", "SHORTEN_STAY", "MOVE_UNIT", "CHECK_IN",
                  "CHECK_OUT", "COMPLETE_STAY", "CANCEL_ORDER", "MARK_NO_SHOW",
                  "REVOKE_CHECK_IN", "REVOKE_CHECK_OUT"}

Free == "free"              \* no claim in a day slot

ASSUME InventoryAssumption ==
    /\ Free \notin Sources
    /\ RoomOf \in [Units -> Units]
    /\ \A u \in Units : RoomOf[RoomOf[u]] = RoomOf[u]
    /\ Rank \in [Rooms -> Nat]
    /\ \A q, r \in Rooms : Rank[q] = Rank[r] => q = r
    /\ Horizon \in Nat \ {0}
    /\ Orders \cap Maintenances = {}
    /\ Commands \subseteq OrderCommands \cup
                          {"CREATE_ORDER", "LOCK_MAINTENANCE", "RELEASE_MAINTENANCE"}
    /\ MaxCommands \in Nat
    /\ AcrossMidnight \in BOOLEAN

VARIABLES
    today,      \* the property's business date
    status,     \* of an order or a maintenance lock; "none" before it exists
    plan,       \* its effective arrangement, kept after the stay has ended
    undo,       \* the arrangement a REVOKE_CHECK_OUT would restore
    claims,     \* its active inventory_claims
    slot,       \* whole_claim_id of a room, bed_claim_id of a bed, on a date
    pc, cmd,    \* where a transaction is, and its command
    began,      \* its transaction_timestamp()
    want, held, \* room-days it has yet to lock and has locked
    rows,       \* inventory_units rows it has locked FOR UPDATE
    out,        \* the effect it is about to write
    confirmed   \* counter of the bound

dataVars == <<status, plan, undo, claims, slot>>
lockVars == <<want, held, rows>>
vars == <<today, dataVars, pc, cmd, began, lockVars, out, confirmed>>

NoCommand == [op |-> "none", s |-> "none", u |-> "none", a |-> 0, d |-> 0]
NoEffect == [date |-> 0, status |-> "none", plan |-> {}, undo |-> {}, add |-> {}, release |-> {}]
Active == {"RESERVED", "CHECKED_IN", "ACTIVE"}

Init ==
    /\ today = 1
    /\ status = [s \in Sources |-> "none"]
    /\ plan = [s \in Sources |-> {}]
    /\ undo = [s \in Sources |-> {}]
    /\ claims = [s \in Sources |-> {}]
    /\ slot = [n \in Nights |-> Free]
    /\ pc = [t \in Transactions |-> "idle"]
    /\ cmd = [t \in Transactions |-> NoCommand]
    /\ began = [t \in Transactions |-> 0]
    /\ want = [t \in Transactions |-> {}]
    /\ held = [t \in Transactions |-> {}]
    /\ rows = [t \in Transactions |-> {}]
    /\ out = [t \in Transactions |-> NoEffect]
    /\ confirmed = 0

-----------------------------------------------------------------------------
(* Arrangements. *)

Interval(u, a, d) == {u} \X (a..(d - 1))
Arrival(p) == Min({n[2] : n \in p})
Departure(p) == 1 + Max({n[2] : n \in p})
UnitOn(p, d) == (CHOOSE n \in p : n[2] = d)[1]
LastUnit(p) == UnitOn(p, Departure(p) - 1)
DaysOf(p) == {<<RoomOf[n[1]], n[2]>> : n \in p}
Conflicting(u, v) == RoomOf[u] = RoomOf[v] /\ (u = v \/ u = RoomOf[u] \/ v = RoomOf[v])

(* planStayDateChangeTimeline: a pure shift moves every night; any other    *)
(* change keeps the nights that stay and extends with the unit at the edge. *)
DateChangeKeepingDates(p, a, d) ==
    {<<IF e < Arrival(p) THEN UnitOn(p, Arrival(p))
       ELSE IF e >= Departure(p) THEN LastUnit(p) ELSE UnitOn(p, e), e>> : e \in a..(d - 1)}
PlanDateChange(p, a, d) ==
    IF a - Arrival(p) = d - Departure(p)
    THEN {<<n[1], n[2] + (a - Arrival(p))>> : n \in p}
    ELSE DateChangeKeepingDates(p, a, d)

(* MOVE_UNIT: the nights from the effective date on move to the new unit.   *)
PlanMove(p, u, e) == {n \in p : n[2] < e} \cup Interval(u, e, Departure(p))

(* loadCheckoutReversalPlan: the restored nights, and the last unit on the  *)
(* days since the departure, which the guest has kept.                      *)
ReversalChecks(p, n) == p \cup Interval(LastUnit(p), Departure(p), n + 1)

-----------------------------------------------------------------------------
(* Locks. *)

Creating == {"CREATE_ORDER", "LOCK_MAINTENANCE"}
SourceRowFree(t) ==
    \A v \in Transactions \ {t} :
        cmd[v].s = cmd[t].s => pc[v] \in {"idle", "source"}

(* lockCommandResources: the room-days of a command, read under the row of  *)
(* its order or maintenance lock.                                           *)
ResourceDays(c, n) ==
    LET p == plan[c.s]
    IN  CASE c.op \in Creating -> DaysOf(Interval(c.u, c.a, c.d))
          [] c.op = "RESCHEDULE_STAY" -> DaysOf(p \cup PlanDateChange(p, c.a, c.d))
          [] c.op = "EXTEND_STAY" -> DaysOf(p \cup PlanDateChange(p, Arrival(p), c.d))
          [] c.op = "MOVE_UNIT" -> DaysOf(p \cup Interval(c.u, c.d, Departure(p)))
          [] c.op \in {"CHECK_IN", "CHECK_OUT"} ->
               DaysOf(p) \cup ({RoomOf[LastUnit(p)]} \X {Arrival(p), Departure(p)})
          [] c.op = "REVOKE_CHECK_OUT" -> DaysOf(ReversalChecks(undo[c.s], n))
          [] OTHER -> DaysOf(p)

(* The rows of inventory_units that MOVE_UNIT and REVOKE_CHECK_OUT lock.    *)
ResourceUnits(c, n) ==
    CASE c.op = "MOVE_UNIT" -> {c.u, RoomOf[c.u]}
      [] c.op = "REVOKE_CHECK_OUT" ->
           UNION {{m[1], RoomOf[m[1]]} : m \in ReversalChecks(undo[c.s], n)}
      [] OTHER -> {}

(* loadActiveStayTimeline refuses an order without active nights.           *)
Lockable(c) ==
    CASE c.op \in Creating \cup {"RELEASE_MAINTENANCE"} -> TRUE
      [] c.op = "REVOKE_CHECK_OUT" -> status[c.s] = "CHECKED_OUT"
      [] c.op = "COMPLETE_STAY" -> status[c.s] = "RESERVED"
      [] OTHER -> status[c.s] \in Active

(* lockRoomDays takes the keys `roomId:serviceDate` in sorted order.        *)
Earlier(k, l) == Rank[k[1]] < Rank[l[1]] \/ (k[1] = l[1] /\ k[2] < l[2])
NextWanted(t, k) == k \in want[t] /\ \A l \in want[t] \ {k} : Earlier(k, l)
DayIgnored(t, k) == TRUE
RoomDayFree(t, k) == \A v \in Transactions \ {t} : k \notin held[v]

(* Rows referenced by an insertion are share locked by PostgreSQL.          *)
UnitRowsFree(t, us) == \A v \in Transactions \ {t} : rows[v] \cap us = {}

End(t) ==
    /\ pc' = [pc EXCEPT ![t] = "idle"]
    /\ cmd' = [cmd EXCEPT ![t] = NoCommand]
    /\ began' = [began EXCEPT ![t] = 0]
    /\ want' = [want EXCEPT ![t] = {}]
    /\ held' = [held EXCEPT ![t] = {}]
    /\ rows' = [rows EXCEPT ![t] = {}]
    /\ out' = [out EXCEPT ![t] = NoEffect]

-----------------------------------------------------------------------------
(* Availability. *)

(* loadDepartureDayStayBlockers, for one unit.                              *)
DepartureDayStays(u, n) ==
    {o \in Orders : status[o] = "CHECKED_IN" /\ Departure(plan[o]) = n
                    /\ Conflicting(LastUnit(plan[o]), u)}

(* assertUnitAvailable: the pointers of the day, except those of the stay   *)
(* itself, and for physical use a guest who is due out.                     *)
PointersOf(u, d) ==
    {slot[<<RoomOf[u], d>>], slot[<<u, d>>]} \cup
    {slot[<<v, d>>] : v \in {v \in Units : u = RoomOf[u] /\ RoomOf[v] = u}}
UnitAvailable(s, m, use, n) ==
    /\ PointersOf(m[1], m[2]) \subseteq {Free, s}
    /\ use = "PHYSICAL_USE" /\ m[2] = n => DepartureDayStays(m[1], n) \subseteq {s}

-----------------------------------------------------------------------------
(* buildCommandEffect: what a command makes of its source on business date  *)
(* n.  `need` are the nights it has to find available.                      *)

Result(ok, st, p, need, use) ==
    [ok |-> ok, status |-> st, plan |-> p, need |-> need, use |-> use]

(* assertNoCompletedStayOverlap *)
CompletedOverlap(p) ==
    \E o \in Orders : status[o] = "CHECKED_OUT" /\
        \E m \in plan[o], k \in p : m[2] = k[2] /\ Conflicting(m[1], k[1])

(* An arrival before the business date makes the order a backfill.          *)
CreateOrder(c, n) ==
    LET p == Interval(c.u, c.a, c.d)
        st == IF c.a >= n THEN "RESERVED" ELSE IF c.d <= n THEN "CHECKED_OUT" ELSE "CHECKED_IN"
    IN  Result(c.a < n => ~CompletedOverlap(p), st, p, p, "LODGING_NIGHTS")

LockMaintenance(c, n) ==
    LET p == Interval(c.u, c.a, c.d)
    IN  Result(TRUE, "ACTIVE", p, p, "PHYSICAL_USE")

ReleaseMaintenance(c, n) ==
    Result(status[c.s] = "ACTIVE", "RELEASED", plan[c.s], {}, "PHYSICAL_USE")

RescheduleStay(c, n) ==
    LET p == plan[c.s]
        q == PlanDateChange(p, c.a, c.d)
    IN  Result(status[c.s] = "RESERVED" /\ c.a >= n /\ q # p, "RESERVED", q, q \ p, "LODGING_NIGHTS")

ExtendStay(c, n) ==
    LET p == plan[c.s]
        q == PlanDateChange(p, Arrival(p), c.d)
    IN  Result(/\ status[c.s] = "CHECKED_IN"
               /\ c.d > Departure(p)
               /\ n > Departure(p) => c.d > n,
               "CHECKED_IN", q, q \ p, "LODGING_NIGHTS")

(* A new departure today ends the stay: EARLY_CHECK_OUT.                    *)
ShortenStay(c, n) ==
    LET p == plan[c.s]
    IN  Result(/\ status[c.s] = "CHECKED_IN"
               /\ Arrival(p) < n /\ n < Departure(p)
               /\ n <= c.d /\ c.d < Departure(p),
               IF c.d = n THEN "CHECKED_OUT" ELSE "CHECKED_IN",
               {m \in p : m[2] < c.d}, {}, "PHYSICAL_USE")

MoveUnit(c, n) ==
    LET p == plan[c.s]
        q == PlanMove(p, c.u, c.d)
    IN  Result(/\ \/ status[c.s] = "RESERVED" /\ n <= Arrival(p)
                  \/ status[c.s] = "CHECKED_IN" /\ n < Departure(p) /\ n <= c.d
               /\ Arrival(p) <= c.d /\ c.d < Departure(p)
               /\ q # p,
               status[c.s], q, Interval(c.u, c.d, Departure(p)), "PHYSICAL_USE")

(* previousStayAwaitingCheckout *)
AwaitingCheckout(s, u, n) == DepartureDayStays(u, n) \ {s} # {}
CheckIn(c, n) ==
    LET p == plan[c.s]
    IN  Result(/\ status[c.s] = "RESERVED"
               /\ Arrival(p) <= n /\ n < Departure(p)
               /\ ~AwaitingCheckout(c.s, UnitOn(p, n), n),
               "CHECKED_IN", p, {}, "PHYSICAL_USE")

CheckOut(c, n) ==
    Result(status[c.s] = "CHECKED_IN" /\ n >= Departure(plan[c.s]), "CHECKED_OUT", plan[c.s], {},
           "PHYSICAL_USE")

CompleteStay(c, n) ==
    Result(status[c.s] = "RESERVED" /\ n >= Departure(plan[c.s]), "CHECKED_OUT", plan[c.s], {},
           "PHYSICAL_USE")

CancelOrder(c, n) ==
    Result(status[c.s] = "RESERVED", "CANCELLED", plan[c.s], {}, "PHYSICAL_USE")

(* On the arrival date itself only from 20:00 on, which may have struck.    *)
MarkNoShow(c, n) ==
    Result(status[c.s] = "RESERVED" /\ n >= Arrival(plan[c.s]), "NO_SHOW", plan[c.s], {},
           "PHYSICAL_USE")

RevokeCheckIn(c, n) ==
    Result(status[c.s] = "CHECKED_IN" /\ n = Arrival(plan[c.s]), "CHECK_IN_REVOKED", plan[c.s], {},
           "PHYSICAL_USE")

RevokeCheckOut(c, n) ==
    LET p == undo[c.s]
    IN  Result(status[c.s] = "CHECKED_OUT", "CHECKED_IN", p, ReversalChecks(p, n), "PHYSICAL_USE")

BuildEffect(c, n) ==
    CASE c.op = "CREATE_ORDER" -> CreateOrder(c, n)
      [] c.op = "LOCK_MAINTENANCE" -> LockMaintenance(c, n)
      [] c.op = "RELEASE_MAINTENANCE" -> ReleaseMaintenance(c, n)
      [] c.op = "RESCHEDULE_STAY" -> RescheduleStay(c, n)
      [] c.op = "EXTEND_STAY" -> ExtendStay(c, n)
      [] c.op = "SHORTEN_STAY" -> ShortenStay(c, n)
      [] c.op = "MOVE_UNIT" -> MoveUnit(c, n)
      [] c.op = "CHECK_IN" -> CheckIn(c, n)
      [] c.op = "CHECK_OUT" -> CheckOut(c, n)
      [] c.op = "COMPLETE_STAY" -> CompleteStay(c, n)
      [] c.op = "CANCEL_ORDER" -> CancelOrder(c, n)
      [] c.op = "MARK_NO_SHOW" -> MarkNoShow(c, n)
      [] c.op = "REVOKE_CHECK_IN" -> RevokeCheckIn(c, n)
      [] OTHER -> RevokeCheckOut(c, n)

(* timelinePairDiff of the active nights and the nights the source keeps;   *)
(* a checkout remembers the arrangement before it.                          *)
EffectWithoutRelease(s, r, n) ==
    [date |-> n, status |-> r.status, plan |-> r.plan, undo |-> {},
     add |-> r.plan \ claims[s], release |-> claims[s] \ r.plan]
Effect(s, r, n) ==
    LET keep == IF r.status \in Active THEN r.plan ELSE {}
    IN  [date |-> n, status |-> r.status, plan |-> r.plan,
         undo |-> IF r.status # "CHECKED_OUT" THEN {}
                  ELSE IF status[s] \in Active THEN plan[s] ELSE r.plan,
         add |-> keep \ claims[s], release |-> claims[s] \ keep]

-----------------------------------------------------------------------------
(* A confirmation starts.  The source of a new order is a fresh id.         *)
Fresh(s) == status[s] = "none" /\ \A t \in Transactions : cmd[t].s # s
Input(op, s, u, a, d) == [op |-> op, s |-> s, u |-> u, a |-> a, d |-> d]
Requests(op) ==
    CASE op = "CREATE_ORDER" ->
           {Input(op, s, u, a, d) : s \in {o \in Orders : Fresh(o)}, u \in Units, a \in Dates, d \in Dates}
      [] op = "LOCK_MAINTENANCE" ->
           {Input(op, s, u, a, d) : s \in {m \in Maintenances : Fresh(m)}, u \in Units, a \in Dates, d \in Dates}
      [] op = "RELEASE_MAINTENANCE" ->
           {Input(op, s, "none", 0, 1) : s \in {m \in Maintenances : status[m] # "none"}}
      [] op = "RESCHEDULE_STAY" ->
           {Input(op, s, "none", a, d) : s \in {o \in Orders : status[o] # "none"}, a \in Dates, d \in Dates}
      [] op \in {"EXTEND_STAY", "SHORTEN_STAY"} ->
           {Input(op, s, "none", 0, d) : s \in {o \in Orders : status[o] # "none"}, d \in Dates}
      [] op = "MOVE_UNIT" ->
           {Input(op, s, u, 0, d) : s \in {o \in Orders : status[o] # "none"}, u \in Units, d \in Dates}
      [] OTHER -> {Input(op, s, "none", 0, 1) : s \in {o \in Orders : status[o] # "none"}}

Submit(t, c) ==
    /\ pc[t] = "idle"
    /\ confirmed < MaxCommands
    /\ confirmed' = confirmed + 1
    /\ c.a < c.d
    /\ cmd' = [cmd EXCEPT ![t] = c]
    /\ began' = [began EXCEPT ![t] = today]
    /\ pc' = [pc EXCEPT ![t] = "source"]
    /\ UNCHANGED <<today, dataVars, lockVars, out>>

(* SELECT ... FOR UPDATE of the order or the maintenance lock, then the     *)
(* room-days are read off it.                                               *)
LockSource(t) ==
    /\ pc[t] = "source"
    /\ SourceRowFree(t)
    /\ IF Lockable(cmd[t])
       THEN /\ want' = [want EXCEPT ![t] = ResourceDays(cmd[t], began[t])]
            /\ pc' = [pc EXCEPT ![t] = "units"]
            /\ UNCHANGED <<cmd, began, held, rows, out>>
       ELSE End(t)
    /\ UNCHANGED <<today, dataVars, confirmed>>

LockUnits(t) ==
    /\ pc[t] = "units"
    /\ UnitRowsFree(t, ResourceUnits(cmd[t], began[t]))
    /\ rows' = [rows EXCEPT ![t] = ResourceUnits(cmd[t], began[t])]
    /\ pc' = [pc EXCEPT ![t] = "days"]
    /\ UNCHANGED <<today, dataVars, cmd, began, want, held, out, confirmed>>

LockRoomDay(t) ==
    /\ pc[t] = "days"
    /\ \E k \in want[t] :
        /\ NextWanted(t, k)
        /\ RoomDayFree(t, k)
        /\ held' = [held EXCEPT ![t] = @ \cup {k}]
        /\ want' = [want EXCEPT ![t] = @ \ {k}]
    /\ UNCHANGED <<today, dataVars, pc, cmd, began, rows, out, confirmed>>

(* CREATE_ORDER, CHECK_IN and CHECK_OUT sample the wall clock under their   *)
(* locks; the other commands use transaction_timestamp().                   *)
BusinessDate(t) ==
    IF cmd[t].op \in {"CREATE_ORDER", "CHECK_IN", "CHECK_OUT"} THEN today ELSE began[t]

(* The effect hash covers the business date, which the Preview took no      *)
(* later than the transaction began: a clock that passed midnight since is  *)
(* PREVIEW_STALE.                                                           *)
Check(t) ==
    LET n == BusinessDate(t)
        r == BuildEffect(cmd[t], n)
    IN  /\ pc[t] = "days"
        /\ want[t] = {}
        /\ IF n = began[t] /\ r.ok /\ \A m \in r.need : UnitAvailable(cmd[t].s, m, r.use, n)
           THEN /\ out' = [out EXCEPT ![t] = Effect(cmd[t].s, r, n)]
                /\ pc' = [pc EXCEPT ![t] = "apply"]
                /\ UNCHANGED <<cmd, began, lockVars>>
           ELSE End(t)
        /\ UNCHANGED <<today, dataVars, confirmed>>

(* applyCommand and the COMMIT: a new segment, releaseInventoryClaims,      *)
(* createInventoryClaims, the new state of the source.                      *)
Inserted(t) ==
    LET e == out[t]
        seg == IF e.plan = plan[cmd[t].s] /\ e.add = {} THEN {} ELSE {LastUnit(e.plan)}
        new == e.add \cup (e.plan \ plan[cmd[t].s])
    IN  seg \cup UNION {{m[1], RoomOf[m[1]]} : m \in new}

RoomSlotsAfter(s, add, release) ==
    [m \in Nights |-> IF m \in add THEN s
                      ELSE IF m \in release /\ m[1] = RoomOf[m[1]] THEN Free ELSE slot[m]]
SlotsAfter(s, add, release) ==
    [m \in Nights |-> IF m \in add THEN s ELSE IF m \in release THEN Free ELSE slot[m]]

Apply(t) ==
    LET s == cmd[t].s
        e == out[t]
    IN  /\ pc[t] = "apply"
        /\ UnitRowsFree(t, Inserted(t))
        /\ status' = [status EXCEPT ![s] = e.status]
        /\ plan' = [plan EXCEPT ![s] = e.plan]
        /\ undo' = [undo EXCEPT ![s] = e.undo]
        /\ claims' = [claims EXCEPT ![s] = (@ \ e.release) \cup e.add]
        /\ slot' = SlotsAfter(s, e.add, e.release)
        /\ End(t)
        /\ UNCHANGED <<today, confirmed>>

(* A lost connection, an interrupted command, or the victim of a deadlock.  *)
Rollback(t) ==
    /\ pc[t] # "idle"
    /\ End(t)
    /\ UNCHANGED <<today, dataVars, confirmed>>

NextDay ==
    /\ today < Horizon
    /\ AcrossMidnight \/ \A t \in Transactions : pc[t] = "idle"
    /\ today' = today + 1
    /\ UNCHANGED <<dataVars, pc, cmd, began, lockVars, out, confirmed>>

Next ==
    \/ \E t \in Transactions :
        \/ \E op \in Commands : \E c \in Requests(op) : Submit(t, c)
        \/ LockSource(t) \/ LockUnits(t) \/ LockRoomDay(t)
        \/ Check(t) \/ Apply(t) \/ Rollback(t)
    \/ NextDay

Spec == Init /\ [][Next]_vars

-----------------------------------------------------------------------------
(* Properties. *)

Statuses == Active \cup {"none", "CHECKED_OUT", "CANCELLED", "NO_SHOW", "CHECK_IN_REVOKED", "RELEASED"}

(* Every row names existing units and dates within the horizon, and every   *)
(* transaction locks existing room-days and unit rows.                      *)
TypeOK ==
    /\ today \in Dates
    /\ status \in [Sources -> Statuses]
    /\ plan \in [Sources -> SUBSET Nights]
    /\ undo \in [Sources -> SUBSET Nights]
    /\ claims \in [Sources -> SUBSET Nights]
    /\ slot \in [Nights -> Sources \cup {Free}]
    /\ pc \in [Transactions -> {"idle", "source", "units", "days", "apply"}]
    /\ want \in [Transactions -> SUBSET RoomDays]
    /\ held \in [Transactions -> SUBSET RoomDays]
    /\ rows \in [Transactions -> SUBSET Units]
    /\ began \in [Transactions -> 0..Horizon]
    /\ confirmed \in 0..MaxCommands

(* "A whole-room claim conflicts with every child-bed claim on the same     *)
(* service date; different child beds may coexist", for orders and          *)
(* maintenance alike, whatever commands ran at the same time                *)
(* (docs/architecture/invariants-and-decisions.md, 2 and 3).                *)
NoDoubleBooking ==
    \A s, z \in Sources : s # z =>
        \A m \in claims[s], k \in claims[z] : ~(m[2] = k[2] /\ Conflicting(m[1], k[1]))

(* The day-slot pointers name exactly the active claims, so that no later   *)
(* release can find a damaged pointer.                                      *)
PointersFollowClaims ==
    \A m \in Nights, s \in Sources : slot[m] = s <=> m \in claims[s]

(* The active claims of a source are its whole current arrangement, one     *)
(* unit for each date of one interval, and none once it has ended, also     *)
(* when two commands change the same order at once.                         *)
ClaimsFollowPlan ==
    \A s \in Sources :
        /\ claims[s] = IF status[s] \in Active THEN plan[s] ELSE {}
        /\ \A m, k \in plan[s] : m[2] = k[2] => m = k
        /\ \A m, k \in plan[s] : \A d \in m[2]..k[2] : \E l \in plan[s] : l[2] = d
=============================================================================
