----------------------------- MODULE RoomStatus -----------------------------
(***************************************************************************)
(* The room-status board: packages/db/src/room-status.ts builds it, in one *)
(* read-only REPEATABLE READ transaction, from orders, histories, claims,  *)
(* maintenance locks and the room catalog; the web's assertRoomStatusBoard *)
(* (apps/web/src/room-status/roomStatusValidation.ts) accepts or refuses   *)
(* it as a whole.  Retiring a room is room-catalog.ts.                     *)
(*                                                                         *)
(* An event is what one source says of one unit on one date.  Labels,      *)
(* guests, references, filters, pages and the statistics are left out, and *)
(* so are the sources a release no longer writes (internal use, cleaning). *)
(***************************************************************************)
EXTENDS StayHistory

CONSTANT Damages        \* kinds of stored damage the board has to survive

ASSUME DamageAssumption == Damages \subseteq {"money", "source"}

VARIABLES
    owing,      \* orders whose contract amount exceeds what was collected
    damaged,    \* what of an order's stored data cannot be accounted for
    retired     \* rooms of the catalog that are not active

boardVars == <<historyVars, owing, damaged, retired>>

BoardInit ==
    /\ HistoryInit
    /\ owing = {}
    /\ damaged = [o \in Orders |-> "no"]
    /\ retired = {}

-----------------------------------------------------------------------------
(* Steps. *)

(* loadInventoryUnit refuses a unit of a retired room.                      *)
StayCommand(c) ==
    /\ Command(c)
    /\ \A m \in BuildEffect(c, today).need : RoomOf[m[1]] \notin retired
    /\ UNCHANGED <<owing, damaged, retired>>

(* A price, a collection, a refund or a reversal changes what is owed.      *)
MoneyChanges(o) ==
    /\ status[o] # "none"
    /\ owing' = IF o \in owing THEN owing \ {o} ELSE owing \cup {o}
    /\ UNCHANGED <<historyVars, damaged, retired>>

(* Stored rows that contradict each other: a money chain or the metadata of *)
(* the booking source.                                                      *)
StoredDamage(o, k) ==
    /\ status[o] # "none"
    /\ damaged[o] = "no"
    /\ damaged' = [damaged EXCEPT ![o] = k]
    /\ UNCHANGED <<historyVars, owing, retired>>

(* assertRoomsUnused *)
RoomUnused(r) ==
    /\ \A s \in Sources : \A m \in claims[s] : RoomOf[m[1]] # r
    /\ \A o \in Orders : status[o] \in {"RESERVED", "CHECKED_IN"} =>
          \A k \in DOMAIN log[o] : log[o][k].segment # NoSegment => RoomOf[log[o][k].segment.unit] # r
    /\ \A m \in Maintenances : status[m] = "ACTIVE" => \A k \in plan[m] : RoomOf[k[1]] # r

(* MANAGE_ROOM_CATALOG: SET_ROOM_ACTIVE false, or its whole type.           *)
RetireRoom(r) ==
    /\ r \notin retired
    /\ RoomUnused(r)
    /\ retired' = retired \cup {r}
    /\ UNCHANGED <<historyVars, owing, damaged>>

BoardNextDay == HistoryNextDay /\ UNCHANGED <<owing, damaged, retired>>

BoardNext ==
    \/ \E op \in Commands : \E c \in Requests(op) : StayCommand(c)
    \/ \E o \in Orders : MoneyChanges(o) \/ \E k \in Damages : StoredDamage(o, k)
    \/ \E r \in Rooms : RetireRoom(r)
    \/ BoardNextDay

BoardSpec == BoardInit /\ [][BoardNext]_boardVars

-----------------------------------------------------------------------------
(* What the sources say. *)

Beds(r) == {u \in Units : u # r /\ RoomOf[u] = r}
ShownUnits == {u \in Units : RoomOf[u] \notin retired}
ShownRooms == ShownUnits \cap Rooms

ArrivalOf(o) == Arrival(plan[o])
DepartureOf(o) == Departure(plan[o])
Covered(o) == ArrivalOf(o) <= today /\ today < DepartureOf(o)
DueOut(o) == status[o] = "CHECKED_IN" /\ DepartureOf(o) = today
SourceDamaged(o) == damaged[o] = "source"
RunEnd(p, d) ==
    1 + Min({e \in d..(Departure(p) - 1) : /\ UnitOn(p, e) = UnitOn(p, d)
                                           /\ e = Departure(p) - 1 \/ UnitOn(p, e + 1) # UnitOn(p, d)})

(* operationalAttentionForOrder *)
OperationalAttention(o) ==
    IF status[o] = "RESERVED" /\ ArrivalOf(o) < today THEN "OVERDUE_RESERVED"
    ELSE IF status[o] = "CHECKED_IN" /\ DepartureOf(o) < today THEN "OVERDUE_IN_HOUSE"
    ELSE IF DueOut(o) THEN "DUE_OUT" ELSE "none"

LodgingStatus(o) == IF status[o] = "CHECKED_IN" THEN "IN_HOUSE" ELSE "RESERVED"

(* The stays of the day: RESERVED or CHECKED_IN, arrived or due.            *)
Operational == {o \in Orders : status[o] \in {"RESERVED", "CHECKED_IN"} /\ ArrivalOf(o) <= today}
ClaimedToday(o) == \E m \in claims[o] : m[2] = today
MissingClaim(o) == Covered(o) /\ ~ClaimedToday(o)

TaskKind(o) ==
    IF MissingClaim(o) THEN "EXCEPTION"
    ELSE IF status[o] = "RESERVED" THEN IF ArrivalOf(o) = today THEN "ARRIVAL" ELSE "EXCEPTION"
    ELSE IF DueOut(o) THEN "DEPARTURE"
    ELSE IF DepartureOf(o) < today THEN "EXCEPTION" ELSE "IN_HOUSE"

(* The latest segment that covers today, or the last segment.               *)
TaskUnit(o) ==
    LET segs == SelectSeq(log[o], LAMBDA a : a.segment # NoSegment)
        k == SelectLastInSeq(segs, LAMBDA a : a.segment.arrival <= today /\ today < a.segment.departure)
    IN  segs[IF k = 0 THEN Len(segs) ELSE k].segment.unit

TaskEvent(o) ==
    LET shown == ~MissingClaim(o) /\ ~SourceDamaged(o)
        blocks == DueOut(o) \/ Covered(o)
    IN  [unit |-> TaskUnit(o), date |-> today, source |-> <<"task", o>>, order |-> o, kind |-> "ORDER",
         status |-> IF shown THEN LodgingStatus(o) ELSE "UNKNOWN",
         attention |-> "none",
         operational |-> IF shown THEN OperationalAttention(o) ELSE "none",
         blocking |-> blocks, current |-> TRUE,
         fact |-> IF DueOut(o) /\ ~SourceDamaged(o) THEN "DUE_OUT"
                  ELSE IF ClaimedToday(o) THEN "CLAIM" ELSE IF blocks THEN "LODGING_ORDER" ELSE "none",
         claim |-> ClaimedToday(o) /\ ~DueOut(o),
         start |-> ArrivalOf(o), end |-> DepartureOf(o)]

TaskSeeds == {o \in Operational : ~MissingClaim(o) /\ ~SourceDamaged(o)}

(* The lifecycle or the money of an active stay cannot be accounted for.    *)
Unaccountable(o) == damaged[o] = "money" \/ ~LifecycleProjected(o)

(* projectActiveArrearsEvent; a task looks at today only, the grid at the   *)
(* nights from today on.                                                    *)
WithArrears(e, task) ==
    LET within == e.start <= e.date /\ e.date < e.end
        inScope == IF task THEN e.date = today ELSE e.date >= today /\ within
    IN  IF e.status \notin {"RESERVED", "IN_HOUSE"} \/ ~inScope THEN e
        ELSE IF Unaccountable(e.order)
             THEN [e EXCEPT !.status = "UNKNOWN", !.attention = "none", !.operational = "none"]
        ELSE IF within \/ e.status = "IN_HOUSE"
             THEN [e EXCEPT !.attention = IF e.order \in owing THEN "ARREARS" ELSE "none"]
        ELSE e

(* A damaged departure keeps the unit blocked on the day.                   *)
SyntheticEvents ==
    {[TaskEvent(o) EXCEPT !.start = today, !.end = today + 1, !.source = <<"departure", o>>] :
        o \in {o \in Operational : DueOut(o) /\ (SourceDamaged(o) \/ (o \in TaskSeeds /\ Unaccountable(o)))}}
    \cup {[TaskEvent(o) EXCEPT !.source = <<"missing", o>>] : o \in {o \in Operational : MissingClaim(o)}}

ClaimAttentionKept(o) == OperationalAttention(o)
ClaimAttention(o) == IF OperationalAttention(o) = "DUE_OUT" THEN "none" ELSE OperationalAttention(o)
ClaimEvent(o, m) ==
    LET run == RunStart(plan[o], m[2])
    IN  [unit |-> m[1], date |-> m[2], source |-> <<"stay", o, run>>, order |-> o, kind |-> "ORDER",
         status |-> IF SourceDamaged(o) THEN "UNKNOWN" ELSE LodgingStatus(o),
         attention |-> "none",
         operational |-> IF SourceDamaged(o) THEN "none" ELSE ClaimAttention(o),
         blocking |-> TRUE, current |-> TRUE, fact |-> "CLAIM", claim |-> TRUE,
         start |-> run, end |-> RunEnd(plan[o], m[2])]
ClaimEvents == UNION {{ClaimEvent(o, m) : m \in claims[o]} : o \in Orders}

(* The nights a completed stay is shown on: its last arrangement, or, when  *)
(* its history cannot be replayed, the latest claim of each date.           *)
LatestUnit(o, d) ==
    LET k == SelectLastInSeq(log[o], LAMBDA a : \E m \in a.timeline : m[2] = d)
    IN  UnitOn(log[o][k].timeline, d)
ClaimedNights(o) ==
    {<<LatestUnit(o, d), d>> : d \in {m[2] : m \in UNION {log[o][k].timeline : k \in DOMAIN log[o]}}}
CompletedNights(o) ==
    {m \in IF Unaccountable(o) THEN ClaimedNights(o) ELSE plan[o] : m[2] < today}
CompletedStatus(o) ==
    IF damaged[o] # "no" \/ Unaccountable(o) THEN "UNKNOWN" ELSE IF o \in owing THEN "ARREARS" ELSE "SETTLED"
NightRun(p, d) ==
    CHOOSE r \in (1..d) \X (d..Horizon) :
        /\ \A e \in r[1]..r[2] : \E m \in p : m[2] = e /\ m[1] = UnitOn(p, d)
        /\ ~\E m \in p : m[1] = UnitOn(p, d) /\ m[2] \in {r[1] - 1, r[2] + 1}
CompletedEvent(o, m) ==
    LET run == NightRun(CompletedNights(o), m[2])
    IN  [unit |-> m[1], date |-> m[2], source |-> <<"completed", o, run[1]>>, order |-> o, kind |-> "ORDER",
         status |-> CompletedStatus(o),
         attention |-> IF CompletedStatus(o) = "ARREARS" THEN "ARREARS" ELSE "none",
         operational |-> "none", blocking |-> FALSE, current |-> FALSE, fact |-> "none",
         claim |-> CompletedStatus(o) # "UNKNOWN", start |-> run[1], end |-> run[2] + 1]
CompletedEvents ==
    UNION {{CompletedEvent(o, m) : m \in CompletedNights(o)} : o \in {o \in Orders : status[o] = "CHECKED_OUT"}}

MaintenanceEvents ==
    UNION {{[unit |-> m[1], date |-> m[2], source |-> <<"maintenance", l>>, order |-> "none",
             kind |-> "MAINTENANCE", status |-> "MAINTENANCE", attention |-> "none",
             operational |-> "none", blocking |-> TRUE, current |-> TRUE, fact |-> "CLAIM",
             claim |-> TRUE, start |-> Arrival(plan[l]), end |-> Departure(plan[l])] :
            m \in claims[l]} : l \in Maintenances}

Events ==
    {WithArrears(e, FALSE) : e \in SyntheticEvents \cup ClaimEvents}
    \cup CompletedEvents \cup MaintenanceEvents

Unsellable(u) ==
    [unit |-> u, date |-> today, source |-> <<"unsellable", u>>, order |-> "none",
     kind |-> "UNIT_UNSELLABLE", status |-> "UNAVAILABLE", attention |-> "none",
     operational |-> "none", blocking |-> TRUE, current |-> TRUE, fact |-> "UNIT_UNSELLABLE",
     claim |-> FALSE, start |-> today, end |-> today + 1]

-----------------------------------------------------------------------------
(* The board. *)

(* A fact about a bed also shows on its room, one about a room on its beds. *)
Display(e) == {u \in ShownUnits : e.unit \in ShownUnits /\ (u = e.unit \/ Conflicting(u, e.unit))}

(* buildIntervals: a run of dates on which one source says the same thing.  *)
ForgetDate(e) == [e EXCEPT !.date = 0]
Intervals(E, u) ==
    LET shown == {e \in E : u \in Display(e)}
        Dated(e) == {f.date : f \in {f \in shown : ForgetDate(f) = ForgetDate(e)}}
        From(e) == Min({d \in Dated(e) : d <= e.date /\ d..e.date \subseteq Dated(e)})
        To(e) == 1 + Max({d \in Dated(e) : d >= e.date /\ e.date..d \subseteq Dated(e)})
    IN  {[say |-> ForgetDate(e), from |-> From(e), to |-> To(e)] : e \in shown}
IntervalAvailable(i) == i.say.status # "UNKNOWN" /\ ~i.say.blocking

OnDay(I, d) == {i \in I : i.from <= d /\ d < i.to}

(* assembleUnit: a shown unit is available unless something blocks it or is *)
(* not known, from today on.                                                *)
DayAvailable(I, d) ==
    d >= today /\ \A i \in OnDay(I, d) : ~i.say.blocking /\ i.say.status # "UNKNOWN"

(* buildBedSlotStates *)
BedFacts(E, u, d) ==
    {<<e.kind, e.source, e.status, e.blocking>> : e \in {e \in E : e.date = d /\ e.unit \in {u, RoomOf[u]}}}
BedSlot(E, u, d) ==
    LET facts == BedFacts(E, u, d)
    IN  IF Cardinality(facts) > 1 \/ \E f \in facts : f[3] = "UNKNOWN" THEN "UNKNOWN"
        ELSE IF facts = {} THEN "AVAILABLE" ELSE (CHOOSE f \in facts : TRUE)[3]

(* buildBedOccupancies: who lies in which bed, if that can be said.         *)
Lodges(e) ==
    /\ e.kind = "ORDER"
    /\ e.status \in {"RESERVED", "IN_HOUSE", "SETTLED", "ARREARS"}
    /\ e.blocking \/ e.status \in {"SETTLED", "ARREARS"}
BedOccupants(E, r, d) ==
    LET day == {e \in E : e.date = d /\ RoomOf[e.unit] = r}
        whole == {e \in day : e.unit = r /\ Lodges(e)}
        inBeds == {e \in day : e.unit # r /\ Lodges(e)}
        unclear == \E e \in day : e.blocking /\ e.status = "UNKNOWN"
        twice == \E e, f \in inBeds : e # f /\ (e.unit = f.unit \/ e.order = f.order)
    IN  [partial |-> unclear
                     \/ (whole # {} /\ (Cardinality(whole) > 1 \/ inBeds # {}))
                     \/ (whole = {} /\ twice),
         occupants |-> IF unclear \/ whole # {} \/ twice THEN {}
                       ELSE {<<e.unit, e.order>> : e \in inBeds}]

(* The tasks of the day, and an exception for what cannot be shown.         *)
Task(k, e) == [kind |-> k, say |-> e]
HiddenFact(e) == e.current /\ e.blocking /\ e.unit \notin ShownUnits
SeedTasks == {Task(TaskKind(o), WithArrears(TaskEvent(o), TRUE)) : o \in TaskSeeds}
ExceptionTasks(E) ==
    {Task("EXCEPTION", e) : e \in {e \in E : e.current /\
        (HiddenFact(e) \/ (e.date = today /\ (e.kind # "ORDER" \/ e.status = "UNKNOWN")))}}
Tasks(E) ==
    SeedTasks \cup ExceptionTasks(E)
    \cup {Task("EXCEPTION", Unsellable(u)) : u \in Units \ ShownUnits}

(* projectionState PARTIAL, for the window a..(b-1).                        *)
InWindow(E, a, b) == {e \in E : a <= e.date /\ e.date < b}
Partial(E, a, b) ==
    LET G == InWindow(E, a, b)
    IN  \/ \E o \in Operational : MissingClaim(o) \/ SourceDamaged(o)
        \/ \E o \in Orders : claims[o] # {} /\ Unaccountable(o)
              /\ (o \in TaskSeeds \/ \E m \in claims[o] : m[2] >= today /\ (m[2] = today \/ m[2] \in a..(b - 1)))
        \/ \E o \in Orders : \E m \in claims[o] : SourceDamaged(o) /\ (m[2] = today \/ m[2] \in a..(b - 1))
        \/ \E e \in G : e.status = "UNKNOWN"
        \/ \E e \in E : HiddenFact(e) /\ (e.date = today \/ e \in G)
        \/ \E r \in ShownRooms : Beds(r) # {} /\ \E d \in a..(b - 1) :
              \/ BedOccupants(G, r, d).partial
              \/ \E u \in Beds(r) : BedSlot(G, u, d) = "UNKNOWN"

-----------------------------------------------------------------------------
(* assertRoomStatusBoard, in the browser. *)

IsLodging(e) == e.kind = "ORDER"
OrderArrives(e) == ArrivalOf(e.order)
OrderDeparts(e) == DepartureOf(e.order)

(* assertInterval and assertConflict, for an interval of the grid or for a  *)
(* task, whose dates are those of its source.                               *)
AttentionFits(e, from, grid) ==
    /\ e.status = "ARREARS" => e.attention = "ARREARS"
    /\ e.attention = "ARREARS" =>
          /\ e.kind = "ORDER" /\ e.status \in {"RESERVED", "IN_HOUSE", "ARREARS"}
          /\ grid /\ e.status # "ARREARS" => from >= today
          /\ grid /\ e.status = "ARREARS" => e.end <= today
OperationalFits(e) ==
    /\ e.operational = "OVERDUE_RESERVED" => e.status = "RESERVED" /\ OrderArrives(e) < today
    /\ e.operational = "OVERDUE_IN_HOUSE" => e.status = "IN_HOUSE" /\ e.end < today
    /\ e.operational = "DUE_OUT" => e.status = "IN_HOUSE" /\ OrderDeparts(e) = today
    /\ (e.operational = "DUE_OUT") = (e.fact = "DUE_OUT")
    /\ IsLodging(e) /\ e.status = "RESERVED" /\ OrderArrives(e) < today => e.operational = "OVERDUE_RESERVED"
ConflictFits(e) ==
    /\ e.blocking = (e.fact # "none")
    /\ e.blocking => e.claim = (e.fact = "CLAIM")
HistoricalUnknown(e) == e.status = "UNKNOWN" /\ ~e.blocking /\ e.end <= today /\ IsLodging(e)
IntervalAccepted(e, from, to, available, grid) ==
    /\ from < to /\ e.start <= from /\ to <= e.end
    /\ grid /\ IsLodging(e) /\ e.status \in {"RESERVED", "IN_HOUSE"} /\ to > today => e.blocking
    /\ e.status \in {"SETTLED", "ARREARS"} => e.end <= today
    /\ IsLodging(e) => OrderArrives(e) <= e.start
    /\ AttentionFits(e, from, grid)
    /\ OperationalFits(e)
    /\ ConflictFits(e)
    /\ available = (~HistoricalUnknown(e) /\ ~e.blocking)
    /\ e.status \in {"UNKNOWN", "UNAVAILABLE"} => ~available

(* assertOperationalTask *)
ExceptionAccepted(e) ==
    IF IsLodging(e) /\ e.status = "RESERVED"
    THEN /\ e.start < today
         /\ IF today < e.end THEN e.blocking /\ e.fact = "CLAIM" ELSE ~e.blocking
    ELSE IF IsLodging(e) /\ e.status = "IN_HOUSE"
    THEN e.end < today /\ ~e.blocking /\ ~e.claim /\ e.operational = "OVERDUE_IN_HOUSE"
    ELSE (IsLodging(e) => e.status = "UNKNOWN") /\ e.start <= today /\ today < e.end
TaskAccepted(t) ==
    LET e == t.say
    IN  /\ IntervalAccepted(e, e.start, e.end, ~e.blocking, FALSE)
        /\ CASE t.kind = "EXCEPTION" -> ExceptionAccepted(e)
             [] t.kind = "ARRIVAL" -> e.start = today /\ e.status = "RESERVED" /\ e.blocking /\ e.fact = "CLAIM"
             [] t.kind = "IN_HOUSE" -> /\ e.status = "IN_HOUSE" /\ e.blocking /\ e.fact = "CLAIM"
                                       /\ e.start <= today /\ today < e.end
             [] OTHER -> /\ e.end = today /\ e.status = "IN_HOUSE" /\ e.operational = "DUE_OUT"
                         /\ e.blocking /\ e.fact = "DUE_OUT"

(* assertUnit: bed slots and occupancies against the intervals returned.    *)
BedsAccepted(G, r, a, b, ready) ==
    LET I == Intervals(G, r)
    IN  \A d \in a..(b - 1) :
          /\ \A u \in Beds(r) :
               LET facts == {i \in OnDay(I, d) : i.say.unit \in {u, r}}
                   slotStatus == BedSlot(G, u, d)
               IN  /\ slotStatus \in {"SETTLED", "ARREARS"} => d < today
                   /\ slotStatus = "UNKNOWN" => ~ready
                   /\ IF Cardinality(facts) > 1 \/ \E i \in facts : i.say.status = "UNKNOWN"
                      THEN ~ready /\ slotStatus = "UNKNOWN"
                      ELSE IF facts # {} THEN slotStatus = (CHOOSE i \in facts : TRUE).say.status
                      ELSE ready => slotStatus = "AVAILABLE"
          /\ \A p \in BedOccupants(G, r, d).occupants :
               Cardinality({i \in OnDay(I, d) : /\ i.say.unit = p[1] /\ i.say.order = p[2]
                                                /\ i.say.blocking \/ d < today
                                                /\ i.say.status \in {"RESERVED", "IN_HOUSE", "SETTLED", "ARREARS"}}) = 1
          /\ ready => \A i \in OnDay(I, d) :
               i.say.unit # r /\ i.say.blocking /\ i.say.kind = "ORDER" /\ i.say.status \in {"RESERVED", "IN_HOUSE"} =>
                   <<i.say.unit, i.say.order>> \in BedOccupants(G, r, d).occupants

GridAccepted(E, a, b) ==
    LET G == InWindow(E, a, b)
    IN  /\ \A u \in ShownUnits : \A i \in Intervals(G, u) :
              IntervalAccepted(i.say, i.from, i.to, IntervalAvailable(i), TRUE)
        /\ \A r \in ShownRooms : Beds(r) # {} => BedsAccepted(G, r, a, b, ~Partial(E, a, b))

-----------------------------------------------------------------------------
(* Properties. *)

(* Money, damage and retired rooms concern existing orders and rooms.       *)
BoardTypeOK ==
    /\ owing \subseteq Orders
    /\ damaged \in [Orders -> {"no"} \cup Damages]
    /\ retired \subseteq Rooms
    /\ \A o \in Orders : \A k \in DOMAIN log[o] : log[o][k].command <= k

(* The board of every reachable state, for every window, passes the         *)
(* browser's own checks: the web refuses a whole board on one contradiction *)
(* between its tasks, intervals, days, bed slots and occupancies.           *)
BoardAccepted ==
    LET E == Events
    IN  /\ \A t \in Tasks(E) : TaskAccepted(t)
        /\ \A a \in Dates : \A b \in {a + 1, Horizon + 1} : GridAccepted(E, a, b)

(* A day the board offers is one a CREATE_ORDER would find available, and   *)
(* it hides no free night: from today on, for every unit that is sold and   *)
(* unless a damaged stay is due out of the room.                            *)
DamagedDeparture(u) ==
    \E o \in Orders : DueOut(o) /\ damaged[o] # "no" /\ Conflicting(TaskUnit(o), u)
AvailableMeansBookable ==
    LET E == Events
    IN  \A u \in ShownUnits :
          LET I == Intervals(E, u)
          IN  \A d \in today..Horizon :
                ~(d = today /\ DamagedDeparture(u)) =>
                    (DayAvailable(I, d) <=> UnitAvailable("none", <<u, d>>, "LODGING_NIGHTS", today))

(* A guest who should have arrived or left before today is never forgotten: *)
(* the stay blocks nothing any more, yet there is an exception task for it  *)
(* or the board says that it is incomplete.                                 *)
OverdueIsRaised ==
    LET E == Events
    IN  \A o \in Orders :
          OperationalAttention(o) \in {"OVERDUE_RESERVED", "OVERDUE_IN_HOUSE"} /\ status[o] # "none" =>
              \/ \E t \in Tasks(E) : t.kind = "EXCEPTION" /\ t.say.order = o
              \/ Partial(E, today, today + 1)

(* No stay and no maintenance lock ever blocks a room the board hides:      *)
(* rooms are retired only when nothing can claim them again.                *)
NothingHidden == \A e \in Events : ~HiddenFact(e)

(* The board is complete unless stored data is damaged or a past night was  *)
(* given out twice: no other sequence of commands makes it PARTIAL.         *)
SharedPastNight ==
    \E s, q \in Sources : s # q /\
        \E m \in plan[s], k \in plan[q] :
            /\ {status[s], status[q]} \subseteq Active \cup {"CHECKED_OUT"}
            /\ m[2] = k[2] /\ m[2] < today /\ Conflicting(m[1], k[1])
ReadyWhenSound ==
    (\A o \in Orders : damaged[o] = "no") /\ ~SharedPastNight => ~Partial(Events, 1, Horizon + 1)
=============================================================================
