------------------------ MODULE RoomInventoryProofs ------------------------
(***************************************************************************)
(* The room inventory is never booked twice, for any property: any units,   *)
(* orders and maintenance locks, any horizon and any number of              *)
(* transactions that run at the same time.                                  *)
(***************************************************************************)
EXTENDS RoomInventory, WellFoundedInduction, TLAPS

(* A nonempty set of natural numbers has a least element.                   *)
LEMMA LeastNatural ==
    ASSUME NEW S \in SUBSET Nat, S # {}
    PROVE  \E x \in S : \A y \in S : x <= y
<1> DEFINE Less == {p \in Nat \X Nat : p[1] < p[2]}
<1>1. IsWellFoundedOn(Less, Nat)
  BY NatLessThanWellFounded DEF OpToRel
<1> HIDE DEF Less
<1>2. \E x \in S : \A y \in S : ~(<<y, x>> \in Less)
  BY <1>1, WFMin, Zenon
<1>3. \A x, y \in Nat : ~(<<y, x>> \in Less) => x <= y
  BY DEF Less
<1> QED
  BY <1>2, <1>3

(* A nonempty bounded one has a greatest element too.                       *)
LEMMA GreatestNatural ==
    ASSUME NEW N \in Nat, NEW S \in SUBSET (1..N), S # {}
    PROVE  \E x \in S : \A y \in S : x >= y
<1> DEFINE T == {N - x : x \in S}
<1>0. \A x \in S : x \in Nat /\ x <= N /\ N - x \in Nat /\ N - x \in T
  OBVIOUS
<1>1. T \in SUBSET Nat /\ T # {}
  BY <1>0
<1>2. PICK z \in T : \A y \in T : z <= y
  BY <1>1, LeastNatural
<1>3. PICK x \in S : z = N - x
  OBVIOUS
<1>4. \A y \in S : x >= y
  <2> SUFFICES ASSUME NEW y \in S PROVE x >= y
    OBVIOUS
  <2>1. x \in Nat /\ y \in Nat /\ N - x <= N - y
    BY <1>0, <1>2, <1>3
  <2> HIDE DEF T
  <2> QED
    BY <2>1, Z3
<1> QED
  BY <1>4

(* What Min and Max choose from the dates of an arrangement.                *)
LEMMA MinMaxDates ==
    ASSUME NEW N \in Nat, NEW S \in SUBSET (1..N), S # {}
    PROVE  /\ Min(S) \in S /\ \A y \in S : Min(S) <= y
           /\ Max(S) \in S /\ \A y \in S : Max(S) >= y
<1>1. \E x \in S : \A y \in S : x <= y
  BY LeastNatural
<1>2. \E x \in S : \A y \in S : x >= y
  BY GreatestNatural
<1>3. Min(S) \in S /\ \A y \in S : Min(S) <= y
  BY <1>1, Zenon DEF Min
<1>4. Max(S) \in S /\ \A y \in S : Max(S) >= y
  BY <1>2, Zenon DEF Max
<1> QED
  BY <1>3, <1>4

-----------------------------------------------------------------------------
(* An arrangement is sound if it names one unit for each date of one        *)
(* interval that ends by the horizon.                                       *)
OneUnitADay(p) == \A m, k \in p : m[2] = k[2] => m = k
NoGap(p) == \A m, k \in p : \A d \in m[2]..k[2] : \E l \in p : l[2] = d
Sound(p) ==
    /\ \A n \in p : n = <<n[1], n[2]>> /\ n[1] \in Units /\ n[2] \in 1..(Horizon - 1)
    /\ OneUnitADay(p)
    /\ NoGap(p)

(* Arrival, departure and the unit of a date are those of the nights.       *)
LEMMA ArrangementDates ==
    ASSUME NEW p, Sound(p), p # {}
    PROVE  /\ Arrival(p) \in Nat /\ Arrival(p) >= 1
           /\ Departure(p) \in Nat /\ Arrival(p) < Departure(p) /\ Departure(p) <= Horizon
           /\ \A n \in p : Arrival(p) <= n[2] /\ n[2] < Departure(p)
           /\ \A d \in Arrival(p)..(Departure(p) - 1) : UnitOn(p, d) \in Units /\ <<UnitOn(p, d), d>> \in p
<1> USE InventoryAssumption
<1> DEFINE S == {n[2] : n \in p}
<1>1. S \in SUBSET (1..(Horizon - 1)) /\ S # {} /\ Horizon - 1 \in Nat
  BY DEF Sound
<1> HIDE DEF S
<1>2. /\ Min(S) \in S /\ \A y \in S : Min(S) <= y
      /\ Max(S) \in S /\ \A y \in S : Max(S) >= y
  BY <1>1, MinMaxDates
<1>3. Arrival(p) = Min(S) /\ Departure(p) = 1 + Max(S)
  BY DEF Arrival, Departure, S
<1>4. \A n \in p : n[2] \in S
  BY DEF S
<1>5. Min(S) \in 1..(Horizon - 1) /\ Max(S) \in 1..(Horizon - 1)
  BY <1>1, <1>2
<1>6. ASSUME NEW d \in Arrival(p)..(Departure(p) - 1)
      PROVE  UnitOn(p, d) \in Units /\ <<UnitOn(p, d), d>> \in p
  <2>1. PICK m \in p, k \in p : m[2] = Min(S) /\ k[2] = Max(S)
    BY <1>2, ZenonT(60) DEF S
  <2>2. d \in m[2]..k[2]
    BY <2>1, <1>3, <1>5
  <2>3. PICK l \in p : l[2] = d
    BY <2>1, <2>2 DEF Sound, NoGap
  <2>4. (CHOOSE n \in p : n[2] = d) \in p /\ (CHOOSE n \in p : n[2] = d)[2] = d
    BY <2>3, Zenon
  <2> QED
    BY <2>4 DEF UnitOn, Sound
<1>7. \A n \in p : Arrival(p) <= n[2] /\ n[2] < Departure(p)
  BY <1>2, <1>3, <1>4, <1>5 DEF Sound
<1> QED
  BY <1>2, <1>3, <1>5, <1>6, <1>7

(* The nights of one unit between two dates. *)
LEMMA IntervalSound ==
    ASSUME NEW u \in Units, NEW a \in Nat \ {0}, NEW d \in Nat, d <= Horizon
    PROVE  /\ Sound(Interval(u, a, d))
           /\ a < d => Interval(u, a, d) # {}
           /\ \A n \in Interval(u, a, d) : n[2] \in a..(d - 1) /\ n[1] = u
<1> USE InventoryAssumption
<1>1. \A n \in Interval(u, a, d) : n = <<u, n[2]>> /\ n[1] = u /\ n[2] \in a..(d - 1)
  BY DEF Interval
<1>2. \A e \in a..(d - 1) : <<u, e>> \in Interval(u, a, d) /\ <<u, e>>[2] = e
  BY DEF Interval
<1> HIDE DEF Interval
<1>3. OneUnitADay(Interval(u, a, d))
  <2> SUFFICES ASSUME NEW m \in Interval(u, a, d), NEW k \in Interval(u, a, d), m[2] = k[2] PROVE m = k
    BY DEF OneUnitADay
  <2>1. m = <<u, m[2]>> /\ k = <<u, k[2]>>
    BY <1>1
  <2> QED
    BY <2>1
<1>4. NoGap(Interval(u, a, d))
  <2> SUFFICES ASSUME NEW m \in Interval(u, a, d), NEW k \in Interval(u, a, d), NEW e \in m[2]..k[2]
               PROVE  \E l \in Interval(u, a, d) : l[2] = e
    BY DEF NoGap
  <2>1. e \in a..(d - 1)
    BY <1>1
  <2> QED
    BY <1>2, <2>1
<1>5. \A n \in Interval(u, a, d) : n = <<n[1], n[2]>> /\ n[1] \in Units /\ n[2] \in 1..(Horizon - 1)
  BY <1>1
<1>6. a < d => <<u, a>> \in Interval(u, a, d)
  BY <1>2
<1> QED
  BY <1>1, <1>3, <1>4, <1>5, <1>6 DEF Sound

(* planStayDateChangeTimeline keeps an arrangement sound. *)
LEMMA DateChangeSound ==
    ASSUME NEW p, Sound(p), p # {}, NEW a \in Dates, NEW d \in Dates, a < d
    PROVE  Sound(PlanDateChange(p, a, d)) /\ PlanDateChange(p, a, d) # {}
<1> USE InventoryAssumption
<1> DEFINE q == PlanDateChange(p, a, d)
<1> a \in Nat /\ d \in Nat /\ 1 <= a /\ d <= Horizon
  BY DEF Dates
<1>0. /\ Arrival(p) \in Nat /\ Arrival(p) >= 1
      /\ Departure(p) \in Nat /\ Arrival(p) < Departure(p) /\ Departure(p) <= Horizon
      /\ \A n \in p : Arrival(p) <= n[2] /\ n[2] < Departure(p)
      /\ \A e \in Arrival(p)..(Departure(p) - 1) : UnitOn(p, e) \in Units /\ <<UnitOn(p, e), e>> \in p
  BY ArrangementDates
<1>1. CASE a - Arrival(p) = d - Departure(p)
  <2> DEFINE k == a - Arrival(p)
  <2>0. k \in Int /\ a = Arrival(p) + k /\ d = Departure(p) + k
    BY <1>0, <1>1
  <2>1. q = {<<n[1], n[2] + k>> : n \in p}
    BY <1>1 DEF PlanDateChange
  <2> HIDE DEF q, k
  <2>2. ASSUME NEW m \in q PROVE \E n \in p : m = <<n[1], n[2] + k>> /\ n = <<n[1], n[2]>> /\ n[1] \in Units /\ n[2] \in Nat
    BY <2>1 DEF Sound
  <2>3. ASSUME NEW n \in p PROVE <<n[1], n[2] + k>> \in q
    BY <2>1
  <2>4. \A m \in q : m = <<m[1], m[2]>> /\ m[1] \in Units /\ m[2] \in 1..(Horizon - 1)
    <3> SUFFICES ASSUME NEW m \in q PROVE m = <<m[1], m[2]>> /\ m[1] \in Units /\ m[2] \in 1..(Horizon - 1)
      OBVIOUS
    <3>1. PICK n \in p : m = <<n[1], n[2] + k>> /\ n[1] \in Units /\ n[2] \in Nat
      BY <2>2
    <3>2. Arrival(p) <= n[2] /\ n[2] < Departure(p)
      BY <1>0
    <3> QED
      BY <3>1, <3>2, <2>0, <1>0
  <2>5. OneUnitADay(q)
    <3> SUFFICES ASSUME NEW m \in q, NEW l \in q, m[2] = l[2] PROVE m = l
      BY DEF OneUnitADay
    <3>1. PICK n \in p : m = <<n[1], n[2] + k>> /\ n[2] \in Nat
      BY <2>2
    <3>2. PICK o \in p : l = <<o[1], o[2] + k>> /\ o[2] \in Nat
      BY <2>2
    <3>3. n[2] = o[2]
      BY <2>0, <3>1, <3>2
    <3>4. n = o
      BY <3>3 DEF Sound, OneUnitADay
    <3> QED
      BY <3>1, <3>2, <3>4
  <2>6. NoGap(q)
    <3> SUFFICES ASSUME NEW m \in q, NEW l \in q, NEW e \in m[2]..l[2] PROVE \E x \in q : x[2] = e
      BY DEF NoGap
    <3>1. PICK n \in p : m = <<n[1], n[2] + k>> /\ n[2] \in Nat
      BY <2>2
    <3>2. PICK o \in p : l = <<o[1], o[2] + k>> /\ o[2] \in Nat
      BY <2>2
    <3>3. e - k \in n[2]..o[2] /\ e \in Int
      BY <2>0, <3>1, <3>2
    <3>4. PICK x \in p : x[2] = e - k
      BY <3>3 DEF Sound, NoGap
    <3>5. <<x[1], x[2] + k>> \in q /\ x[2] + k = e
      BY <2>0, <2>3, <3>3, <3>4
    <3> QED
      BY <3>5
  <2> QED
    BY <2>3, <2>4, <2>5, <2>6 DEF Sound, q
<1>2. CASE a - Arrival(p) # d - Departure(p)
  <2> DEFINE f(e) == IF e < Arrival(p) THEN UnitOn(p, Arrival(p))
                     ELSE IF e >= Departure(p) THEN LastUnit(p) ELSE UnitOn(p, e)
  <2>1. q = {<<f(e), e>> : e \in a..(d - 1)}
    BY <1>2 DEF PlanDateChange, DateChangeKeepingDates
  <2>2. \A e \in a..(d - 1) : f(e) \in Units
    <3>1. Arrival(p) \in Arrival(p)..(Departure(p) - 1) /\ Departure(p) - 1 \in Arrival(p)..(Departure(p) - 1)
      BY <1>0
    <3>2. UnitOn(p, Arrival(p)) \in Units /\ LastUnit(p) \in Units
      BY <1>0, <3>1, Zenon DEF LastUnit
    <3>3. \A e \in Nat : ~(e < Arrival(p)) /\ ~(e >= Departure(p)) => UnitOn(p, e) \in Units
      <4> SUFFICES ASSUME NEW e \in Nat, ~(e < Arrival(p)), ~(e >= Departure(p)) PROVE UnitOn(p, e) \in Units
        OBVIOUS
      <4>1. e \in Arrival(p)..(Departure(p) - 1)
        BY <1>0
      <4> QED
        BY <1>0, <4>1, Zenon
    <3>4. \A e \in a..(d - 1) : e \in Nat
      OBVIOUS
    <3> QED
      BY <3>2, <3>3, <3>4
  <2> HIDE DEF f, q
  <2>3. \A m \in q : m[2] \in a..(d - 1) /\ m = <<f(m[2]), m[2]>>
    BY <2>1
  <2>4. \A e \in a..(d - 1) : <<f(e), e>> \in q
    BY <2>1
  <2>5. \A m \in q : m = <<m[1], m[2]>> /\ m[1] \in Units /\ m[2] \in 1..(Horizon - 1)
    BY <2>2, <2>3
  <2>6. OneUnitADay(q)
    <3> SUFFICES ASSUME NEW m \in q, NEW k \in q, m[2] = k[2] PROVE m = k
      BY DEF OneUnitADay
    <3>1. m = <<f(m[2]), m[2]>> /\ k = <<f(k[2]), k[2]>>
      BY <2>3
    <3> QED
      BY <3>1
  <2>7. NoGap(q)
    <3> SUFFICES ASSUME NEW m \in q, NEW l \in q, NEW e \in m[2]..l[2] PROVE \E x \in q : x[2] = e
      BY DEF NoGap
    <3>1. e \in a..(d - 1)
      BY <2>3
    <3> QED
      BY <2>4, <3>1
  <2>8. <<f(a), a>> \in q
    BY <2>4
  <2> QED
    BY <2>5, <2>6, <2>7, <2>8 DEF Sound, q
<1> QED
  BY <1>1, <1>2

(* MOVE_UNIT keeps an arrangement sound.                                    *)
LEMMA MoveSound ==
    ASSUME NEW p, Sound(p), p # {}, NEW u \in Units, NEW e \in Nat,
           Arrival(p) <= e, e < Departure(p)
    PROVE  Sound(PlanMove(p, u, e)) /\ PlanMove(p, u, e) # {}
<1> USE InventoryAssumption
<1> DEFINE low == {n \in p : n[2] < e}
           high == Interval(u, e, Departure(p))
           q == PlanMove(p, u, e)
<1>0. /\ Arrival(p) \in Nat /\ Arrival(p) >= 1
      /\ Departure(p) \in Nat /\ Arrival(p) < Departure(p) /\ Departure(p) <= Horizon
      /\ \A f \in Arrival(p)..(Departure(p) - 1) : UnitOn(p, f) \in Units /\ <<UnitOn(p, f), f>> \in p
  BY ArrangementDates
<1>1. Sound(high) /\ high # {} /\ \A n \in high : n[2] \in e..(Departure(p) - 1) /\ n[1] = u
  BY <1>0, IntervalSound
<1>2. \A f \in e..(Departure(p) - 1) : <<u, f>> \in high
  BY DEF Interval
<1>3. q = low \cup high
  BY DEF PlanMove
<1>4. \A n \in low : n \in p /\ n[2] < e
  OBVIOUS
<1> HIDE DEF q, high
<1>5. \A m \in q : m = <<m[1], m[2]>> /\ m[1] \in Units /\ m[2] \in 1..(Horizon - 1)
  BY <1>1, <1>3, <1>4 DEF Sound
<1>6. OneUnitADay(q)
  <2> SUFFICES ASSUME NEW m \in q, NEW k \in q, m[2] = k[2] PROVE m = k
    BY DEF OneUnitADay
  <2>1. (m \in low /\ k \in low) \/ (m \in high /\ k \in high)
    BY <1>0, <1>1, <1>3, <1>4, <1>5
  <2> QED
    BY <2>1, <1>1 DEF Sound, OneUnitADay
<1>7. NoGap(q)
  <2> SUFFICES ASSUME NEW m \in q, NEW k \in q, NEW f \in m[2]..k[2] PROVE \E x \in q : x[2] = f
    BY DEF NoGap
  <2>1. m[2] \in Nat /\ k[2] \in Nat /\ f \in Nat
    BY <1>5
  <2>2. CASE f >= e
    <3>1. k \in high
      BY <1>3, <1>4, <2>1, <2>2
    <3>2. f \in e..(Departure(p) - 1)
      BY <3>1, <1>0, <1>1, <2>1, <2>2
    <3>3. <<u, f>> \in q /\ <<u, f>>[2] = f
      BY <3>2, <1>2, <1>3
    <3> QED
      BY <3>3
  <2>3. CASE f < e
    <3>1. m \in low
      BY <1>1, <1>3, <2>1, <2>3
    <3>2. Departure(p) - 1 \in Arrival(p)..(Departure(p) - 1)
      BY <1>0
    <3>3. PICK l \in p : l[2] = Departure(p) - 1
      BY <3>2, <1>0
    <3>4. f \in m[2]..l[2]
      BY <3>3, <2>1, <2>3, <1>0
    <3>5. PICK x \in p : x[2] = f
      BY <3>1, <3>3, <3>4 DEF Sound, NoGap
    <3> QED
      BY <3>5, <2>3, <1>3
  <2> QED
    BY <2>1, <2>2, <2>3
<1> QED
  BY <1>1, <1>3, <1>5, <1>6, <1>7 DEF Sound, q

(* So does a shortening.                                                    *)
LEMMA ShorterSound ==
    ASSUME NEW p, Sound(p), NEW d \in Nat
    PROVE  Sound({m \in p : m[2] < d})
<1> DEFINE q == {m \in p : m[2] < d}
<1>1. OneUnitADay(q)
  BY DEF Sound, OneUnitADay
<1>2. NoGap(q)
  <2> SUFFICES ASSUME NEW m \in q, NEW k \in q, NEW f \in m[2]..k[2] PROVE \E x \in q : x[2] = f
    BY DEF NoGap
  <2>1. PICK x \in p : x[2] = f
    BY DEF Sound, NoGap
  <2>2. f < d
    BY DEF Sound
  <2> QED
    BY <2>1, <2>2
<1> QED
  BY <1>1, <1>2 DEF Sound

-----------------------------------------------------------------------------
(* The inductive invariant. *)

Past == {"units", "days", "apply"}
CommandOK(c) ==
    /\ c.op \in Commands /\ c.s \in Sources
    /\ c.a \in Nat /\ c.d \in Dates /\ c.a < c.d
    /\ c.op \in Creating \cup {"RESCHEDULE_STAY"} => c.a \in Dates
    /\ c.op \in Creating \cup {"MOVE_UNIT"} => c.u \in Units

(* The data are well typed, and every open transaction has a command.       *)
Typed ==
    /\ status \in [Sources -> Statuses]
    /\ plan \in [Sources -> SUBSET Nights]
    /\ undo \in [Sources -> SUBSET Nights]
    /\ claims \in [Sources -> SUBSET Nights]
    /\ slot \in [Nights -> Sources \cup {Free}]
    /\ pc \in [Transactions -> {"idle", "source"} \cup Past]
    /\ began \in [Transactions -> Nat]
    /\ today \in Nat
    /\ DOMAIN want = Transactions /\ DOMAIN held = Transactions
    /\ DOMAIN cmd = Transactions /\ DOMAIN out = Transactions
    /\ \A t \in Transactions : pc[t] # "idle" => CommandOK(cmd[t])

(* One transaction holds the row of a source, and one a room-day.           *)
SourceRows ==
    \A t, v \in Transactions : t # v /\ pc[t] \in Past /\ pc[v] \in Past => cmd[t].s # cmd[v].s
RoomDayRows ==
    /\ \A t \in Transactions : pc[t] \notin Past => held[t] = {}
    /\ \A t, v \in Transactions : t # v => held[t] \cap held[v] = {}

(* A transaction locks the room-days of its command as they are now: nobody *)
(* changes the arrangement under its row lock.                              *)
Covered(t) ==
    pc[t] \in {"units", "days"} =>
        want[t] \cup held[t] = ResourceDays(cmd[t], began[t]) /\ Lockable(cmd[t])

PlansSound ==
    \A s \in Sources :
        /\ Sound(plan[s]) /\ Sound(undo[s])
        /\ status[s] \in Active => plan[s] # {}
        /\ status[s] = "CHECKED_OUT" => undo[s] # {}
        /\ claims[s] = IF status[s] \in Active THEN plan[s] ELSE {}

(* What a transaction is about to write: the arrangement is sound, it       *)
(* replaces the claims as they are, and the nights it adds are locked and   *)
(* still available.                                                         *)
Kept(e) == IF e.status \in Active THEN e.plan ELSE {}
EffectOK(e, s) ==
    /\ e.status \in Statuses
    /\ Sound(e.plan) /\ Sound(e.undo)
    /\ e.status \in Active => e.plan # {}
    /\ e.status = "CHECKED_OUT" => e.undo # {}
    /\ e.add = Kept(e) \ claims[s]
    /\ e.release = claims[s] \ Kept(e)
Ready(t) ==
    pc[t] = "apply" =>
        /\ EffectOK(out[t], cmd[t].s)
        /\ \A m \in out[t].add : /\ <<RoomOf[m[1]], m[2]>> \in held[t]
                                 /\ PointersOf(m[1], m[2]) \subseteq {Free, cmd[t].s}

InventoryInv ==
    /\ Typed /\ SourceRows /\ RoomDayRows /\ PlansSound
    /\ \A t \in Transactions : Covered(t) /\ Ready(t)
    /\ PointersFollowClaims /\ NoDoubleBooking

-----------------------------------------------------------------------------
(* The fields of an effect as a command builds it. *)
LEMMA ResultFields ==
    ASSUME NEW ok, NEW st, NEW p, NEW need, NEW use
    PROVE  /\ Result(ok, st, p, need, use).ok = ok
           /\ Result(ok, st, p, need, use).status = st
           /\ Result(ok, st, p, need, use).plan = p
           /\ Result(ok, st, p, need, use).need = need
  BY DEF Result

LEMMA DaysOfNights ==
    ASSUME NEW p, NEW q
    PROVE  (p \subseteq q => DaysOf(p) \subseteq DaysOf(q)) /\ \A m \in p : <<RoomOf[m[1]], m[2]>> \in DaysOf(p)
  BY DEF DaysOf

(* buildCommandEffect, command by command: the new arrangement is sound,    *)
(* and what it adds to the claims was checked and is locked.                *)
Builds(r, c, days) ==
    /\ r.status \in Statuses
    /\ Sound(r.plan)
    /\ r.status \in Active => r.plan # {}
    /\ r.status = "CHECKED_OUT" /\ status[c.s] \notin Active => r.plan # {}
    /\ Kept(r) \ claims[c.s] \subseteq r.need
    /\ DaysOf(Kept(r) \ claims[c.s]) \subseteq days

LEMMA BuildsSound ==
    ASSUME Typed, PlansSound, NEW c, CommandOK(c), Lockable(c), NEW n \in Nat,
           BuildEffect(c, n).ok
    PROVE  Builds(BuildEffect(c, n), c, ResourceDays(c, n))
<1> USE InventoryAssumption
<1> DEFINE s == c.s
           p == plan[s]
           r == BuildEffect(c, n)
<1>0. /\ s \in Sources /\ Sound(p) /\ Sound(undo[s])
      /\ status[s] \in Statuses
      /\ status[s] \in Active => p # {}
      /\ status[s] = "CHECKED_OUT" => undo[s] # {}
      /\ claims[s] = IF status[s] \in Active THEN p ELSE {}
  BY DEF Typed, PlansSound, CommandOK
<1> r.ok
  OBVIOUS
<1> SUFFICES Builds(r, c, ResourceDays(c, n))
  OBVIOUS
<1> HIDE DEF r
<1>1. CASE c.op = "CREATE_ORDER"
  <2> DEFINE q == Interval(c.u, c.a, c.d)
  <2>1. r = CreateOrder(c, n)
    BY <1>1 DEF BuildEffect, r
  <2>2. r.plan = q /\ r.need = q /\ r.status \in {"RESERVED", "CHECKED_OUT", "CHECKED_IN"}
    BY <2>1 DEF CreateOrder, Result
  <2>3. Sound(q) /\ q # {}
    BY <1>1, IntervalSound DEF CommandOK, Creating, Dates
  <2>4. ResourceDays(c, n) = DaysOf(q)
    BY <1>1 DEF ResourceDays, Creating
  <2> QED
    BY <2>2, <2>3, <2>4, DaysOfNights DEF Builds, Kept, Statuses, Active
<1>2. CASE c.op = "LOCK_MAINTENANCE"
  <2> DEFINE q == Interval(c.u, c.a, c.d)
  <2>1. r = LockMaintenance(c, n)
    BY <1>2 DEF BuildEffect, r
  <2>2. r.plan = q /\ r.need = q /\ r.status = "ACTIVE"
    BY <2>1 DEF LockMaintenance, Result
  <2>3. Sound(q) /\ q # {}
    BY <1>2, IntervalSound DEF CommandOK, Creating, Dates
  <2>4. ResourceDays(c, n) = DaysOf(q)
    BY <1>2 DEF ResourceDays, Creating
  <2> QED
    BY <2>2, <2>3, <2>4, DaysOfNights DEF Builds, Kept, Statuses, Active
<1>3. CASE c.op = "RESCHEDULE_STAY"
  <2> DEFINE q == PlanDateChange(p, c.a, c.d)
  <2>1. r = RescheduleStay(c, n)
    BY <1>3 DEF BuildEffect, r
  <2>2. r.plan = q /\ r.need = q \ p /\ r.status = "RESERVED"
    BY <2>1 DEF RescheduleStay, Result
  <2>3. status[s] = "RESERVED"
    BY <2>1 DEF RescheduleStay, Result
  <2>4. p # {} /\ claims[s] = p
    BY <2>3, <1>0 DEF Active
  <2>5. Sound(q) /\ q # {}
    BY <1>0, <1>3, <2>4, DateChangeSound DEF CommandOK, Creating
  <2>6. ResourceDays(c, n) = DaysOf(p \cup q)
    BY <1>3 DEF ResourceDays, Creating
  <2>7. DaysOf(q \ p) \subseteq DaysOf(p \cup q)
    BY DaysOfNights
  <2> HIDE DEF q
  <2> QED
    BY <2>2, <2>4, <2>5, <2>6, <2>7, SMTT(30) DEF Builds, Kept, Statuses, Active
<1>4. CASE c.op = "EXTEND_STAY"
  <2> DEFINE q == PlanDateChange(p, Arrival(p), c.d)
  <2>1. r = ExtendStay(c, n)
    BY <1>4 DEF BuildEffect, r
  <2>2. r.plan = q /\ r.need = q \ p /\ r.status = "CHECKED_IN"
    BY <2>1 DEF ExtendStay, Result
  <2>3. status[s] = "CHECKED_IN" /\ c.d > Departure(p)
    BY <2>1 DEF ExtendStay, Result
  <2>4. p # {} /\ claims[s] = p
    BY <2>3, <1>0 DEF Active
  <2>5. Arrival(p) \in Dates /\ c.d \in Dates /\ Arrival(p) < c.d
    BY <1>0, <2>3, <2>4, ArrangementDates DEF CommandOK, Dates
  <2>6. Sound(q) /\ q # {}
    BY <1>0, <2>4, <2>5, DateChangeSound
  <2>7. ResourceDays(c, n) = DaysOf(p \cup q)
    BY <1>4 DEF ResourceDays, Creating
  <2>8. DaysOf(q \ p) \subseteq DaysOf(p \cup q)
    BY DaysOfNights
  <2> HIDE DEF q
  <2>9. Kept(r) = q /\ r.status \in Statuses /\ r.status \in Active
    BY <2>2 DEF Kept, Statuses, Active
  <2>10. Kept(r) \ claims[s] = q \ p
    BY <2>4, <2>9, Zenon
  <2> HIDE DEF p, s
  <2> QED
    BY <2>2, <2>6, <2>7, <2>8, <2>9, <2>10, ZenonT(60) DEF Builds, s
<1>5. CASE c.op = "MOVE_UNIT"
  <2> DEFINE q == PlanMove(p, c.u, c.d)
             i == Interval(c.u, c.d, Departure(p))
  <2>1. r = MoveUnit(c, n)
    BY <1>5 DEF BuildEffect, r
  <2>2. r.plan = q /\ r.need = i /\ r.status = status[s]
    BY <2>1 DEF MoveUnit, Result
  <2>3. status[s] \in {"RESERVED", "CHECKED_IN"} /\ Arrival(p) <= c.d /\ c.d < Departure(p)
    BY <2>1 DEF MoveUnit, Result
  <2>4. p # {} /\ claims[s] = p
    BY <2>3, <1>0 DEF Active
  <2>5. Sound(q) /\ q # {}
    BY <1>0, <1>5, <2>3, <2>4, MoveSound DEF CommandOK, Creating, Dates
  <2>6. q \ p \subseteq i
    BY DEF PlanMove
  <2>7. ResourceDays(c, n) = DaysOf(p \cup i)
    BY <1>5 DEF ResourceDays, Creating
  <2>8. DaysOf(q \ p) \subseteq DaysOf(p \cup i)
    BY <2>6, DaysOfNights
  <2> HIDE DEF q, i
  <2> QED
    BY <2>2, <2>3, <2>4, <2>5, <2>6, <2>7, <2>8, ZenonT(60) DEF Builds, Kept, Statuses, Active
<1>6. CASE c.op = "REVOKE_CHECK_OUT"
  <2> DEFINE q == undo[s]
             k == ReversalChecks(q, n)
  <2>1. r = RevokeCheckOut(c, n)
    BY <1>6 DEF BuildEffect, r
  <2>2. r.plan = q /\ r.need = k /\ r.status = "CHECKED_IN"
    BY <2>1 DEF RevokeCheckOut, Result
  <2>3. status[s] = "CHECKED_OUT"
    BY <1>6 DEF Lockable, Creating
  <2>4. q # {} /\ claims[s] = {}
    BY <2>3, <1>0 DEF Active
  <2>5. q \subseteq k
    BY DEF ReversalChecks
  <2>6. ResourceDays(c, n) = DaysOf(k)
    BY <1>6 DEF ResourceDays, Creating
  <2>7. DaysOf(q) \subseteq DaysOf(k)
    BY <2>5, DaysOfNights
  <2> HIDE DEF q, k
  <2> QED
    BY <1>0, <2>2, <2>4, <2>5, <2>6, <2>7, SMTT(30) DEF Builds, Kept, Statuses, Active, q
(* The other commands keep a part of the arrangement. *)
<1>7. ASSUME Sound(r.plan), r.plan \subseteq p, r.plan # {}, status[s] \in Active, r.status \in Statuses
      PROVE  Builds(r, c, ResourceDays(c, n))
  <2>1. Kept(r) \ claims[s] = {}
    BY <1>0, <1>7 DEF Kept
  <2>2. DaysOf({}) = {}
    BY DEF DaysOf
  <2> QED
    BY <1>7, <2>1, <2>2 DEF Builds
<1>8. CASE c.op = "SHORTEN_STAY"
  <2> DEFINE q == {m \in p : m[2] < c.d}
  <2>1. r = ShortenStay(c, n)
    BY <1>8 DEF BuildEffect, r
  <2>2. r.plan = q /\ r.status \in {"CHECKED_IN", "CHECKED_OUT"}
    BY <2>1 DEF ShortenStay, Result
  <2>3. status[s] = "CHECKED_IN" /\ Arrival(p) < c.d
    <3>1. status[s] = "CHECKED_IN" /\ Arrival(p) < n /\ n <= c.d
      BY <2>1 DEF ShortenStay, Result
    <3>2. p # {} /\ c.d \in Nat
      BY <1>0, <3>1 DEF Active, CommandOK, Dates
    <3> QED
      BY <1>0, <3>1, <3>2, ArrangementDates
  <2>4. q # {}
    <3>1. p # {} /\ Arrival(p) \in Arrival(p)..(Departure(p) - 1)
      BY <1>0, <2>3, ArrangementDates DEF Active
    <3>2. <<UnitOn(p, Arrival(p)), Arrival(p)>> \in p
      BY <1>0, <3>1, ArrangementDates
    <3> QED
      BY <2>3, <3>2
  <2>5. Sound(q)
    BY <1>0, ShorterSound DEF CommandOK, Dates
  <2> QED
    BY <1>7, <2>2, <2>3, <2>4, <2>5 DEF Statuses, Active
<1>9. CASE c.op \in {"RELEASE_MAINTENANCE", "CHECK_IN", "CHECK_OUT", "COMPLETE_STAY", "CANCEL_ORDER",
                     "MARK_NO_SHOW", "REVOKE_CHECK_IN"}
  <2> r.plan = p /\ r.status \in Statuses /\ status[s] \in Active
    <3>1. CASE c.op = "RELEASE_MAINTENANCE"
      <4>1. r = ReleaseMaintenance(c, n)
        BY <3>1 DEF BuildEffect, r
      <4>2. r.plan = p /\ r.status \in Statuses
        BY <4>1 DEF ReleaseMaintenance, Result, Statuses
      <4>3. status[s] \in Active
        BY <4>1 DEF ReleaseMaintenance, Result, Active
      <4> QED
        BY <4>2, <4>3
    <3>2. CASE c.op = "CHECK_IN"
      <4>1. r = CheckIn(c, n)
        BY <3>2 DEF BuildEffect, r
      <4>2. r.plan = p /\ r.status \in Statuses
        BY <4>1 DEF CheckIn, Result, Statuses, Active
      <4>3. status[s] \in Active
        BY <4>1 DEF CheckIn, Result, Active
      <4> QED
        BY <4>2, <4>3
    <3>3. CASE c.op = "CHECK_OUT"
      <4>1. r = CheckOut(c, n)
        BY <3>3 DEF BuildEffect, r
      <4>2. r.plan = p /\ r.status \in Statuses
        BY <4>1 DEF CheckOut, Result, Statuses
      <4>3. status[s] \in Active
        BY <4>1 DEF CheckOut, Result, Active
      <4> QED
        BY <4>2, <4>3
    <3>4. CASE c.op = "COMPLETE_STAY"
      <4>1. r = CompleteStay(c, n)
        BY <3>4 DEF BuildEffect, r
      <4>2. r.plan = p /\ r.status \in Statuses
        BY <4>1 DEF CompleteStay, Result, Statuses
      <4>3. status[s] \in Active
        BY <4>1 DEF CompleteStay, Result, Active
      <4> QED
        BY <4>2, <4>3
    <3>5. CASE c.op = "CANCEL_ORDER"
      <4>1. r = CancelOrder(c, n)
        BY <3>5 DEF BuildEffect, r
      <4>2. r.plan = p /\ r.status \in Statuses
        BY <4>1 DEF CancelOrder, Result, Statuses
      <4>3. status[s] \in Active
        BY <4>1 DEF CancelOrder, Result, Active
      <4> QED
        BY <4>2, <4>3
    <3>6. CASE c.op = "MARK_NO_SHOW"
      <4>1. r = MarkNoShow(c, n)
        BY <3>6 DEF BuildEffect, r
      <4>2. r.plan = p /\ r.status \in Statuses
        BY <4>1 DEF MarkNoShow, Result, Statuses
      <4>3. status[s] \in Active
        BY <4>1 DEF MarkNoShow, Result, Active
      <4> QED
        BY <4>2, <4>3
    <3>7. CASE c.op = "REVOKE_CHECK_IN"
      <4>1. r = RevokeCheckIn(c, n)
        BY <3>7 DEF BuildEffect, r
      <4>2. r.plan = p /\ r.status \in Statuses
        BY <4>1 DEF RevokeCheckIn, Result, Statuses
      <4>3. status[s] \in Active
        BY <4>1 DEF RevokeCheckIn, Result, Active
      <4> QED
        BY <4>2, <4>3
    <3> QED
      BY <1>9, <3>1, <3>2, <3>3, <3>4, <3>5, <3>6, <3>7
  <2> QED
    BY <1>0, <1>7
<1> QED
  BY <1>1, <1>2, <1>3, <1>4, <1>5, <1>6, <1>8, <1>9 DEF CommandOK, OrderCommands

-----------------------------------------------------------------------------
(* Steps. *)

TxUnchanged(v) ==
    /\ pc'[v] = pc[v] /\ cmd'[v] = cmd[v] /\ began'[v] = began[v]
    /\ want'[v] = want[v] /\ held'[v] = held[v] /\ out'[v] = out[v]

(* A transaction that does not move keeps its facts while nobody writes.    *)
LEMMA OthersKept ==
    ASSUME NEW v \in Transactions, Covered(v), Ready(v), TxUnchanged(v), UNCHANGED dataVars
    PROVE  Covered(v)' /\ Ready(v)'
<1>1. Covered(v)'
  BY DEF Covered, TxUnchanged, dataVars, ResourceDays, Lockable
<1>2. Ready(v)'
  BY ZenonT(60) DEF Ready, TxUnchanged, dataVars, EffectOK, Kept, PointersOf
<1> QED
  BY <1>1, <1>2

(* The data parts of the invariant hold as long as nobody writes.           *)
LEMMA DataKept ==
    ASSUME InventoryInv, UNCHANGED dataVars
    PROVE  (PlansSound /\ PointersFollowClaims /\ NoDoubleBooking)'
  BY DEF InventoryInv, dataVars, PlansSound, PointersFollowClaims, NoDoubleBooking

(* The end of a transaction releases its locks. *)
LEMMA EndStep ==
    ASSUME InventoryInv, NEW t \in Transactions, End(t), UNCHANGED dataVars, UNCHANGED today
    PROVE  InventoryInv'
<1> USE DEF InventoryInv
<1>1. pc'[t] = "idle" /\ held'[t] = {} /\ \A v \in Transactions \ {t} : TxUnchanged(v)
  BY DEF End, Typed, TxUnchanged
<1>2. Typed'
  BY DEF Typed, End, dataVars
<1>3. SourceRows' /\ RoomDayRows'
  BY <1>1 DEF SourceRows, RoomDayRows, TxUnchanged, Past
<1>4. ASSUME NEW v \in Transactions PROVE Covered(v)' /\ Ready(v)'
  BY <1>1, OthersKept DEF Covered, Ready
<1> QED
  BY <1>2, <1>3, <1>4, DataKept

LEMMA SubmitStep ==
    ASSUME InventoryInv, NEW t \in Transactions, NEW op \in Commands, NEW c \in Requests(op), Submit(t, c)
    PROVE  InventoryInv'
<1> USE InventoryAssumption DEF InventoryInv
<1>1. /\ pc[t] = "idle" /\ pc' = [pc EXCEPT ![t] = "source"]
      /\ cmd' = [cmd EXCEPT ![t] = c] /\ began' = [began EXCEPT ![t] = today]
      /\ c.a < c.d
      /\ UNCHANGED <<today, dataVars, want, held, out>>
  BY DEF Submit, lockVars
<1>2. CommandOK(c)
  <2> USE <1>1 DEF CommandOK, Input, Creating, Dates, Sources
  <2>1. CASE op = "CREATE_ORDER"
    <3>1. PICK s \in Orders, u \in Units, a \in Dates, d \in Dates : c = Input(op, s, u, a, d)
      BY <2>1 DEF Requests
    <3> QED
      BY <2>1, <3>1
  <2>2. CASE op = "LOCK_MAINTENANCE"
    <3>1. PICK s \in Maintenances, u \in Units, a \in Dates, d \in Dates : c = Input(op, s, u, a, d)
      BY <2>2 DEF Requests
    <3> QED
      BY <2>2, <3>1
  <2>3. CASE op = "RELEASE_MAINTENANCE"
    <3>1. PICK s \in Maintenances : c = Input(op, s, "none", 0, 1)
      BY <2>3 DEF Requests
    <3> QED
      BY <2>3, <3>1
  <2>4. CASE op = "RESCHEDULE_STAY"
    <3>1. PICK s \in Orders, a \in Dates, d \in Dates : c = Input(op, s, "none", a, d)
      BY <2>4 DEF Requests
    <3> QED
      BY <2>4, <3>1
  <2>5. CASE op \in {"EXTEND_STAY", "SHORTEN_STAY"}
    <3>1. PICK s \in Orders, d \in Dates : c = Input(op, s, "none", 0, d)
      BY <2>5 DEF Requests
    <3> QED
      BY <2>5, <3>1
  <2>6. CASE op = "MOVE_UNIT"
    <3>1. PICK s \in Orders, u \in Units, d \in Dates : c = Input(op, s, u, 0, d)
      BY <2>6 DEF Requests
    <3> QED
      BY <2>6, <3>1
  <2>7. CASE op \notin {"CREATE_ORDER", "LOCK_MAINTENANCE", "RELEASE_MAINTENANCE", "RESCHEDULE_STAY",
                        "EXTEND_STAY", "SHORTEN_STAY", "MOVE_UNIT"}
    <3>1. PICK s \in Orders : c = Input(op, s, "none", 0, 1)
      BY <2>7 DEF Requests
    <3> QED
      BY <2>7, <3>1
  <2> QED
    BY <2>1, <2>2, <2>3, <2>4, <2>5, <2>6, <2>7
<1>3. /\ pc'[t] = "source" /\ held'[t] = held[t] /\ cmd'[t] = c
      /\ \A v \in Transactions \ {t} : TxUnchanged(v)
  BY <1>1 DEF Typed, TxUnchanged
<1>4. Typed'
  BY <1>1, <1>2, <1>3 DEF Typed, TxUnchanged, dataVars
<1>5. SourceRows' /\ RoomDayRows'
  BY <1>1, <1>3 DEF SourceRows, RoomDayRows, TxUnchanged, Past
<1>6. ASSUME NEW v \in Transactions PROVE Covered(v)' /\ Ready(v)'
  BY <1>1, <1>3, OthersKept DEF Covered, Ready
<1> QED
  BY <1>1, <1>4, <1>5, <1>6, DataKept

LEMMA LockSourceStep ==
    ASSUME InventoryInv, NEW t \in Transactions, LockSource(t)
    PROVE  InventoryInv'
<1> USE DEF InventoryInv
<1>1. CASE End(t)
  BY <1>1, EndStep DEF LockSource
<1>2. CASE ~End(t)
  <2>1. /\ pc[t] = "source" /\ pc' = [pc EXCEPT ![t] = "units"]
        /\ want' = [want EXCEPT ![t] = ResourceDays(cmd[t], began[t])]
        /\ Lockable(cmd[t]) /\ SourceRowFree(t)
        /\ UNCHANGED <<cmd, began, held, out, today, dataVars>>
    BY <1>2 DEF LockSource
  <2>2. /\ pc'[t] = "units" /\ want'[t] = ResourceDays(cmd[t], began[t]) /\ held'[t] = {}
        /\ \A v \in Transactions \ {t} : TxUnchanged(v)
    BY <2>1 DEF Typed, TxUnchanged, RoomDayRows, Past
  <2>3. Typed'
    BY <2>1 DEF Typed, Past, dataVars
  <2>4. SourceRows'
    BY <2>1, <2>2 DEF SourceRows, TxUnchanged, SourceRowFree, Past
  <2>5. RoomDayRows'
    BY <2>1, <2>2 DEF RoomDayRows, TxUnchanged, Past
  <2>6. Covered(t)' /\ Ready(t)'
    BY <2>1, <2>2 DEF Covered, Ready, dataVars, ResourceDays, Lockable
  <2>7. ASSUME NEW v \in Transactions \ {t} PROVE Covered(v)' /\ Ready(v)'
    BY <2>1, <2>2, OthersKept
  <2> QED
    BY <2>1, <2>3, <2>4, <2>5, <2>6, <2>7, DataKept
<1> QED
  BY <1>1, <1>2

LEMMA LockUnitsStep ==
    ASSUME InventoryInv, NEW t \in Transactions, LockUnits(t)
    PROVE  InventoryInv'
<1> USE DEF InventoryInv
<1>1. /\ pc[t] = "units" /\ pc' = [pc EXCEPT ![t] = "days"]
      /\ UNCHANGED <<cmd, began, want, held, out, today, dataVars>>
  BY DEF LockUnits
<1>2. pc'[t] = "days" /\ \A v \in Transactions \ {t} : TxUnchanged(v)
  BY <1>1 DEF Typed, TxUnchanged
<1>3. Typed'
  BY <1>1 DEF Typed, Past, dataVars
<1>4. SourceRows' /\ RoomDayRows'
  BY <1>1, <1>2 DEF SourceRows, RoomDayRows, TxUnchanged, Past
<1>5. Covered(t)' /\ Ready(t)'
  BY <1>1, <1>2 DEF Covered, Ready, dataVars, ResourceDays, Lockable
<1>6. ASSUME NEW v \in Transactions \ {t} PROVE Covered(v)' /\ Ready(v)'
  BY <1>1, <1>2, OthersKept
<1> QED
  BY <1>1, <1>3, <1>4, <1>5, <1>6, DataKept

LEMMA LockRoomDayStep ==
    ASSUME InventoryInv, NEW t \in Transactions, LockRoomDay(t)
    PROVE  InventoryInv'
<1> USE DEF InventoryInv
<1>1. /\ pc[t] = "days"
      /\ UNCHANGED <<pc, cmd, began, out, today, dataVars>>
  BY DEF LockRoomDay
<1>2. PICK k \in want[t] : /\ RoomDayFree(t, k)
                           /\ held' = [held EXCEPT ![t] = @ \cup {k}]
                           /\ want' = [want EXCEPT ![t] = @ \ {k}]
  BY DEF LockRoomDay
<1>3. /\ held'[t] = held[t] \cup {k} /\ want'[t] = want[t] \ {k}
      /\ \A v \in Transactions \ {t} : TxUnchanged(v)
  BY <1>1, <1>2 DEF Typed, TxUnchanged
<1>4. Typed'
  BY <1>1, <1>2 DEF Typed, dataVars
<1>5. SourceRows'
  BY <1>1 DEF SourceRows
<1>6. RoomDayRows'
  BY <1>1, <1>2, <1>3 DEF RoomDayRows, TxUnchanged, RoomDayFree, Past
<1>7. Covered(t)' /\ Ready(t)'
  <2>1. want'[t] \cup held'[t] = want[t] \cup held[t]
    BY <1>3
  <2> QED
    BY <1>1, <2>1 DEF Covered, Ready, dataVars, ResourceDays, Lockable
<1>8. ASSUME NEW v \in Transactions \ {t} PROVE Covered(v)' /\ Ready(v)'
  BY <1>1, <1>3, OthersKept
<1> QED
  BY <1>1, <1>4, <1>5, <1>6, <1>7, <1>8, DataKept

(* The effect that a transaction has checked under all its locks is ready.  *)
LEMMA CheckStep ==
    ASSUME InventoryInv, NEW t \in Transactions, Check(t)
    PROVE  InventoryInv'
<1> USE DEF InventoryInv
<1> DEFINE n == BusinessDate(t)
           c == cmd[t]
           r == BuildEffect(c, n)
           e == Effect(c.s, r, n)
<1>1. CASE End(t)
  BY <1>1, EndStep DEF Check
<1>2. CASE ~End(t)
  <2>1. /\ pc[t] = "days" /\ want[t] = {} /\ n = began[t] /\ r.ok
        /\ \A m \in r.need : UnitAvailable(c.s, m, r.use, n)
        /\ out' = [out EXCEPT ![t] = e]
        /\ pc' = [pc EXCEPT ![t] = "apply"]
        /\ UNCHANGED <<cmd, began, want, held, today, dataVars>>
    BY <1>2 DEF Check, lockVars
  <2>2. /\ pc'[t] = "apply" /\ out'[t] = e
        /\ \A v \in Transactions \ {t} : TxUnchanged(v)
    BY <2>1 DEF Typed, TxUnchanged
  <2>3. CommandOK(c) /\ c.s \in Sources /\ Lockable(c) /\ held[t] = ResourceDays(c, n) /\ n \in Nat
    BY <2>1 DEF Typed, Covered, CommandOK
  <2>4. Builds(r, c, held[t])
    BY <2>1, <2>3, BuildsSound
  <2> HIDE DEF n, r
  <2>5. /\ e.status = r.status /\ e.plan = r.plan
        /\ e.undo = IF r.status # "CHECKED_OUT" THEN {}
                    ELSE IF status[c.s] \in Active THEN plan[c.s] ELSE r.plan
        /\ e.add = Kept(r) \ claims[c.s] /\ e.release = claims[c.s] \ Kept(r)
        /\ Kept(e) = Kept(r)
    BY DEF Effect, Kept
  <2> HIDE DEF e
  <2>6. Sound({})
    BY DEF Sound, OneUnitADay, NoGap
  <2>7. EffectOK(e, c.s)
    BY <2>3, <2>4, <2>5, <2>6 DEF EffectOK, Builds, PlansSound
  <2>8. ASSUME NEW m \in e.add
        PROVE  <<RoomOf[m[1]], m[2]>> \in held[t] /\ PointersOf(m[1], m[2]) \subseteq {Free, c.s}
    <3>1. m \in r.need
      BY <2>4, <2>5 DEF Builds
    <3>2. <<RoomOf[m[1]], m[2]>> \in DaysOf(Kept(r) \ claims[c.s])
      BY <2>5, DaysOfNights
    <3> QED
      BY <2>1, <2>4, <3>1, <3>2 DEF Builds, UnitAvailable
  <2>9. Typed'
    BY <2>1 DEF Typed, Past, dataVars
  <2>10. SourceRows' /\ RoomDayRows'
    BY <2>1, <2>2 DEF SourceRows, RoomDayRows, TxUnchanged, Past
  <2>11. Covered(t)' /\ Ready(t)'
    <3>1. claims' = claims /\ slot' = slot /\ cmd'[t] = c /\ held'[t] = held[t]
      BY <2>1 DEF dataVars
    <3>2. EffectOK(out[t], cmd[t].s)'
      BY <2>2, <2>7, <3>1 DEF EffectOK, Kept
    <3>3. \A m \in out'[t].add : /\ <<RoomOf[m[1]], m[2]>> \in held'[t]
                                 /\ PointersOf(m[1], m[2])' \subseteq {Free, cmd'[t].s}
      BY <2>2, <2>8, <3>1, ZenonT(60) DEF PointersOf
    <3> QED
      BY <2>2, <3>2, <3>3 DEF Covered, Ready
  <2>12. ASSUME NEW v \in Transactions \ {t} PROVE Covered(v)' /\ Ready(v)'
    BY <2>1, <2>2, OthersKept
  <2> QED
    BY <2>1, <2>9, <2>10, <2>11, <2>12, DataKept
<1> QED
  BY <1>1, <1>2

(* A night that a ready transaction adds conflicts with no claim of others. *)
LEMMA AddedIsFree ==
    ASSUME InventoryInv, NEW t \in Transactions, pc[t] = "apply",
           NEW m \in out[t].add, NEW z \in Sources, z # cmd[t].s, NEW k \in claims[z], m[2] = k[2]
    PROVE  ~Conflicting(m[1], k[1]) /\ m # k
<1> USE InventoryAssumption DEF InventoryInv
<1>1. PointersOf(m[1], m[2]) \subseteq {Free, cmd[t].s}
  BY DEF Ready
<1>2. k = <<k[1], k[2]>> /\ k[1] \in Units /\ k \in Nights /\ slot[k] = z
  BY DEF Typed, PointersFollowClaims, Nights
<1>3. z \notin {Free, cmd[t].s}
  OBVIOUS
<1>4. k[1] # m[1]
  BY <1>1, <1>2, <1>3 DEF PointersOf
<1>5. k[1] # RoomOf[m[1]]
  BY <1>1, <1>2, <1>3 DEF PointersOf
<1>6. m[1] = RoomOf[m[1]] => RoomOf[k[1]] # m[1]
  <2> SUFFICES ASSUME m[1] = RoomOf[m[1]], RoomOf[k[1]] = m[1] PROVE FALSE
    OBVIOUS
  <2>1. k[1] \in {v \in Units : m[1] = RoomOf[m[1]] /\ RoomOf[v] = m[1]}
    BY <1>2
  <2>2. slot[<<k[1], m[2]>>] \in PointersOf(m[1], m[2])
    BY <2>1 DEF PointersOf
  <2>3. slot[<<k[1], m[2]>>] = z
    BY <1>2
  <2> QED
    BY <1>1, <1>3, <2>2, <2>3
<1> QED
  BY <1>4, <1>5, <1>6 DEF Conflicting

(* What a transaction writes keeps every promise, its own and those that    *)
(* the others rely on.                                                      *)
LEMMA ApplyStep ==
    ASSUME InventoryInv, NEW t \in Transactions, Apply(t)
    PROVE  InventoryInv'
<1> USE InventoryAssumption DEF InventoryInv
<1> DEFINE s == cmd[t].s
           e == out[t]
<1>1. /\ pc[t] = "apply" /\ End(t) /\ UNCHANGED today
      /\ status' = [status EXCEPT ![s] = e.status]
      /\ plan' = [plan EXCEPT ![s] = e.plan]
      /\ undo' = [undo EXCEPT ![s] = e.undo]
      /\ claims' = [claims EXCEPT ![s] = (@ \ e.release) \cup e.add]
      /\ slot' = SlotsAfter(s, e.add, e.release)
  BY DEF Apply
<1>2. /\ s \in Sources /\ EffectOK(e, s)
      /\ \A m \in e.add : <<RoomOf[m[1]], m[2]>> \in held[t] /\ PointersOf(m[1], m[2]) \subseteq {Free, s}
  BY <1>1 DEF Typed, CommandOK, Ready
<1>3. /\ pc'[t] = "idle" /\ held'[t] = {}
      /\ \A v \in Transactions \ {t} : TxUnchanged(v)
  BY <1>1 DEF End, Typed, TxUnchanged
<1>4. /\ status'[s] = e.status /\ plan'[s] = e.plan /\ undo'[s] = e.undo /\ claims'[s] = Kept(e)
      /\ \A z \in Sources \ {s} : /\ status'[z] = status[z] /\ plan'[z] = plan[z]
                                  /\ undo'[z] = undo[z] /\ claims'[z] = claims[z]
  <2>1. (claims[s] \ e.release) \cup e.add = Kept(e)
    BY <1>2 DEF EffectOK
  <2> QED
    BY <1>1, <1>2, <2>1 DEF Typed
<1>5. \A q : Sound(q) => q \subseteq Nights
  BY DEF Sound, Nights, Dates
<1>6. /\ e.plan \subseteq Nights /\ e.undo \subseteq Nights /\ Kept(e) \subseteq e.plan
      /\ e.add \subseteq Nights /\ Kept(e) \subseteq Nights
  BY <1>2, <1>5 DEF EffectOK, Kept
<1>7. \A m \in Nights : slot'[m] = IF m \in e.add THEN s ELSE IF m \in e.release THEN Free ELSE slot[m]
  BY <1>1 DEF SlotsAfter
<1> HIDE DEF s, e
<1>8. Typed'
  <2>1. /\ status' \in [Sources -> Statuses] /\ plan' \in [Sources -> SUBSET Nights]
        /\ undo' \in [Sources -> SUBSET Nights] /\ claims' \in [Sources -> SUBSET Nights]
    <3>1. claims' = [claims EXCEPT ![s] = Kept(e)]
      BY <1>1, <1>4, <1>2, ZenonT(60) DEF Typed, s, e
    <3> QED
      BY <1>1, <1>2, <1>6, <3>1 DEF Typed, EffectOK
  <2>2. slot' \in [Nights -> Sources \cup {Free}]
    BY <1>1, <1>2 DEF Typed, SlotsAfter
  <2> QED
    BY <1>1, <1>3, <2>1, <2>2 DEF Typed, End, TxUnchanged
<1>9. SourceRows' /\ RoomDayRows'
  BY <1>3 DEF SourceRows, RoomDayRows, TxUnchanged, Past
<1>10. PlansSound'
  BY <1>2, <1>4 DEF PlansSound, EffectOK, Kept
<1>11. \A m \in e.add : \A z \in Sources \ {s} : \A k \in claims[z] :
          m[2] = k[2] => ~Conflicting(m[1], k[1]) /\ m # k
  BY <1>1, AddedIsFree DEF s, e
<1>12. PointersFollowClaims'
  <2> SUFFICES ASSUME NEW m \in Nights, NEW z \in Sources
               PROVE  slot'[m] = z <=> m \in claims'[z]
    BY DEF PointersFollowClaims
  <2>1. slot[m] = z <=> m \in claims[z]
    BY DEF PointersFollowClaims
  <2>2. slot[m] = s <=> m \in claims[s]
    BY <1>2 DEF PointersFollowClaims
  <2>3. z # Free /\ s # Free
    BY <1>2
  <2>4. e.add = Kept(e) \ claims[s] /\ e.release = claims[s] \ Kept(e)
    BY <1>2 DEF EffectOK
  <2>5. CASE z = s
    BY <2>1, <2>3, <2>4, <2>5, <1>4, <1>7
  <2>6. CASE z # s
    <3>1. m \in e.add => m \notin claims[z]
      BY <1>11, <2>6
    <3> QED
      BY <2>1, <2>2, <2>3, <2>4, <2>6, <3>1, <1>4, <1>7
  <2> QED
    BY <2>5, <2>6
<1>13. NoDoubleBooking'
  <2>0. \A u, v : Conflicting(u, v) => Conflicting(v, u)
    BY DEF Conflicting
  <2>1. \A z \in Sources \ {s} : \A m \in claims'[s], k \in claims'[z] : ~(m[2] = k[2] /\ Conflicting(m[1], k[1]))
    <3> SUFFICES ASSUME NEW z \in Sources \ {s}, NEW m \in Kept(e), NEW k \in claims[z], m[2] = k[2]
                 PROVE  ~Conflicting(m[1], k[1])
      BY <1>4
    <3>1. CASE m \in claims[s]
      BY <3>1, <1>2 DEF NoDoubleBooking
    <3>2. CASE m \in e.add
      BY <3>2, <1>11
    <3> QED
      BY <3>1, <3>2, <1>2 DEF EffectOK
  <2> SUFFICES ASSUME NEW x \in Sources, NEW z \in Sources, x # z, NEW m \in claims'[x], NEW k \in claims'[z],
                      m[2] = k[2], Conflicting(m[1], k[1])
               PROVE  FALSE
    BY DEF NoDoubleBooking, Conflicting
  <2>2. CASE x = s
    BY <2>1, <2>2
  <2>3. CASE z = s
    BY <2>0, <2>1, <2>3
  <2>4. CASE x # s /\ z # s
    BY <2>4, <1>4 DEF NoDoubleBooking
  <2> QED
    BY <2>2, <2>3, <2>4
<1>14. Covered(t)' /\ Ready(t)'
  BY <1>3 DEF Covered, Ready
<1>15. ASSUME NEW v \in Transactions \ {t} PROVE Covered(v)' /\ Ready(v)'
  <2>1. pc[v] \in Past => cmd[v].s \in Sources \ {s}
    BY <1>1 DEF SourceRows, Typed, CommandOK, Past, s
  <2>2. Covered(v)'
    <3> SUFFICES ASSUME pc'[v] \in {"units", "days"}
                 PROVE  (want[v] \cup held[v] = ResourceDays(cmd[v], began[v]) /\ Lockable(cmd[v]))'
      BY DEF Covered
    <3>1. /\ want[v] \cup held[v] = ResourceDays(cmd[v], began[v]) /\ Lockable(cmd[v])
          /\ cmd[v].s \in Sources \ {s}
      BY <1>3, <2>1 DEF Covered, TxUnchanged, Past
    <3>2. plan'[cmd'[v].s] = plan[cmd[v].s] /\ undo'[cmd'[v].s] = undo[cmd[v].s]
          /\ status'[cmd'[v].s] = status[cmd[v].s]
      BY <1>3, <1>4, <3>1 DEF TxUnchanged
    <3>3. ResourceDays(cmd[v], began[v])' = ResourceDays(cmd[v], began[v])
      BY <1>3, <3>2 DEF TxUnchanged, ResourceDays
    <3>4. Lockable(cmd[v])' = Lockable(cmd[v])
      BY <1>3, <3>2 DEF TxUnchanged, Lockable
    <3> QED
      BY <1>3, <3>1, <3>3, <3>4 DEF TxUnchanged
  <2>3. ASSUME pc[v] = "apply" PROVE EffectOK(out[v], cmd[v].s)'
    BY <1>3, <1>4, <2>1, <2>3 DEF Ready, TxUnchanged, EffectOK, Kept, Past
  <2>4. ASSUME pc[v] = "apply", NEW m \in out[v].add
        PROVE  PointersOf(m[1], m[2])' \subseteq {Free, cmd[v].s}
    <3>1. <<RoomOf[m[1]], m[2]>> \in held[v] /\ PointersOf(m[1], m[2]) \subseteq {Free, cmd[v].s}
      BY <2>4 DEF Ready
    <3>2. \A k \in e.add : <<RoomOf[k[1]], k[2]>> # <<RoomOf[m[1]], m[2]>>
      BY <3>1, <1>2 DEF RoomDayRows, e
    <3>3. m[1] \in Units /\ m[2] \in Dates
      <4>1. EffectOK(out[v], cmd[v].s)
        BY <2>4 DEF Ready
      <4> QED
        BY <2>4, <4>1 DEF EffectOK, Kept, Sound, Dates
    <3>4. \A u \in Units : RoomOf[u] = RoomOf[m[1]] => slot'[<<u, m[2]>>] \in {Free, slot[<<u, m[2]>>]}
      <4> SUFFICES ASSUME NEW u \in Units, RoomOf[u] = RoomOf[m[1]]
                   PROVE  slot'[<<u, m[2]>>] \in {Free, slot[<<u, m[2]>>]}
        OBVIOUS
      <4>1. <<u, m[2]>> \in Nights /\ <<u, m[2]>> \notin e.add
        BY <3>2, <3>3 DEF Nights
      <4> QED
        BY <4>1, <1>7
    <3>5. RoomOf[m[1]] \in Units /\ RoomOf[RoomOf[m[1]]] = RoomOf[m[1]]
      BY <3>3
    <3>6. slot[<<m[1], m[2]>>] \in PointersOf(m[1], m[2]) /\ slot[<<RoomOf[m[1]], m[2]>>] \in PointersOf(m[1], m[2])
      BY DEF PointersOf
    <3>7. ASSUME NEW u \in Units, m[1] = RoomOf[m[1]], RoomOf[u] = m[1]
          PROVE  slot[<<u, m[2]>>] \in PointersOf(m[1], m[2])
      BY <3>7 DEF PointersOf
    <3> SUFFICES ASSUME NEW x \in PointersOf(m[1], m[2])' PROVE x \in {Free, cmd[v].s}
      OBVIOUS
    <3>8. \/ x = slot'[<<RoomOf[m[1]], m[2]>>]
          \/ x = slot'[<<m[1], m[2]>>]
          \/ \E u \in Units : m[1] = RoomOf[m[1]] /\ RoomOf[u] = m[1] /\ x = slot'[<<u, m[2]>>]
      BY DEF PointersOf
    <3>9. \E u \in Units : RoomOf[u] = RoomOf[m[1]] /\ x = slot'[<<u, m[2]>>]
                            /\ slot[<<u, m[2]>>] \in PointersOf(m[1], m[2])
      BY <3>3, <3>5, <3>6, <3>7, <3>8
    <3> QED
      BY <3>1, <3>4, <3>9
  <2>5. Ready(v)'
    BY <1>3, <2>3, <2>4, <2>1 DEF Ready, TxUnchanged
  <2> QED
    BY <2>2, <2>5
<1> QED
  BY <1>8, <1>9, <1>10, <1>12, <1>13, <1>14, <1>15

(* The clock moves nothing but the date.                                    *)
LEMMA IdleStep ==
    ASSUME InventoryInv, UNCHANGED <<dataVars, pc, cmd, began, want, held, out>>, today' \in Nat
    PROVE  InventoryInv'
<1> USE DEF InventoryInv
<1>1. \A v \in Transactions : TxUnchanged(v)
  BY DEF TxUnchanged
<1>2. Typed'
  BY DEF Typed, dataVars
<1>3. SourceRows' /\ RoomDayRows'
  BY DEF SourceRows, RoomDayRows
<1>4. ASSUME NEW v \in Transactions PROVE Covered(v)' /\ Ready(v)'
  BY <1>1, OthersKept
<1> QED
  BY <1>2, <1>3, <1>4, DataKept

-----------------------------------------------------------------------------
THEOREM InventoryInvariant == Spec => []InventoryInv
<1>1. Init => InventoryInv
  <2> SUFFICES ASSUME Init PROVE InventoryInv
    OBVIOUS
  <2> USE InventoryAssumption DEF Init
  <2>1. Typed
    BY DEF Typed, Statuses, Active, Past
  <2>2. SourceRows /\ RoomDayRows
    BY DEF SourceRows, RoomDayRows, Past
  <2>3. PlansSound
    BY DEF PlansSound, Sound, OneUnitADay, NoGap, Active
  <2>4. \A t \in Transactions : Covered(t) /\ Ready(t)
    BY DEF Covered, Ready
  <2>5. PointersFollowClaims /\ NoDoubleBooking
    BY DEF PointersFollowClaims, NoDoubleBooking
  <2> QED
    BY <2>1, <2>2, <2>3, <2>4, <2>5 DEF InventoryInv
<1>2. InventoryInv /\ [Next]_vars => InventoryInv'
  <2> SUFFICES ASSUME InventoryInv, [Next]_vars PROVE InventoryInv'
    OBVIOUS
  <2>1. ASSUME NEW t \in Transactions, NEW op \in Commands, NEW c \in Requests(op), Submit(t, c)
        PROVE  InventoryInv'
    BY <2>1, SubmitStep
  <2>2. ASSUME NEW t \in Transactions, LockSource(t) PROVE InventoryInv'
    BY <2>2, LockSourceStep
  <2>3. ASSUME NEW t \in Transactions, LockUnits(t) PROVE InventoryInv'
    BY <2>3, LockUnitsStep
  <2>4. ASSUME NEW t \in Transactions, LockRoomDay(t) PROVE InventoryInv'
    BY <2>4, LockRoomDayStep
  <2>5. ASSUME NEW t \in Transactions, Check(t) PROVE InventoryInv'
    BY <2>5, CheckStep
  <2>6. ASSUME NEW t \in Transactions, Apply(t) PROVE InventoryInv'
    BY <2>6, ApplyStep
  <2>7. ASSUME NEW t \in Transactions, Rollback(t) PROVE InventoryInv'
    BY <2>7, EndStep DEF Rollback
  <2>8. CASE NextDay
    <3>1. today' \in Nat /\ UNCHANGED <<dataVars, pc, cmd, began, want, held, out>>
      BY <2>8 DEF NextDay, InventoryInv, Typed, lockVars
    <3> QED
      BY <3>1, IdleStep
  <2>9. CASE UNCHANGED vars
    <3>1. today' \in Nat /\ UNCHANGED <<dataVars, pc, cmd, began, want, held, out>>
      BY <2>9 DEF vars, InventoryInv, Typed, lockVars
    <3> QED
      BY <3>1, IdleStep
  <2> QED
    BY <2>1, <2>2, <2>3, <2>4, <2>5, <2>6, <2>7, <2>8, <2>9 DEF Next
<1> QED
  BY <1>1, <1>2, PTL DEF Spec

(* No unit is booked twice, a room and its beds included, whatever commands *)
(* of apply.ts and inventory.ts run at the same time.                       *)
THEOREM NeverDoubleBooked == Spec => []NoDoubleBooking
<1>1. InventoryInv => NoDoubleBooking
  BY DEF InventoryInv
<1> QED
  BY <1>1, InventoryInvariant, PTL

(* createInventoryClaims and releaseInventoryClaims leave every day slot    *)
(* with the claim that is active there.                                     *)
THEOREM PointersAreClaims == Spec => []PointersFollowClaims
<1>1. InventoryInv => PointersFollowClaims
  BY DEF InventoryInv
<1> QED
  BY <1>1, InventoryInvariant, PTL

(* The claims of an order or a maintenance lock are its arrangement, which  *)
(* stays one unit for each date of one interval.                            *)
THEOREM ClaimsArePlans == Spec => []ClaimsFollowPlan
<1>1. InventoryInv => ClaimsFollowPlan
  BY DEF InventoryInv, PlansSound, Sound, OneUnitADay, NoGap, ClaimsFollowPlan
<1> QED
  BY <1>1, InventoryInvariant, PTL
=============================================================================
