------------------------------ MODULE MCRooms ------------------------------
(* One room with two beds beside a room let as a whole, in one run: the     *)
(* transactions of RoomInventory, and the board that RoomStatus makes of    *)
(* stays whose commands run one after another.  A behaviour belongs to one  *)
(* of the two.                                                              *)
EXTENDS RoomStatus, TLC

CONSTANTS r1, r2, b1, b2
VARIABLE model  \* "inventory" or "board"

MCRoomOf == [u \in Units |-> IF u = r2 THEN r2 ELSE r1]
MCRank == (r1 :> 1) @@ (r2 :> 2)

Known == {s \in Sources : status[s] # "none"}
UsedUnits ==
    {n[1] : n \in UNION {plan[s] \cup undo[s] : s \in Sources}} \cup
    ({cmd[t].u : t \in Transactions} \ {"none"})

(* The inventory part uses the first three dates, and looks at the claims   *)
(* of orders and maintenance in the divided room, or at a longer sequence   *)
(* of commands on stays in two rooms.  The first three commands overlap;    *)
(* what follows the third one runs alone.                                   *)
StayCommands == {"MOVE_UNIT", "EXTEND_STAY", "SHORTEN_STAY", "CHECK_OUT", "COMPLETE_STAY",
                 "MARK_NO_SHOW", "REVOKE_CHECK_IN", "REVOKE_CHECK_OUT"}
ClaimCommands == {"LOCK_MAINTENANCE", "RELEASE_MAINTENANCE", "RESCHEDULE_STAY", "CANCEL_ORDER"}
Open(ops) == \E t \in Transactions : cmd[t].op \in ops
LastRunsAlone == confirmed >= 3 => Cardinality({t \in Transactions : pc[t] # "idle"}) <= 1
Claims == confirmed <= 3 /\ ~Open(StayCommands) /\ UsedUnits \subseteq {r1, b1, b2}
Stays ==
    /\ ~Open(ClaimCommands) /\ UsedUnits \subseteq {r1, r2}
    /\ \A s \in Sources : status[s] \notin {"ACTIVE", "RELEASED", "CANCELLED"}
ThreeDates == today < Horizon /\ \A t \in Transactions : cmd[t].d < Horizon
QuietMidnight == today' # today => confirmed <= 2 \/ \A t \in Transactions : pc[t] = "idle"

(* The board part has three commands, in the divided room.  A stay that is  *)
(* alone may use every date and the third command; two sources share the    *)
(* first dates.  One order at a time is in debt or damaged.                 *)
Few ==
    /\ confirmed <= 3
    /\ confirmed = 3 => Cardinality(Known) <= 1
    /\ UsedUnits \subseteq {r1, b1, b2}
    /\ r2 \notin retired
    /\ Cardinality(owing \cup {o \in Orders : damaged[o] # "no"} \cup retired) <= IF confirmed <= 2 THEN 1 ELSE 0
    /\ Cardinality(Known) > 1 =>
          /\ today < Horizon
          /\ \A s \in Known : Departure(plan[s]) < Horizon

MCInit == BoardInit /\ model \in {"inventory", "board"}
MCNext ==
    \/ /\ model = "inventory"
       /\ Next
       /\ ThreeDates' /\ LastRunsAlone' /\ (Claims' \/ Stays') /\ QuietMidnight
       /\ UNCHANGED <<log, owing, damaged, retired, model>>
    \/ model = "board" /\ BoardNext /\ Few' /\ UNCHANGED model
MCSpec == MCInit /\ [][MCNext]_<<boardVars, model>>

Symmetry == Permutations(Orders) \cup Permutations(Transactions) \cup Permutations({b1, b2})

(* The board of every state passes the client's own validation, offers      *)
(* exactly the days a booking would find free, hides no blocked room,       *)
(* raises every overdue guest and is partial only over damaged data; the    *)
(* histories behind it replay (room-status.ts, roomStatusValidation.ts,     *)
(* orders.ts).                                                              *)
BoardIsTrue ==
    model = "board" =>
        /\ BoardAccepted /\ AvailableMeansBookable
        /\ NothingHidden /\ ReadyWhenSound /\ OverdueIsRaised
        /\ LifecycleReplays /\ ReversalFromHistory
=============================================================================
