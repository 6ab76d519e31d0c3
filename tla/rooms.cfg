SPECIFICATION MCSpec
CONSTANTS
    r1 = r1
    r2 = r2
    b1 = b1
    b2 = b2
    Orders = {o1, o2}
    Maintenances = {m1}
    Units = {r1, r2, b1, b2}
    RoomOf <- MCRoomOf
    Rank <- MCRank
    Horizon = 4
    Transactions = {t1, t2}
    Commands = {"CREATE_ORDER", "LOCK_MAINTENANCE", "RELEASE_MAINTENANCE", "RESCHEDULE_STAY", "CANCEL_ORDER", "MOVE_UNIT", "EXTEND_STAY", "SHORTEN_STAY", "CHECK_IN", "CHECK_OUT", "COMPLETE_STAY", "MARK_NO_SHOW", "REVOKE_CHECK_IN", "REVOKE_CHECK_OUT"}
    MaxCommands = 4
    AcrossMidnight = TRUE
    Damages = {"source"}
SYMMETRY Symmetry
INVARIANTS NoDoubleBooking PointersFollowClaims ClaimsFollowPlan BoardIsTrue
CHECK_DEADLOCK FALSE
