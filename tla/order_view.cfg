SPECIFICATION MCSpec
CONSTANTS
    r1 = r1
    r2 = r2
    Orders = {o1, o2}
    Maintenances = {}
    Units = {r1, r2}
    RoomOf <- TwoRooms
    Rank <- TwoRanks
    Horizon = 4
    Transactions = {}
    Commands = {"CREATE_ORDER", "MOVE_UNIT", "EXTEND_STAY", "SHORTEN_STAY", "RESCHEDULE_STAY", "CHECK_IN", "CHECK_OUT", "COMPLETE_STAY", "MARK_NO_SHOW", "CANCEL_ORDER", "REVOKE_CHECK_IN", "REVOKE_CHECK_OUT"}
    MaxCommands = 4
    AcrossMidnight = FALSE
    Channels = {"WECOM", "CTRIP", "MEMBER", "FREE"}
    Targets = {0, 2}
    CashNights = {0, 1}
SYMMETRY Symmetry
CHECK_DEADLOCK FALSE
INVARIANTS OrderPageOpens OfferedIsAccepted
PROPERTIES GainedNightsAreFree
