SPECIFICATION MCSpec
CONSTANTS
    c1 = c1  c2 = c2  c3 = c3  c4 = c4  order = order  room = room  p1 = p1  p2 = p2
    Keys = {k1,k2}
    Previews = {p1,p2}
    Commands = {c1,c2,c3,c4}
    Requests = {r1,r2}
    Resources = {cat, order, room}
    Bodies = {"match", "mismatch"}
    Catalog = cat
    Values = {0, 1}
    LockIds <- MCLockIds
    LockOf <- MCLockOf
    LockSeq <- MCLockSeq
    CatalogCommands = {c3}
    Envelopes <- MCEnvelopes
    Target <- MCTarget
SYMMETRY Symmetry
INVARIANTS OneReceiptPerEffect AnswersAreDurable
PROPERTIES DecidedForever ImplementsLedger ShownIsApplied
CHECK_DEADLOCK FALSE
