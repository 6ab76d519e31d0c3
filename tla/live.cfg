SPECIFICATION MCLiveSpec
CONSTANTS
    k1 = k1  c1 = c1  c2 = c2  c3 = c3  c4 = c4  order = order  room = room  p1 = p1  p2 = p2
    Keys = {k1,k2}
    Previews = {p1,p2}
    Commands = {c1,c2}
    Requests = {r1,r2}
    Resources = {cat, order, room}
    Bodies = {"match"}
    Catalog = cat
    Values = {0, 1}
    LockIds <- MCLockIds
    LockOf <- MCLockOf
    LockSeq <- MCLockSeq
    CatalogCommands = {}
    Envelopes <- MCNoEnvelope
    Target <- MCTarget
    Events = {e1, e2}
    Workers = {w1}
    Readers = {}
    BatchLimit = 1
    FeedLimit = 1
    Replayable = {}
    Pruning = FALSE
    MaxTries = 1
    MaxFaults = 1
    MaxControls = 1
PROPERTIES EveryRequestEnds Settles
CHECK_DEADLOCK FALSE
