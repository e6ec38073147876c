SPECIFICATION FairPresenceSpec
CONSTANTS
    Session = {s1, s2}
    NoSession = NoSession
    RoomId = {r1, r2}
    NoRoom = NoRoom
    Worker = {w1}
    Product = {meleepad}
    Release = {b1}
    SessionTTL = 4
    RoomTTL = 2
    ReservationTTL = 1
    MaxSessions = 2
    MaxRooms = 1
    Capacity = {2}
    Blockable = {}
    MaxDelay = 1
INVARIANTS
    SilentAreGone
PROPERTIES
    LapsedAreReclaimed
    LapsedStaysLapsed
    RefusalKeepsRoom
