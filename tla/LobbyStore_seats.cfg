SPECIFICATION Spec
CONSTANTS
    Session = {s1, s2, s3}
    NoSession = NoSession
    RoomId = {r1, r2}
    NoRoom = NoRoom
    Worker = {w1, w2}
    Product = {meleepad, kartpad}
    Release = {b1}
    SessionTTL = 2
    RoomTTL = 1
    ReservationTTL = 1
    MaxSessions = 3
    MaxRooms = 2
    Capacity = {2}
    Blockable = {s1}
    MaxDelay = 1
SYMMETRY Symmetry
INVARIANTS
    TypeOK
    SeatsWithinCapacity
    OneRoomPerOwner
    ListingAgreesWithJoin
PROPERTIES
    RoomLossJustified
    SeatLossJustified
    OwnerControlsRoom
    ImplementsDirectory
