SPECIFICATION ChatSpec
CONSTANTS
    Session = {s1, s2}
    NoSession = NoSession
    RoomId = {r1}
    NoRoom = NoRoom
    Worker = {w1, w2}
    Product = {meleepad}
    Release = {b1}
    SessionTTL = 2
    RoomTTL = 2
    ReservationTTL = 1
    MaxSessions = 2
    MaxRooms = 1
    Capacity = {2}
    Blockable = {}
    MaxDelay = 1
    ChatLimit = 2
    ChatWindow = 2
    ReportLimit = 1
    ReportWindow = 1
    LimiterKeys = 2
    MaxMessages = 2
    MaxReports = 1
    Reason = {spam}
    LastMessageId = 3
SYMMETRY Symmetry
INVARIANTS
    ChatTypeOK
    MessageIdsUnbroken
    ReportHides
PROPERTIES
    OnlyMembersPost
    HiddenOnlyOnRecord
