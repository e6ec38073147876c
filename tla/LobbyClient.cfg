CONSTANTS
    Kinds = {"hostSession", "publish", "close", "beat", "join", "leave"}
    OwnRoom = {mine}
    OtherRoom = {theirs}
    NoRoom = NoRoom
    Slot = {s1, s2}
    MaxTokens = 2
    Screen = {v1}
    NoScreen = NoScreen
    MaxQueue = 1
SPECIFICATION Spec
INVARIANT HostsOnlyOwnRooms
SYMMETRY Symmetry
