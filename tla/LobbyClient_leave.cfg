CONSTANTS
    OwnRoom = {mine}
    OtherRoom = {theirs}
    NoRoom = NoRoom
    Slot = {s1, s2}
    Screen = {v1}
    NoScreen = NoScreen
    Kinds = {"hostSession", "publish", "beat", "close", "join", "leave"}
    MaxTokens = 1
    MaxQueue = 1
SPECIFICATION Spec
INVARIANT LeavingEndsPresence
