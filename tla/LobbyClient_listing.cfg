CONSTANTS
    OwnRoom = {mine}
    OtherRoom = {}
    NoRoom = NoRoom
    Slot = {s1, s2}
    Screen = {v1}
    NoScreen = NoScreen
    Kinds = {"hostSession", "refreshSession", "rooms", "publish", "beat", "close"}
    MaxTokens = 1
    MaxQueue = 1
SPECIFICATION FairSpec
PROPERTIES HostButtonReturns InGameShown WaitingShown
