SPECIFICATION PagesSpec
CONSTANTS
    t1 = t1
    t2 = t2
    t3 = t3
    k1 = k1
    k2 = k2
    r1 = r1
    d1 = d1
    Tiles = {t1, t2, t3}
    Nobody = Nobody
    Layouts = {"one", "two"}
    Capacity <- MCCapacity
    Audible = {t1}
    MaxTiles = 3
    MaxOpening = 1
    Cycle = 6
    Keys = {k1, k2}
    Rooms = {r1}
    RoomOf <- MCRoomOf
    MaxStarts = 2
    MaxTimers = 1
    Rows <- MCRows
    Sizes = {1, 2}
    Outbound = 2
    MaxLogins = 2
    MaxPulls = 3
    MaxObjects = 2
    MaxTries = 2
    MaxFails = 2
    MaxNews = 2
    Passes = 1
    MaxPlays = 4
    Conns = {1, 2, 3}
    Dashboards = {d1}
    Pushes = {1, 2}
    MaxChanges = 2
    ChannelSize = 2
INVARIANTS
    PagesTypeOK
    ShownOnce
    PinsAgree
    WallUsed
    MarksTell
    TilesKeepTheirPlayer
    IdleSessionsEnd
    EveryRowIsOnOnePage
    OneDashboard
    NoChangeForgotten
    PlayersAreHeld
    PlayerIsCurrent
    SwitchesAreObeyed
    PublicationInStep
PROPERTIES
    EveryTileHasItsTurn
    TilesConnectOrGo
    TilesEndWithTheRoom
    TablesCatchUp
    ReplacedPageLeaves
    DashboardsLearn
    StreamIsPulled
    PullingEnds
    SwitchesComeBack
CHECK_DEADLOCK FALSE
