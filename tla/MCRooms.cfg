SPECIFICATION Spec
CONSTANTS
    i1 = i1
    k1 = k1
    k2 = k2
    k3 = k3
    s1 = s1
    s2 = s2
    s3 = s3
    Clients = {c1, c2}
    Observers = {o1}
    RoomIds = {i1}
    Rooms = {k1, k2, s1, s2}
    roomID <- MCRoomID
    roomMode <- MCRoomMode
    Nicks = {n1, n2}
    NoNick = NoNick
    Kicks = {a1}
    NoRoom = NoRoom
    Nobody = Nobody
SYMMETRY Symmetric
INVARIANTS
    TypeOK
    Admission
    EmptyRoomHasSweeper
    NoGhostMember
    NoGhostObserver
PROPERTY KeepsMembership
CHECK_DEADLOCK FALSE
