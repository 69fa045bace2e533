SPECIFICATION Spec
CONSTANTS
    i1 = i1
    k1 = k1
    k2 = k2
    k3 = k3
    s1 = s1
    s2 = s2
    s3 = s3
    Clients = {c1, c2}
    Observers = {}
    RoomIds = {i1}
    Rooms = {k1, k2}
    roomID <- MCRoomID
    roomMode <- MCRoomMode
    Nicks = {n1, n2}
    NoNick = NoNick
    Kicks = {}
    NoRoom = NoRoom
    Nobody = Nobody
SYMMETRY Symmetric
INVARIANT SameIdSameRoom
