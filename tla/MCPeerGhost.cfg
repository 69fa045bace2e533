SPECIFICATION Spec
CONSTANTS
    Clients = {c1, c2}
    Publishers = {c1, c2}
    Cap = 3
    Nobody = Nobody
SYMMETRY Symmetric
INVARIANT NoGhostPeer
CHECK_DEADLOCK FALSE
