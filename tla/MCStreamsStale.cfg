SPECIFICATION Spec
CONSTANTS
    s1 = s1
    s2 = s2
    cam = cam
    screen = screen
    Clients = {c1}
    Kinds = {cam}
    Streams = {s1}
    streamID <- MCStreamID
    MaxCloses = 1
INVARIANT RegisteredIsLive
