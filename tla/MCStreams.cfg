SPECIFICATION FairSpec
CONSTANTS
    s1 = s1
    s2 = s2
    cam = cam
    screen = screen
    Clients = {c1, c2, c3}
    Kinds = {cam}
    Streams = {s1}
    streamID <- MCStreamID
    MaxCloses = 2
INVARIANTS
    TypeOK
    NoLeakedStream
    NoSecretRecording
PROPERTY UnwantedStreamEnds
