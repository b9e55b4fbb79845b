\* Two frames, one byte lost or corrupted, the device pulled out once.
SPECIFICATION FairSpec
CONSTANTS
    Frames <- MCFrames
    Corrupt = {0, 1, 90, 165}
    SOF = 165
    EOF = 90
    Crc <- MCCrc
    Lengths <- MCLengths
    MaxFrames = 2
    MaxFaults = 1
    MaxUnplugs = 1
INVARIANTS
    AlignedFramesPublished
    LinkSound
PROPERTIES
    DestructorReturns
    ClosedPortConnects
CHECK_DEADLOCK FALSE
