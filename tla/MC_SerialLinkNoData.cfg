\* Frames without data, on a faultless line.
SPECIFICATION Spec
CONSTANTS
    Frames <- MCFramesNoData
    Corrupt = {0, 1, 90, 165}
    SOF = 165
    EOF = 90
    Crc <- MCCrc
    Lengths <- MCLengths
    MaxFrames = 2
    MaxFaults = 0
    MaxUnplugs = 0
INVARIANT AlignedFramesPublished
CHECK_DEADLOCK FALSE
