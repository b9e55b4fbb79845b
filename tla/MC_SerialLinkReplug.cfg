\* The device is pulled out and plugged in again.
SPECIFICATION FairSpec
CONSTANTS
    Frames <- MCFrames
    Corrupt = {0, 1, 90, 165}
    SOF = 165
    EOF = 90
    Crc <- MCCrc
    Lengths <- MCLengths
    MaxFrames = 1
    MaxFaults = 0
    MaxUnplugs = 1
PROPERTY ConnectsWhenPlugged
CHECK_DEADLOCK FALSE
