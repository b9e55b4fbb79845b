CONSTANTS
    Streams = {"pcd"}
    LidarCount = 2
    Capacity = 2
    ImuBound = 1
    Burst = 3
    DrainsFrames = TRUE
SPECIFICATION FairSpec
INVARIANTS
    TypeOK
    NoLostWakeup
    AtMostOneWakeup
    OneWakeAfterExit
PROPERTIES
    FramesLeave
    ShutdownCompletes
CHECK_DEADLOCK FALSE
