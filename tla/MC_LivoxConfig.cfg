\* Two threads report three lidars, each lidar on one thread at a time; one
\* lidar is in the config file, and there are two devices.
SPECIFICATION MCSpec
CONSTANTS
    Scenes = {"livox"}
    h1 = h1
    h2 = h2
    h3 = h3
    t1 = t1
    t2 = t2
    None = None
    Handle = {h1, h2, h3}
    Thread = {t1, t2}
    UserConfigs <- MCUserConfigs
    Wanted <- MCWanted
    Options <- MCOptions
    SlotCount = 2
    OneAtATime = TRUE
    Tracked = {}
    MaxReports = 2
SYMMETRY Alike
INVARIANTS
    TypeOK
    OneLidarPerDevice
    ConfiguredBeforeSampling
CHECK_DEADLOCK FALSE
