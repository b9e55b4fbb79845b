\* Every answer followed to its end: one thread, one lidar of the config file,
\* reported twice; and one connection of the odin device.
SPECIFICATION FairScenes
CONSTANTS
    Scenes = {"livox", "odin"}
    h1 = h1
    h2 = h2
    h3 = h3
    t1 = t1
    t2 = t2
    None = None
    Handle = {h1}
    Thread = {t1}
    UserConfigs <- MCUserConfigs
    Wanted <- MCWanted
    Options <- MCOptions
    SlotCount = 2
    OneAtATime = TRUE
    Tracked = {"attitude", "work_mode", "imu"}
    MaxReports = 2
PROPERTIES
    RetriesEnd
    SamplesServed
    ThreadsJoined
CHECK_DEADLOCK FALSE
