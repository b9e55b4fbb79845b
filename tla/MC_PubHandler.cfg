\* Two lidars, each with or without a synchronised clock; a packet of two
\* points every millisecond, a frame every two.
CONSTANTS
    Lidar = {l1, l2}
    None = None
    TicksPerMs = 3
    publish_interval_ = 6
    PacketTicks = 3
    PointNum = 2
    PointInterval = 1
    Phase = {0, 3}
    MaxPackets = 4
    MaxQueue = 2
    MaxMs = 4
SPECIFICATION Spec
SYMMETRY Alike
INVARIANTS
    FramesSound
PROPERTY CutsFrames
CHECK_DEADLOCK FALSE
