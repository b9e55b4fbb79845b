\* The device comes twice; a queue of two samples.
SPECIFICATION Spec
CONSTANTS
    Handles = 2
    None = None
    QueueLimit = 2
    MapMode = 2
    MaxSamples = 3
INVARIANTS
    DeviceSound
    ImuInOrder
    AtMostOneStale
CHECK_DEADLOCK FALSE
