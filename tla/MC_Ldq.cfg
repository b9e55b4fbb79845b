\* A ring of four slots, with indices that wrap after two turns of it.
CONSTANTS
    Frame = {f1, f2}
    None = None
    Garbage = Garbage
    NoStorage = NoStorage
    Size = 4
    IndexMod = 8
    InOrder = TRUE
SPECIFICATION Spec
INVARIANTS
    TypeOK
    NoSlotRace
    PopNeverFails
PROPERTY FifoSpec
