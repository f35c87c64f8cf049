CONSTANTS
    Runs = {a, b, c}
    Compacts = {}
    Aborters = {}
    None = None
    MayPanic = FALSE
    StoreMayFail = FALSE
    MaySchedule = FALSE
SPECIFICATION Spec
INVARIANT
    Serialized
