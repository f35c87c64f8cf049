CONSTANTS
    Runs = {a, b}
    Compacts = {}
    Aborters = {}
    None = None
    MayPanic = FALSE
    StoreMayFail = FALSE
    MaySchedule = FALSE
SPECIFICATION Spec
INVARIANT
    InjectedIsServed
