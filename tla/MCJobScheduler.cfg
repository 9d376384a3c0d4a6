\* Two processes, one after the other, on one store; no symmetry, for liveness.
CONSTANTS
    Jobs = {j1, j2}
    Callers = {c1}
    Main = Main
    None = None
    MaxEntryID = 2
    MaxLife = 2
SPECIFICATION FairSpec
INVARIANTS
    TimersAccounted
    StoreAgreesWithCron
    FirstReloadRegistersEnabled
    RollbackUndoesReload
    ServingIsOperational
PROPERTIES
    CallsReturn
