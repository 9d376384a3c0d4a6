\* A second process on a store that still holds the first one's entry numbers.
CONSTANTS
    Jobs = {j1, j2}
    Callers = {c1}
    Main = Main
    None = None
    MaxEntryID = 2
    MaxLife = 2
SPECIFICATION Spec
SYMMETRY Symmetry
INVARIANTS
    ReloadRegistersEnabled
