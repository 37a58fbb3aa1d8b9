SPECIFICATION Spec
CONSTANTS
    a1 = a1  a2 = a2  a3 = a3
    None = None
    Asks = {a1, a2}
    Budgeted = {a1}
    MaxHistory = 1
    MaxClears = 0
CHECK_DEADLOCK FALSE
PROPERTY OrphanWritesDiscarded
