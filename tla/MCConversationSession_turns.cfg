SPECIFICATION Spec
CONSTANTS
    a1 = a1  a2 = a2  a3 = a3
    None = None
    Asks = {a1, a2, a3}
    Budgeted = {a1}
    MaxHistory = 2
    MaxClears = 1
SYMMETRY InlineSymmetry
CHECK_DEADLOCK FALSE
INVARIANTS SessionSafety ConfirmationsAreSafe
