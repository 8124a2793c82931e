CONSTANTS
    Threads = {t1, t2}
    None = None
    BaseGrows = TRUE
SPECIFICATION Spec
INVARIANTS
    SafeOrder
CHECK_DEADLOCK FALSE
