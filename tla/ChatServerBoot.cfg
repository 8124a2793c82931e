CONSTANTS
    NumSlots = 2
    KeepAlive = 1
    Socks = {s1, s2}
    Names = {a}
    Passwords = {p}
    Texts = {m}
    Tokens = {t}
    OwnerNullable = TRUE
    None = None
    MaxTime = 3
    MaxUserId = 0
    MaxCopies = 1
SPECIFICATION Spec
INVARIANTS
    MainStopsWithoutDatabase
