CONSTANTS
    NumSlots = 2
    KeepAlive = 2
    Socks = {s1, s2}
    Names = {a}
    Passwords = {p}
    Texts = {m}
    Tokens = {t}
    OwnerNullable = TRUE
    None = None
    MaxTime = 2
    MaxUserId = 0
    MaxCopies = 1
SPECIFICATION RebasedSpec
PROPERTIES
    OverdueReaped
    EverySlotPolled
