CONSTANTS
    NumSlots = 2
    KeepAlive = 2
    Socks = {s1, s2, s3}
    Names = {a}
    Passwords = {p}
    Texts = {m}
    Tokens = {t}
    OwnerNullable = TRUE
    None = None
    MaxTime = 6
    MaxUserId = 0
    MaxCopies = 1
SPECIFICATION Spec
SYMMETRY SocketSymmetry
INVARIANTS
    SocketsAccountedFor
    ScannedAreCurrent
PROPERTIES
    ClosedOnlyAfterSilence
