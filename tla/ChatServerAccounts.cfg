CONSTANTS
    NumSlots = 2
    KeepAlive = 1
    Socks = {s1, s2}
    Names = {a, b}
    Passwords = {p}
    Texts = {m}
    Tokens = {t}
    OwnerNullable = TRUE
    None = None
    MaxTime = 0
    MaxUserId = 3
    MaxCopies = 2
SPECIFICATION Spec
SYMMETRY Symmetry
INVARIANTS
    TypeOK
    UniqueUsers
    NoDanglingContacts
    NoDuplicateContacts
    SessionIdentity
PROPERTIES
    OnlyOwnOrNamesakesRowsChange
    RepliesMatchSessions
    ImplementsDirectory
