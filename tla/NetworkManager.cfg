CONSTANTS
    MaxWire = 3
SPECIFICATION Spec
INVARIANTS
    TypeOK
    OneConnection
    ReadsInStep
    ScreenMeansNoConnection
PROPERTIES
    ProbesAnswered
    OutageShown
