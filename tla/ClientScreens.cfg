CONSTANTS
    a = a
    b = b
    None = None
    People <- MCPeople
    Name <- MCName
    Split <- MCSplit
    MaxScreens = 6
    MaxSignIn = 3
    MaxInFlight = 2
SPECIFICATION Spec
INVARIANTS
    TypeOK
    
    ButtonAwaitsAnswer
    NoContactHidden
PROPERTIES
    ActsInMyName
