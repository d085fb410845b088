SPECIFICATION ServerSpec
CONSTANTS
    AddrBits = 2
    RcsSize = 2
    Lens <- MCLens
INVARIANTS ServerTypeOK NoLostUpdate ClientsAreThePrefixes DelPointerStillValid AcksAreTrue
PROPERTY RequestIsAnswered
