SPECIFICATION Spec
CONSTANTS
    r1 = r1
    r2 = r2
    Requests <- MCRequests
    N = 3
    Schemas <- MCSchemas
INVARIANTS
    TypeOK
    NoSpuriousFailure
    FirstAccepted
PROPERTIES
    WarmStaysWarm
    Terminates
