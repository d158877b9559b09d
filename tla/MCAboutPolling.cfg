SPECIFICATION Spec
CONSTANTS
    c1 = c1
    c2 = c2
    w1 = w1
    w2 = w2
    Requests <- MCRequests
    Writers <- MCWriters
    Ids <- MCIds
    Large <- MCLarge
    MaxEdits = 2
    NoBody = NoBody
    NoWriter = NoWriter
    Discard = Discard
SYMMETRY Symmetry
INVARIANTS
    TypeOK
    WritersOwned
PROPERTIES
    QuietPollShowsTables
    ShownIsComputed
