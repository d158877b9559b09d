SPECIFICATION ListSpec
CONSTANTS
    Lists = {"r1", "r2"}
    OrderBy <- MCOrderBy
    Tables <- MCTables
    MetaTimeout = 2
    ReadTimeout = 4
    ListTimeout = 8
    WriteTimeout = 6
INVARIANTS
    ListTypeOK
    FirstAnswerHeard
    ResolvedNeverRejected
    SettledInOrder
PROPERTIES
    ListEnds
