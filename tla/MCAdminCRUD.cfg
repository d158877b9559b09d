SPECIFICATION Spec
CONSTANTS
    r1 = r1
    r2 = r2
    r3 = r3
    Requests <- MCRequests
    Operations <- MCOperations
    Columns <- MCColumns
    Texts <- MCTexts
    NotNull <- MCRequired
    Default <- MCDefault
    MutableColumns <- MCColumns
    RequiredOnCreate <- MCRequired
    TouchUpdatedAt = FALSE
    Seeds <- MCSeeds
SYMMETRY Symmetry
INVARIANTS
    TypeOK
    EditsSurvive
    DeletedIsGone
    EmptiedByEdit
PROPERTIES
    ImplementsTable
