SPECIFICATION Spec
CONSTANTS
    s1 = s1
    s2 = s2
    Submissions <- MCSubmissions
    Payloads <- MCPayloads
INVARIANTS
    TypeOK
    RowsClean
    AlertsTrue
    ConfirmedIsNotified
PROPERTIES
    ImplementsInbox
    Settles
