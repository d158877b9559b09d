SPECIFICATION Spec
CONSTANTS
    r1 = r1
    r2 = r2
    Requests <- MCRequests
SYMMETRY Symmetry
INVARIANT
    FirstTriesWorkPost
