SPECIFICATION Spec
CONSTANTS
    r1 = r1
    r2 = r2
    r3 = r3
    Requests <- MCRequests
    Operations <- MCOperations
    Buckets <- MCBuckets
    DefaultBucket = "cars"
    BadBuckets <- MCBad
    Unset = "unset"
    Symbols <- MCSymbols
    Seeds <- MCSeeds
    Seed = Seed
SYMMETRY Symmetry
INVARIANTS
    TypeOK
    ConfirmedStands
    Contained
    Addressable
    ListingsTrue
