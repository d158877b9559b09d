SPECIFICATION Spec
CONSTANTS
    Requests = {"r1", "r2"}
    Operations <- MCOperations
    Texts = {"a", "b"}
    Absent = "absent"
INVARIANTS
    TypeOK
    WrittenIsRead
    ImagesKept
