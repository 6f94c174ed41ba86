CONSTANTS
    NULL = NULL
    ByteValues = {0, 107, 255}
    CodeValues = {0, 25, 64}
    MaxBytes = 6
    MaxCode = 9
    MaxFields = 3
    TestCases <- MCTestCases
SPECIFICATION Spec
INVARIANTS BufferHolds BothOrNone InputsComeBack
CHECK_DEADLOCK FALSE
