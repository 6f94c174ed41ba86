CONSTANTS
    Data = {d1, d2}
    Addr = {p1, p2, p3, p4}
    NULL = NULL
SPECIFICATION ListSpec
PROPERTY ImplementsSeqList
