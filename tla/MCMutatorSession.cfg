CONSTANTS
    Entries = {0, 1}
    Seeds = {0}
    Texts <- MCTexts
    Derivable <- MCDerivable
    Parse <- MCParse
    Cut <- MCCut
    NoTree = NoTree
    Addr = {p1, p2, p3, p4}
    CustomOnly = FALSE
    MaxAborts = 1
    MaxCrashes = 1
    MaxSize = 1
SPECIFICATION Spec
SYMMETRY MCSymmetry
INVARIANTS TreesLive LostByAbortOnly TreeFileDescribesEntry CurrentTreeOfEntry
CHECK_DEADLOCK FALSE
