CONSTANTS
    Entries = {0, 1}
    Seeds = {0}
    Texts <- MCTexts
    Derivable <- MCDerivable
    Parse <- MCParse
    Cut <- MCCut
    NoTree = NoTree
    Addr = {p1, p2, p3, p4, p5}
    CustomOnly = FALSE
    MaxAborts = 2
    MaxCrashes = 0
    MaxSize = 2
SPECIFICATION Spec
SYMMETRY MCSymmetry
INVARIANT NewTreeCorresponds
CHECK_DEADLOCK FALSE
