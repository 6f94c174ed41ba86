CONSTANTS
    NoTree = NoTree
    Bytes = {1}
    MaxVal = 2
    MaxFds = 2
    MaxCrashes = 1
    Trees <- MCTrees
SPECIFICATION Spec
INVARIANTS TornFileRefused DescriptorsLostByErrors
PROPERTY ImplementsRegister
