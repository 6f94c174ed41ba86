CONSTANTS
    A = A
    B = B
    X = X
    MaxTokens = 2
    MaxTreeLen = 4
    GrammarKeys <- MCKeys
    TermLens <- MCTermLens
    PooledGrammars <- MCGrammars
SPECIFICATION GenSpec
INVARIANTS LimitsKept MinimalTree
PROPERTY GenerationEnds
CHECK_DEADLOCK FALSE
