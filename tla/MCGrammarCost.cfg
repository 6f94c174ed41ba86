CONSTANTS
    A = A
    B = B
    X = X
    MaxRules = 2
    MaxTokens = 2
    GrammarKeys <- MCKeys
    TermLens <- MCTermLens
    Grammars <- MCGrammars
    Inf = Inf
SPECIFICATION Spec
INVARIANTS CostExact PoolMade PoolMinimal
PROPERTY PassesEnd
CHECK_DEADLOCK FALSE
