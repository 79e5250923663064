SPECIFICATION Spec
CONSTANTS
    O = O  C = C  K = K  L = L  R = R  N = N  J = J
    Items <- AllItems
    Names = {K, L, R, N, J}
    Rank <- OrderedNames
    Attrs = {0, 1, 2}
    Nothing = Nothing
    Missing = Missing
    Garbled = Garbled
    Blank = Blank
    Multi = Multi
    SmAt6 = TRUE
    Depth = 3
    Foreign <- MVXTrees
    Pulled <- Chains
    Authored <- Native
    MaxEdits = 2
    MaxCommits = 1
INVARIANTS TypeOK UntouchedReadsClean ColumnsMean EditsMean
PROPERTY AddSettles
CHECK_DEADLOCK FALSE
