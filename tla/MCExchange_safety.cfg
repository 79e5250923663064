CONSTANTS
    A = A  B = B  d = d  k = k  x = x  y = y  NoRecord = NoRecord
    Accounts = {A, B}  First = A  Verb = {B}
    Data = {d}  Dict = {k}  Values = {x, y}  None = NoRecord
    MaxCommits = 4  MaxEvents = 2
CONSTRAINT Explored
SYMMETRY ValueSymmetry
SPECIFICATION Spec
INVARIANTS TypeOK OwnChangesOnly
PROPERTIES HistoryKept
CHECK_DEADLOCK FALSE
