CONSTANTS
    F = F  A = A  O = O  D = D
    PROC = PROC  STK = STK  QPTR = QPTR  CAT = CAT
    VOC = VOC  Pointer = Pointer  Control = Control  None = None
    Main = main  v1 = v1  v2 = v2
    Files = {F}  DataIds = {A}  DictIds = {}  VocIds = {}
    Class <- BareClass  Stock <- NoStock  Source <- NoSource
    Furniture = {}  Provisioned = {}  Named <- NothingNamed
    Values = {v1, v2}  Branches = {main, topic}  MaxCommits = 4
SPECIFICATION Spec
SYMMETRY ValueSymmetry
PROPERTIES DeletedStaysDeleted HistoryOnlyGrows
CHECK_DEADLOCK FALSE
