CONSTANTS
    F = F  A = A  O = O  D = D
    PROC = PROC  STK = STK  QPTR = QPTR  CAT = CAT
    VOC = VOC  Pointer = Pointer  Control = Control  None = None
    Main = main  v1 = v1  v2 = v2
    Files = {F}  DataIds = {A}  DictIds = {D}  VocIds = {}
    Class <- BareClass  Stock <- NoStock  Source <- NoSource
    Furniture = {}  Provisioned = {}  Named <- NothingNamed
    Values = {v1, v2}  Branches = {main, topic}  MaxCommits = 2
SPECIFICATION Spec
SYMMETRY ValueSymmetry
INVARIANTS TypeOK WrittenBack
PROPERTIES AddAllSettles SwitchDropsFiles SwitchReadsClean
CHECK_DEADLOCK FALSE
