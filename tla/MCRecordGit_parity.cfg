CONSTANTS
    F = F  A = A  O = O  D = D
    PROC = PROC  STK = STK  QPTR = QPTR  CAT = CAT
    VOC = VOC  Pointer = Pointer  Control = Control  None = None
    Main = main
    Files = {F}  DataIds = {A, O}  DictIds = {}
    VocIds = {STK, QPTR, CAT}
    Class <- KindClass  Stock <- KindStock  Source <- ObjectOfA
    Furniture = {}  Provisioned = {CAT}  Named <- SomeNamed
    Values = {1, 2}  Branches = {main}  MaxCommits = 1
SPECIFICATION Spec
CONSTRAINT Bounded
PROPERTY AddAllSettles
CHECK_DEADLOCK FALSE
