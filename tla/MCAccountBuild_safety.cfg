CONSTANTS
    A = A  B = B
    Accounts = {A, B}  Root = A
    Drivers = {"uv", "udt", "jb", "mvx"}
    Faults = {"account", "seed", "build"}  MaxKills = 2  MaxRuns = 3  AtOnce = 1
CONSTRAINT Explored
SPECIFICATION Spec
INVARIANTS TypeOK EditsKept SuccessIsTrue
PROPERTIES  BuiltInClearedTree
CHECK_DEADLOCK FALSE
