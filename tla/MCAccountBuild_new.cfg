CONSTANTS
    A = A  B = B
    Accounts = {A, B}  Root = A
    Drivers = {"uv", "udt", "jb"}
    Faults = {}  MaxKills = 0  MaxRuns = 2  AtOnce = 1
SPECIFICATION Spec
INVARIANT NewFilesAdopted
CHECK_DEADLOCK FALSE
