SPECIFICATION Spec
CONSTANTS
    s1 = s1  s2 = s2  r1 = r1  r2 = r2  slashed = slashed  control = control
    v1 = v1  v2 = v2  small = small  large = large  directory = directory  e1 = e1  e2 = e2
    nobody = nobody  nothing = nothing
    Session = {s1, s2}
    Nobody = nobody
    Rec = {r1, slashed}
    Bad = {slashed}
    Ctl = control
    Value = {v1}
    Size = {small, large}
    Dir = directory
    Edit = {e1, e2}
    None = nothing
    Doors = {"daemon", "callc", "engine"}
    MaxVerbs = 3  MaxUses = 2  MaxBreaks = 1  MaxIdle = 1  MaxDeaths = 1  MaxFaults = 1
CONSTRAINT Bounded
SYMMETRY Symmetry
CHECK_DEADLOCK FALSE
INVARIANTS TypeOK InStep
PROPERTIES AddIsWhole ControlKept SkippedTold
