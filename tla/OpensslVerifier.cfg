SPECIFICATION Spec
CONSTANTS
    Contexts = {ctx1, ctx2}
    Pointers = {p1, p2, p3}
    Null = Null
    Dirs = {"revokes", "passes", "noIndex"}
    Default = "passes"
    Chains <- MCChains
    Says <- MCSays
INVARIANTS TypeOK NoMisuse OneOwner
PROPERTIES PassesSound RevokedReported
SYMMETRY Symmetry
CHECK_DEADLOCK FALSE
