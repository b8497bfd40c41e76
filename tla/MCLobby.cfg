SPECIFICATION Spec
CONSTANTS
    MaxLogin = 3
    Names = {n1, n2, n3}
    None = None
    SendFails = FALSE
    UiDelay = FALSE
SYMMETRY NameSymmetry
INVARIANT TypeOK
INVARIANT UniqueNames
INVARIANT AuthedHasMaster
INVARIANT ProcessorsAgree
PROPERTY StartsWithEveryoneReady
