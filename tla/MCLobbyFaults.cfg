SPECIFICATION Spec
CONSTANTS
    MaxLogin = 2
    Names = {n1, n2}
    None = None
    SendFails = TRUE
    UiDelay = TRUE
SYMMETRY NameSymmetry
INVARIANT TableIsSound
