SPECIFICATION Spec
CONSTANTS
    Keys = 2
    Models = 2
    Call = {c1, c2}
    First = 1
    Second = 2
    Third = 3
    Auth = 5
INVARIANTS
    TypeOK
    WithinTier
PROPERTIES
    NeverShortened
    EveryKeyReturns
    EveryCallEnds
