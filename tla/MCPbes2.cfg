SPECIFICATION Pbes2Spec
CONSTANTS
    Caller = {g1, g2, g3}
    GivenSalt = 0
    GivenCount = 0
    MaxSalts = 3
INVARIANTS
    EnvelopeOpens
PROPERTY
    SaltSticks
