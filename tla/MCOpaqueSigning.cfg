SPECIFICATION SigningSpec
CONSTANTS
    Caller = {g1, g2}
    Signer = {"hsm", "kms"}
    Recipients <- MCRecipients
    MaxCalls = 1
    MaxRotation = 2
INVARIANTS
    AllOrNothing
    NamedThenSigned
    NonceOnce
CHECK_DEADLOCK FALSE
