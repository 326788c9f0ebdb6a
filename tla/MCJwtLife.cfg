SPECIFICATION Spec
CONSTANTS
    Names = {"iss", "sub"}
    Plain = {"x", "y"}
    Structs <- MCStructs
    SigAlgs = {"HS256"}
    KeyAlgs = {"dir", "RSA-OAEP"}
    MaxBuilders = 3
    MaxWrites = 2
    Second = 2
    MaxTime = 6
    Tokens <- MCTokens
    Expectations <- MCExpectations
    Leeways <- MCLeeways
    Skews <- MCSkews
INVARIANTS
    OwnClaims
    VerifiedAsBuilt
    ServerAcceptsWhatClientAccepts
PROPERTY
    ExpiredForGood
