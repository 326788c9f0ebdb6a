SPECIFICATION Spec
CONSTANTS
    Key <- MCKey
    Payload <- MCPayload
    B64 <- MCB64
    Raw <- MCRaw
    SignerConf <- MCSignerConf
    Foreign <- MCForeign
    AddedHeader <- MCAddedHeader
    OtherBytes <- MCOtherBytes
    AllowLists <- MCAllowLists
    VerKeys <- MCVerKeys
INVARIANTS
    VerifiedWasSigned
    AlgPinned
    RoundTrip
    ForeignVerifies
    VerifyAgreesWithMulti
CHECK_DEADLOCK FALSE
