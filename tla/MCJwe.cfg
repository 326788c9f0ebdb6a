SPECIFICATION Spec
CONSTANTS
    EncrypterConf <- MCEncrypterConf
    Plaintext <- MCPlaintext
    Aad <- MCAad
    Foreign <- MCForeign
    AddedHeader <- MCAddedHeader
    OtherBytes <- MCOtherBytes
    AllowLists <- MCAllowLists
    DecKeys <- MCDecKeys
INVARIANTS
    DecryptedWasEncrypted
    AlgEncPinned
    NoMessageAfterError
    RoundTrip
    ForeignDecrypts
    DecryptAgreesWithMulti
CHECK_DEADLOCK FALSE
