SPECIFICATION Spec
CONSTANTS
    Byte <- MCByte
    Size = 3
    Hash <- MCHash
    Modulus = 4
    MaxTotal = 14
    KeySize = 4
    Half <- MCHalf
    defaultIV = 2
    Enc <- MCEnc
    Dec <- MCDec
    Xor <- MCXor
    Extra = {0, 3}
    MaxBlocks = 3
INVARIANTS
    UnwrapInvertsWrap
    AcceptsOnlyWrapped
PROPERTIES
    DeliversStream
CHECK_DEADLOCK FALSE
