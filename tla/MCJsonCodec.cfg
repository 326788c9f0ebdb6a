SPECIFICATION CodecSpec
CONSTANTS
    Cases <- MCCases
    Values <- MCValues
    Alphabets <- MCAlphabets
    Types <- FiveTypes
    Root = "A"
    Programs <- Mixed
INVARIANTS
    FunctionsFaithful
    DecodesMeaning
    RoundTrip
    RulesFollowed
CHECK_DEADLOCK FALSE
