\* Does a test start on mint tables when an earlier test has failed?
SPECIFICATION Spec
CONSTANTS
    Encodings = {Unencoded, Dictionary, VariableStringDictionary}
    Unencoded = Unencoded
    Tables = {"a", "b"}
    Queries <- MCQueries
    Modifies <- MCModifies
    CanFail <- MCAnyTest
    ResultCacheCapacity = 2
INVARIANT
    HyriseTablesMintAfterSetUp
