\* Tests in any order over three encodings, any of which can fail.
SPECIFICATION Spec
CONSTANTS
    Encodings = {Unencoded, Dictionary, VariableStringDictionary}
    Unencoded = Unencoded
    Tables = {"a", "b"}
    Queries <- MCQueries
    Modifies <- MCModifies
    CanFail <- MCAnyTest
    ResultCacheCapacity = 2
INVARIANTS
    TypeOK
    SqliteTablesMintAfterSetUp
    HyriseTablesMintWhileTestsPass
