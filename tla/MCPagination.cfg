SPECIFICATION Spec
CONSTANTS
    NoBound = NoBound
    NoStatistics = NoStatistics
    Null = Null
    NoPlan = NoPlan
    Prefixes = {"lo", "hi", "__paged_param"}
    Rows <- TwoRows
    Fields <- KeyFields
    Uuid4Fields = {"uuid"}
    UniqueFields = {"uuid"}
    MaxUuid = 9
    FieldValues <- KeyValues
    Tables <- KeyTables
    SchemaInfos <- KeySchemaInfos
    PageSize = 2
    LiveStatistics = TRUE
    WholeQueries <- KeyQueries
    MutableRows = {"r2"}
INVARIANTS
    TypeOK
    ExactlyOnce
    PagesValidate
    FieldIsStable
    QueriesDoNotGrow
    SplitsAreNotEmpty
PROPERTIES
    RemaindersMoveUp
CHECK_DEADLOCK FALSE
