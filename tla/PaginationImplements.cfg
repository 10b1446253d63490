SPECIFICATION Spec
CONSTANTS
    NoBound = NoBound
    NoStatistics = NoStatistics
    Null = Null
    NoPlan = NoPlan
    Prefixes = {"lo", "hi", "__paged_param"}
    Rows <- TwoRows
    Fields <- OrderedFields
    Uuid4Fields = {}
    UniqueFields = {}
    MaxUuid = 0
    FieldValues <- OrderedValues
    Tables <- OrderedTables
    SchemaInfos <- OrderedSchemaInfos
    PageSize = 2
    LiveStatistics = FALSE
    WholeQueries <- OrderedQueries
    MutableRows = {}
INVARIANTS
    RaisesOnlyOnBadQueries
PROPERTIES
    ImplementsEnumeration
    Terminates
CHECK_DEADLOCK FALSE
