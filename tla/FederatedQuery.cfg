SPECIFICATION Spec
CONSTANTS
    Federations <- SmallFederations
    Queries <- SmallQueries
    MergedQueryType = "RootSchemaQuery"
    ValidNames <- Valid
    BuiltinScalars = {"String", "Int", "ID"}
    NULL = NULL
INVARIANTS
    ConflictsDoNotDependOnOrder
    MergedSchemaIsValid
    EdgesCanBeWalked
    MergedSchemasCanBeSplit
    OutNamesStayUnique
    NothingIsDropped
    PlanComputesQuery
CHECK_DEADLOCK FALSE
