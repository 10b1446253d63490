SPECIFICATION Spec
CONSTANTS
    Schemas <- AllSchemas
    TypeRenamings <- SmallTypeRenamings
    FieldRenamings <- SmallFieldRenamings
    ValidNames <- Valid
    QueryType = "Query"
    BuiltinScalars = {"String"}
    NULL = "none"
    MaxNodes = 5
INVARIANTS
    RenamedSchemaIsValid
    ReverseMapsUndo
    EveryRenamingHasEffect
    NamesAreTranslatedBeforeCoercions
CHECK_DEADLOCK FALSE
