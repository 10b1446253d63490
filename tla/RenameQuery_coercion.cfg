SPECIFICATION Spec
CONSTANTS
    Schemas <- SmallSchemas
    TypeRenamings <- SmallTypeRenamings
    FieldRenamings <- SmallFieldRenamings
    ValidNames <- Valid
    QueryType = "Query"
    BuiltinScalars = {"String"}
    NULL = "none"
    MaxNodes = 5
INVARIANTS
    NamesAreTranslated
CHECK_DEADLOCK FALSE
