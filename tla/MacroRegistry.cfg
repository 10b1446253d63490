SPECIFICATION Spec
CONSTANTS
    Interfaces <- TwoInterfaces
    ObjectTypes <- ThreeObjects
    Implements <- ImplementsBoth
    EquivalentUnion <- OneUnion
    FieldNames <- OneField
    ValidExpansions = {"path", "other path"}
    Definitions <- AllDefinitions
INVARIANTS
    TypeOK
    OnePerClass
    Reversible
    SchemaWithMacrosIsValid
PROPERTIES
    AcceptsCompatible
