SPECIFICATION Spec
CONSTANTS
    SubclassSets <- Subclasses
    MacroEdgesAtClass <- Macros
    Queries <- AllQueries
INVARIANTS
    TagsStayInOrder
    ScopesDoNotMix
    SelectionsAreMerged
    ArgumentsMatch
    EachMacroEdgeOnce
CHECK_DEADLOCK FALSE
