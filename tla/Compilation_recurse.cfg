SPECIFICATION Spec
CONSTANTS
  Null = Null
  NULL = Null
  Queries <- MCQueries
  PropertyTypes <- MCPropertyTypes
  VertexFieldTypes <- MCVertexFieldTypes
  Interfaces <- MCInterfaces
  UnionMembers <- MCUnionMembers
  TypeEquivalenceHints <- MCHints
  VertexTypes <- MCVertexTypes
  Neighbors <- MCNeighbors
  Properties <- MCProperties
  ParameterValues <- MCParameterValues
  ForeignKeyAtEnd <- MCForeignKeyAtEnd
INVARIANTS
  FrontendIsConsistent
CHECK_DEADLOCK FALSE
