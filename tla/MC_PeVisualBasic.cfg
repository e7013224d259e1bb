CONSTANTS
  StrValues <- MCStrValues
  MaxExterns = 2
  MaxObjects = 2
  MaxMethods = 1
  NoStr = NoStr

SPECIFICATION Spec

INVARIANTS
  TypeOK
  ExternsMatchTable
  ObjectsMatchTable
  ProjectNamePrecedence
