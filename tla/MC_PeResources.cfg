CONSTANTS
  MaxKids <- MCMaxKids
  MaxEntries <- MCMaxEntries
  TypeNames <- MCTypeNames
SPECIFICATION Spec
INVARIANT TypeOK
INVARIANT FlattenedInLevelOrder
INVARIANT ResourcesMatchTree
