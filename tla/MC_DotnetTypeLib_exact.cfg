\* Every table content: detectTypeLibId must report exactly the genuine TypeLib id.
CONSTANTS
  Guid = Guid
  NotGuid = NotGuid
  Garbled = Garbled
  MaxRows <- MCMaxRows
  ScopeTags <- MCScopeTags
  ClassTags <- MCClassTags
  TypeTags <- MCTypeTags
  BlobSizes <- MCBlobSizesAll
SPECIFICATION Spec
INVARIANT TypeLibExact
