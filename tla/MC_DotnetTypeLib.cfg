CONSTANTS
  Guid = Guid
  NotGuid = NotGuid
  Garbled = Garbled
  MaxRows <- MCMaxRows
  ScopeTags <- MCScopeTags
  ClassTags <- MCClassTags
  TypeTags <- MCTypeTagsAll
  BlobSizes <- MCBlobSizes
SPECIFICATION FairSpec
PROPERTY TypeLibRefinesSpec
