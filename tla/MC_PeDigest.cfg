\* The digest covers exactly the bytes outside the three ranges in the normal layout.
CONSTANTS
  FileSize <- MCFileSize
  HeaderOffsets <- MCHeaderOffsets
  SecDirOffsets <- MCSecDirOffsets
  SecDirSizes <- MCSecDirSizes
  Word <- MCWord
SPECIFICATION Spec
INVARIANT TypeOK
INVARIANT DigestExcludesExactlyWhenSeparated
