\* Every layout: calculateDigest must hash exactly the file bytes outside the ranges.
CONSTANTS
  FileSize <- MCFileSize
  HeaderOffsets <- MCHeaderOffsets
  SecDirOffsets <- MCSecDirOffsets
  SecDirSizes <- MCSecDirSizes
  Word <- MCWord
SPECIFICATION Spec
INVARIANT DigestExact
