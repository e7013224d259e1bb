CONSTANTS
  MaxSecs = 2
  MayFail = TRUE
  SecNames <- ScanNames
  UsualNames = {".text"}
  PackerNames = {"UPX0"}
  UsualChars <- MCUsualChars
  Flags <- ScanFlags
  Starts = {0, 1}
  Sizes = {0, 2}
  LargeSize = 2
  MaxSymbols = 1
  SymbolLinks = {1, 2}
  Values = {0}
  StorageClasses = {"EXTERNAL"}
  ComplexTypes = {"NONE"}
  NoSec = NoSec
SPECIFICATION Spec
INVARIANTS
  TypeOK
  ScanReportsExactly
  EntryPointReports
  SymbolAddressesBeforeFirstSkip
