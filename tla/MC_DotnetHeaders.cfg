\* The whole of loadDotnetHeaders: both ways to the metadata header, every
\* directory of up to three entries, and the detectors.
CONSTANTS
  MaxSecs <- MCMaxSecs
  MaxCells <- MCMaxCells
  MaxStreams <- MCMaxStreams
  OtherName = OtherName
  TableSets <- MCTableSets
  Guid = Guid
  BlobHeaps <- MCBlobHeaps
  DefaultDlls <- MCDefaultDlls
  DllListFiles <- MCDllListFiles
  ImportInputs <- MCImportInputs
  FileSize <- MCFileSize
  DebugInputs <- MCDebugInputs
  TlsInputs <- MCTlsInputs
  ExportInputs <- MCExportInputs
  MzSize <- MCMzSize
  Standard <- MCStandard
  MaxPlain <- MCMaxPlain
  NotFound = NotFound
SPECIFICATION Spec
INVARIANTS
  TypeOK
  DetectedIdsFromDirectory
  BlobElementsTileStream
  TypeRefHashJoinsFullNames
  ImportsAttributedToLibraries
  DllListDecidesMissing
  PdbInfoFromFirstRecord
  TlsCallBacksUntilNull
  ExportTableIsReadablePrefix
  DetectorsSeeWholeDirectory
  LoadersHaveFormatParser
  MachineSwitchesAgree
  RichOffsetIsEndOfNulRun
  RichHeaderChosen
