\* The search for the metadata header of a file without CLR header.
CONSTANTS
  MaxSecs <- MCMaxSecs
  MaxCells <- MCMaxCells
  MaxStreams <- MCMaxStreams
  OtherName = OtherName
  TableSets <- MCTableSets
  Guid = Guid
  BlobHeaps <- MCBlobHeaps
  DefaultDlls <- MCDefaultDlls
  DllListFiles <- MCDllListFiles
  ImportInputs <- MCImportInputs
  FileSize <- MCFileSize
  DebugInputs <- MCDebugInputs
  TlsInputs <- MCTlsInputs
  ExportInputs <- MCExportInputs
  MzSize <- MCMzSize
  Standard <- MCStandard
  MaxPlain <- MCMaxPlain
  NotFound = NotFound
SPECIFICATION Spec
INVARIANT MetadataSearchFindsFirst
