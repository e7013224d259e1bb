--------------------------- MODULE DotnetHeaders ---------------------------
(***************************************************************************)
(* Loading of the .NET headers of a PE file: PeFormat::loadDotnetHeaders, *)
(* detectPossibleMetadataHeaderAddress, the stream parsers it calls       *)
(* (parseMetadataStream, parseBlobStream, parseGuidStream,                *)
(* parseStringStream, parseUserStringStream) and the detectors it calls   *)
(* at the end (detectModuleVersionId, detectTypeLibId, detectDotnetTypes). *)
(*                                                                         *)
(* The metadata header is found through the CLR header, or, in a file    *)
(* that imports mscoree.dll, by a byte-wise search of the sections for    *)
(* the signature "BSJB".  A byte position of a section is abstracted to   *)
(* what the search reads there.  A stream directory entry is abstracted   *)
(* to its name and to what the parser of that name can read of it; the    *)
(* metadata tables of a #~ stream are a member of TableSets, records of   *)
(* the four tables detectTypeLibId reads and whether the Module table has *)
(* a row.  A GUID of the #GUID heap is named by the directory entry it    *)
(* was read from.                                                          *)
(***************************************************************************)
EXTENDS Integers, Sequences, FiniteSetsExt
LOCAL INSTANCE Bitwise
TRH == INSTANCE DotnetTypeRefHash

CONSTANTS
  MaxSecs,      \* most sections searched
  MaxCells,     \* most byte positions of a section
  MaxStreams,   \* most entries of the stream directory
  OtherName,    \* a stream name no parser handles
  TableSets,    \* metadata tables of a #~ stream
  Guid,         \* the GUID a TypeLib attribute holds
  DefaultDlls,  \* defDllList
  DllListFiles, \* the override DLL list files initStructures may be given
  ImportInputs, \* what the parser lists of ordinary and delay-loaded imports
  BlobHeaps,    \* byte contents of a #Blob stream and of what follows it
  ExportInputs, \* the exported functions the parser yields
  FileSize,     \* getBytes().size()
  DebugInputs,  \* the debug entries the parser yields
  TlsInputs,    \* TLS data directory, callback offset and file bytes
  MzSize,       \* getMzHeaderSize(), in the units of PeRichHeader
  Standard,     \* STANDARD_RICH_HEADER_OFFSET
  MaxPlain,     \* most bytes between the MZ and the PE header
  NotFound      \* std::string::npos

PI == INSTANCE PeImports
EX == INSTANCE PeExports
PDB == INSTANCE PeDebugInfo
TLS == INSTANCE PeTls

NoId == ""
NotLoaded == [loaded |-> FALSE]
NoPeFile == [valid |-> FALSE]
NoParser == "none"
PeClasses == {"PEFILE_UNKNOWN", "PEFILE32", "PEFILE64"}
LoaderErrors == {"LDR_ERROR_NONE", "error"}   \* PeLib::LoaderError: none or some
Mscoree == [name |-> "mscoree.dll", upper |-> FALSE]
NoHash == [hashed |-> FALSE, bytes |-> <<>>]  \* the hash strings left empty
HashOf(bytes) == [hashed |-> TRUE, bytes |-> bytes]
NoMvid == 0                               \* moduleVersionId.clear()
NoAddress == [sec |-> 0, pos |-> 0]       \* "0 if unsuccessful"
None == [entry |-> 0]                     \* a null stream pointer

(***************************************************************************)
(* What get4Byte, get2Byte and getNTBS find at a byte position:           *)
(*   plain       no signature;                                             *)
(*   genuine     the signature, and the first stream name is one of       *)
(*               possibleStreamNames;                                      *)
(*   foreign     the signature, and another first stream name;            *)
(*   broken      the signature, but the version length or the stream     *)
(*               name cannot be read;                                      *)
(*   unreadable  the 4 bytes cannot be read, which happens only at the    *)
(*               end of the section's data.                                *)
(***************************************************************************)
Cells == {"plain", "genuine", "foreign", "broken", "unreadable"}
Sections ==
  {sec \in UNION {[1..n -> Cells] : n \in 0..MaxCells} :
     \A p \in DOMAIN sec : sec[p] = "unreadable" =>
       \A q \in p..Len(sec) : sec[q] = "unreadable"}

MetadataNames == {"#~", "#-"}
StreamNames == MetadataNames \cup {"#Blob", "#GUID", "#Strings", "#US", OtherName}

(***************************************************************************)
(* What parseMetadataStream can read of a #~ entry: its size is at most  *)
(* the 24-byte header; the header is cut short; a table size cannot be   *)
(* read or exceeds the file, after the tables before it were created     *)
(* without rows; or all tables are parsed.                                *)
(***************************************************************************)
MetadataReads == {"small", "header", "sizes", "rows"}

Entries ==
  [name : MetadataNames, read : MetadataReads, tables : TableSets]
  \cup [name : {"#GUID"}, read : {"unreadable", "ok"}, guids : 0..1]
  \cup [name : StreamNames \ (MetadataNames \cup {"#GUID"})]

(***************************************************************************)
(* The element loop of parseBlobStream.  A heap is the byte sequence the  *)
(* reads see from the stream's start on: its first "size" bytes are the  *)
(* stream, the bytes after them belong to what follows in the file, and a *)
(* read past the last byte fails.  get2Byte and get4Byte read big-endian  *)
(* from the element's first byte, so the length prefix is included.       *)
(***************************************************************************)
Readable(heap, off, n) == off + n <= Len(heap.bytes)

\* lengthSize: 2 for a first byte 10xxxxxx, 4 for 110xxxxx, else 1.
BlobLengthSize(b) ==
  CASE (b & 192) = 128 -> 2       \* (length & 0xC0) == 0x80
    [] (b & 224) = 192 -> 4       \* (length & 0xE0) == 0xC0
    [] OTHER           -> 1

\* The big-endian value of the lengthSize bytes at off after "length &=
\* ~0xC000" or "length &= ~0xE0000000".  The mask clears bits of the first
\* byte only, so it is applied to that byte before the bytes are combined,
\* which keeps the value within TLC's integers.
BlobLength(heap, off, lengthSize) ==
  LET mask == CASE lengthSize = 2 -> 63     \* 0xC000 >> 8 cleared
                [] lengthSize = 4 -> 31     \* 0xE0000000 >> 24 cleared
                [] OTHER          -> 255
      RECURSIVE Acc(_)
      Acc(i) == IF i = 1 THEN heap.bytes[off + 1] & mask
                ELSE Acc(i - 1) * 256 + heap.bytes[off + i]
  IN  Acc(lengthSize)

\* Mutant: the loop runs while inStreamOffset <= size.
RECURSIVE ParseBlobElementsPastHead(_, _, _)
ParseBlobElementsPastHead(heap, off, elements) ==
  IF off > heap.size \/ ~Readable(heap, off, 1) THEN elements
  ELSE
    LET lengthSize == BlobLengthSize(heap.bytes[off + 1])
        length == BlobLength(heap, off, lengthSize)
    IN  IF \/ ~Readable(heap, off, lengthSize)
           \/ length > 0 /\ ~Readable(heap, off + lengthSize, length)
        THEN elements
        ELSE ParseBlobElementsPastHead(heap, off + lengthSize + length,
               Append(elements,
                 [offset |-> off,
                  data |-> SubSeq(heap.bytes, off + lengthSize + 1,
                                  off + lengthSize + length)]))

\* The elements recorded by addElement from inStreamOffset off on; each
\* failed read returns, keeping what was added.
RECURSIVE ParseBlobElements(_, _, _)
ParseBlobElements(heap, off, elements) ==
  IF off >= heap.size \/ ~Readable(heap, off, 1) THEN elements
  ELSE
    LET lengthSize == BlobLengthSize(heap.bytes[off + 1])
        length == BlobLength(heap, off, lengthSize)
    IN  IF \/ ~Readable(heap, off, lengthSize)
           \/ length > 0 /\ ~Readable(heap, off + lengthSize, length)
        THEN elements
        ELSE ParseBlobElements(heap, off + lengthSize + length,
               Append(elements,
                 [offset |-> off,
                  data |-> SubSeq(heap.bytes, off + lengthSize + 1,
                                  off + lengthSize + length)]))

VARIABLES
  peFile,           \* what initStructures made of the file, until a loader runs
  rhPlain, rhStub, rhReading, rhOffset, rhStandardOffset, rhValidStructOffsets,
  rhLastRead, rhRichOffset, rhPc,   \* loadRichHeader's state, until it returns
  imports,          \* what loadImports read and built, until it is used
  exportTable,      \* what loadExports read and built, until the next loader
  pdbInfo,          \* what loadPdbInfo read and built, until the next loader
  tlsInfo,          \* what loadTlsInformation read and built, until used
  clrHeader,        \* a COM descriptor directory of non-zero size, once read
  mscoreeImported,  \* importTable has imports from mscoree.dll
  secs,             \* the sections as the search reads them
  s, p,             \* the section and position of the search
  metadataHeaderAddress,
  metadataHeader,   \* the MetadataHeader object was created
  streamCount,
  directory,        \* the directory entries read so far
  metadataStream, blobStream, guidStream, stringStream, userStringStream,
  moduleVersionId,
  typeLibId,
  typesDetected,    \* definedClasses / importedClasses were reconstructed
  typeRefHash,      \* the bytes computeTypeRefHashes hashed, or NoHash
  pc

loaders == <<exportTable, pdbInfo, tlsInfo>>
rich == <<rhPlain, rhStub, rhReading, rhOffset, rhStandardOffset, rhValidStructOffsets,
          rhLastRead, rhRichOffset, rhPc>>

\* loadRichHeader, the first loader initStructures calls.
RH == INSTANCE PeRichHeader WITH
  plain <- rhPlain, stub <- rhStub, reading <- rhReading, offset <- rhOffset,
  standardOffset <- rhStandardOffset, validStructOffsets <- rhValidStructOffsets,
  lastRead <- rhLastRead, richOffset <- rhRichOffset, pc <- rhPc

\* The rich header state before loadRichHeader runs and after it returned.
RichIdle ==
  /\ rhPlain = <<>> /\ rhStub = NotFound /\ rhReading = [o \in RH!Offsets |-> "none"]
  /\ rhOffset = 0 /\ rhStandardOffset = FALSE /\ rhValidStructOffsets = <<>>
  /\ rhLastRead = NotFound /\ rhRichOffset = NotFound /\ rhPc = "start"

\* The same state, as the step that drops what loadRichHeader found.
RichReset ==
  /\ rhPlain' = <<>> /\ rhStub' = NotFound /\ rhReading' = [o \in RH!Offsets |-> "none"]
  /\ rhOffset' = 0 /\ rhStandardOffset' = FALSE /\ rhValidStructOffsets' = <<>>
  /\ rhLastRead' = NotFound /\ rhRichOffset' = NotFound /\ rhPc' = "start"

vars == <<peFile, rich, imports, loaders, clrHeader, mscoreeImported, secs, s, p, metadataHeaderAddress,
          metadataHeader, streamCount, directory, metadataStream, blobStream,
          guidStream, stringStream, userStringStream, moduleVersionId,
          typeLibId, typesDetected, typeRefHash, pc>>

streams == <<metadataStream, blobStream, guidStream, stringStream, userStringStream>>
results == <<moduleVersionId, typeLibId, typesDetected, typeRefHash>>

Init ==
  /\ peFile = NoPeFile
  /\ RichIdle
  /\ imports = NotLoaded
  /\ exportTable = NotLoaded /\ pdbInfo = NotLoaded /\ tlsInfo = NotLoaded
  /\ clrHeader = FALSE
  /\ mscoreeImported = FALSE
  /\ secs = <<>>
  /\ s = 0 /\ p = 0
  /\ metadataHeaderAddress = NoAddress
  /\ metadataHeader = FALSE
  /\ streamCount = 0
  /\ directory = <<>>
  /\ metadataStream = None /\ blobStream = None /\ guidStream = None
  /\ stringStream = None /\ userStringStream = None
  /\ moduleVersionId = NoMvid
  /\ typeLibId = NoId
  /\ typesDetected = FALSE
  /\ typeRefHash = NoHash
  /\ pc = "open"

-----------------------------------------------------------------------------
(***************************************************************************)
(* Where the metadata header is.                                          *)
(***************************************************************************)
(***************************************************************************)
(* initStructures: openPeFile, the header and directory reads, then the   *)
(* format parser of the class getFileType reports.  A read, getFileType   *)
(* and the parser's construction may throw, and the catch leaves the file *)
(* invalid; only a valid file is loaded.  The DLL list initStructures     *)
(* reads first is taken with loadImports (LoadImportTable), since nothing *)
(* in between reads it.  What initStructures made of the file is dropped  *)
(* once the loaders start.                                                 *)
(***************************************************************************)
\* initLoaderErrorInfo(ldrError): only the first error is kept.
InitLoaderErrorInfo(current, ldrError) ==
  IF current = "LDR_ERROR_NONE" THEN ldrError ELSE current

\* Mutant: no default case, so stateIsValid keeps the TRUE set before the reads.
SwitchOnClassNoDefault(cls, castOk) ==
  IF cls = "PEFILE_UNKNOWN" THEN [valid |-> TRUE, parser |-> NoParser]
  ELSE [valid |-> castOk, parser |-> IF castOk THEN cls ELSE NoParser]

\* The switch on peClass: stateIsValid = f32 && peHeader32 (or 64), and the
\* parser of that class when the dynamic_cast succeeds.
SwitchOnClass(cls, castOk) ==
  IF cls = "PEFILE_UNKNOWN" THEN [valid |-> FALSE, parser |-> NoParser]
  ELSE [valid |-> castOk, parser |-> IF castOk THEN cls ELSE NoParser]

(***************************************************************************)
(* The machine type of the file header, as getTargetArchitecture,         *)
(* getEndianness and getBytesPerWord read it through formatParser, each   *)
(* with a switch of its own.  OTHER stands for every machine type none of *)
(* the switches names.                                                     *)
(***************************************************************************)
Machines == {"I386", "I486", "PENTIUM", "AMD64", "R3000_BIG", "R3000_LITTLE", "R4000",
             "R10000", "WCEMIPSV2", "MIPS16", "MIPSFPU", "MIPSFPU16", "ARM", "THUMB",
             "ARMNT", "ARM64", "POWERPC", "POWERPCFP", "OTHER"}

ArchitectureMachines ==
  [X86 |-> {"I386", "I486", "PENTIUM"},
   X86_64 |-> {"AMD64"},
   MIPS |-> {"R3000_BIG", "R3000_LITTLE", "R4000", "R10000", "WCEMIPSV2", "MIPS16",
             "MIPSFPU", "MIPSFPU16"},
   ARM |-> {"ARM", "THUMB", "ARMNT", "ARM64"},
   POWERPC |-> {"POWERPC", "POWERPCFP"}]

GetTargetArchitecture(m) ==
  IF \E a \in DOMAIN ArchitectureMachines : m \in ArchitectureMachines[a]
  THEN CHOOSE a \in DOMAIN ArchitectureMachines : m \in ArchitectureMachines[a]
  ELSE "UNKNOWN"

GetEndianness(m) ==
  CASE m = "R3000_BIG" -> "BIG"
    [] m \in Machines \ {"R3000_BIG", "OTHER"} -> "LITTLE"
    [] OTHER -> "UNKNOWN"

\* Mutant: ARM64 is missing from the switch, so it has no word size.
GetBytesPerWordNoArm64(m, peClass) ==
  CASE m \in {"AMD64", "R10000", "MIPSFPU"} -> 8
    [] m \in {"MIPS16", "MIPSFPU16"} -> 2
    [] m \in {"R4000", "POWERPC", "POWERPCFP"} -> IF peClass = "PEFILE64" THEN 8 ELSE 4
    [] m \in {"I386", "I486", "PENTIUM", "R3000_BIG", "R3000_LITTLE", "WCEMIPSV2",
              "ARM", "THUMB", "ARMNT"} -> 4
    [] OTHER -> 0

GetBytesPerWord(m, peClass) ==
  CASE m \in {"AMD64", "R10000", "MIPSFPU", "ARM64"} -> 8
    [] m \in {"MIPS16", "MIPSFPU16"} -> 2
    [] m \in {"R4000", "POWERPC", "POWERPCFP"} -> IF peClass = "PEFILE64" THEN 8 ELSE 4
    [] m \in {"I386", "I486", "PENTIUM", "R3000_BIG", "R3000_LITTLE", "WCEMIPSV2",
              "ARM", "THUMB", "ARMNT"} -> 4
    [] OTHER -> 0

\* throws is where an exception leaves the try block: in one of the reads
\* before initLoaderErrorInfo, in getFileType, in the parser's constructor.
OpenPeFile ==
  /\ pc = "open"
  /\ \E opened \in BOOLEAN, throws \in {"nowhere", "reads", "fileType", "parser"},
        err \in LoaderErrors, cls \in PeClasses, castOk \in BOOLEAN, machine \in Machines :
       LET errorRead == opened /\ throws /= "reads"
           classRead == errorRead /\ throws /= "fileType"
           sw == SwitchOnClass(cls, castOk)
           valid == classRead /\ sw.valid /\ throws /= "parser"
       IN  /\ peFile' = [valid |-> valid,
                         peClass |-> IF classRead THEN cls ELSE "PEFILE_UNKNOWN",
                         machine |-> machine,
                         parser |-> IF classRead /\ throws /= "parser" THEN sw.parser ELSE NoParser,
                         loaderError |-> IF errorRead THEN InitLoaderErrorInfo("LDR_ERROR_NONE", err)
                                         ELSE "LDR_ERROR_NONE"]
           /\ pc' = IF valid THEN "rich" ELSE "invalid"
  /\ UNCHANGED <<rich, imports, loaders, clrHeader, mscoreeImported, secs, s, p, metadataHeaderAddress,
                 metadataHeader, streamCount, directory, streams, results>>

(***************************************************************************)
(* loadRichHeader runs first on a valid file, as the steps of             *)
(* PeRichHeader.  What initStructures made of the file is dropped when it *)
(* starts; the bytes between the MZ and the PE header and what PeLib      *)
(* reads at each offset are then chosen (RichHeaderInput), and what       *)
(* loadRichHeader found is dropped when loadImports runs: no later loader *)
(* reads either.  (loadSections and loadSymbols, between the two, are     *)
(* modelled by PeSections.)                                                *)
(***************************************************************************)
StartRichHeader ==
  /\ pc = "rich"
  /\ peFile' = NoPeFile
  /\ pc' = "richInput"
  /\ UNCHANGED <<rich, imports, loaders, clrHeader, mscoreeImported, secs, s, p,
                 metadataHeaderAddress, metadataHeader, streamCount, directory, streams, results>>

RichHeaderInput ==
  /\ pc = "richInput"
  /\ rhPlain' \in RH!PlainTexts
  /\ rhStub' \in RH!Stubs(rhPlain')
  /\ rhReading' \in [RH!Offsets -> RH!Readings]
  /\ pc' = "richHeader"
  /\ UNCHANGED <<peFile, rhOffset, rhStandardOffset, rhValidStructOffsets, rhLastRead, rhRichOffset,
                 rhPc, imports, loaders, clrHeader, mscoreeImported, secs, s, p,
                 metadataHeaderAddress, metadataHeader, streamCount, directory, streams, results>>

RichHeaderStep ==
  /\ pc = "richHeader"
  /\ \/ RH!NoRoom \/ RH!OffsetPastPeHeader \/ RH!ReadAtComputedOffset
     \/ RH!ReadAfterMzHeader \/ RH!SkipMzHeader
     \/ RH!ReadAtStandardOffset \/ RH!SkipStandardOffset
     \/ RH!NoRichHeader \/ RH!ValidRichHeader \/ RH!RecoveredRichHeader
  /\ UNCHANGED <<peFile, imports, loaders, clrHeader, mscoreeImported, secs, s, p,
                 metadataHeaderAddress, metadataHeader, streamCount, directory, streams,
                 results, pc>>

RichHeaderLoaded ==
  /\ pc = "richHeader"
  /\ rhPc = "done"
  /\ pc' = "imports"
  /\ UNCHANGED <<peFile, rich, imports, loaders, clrHeader, mscoreeImported, secs, s, p,
                 metadataHeaderAddress, metadataHeader, streamCount, directory, streams, results>>

(***************************************************************************)
(* initStructures reads the DLL list and loadImports builds the import    *)
(* table before loadDotnetHeaders runs; of that table loadDotnetHeaders  *)
(* reads only whether mscoree.dll has imports, so the table is dropped    *)
(* once that is taken.                                                     *)
(***************************************************************************)
LoadImportTable ==
  /\ pc = "imports"
  /\ \E file \in DllListFiles, input \in ImportInputs :
       LET dllList == PI!InitDllList(file).dllList
           table == PI!LoadImports(dllList, input.libraries, input.delayLibraries)
       IN  /\ imports' = [loaded |-> TRUE, file |-> file, input |-> input,
                          dllList |-> dllList, table |-> table]
           /\ mscoreeImported' = (PI!NumberOfImportsInLibraryCaseInsensitive(table, Mscoree) > 0)
  /\ RichReset
  /\ pc' = "exports"
  /\ UNCHANGED <<peFile, loaders, clrHeader, secs, s, p, metadataHeaderAddress, metadataHeader,
                 streamCount, directory, streams, results>>

(***************************************************************************)
(* loadExports, loadPdbInfo and loadTlsInformation run next, in this      *)
(* order (loadResources and loadCertificates, between the last two, are   *)
(* modules of their own).  None reads what another loader built, so each  *)
(* result is dropped at the next step.                                     *)
(***************************************************************************)
LoadExports ==
  /\ pc = "exports"
  /\ \E functions \in ExportInputs :
       exportTable' = [loaded |-> TRUE, functions |-> functions,
                       table |-> EX!LoadExports(functions)]
  /\ imports' = NotLoaded
  /\ pc' = "pdb"
  /\ UNCHANGED <<peFile, rich, pdbInfo, tlsInfo, clrHeader, mscoreeImported, secs, s, p,
                 metadataHeaderAddress, metadataHeader, streamCount, directory,
                 streams, results>>

LoadPdbInfo ==
  /\ pc = "pdb"
  /\ \E entries \in DebugInputs :
       pdbInfo' = [loaded |-> TRUE, entries |-> entries, info |-> PDB!LoadPdbInfo(entries)]
  /\ exportTable' = NotLoaded
  /\ pc' = "tls"
  /\ UNCHANGED <<peFile, rich, imports, tlsInfo, clrHeader, mscoreeImported, secs, s, p,
                 metadataHeaderAddress, metadataHeader, streamCount, directory,
                 streams, results>>

LoadTlsInformation ==
  /\ pc = "tls"
  /\ \E in \in TlsInputs :
       tlsInfo' = [loaded |-> TRUE, input |-> in, info |-> TLS!LoadTlsInformation(in)]
  /\ pdbInfo' = NotLoaded
  /\ pc' = "start"
  /\ UNCHANGED <<peFile, rich, imports, exportTable, clrHeader, mscoreeImported, secs, s, p,
                 metadataHeaderAddress, metadataHeader, streamCount, directory,
                 streams, results>>

\* getImageBaseAddress() + clrHeader->getMetadataDirectoryAddress()
ClrMetadataAddress == [sec |-> 0, pos |-> 1]

UseClrHeader ==
  /\ pc = "start"
  /\ clrHeader' = TRUE
  /\ metadataHeaderAddress' = ClrMetadataAddress
  /\ pc' = "header"
  /\ tlsInfo' = NotLoaded
  /\ UNCHANGED <<peFile, rich, imports, exportTable, pdbInfo, mscoreeImported, secs, s, p, metadataHeader,
                 streamCount, directory, streams, results>>

\* Neither a CLR header nor an import of mscoree.dll: not a .NET file.
NotDotnet ==
  /\ pc = "start"
  /\ clrHeader' = FALSE
  /\ ~mscoreeImported
  /\ pc' = "returned"
  /\ tlsInfo' = NotLoaded
  /\ UNCHANGED <<peFile, rich, imports, exportTable, pdbInfo, mscoreeImported, secs, s, p, metadataHeaderAddress,
                 metadataHeader, streamCount, directory, streams, results>>

\* detectPossibleMetadataHeaderAddress over the sections vector.
StartSearch ==
  /\ pc = "start"
  /\ clrHeader' = FALSE
  /\ mscoreeImported
  /\ \E ss \in UNION {[1..n -> Sections] : n \in 0..MaxSecs} : secs' = ss
  /\ s' = 1 /\ p' = 1
  /\ pc' = "search"
  /\ tlsInfo' = NotLoaded
  /\ UNCHANGED <<peFile, rich, imports, exportTable, pdbInfo, mscoreeImported, metadataHeaderAddress,
                 metadataHeader, streamCount, directory, streams, results>>

\* The byte at position p of section s.
Cell == secs[s][p]

\* No signature, or a first stream name not among possibleStreamNames.
SearchNextByte ==
  /\ pc = "search"
  /\ s <= Len(secs) /\ p <= Len(secs[s])
  /\ Cell \in {"plain", "foreign"}
  /\ p' = p + 1
  /\ UNCHANGED <<peFile, rich, clrHeader, mscoreeImported, imports, loaders, secs, s, metadataHeaderAddress,
                 metadataHeader, streamCount, directory, streams, results, pc>>

\* A failed get4Byte, get2Byte or getNTBS: break out of this section.
SearchSectionBroken ==
  /\ pc = "search"
  /\ s <= Len(secs) /\ p <= Len(secs[s])
  /\ Cell \in {"broken", "unreadable"}
  /\ s' = s + 1 /\ p' = 1
  /\ UNCHANGED <<peFile, rich, clrHeader, mscoreeImported, imports, loaders, secs, metadataHeaderAddress,
                 metadataHeader, streamCount, directory, streams, results, pc>>

SearchNextSection ==
  /\ pc = "search"
  /\ s <= Len(secs) /\ p > Len(secs[s])
  /\ s' = s + 1 /\ p' = 1
  /\ UNCHANGED <<peFile, rich, clrHeader, mscoreeImported, imports, loaders, secs, metadataHeaderAddress,
                 metadataHeader, streamCount, directory, streams, results, pc>>

\* metadataHeaderFound: both loops break and the address is returned.
SearchFound ==
  /\ pc = "search"
  /\ s <= Len(secs) /\ p <= Len(secs[s])
  /\ Cell = "genuine"
  /\ metadataHeaderAddress' = [sec |-> s, pos |-> p]
  /\ pc' = "searched"
  /\ UNCHANGED <<peFile, rich, clrHeader, mscoreeImported, imports, loaders, secs, s, p, metadataHeader,
                 streamCount, directory, streams, results>>

SearchEnds ==
  /\ pc = "search"
  /\ s > Len(secs)
  /\ metadataHeaderAddress' = NoAddress
  /\ pc' = "searched"
  /\ UNCHANGED <<peFile, rich, clrHeader, mscoreeImported, imports, loaders, secs, s, p, metadataHeader,
                 streamCount, directory, streams, results>>

\* if (metadataHeaderAddress == 0) return;
NoMetadataHeader ==
  /\ pc = "searched"
  /\ metadataHeaderAddress = NoAddress
  /\ pc' = "returned"
  /\ UNCHANGED <<peFile, rich, clrHeader, mscoreeImported, imports, loaders, secs, s, p, metadataHeaderAddress,
                 metadataHeader, streamCount, directory, streams, results>>

UseSearchedAddress ==
  /\ pc = "searched"
  /\ metadataHeaderAddress /= NoAddress
  /\ pc' = "header"
  /\ UNCHANGED <<peFile, rich, clrHeader, mscoreeImported, imports, loaders, secs, s, p, metadataHeaderAddress,
                 metadataHeader, streamCount, directory, streams, results>>

(***************************************************************************)
(* The metadata header: a wrong signature, or a version, version string,  *)
(* flags or stream count that cannot be read, returns.  Otherwise the     *)
(* MetadataHeader is created and the stream directory read.  The search's *)
(* view of the sections is not read again and is dropped from the state.  *)
(***************************************************************************)
HeaderRejected ==
  /\ pc = "header"
  /\ pc' = "returned"
  /\ UNCHANGED <<peFile, rich, clrHeader, mscoreeImported, imports, loaders, secs, s, p, metadataHeaderAddress,
                 metadataHeader, streamCount, directory, streams, results>>

HeaderRead ==
  /\ pc = "header"
  /\ metadataHeader' = TRUE
  /\ streamCount' \in 0..MaxStreams
  /\ secs' = <<>> /\ s' = 0 /\ p' = 0
  /\ pc' = "directory"
  /\ UNCHANGED <<peFile, rich, clrHeader, mscoreeImported, imports, loaders, metadataHeaderAddress, directory,
                 streams, results>>

-----------------------------------------------------------------------------
(***************************************************************************)
(* The stream directory: entry k is read and handed to the parser of its  *)
(* name; the address then moves past the entry's rounded-up name.         *)
(***************************************************************************)
NextEntry == Len(directory) + 1

ReadingEntry == pc = "directory" /\ Len(directory) < streamCount

\* The size check made after the stream is created.
MetadataStreamTooSmallCreating ==
  /\ ReadingEntry
  /\ \E e \in Entries : /\ e.name \in MetadataNames
                        /\ e.read = "small"
                        /\ directory' = Append(directory, e)
                        /\ metadataStream' = [entry |-> NextEntry, read |-> e.read,
                                              tables |-> e.tables]
  /\ UNCHANGED <<peFile, rich, clrHeader, mscoreeImported, imports, loaders, secs, s, p, metadataHeaderAddress,
                 metadataHeader, streamCount, blobStream, guidStream,
                 stringStream, userStringStream, results, pc>>

\* parseMetadataStream: size <= metadataStreamHeaderSize returns at once.
MetadataStreamTooSmall ==
  /\ ReadingEntry
  /\ \E e \in Entries : /\ e.name \in MetadataNames
                        /\ e.read = "small"
                        /\ directory' = Append(directory, e)
  /\ UNCHANGED <<peFile, rich, clrHeader, mscoreeImported, imports, loaders, secs, s, p, metadataHeaderAddress,
                 metadataHeader, streamCount, streams, results, pc>>

(***************************************************************************)
(* parseMetadataStream: the stream is created, replacing any earlier one, *)
(* before its header is read; a failed header or table-size read returns  *)
(* with what was created so far.                                          *)
(***************************************************************************)
ParseMetadataStream ==
  /\ ReadingEntry
  /\ \E e \in Entries : /\ e.name \in MetadataNames
                        /\ e.read /= "small"
                        /\ directory' = Append(directory, e)
                        /\ metadataStream' = [entry |-> NextEntry, read |-> e.read,
                                              tables |-> e.tables]
  /\ UNCHANGED <<peFile, rich, clrHeader, mscoreeImported, imports, loaders, secs, s, p, metadataHeaderAddress,
                 metadataHeader, streamCount, blobStream, guidStream,
                 stringStream, userStringStream, results, pc>>

\* The GUID stream created before its bytes are read, as the other parsers do.
GuidStreamUnreadableReplacing ==
  /\ ReadingEntry
  /\ \E e \in Entries : /\ e.name = "#GUID"
                        /\ e.read = "unreadable"
                        /\ directory' = Append(directory, e)
                        /\ guidStream' = [entry |-> NextEntry, guids |-> 0]
  /\ UNCHANGED <<peFile, rich, clrHeader, mscoreeImported, imports, loaders, secs, s, p, metadataHeaderAddress,
                 metadataHeader, streamCount, metadataStream, blobStream,
                 stringStream, userStringStream, results, pc>>

\* parseGuidStream: getXBytes fails before the stream is created.
GuidStreamUnreadable ==
  /\ ReadingEntry
  /\ \E e \in Entries : /\ e.name = "#GUID"
                        /\ e.read = "unreadable"
                        /\ directory' = Append(directory, e)
  /\ UNCHANGED <<peFile, rich, clrHeader, mscoreeImported, imports, loaders, secs, s, p, metadataHeaderAddress,
                 metadataHeader, streamCount, streams, results, pc>>

ParseGuidStream ==
  /\ ReadingEntry
  /\ \E e \in Entries : /\ e.name = "#GUID"
                        /\ e.read = "ok"
                        /\ directory' = Append(directory, e)
                        /\ guidStream' = [entry |-> NextEntry, guids |-> e.guids]
  /\ UNCHANGED <<peFile, rich, clrHeader, mscoreeImported, imports, loaders, secs, s, p, metadataHeaderAddress,
                 metadataHeader, streamCount, metadataStream, blobStream,
                 stringStream, userStringStream, results, pc>>

\* parseBlobStream, parseStringStream, parseUserStringStream create their
\* stream first, whatever the element loop then reads; the blob stream's
\* heap is chosen here, when the parser first reads it.
ParseBlobStream ==
  /\ ReadingEntry
  /\ directory' = Append(directory, [name |-> "#Blob"])
  /\ \E heap \in BlobHeaps :
       blobStream' = [entry |-> NextEntry, heap |-> heap,
                      elements |-> ParseBlobElements(heap, 0, <<>>)]
  /\ UNCHANGED <<peFile, rich, clrHeader, mscoreeImported, imports, loaders, secs, s, p, metadataHeaderAddress,
                 metadataHeader, streamCount, metadataStream, guidStream,
                 stringStream, userStringStream, results, pc>>

ParseStringStream ==
  /\ ReadingEntry
  /\ directory' = Append(directory, [name |-> "#Strings"])
  /\ stringStream' = [entry |-> NextEntry]
  /\ UNCHANGED <<peFile, rich, clrHeader, mscoreeImported, imports, loaders, secs, s, p, metadataHeaderAddress,
                 metadataHeader, streamCount, metadataStream, blobStream,
                 guidStream, userStringStream, results, pc>>

ParseUserStringStream ==
  /\ ReadingEntry
  /\ directory' = Append(directory, [name |-> "#US"])
  /\ userStringStream' = [entry |-> NextEntry]
  /\ UNCHANGED <<peFile, rich, clrHeader, mscoreeImported, imports, loaders, secs, s, p, metadataHeaderAddress,
                 metadataHeader, streamCount, metadataStream, blobStream,
                 guidStream, stringStream, results, pc>>

SkipUnknownStream ==
  /\ ReadingEntry
  /\ directory' = Append(directory, [name |-> OtherName])
  /\ UNCHANGED <<peFile, rich, clrHeader, mscoreeImported, imports, loaders, secs, s, p, metadataHeaderAddress,
                 metadataHeader, streamCount, streams, results, pc>>

-----------------------------------------------------------------------------
(***************************************************************************)
(* The detectors, called once the whole directory was read.               *)
(***************************************************************************)
\* The Module table has a row: its mvId, the first GUID of the heap, is
\* read by guidStream->getGuidString, empty when the heap has no GUID.
ModuleVersionId ==
  IF /\ metadataStream /= None /\ guidStream /= None
     /\ metadataStream.read = "rows" /\ metadataStream.tables.modules /= <<>>
     /\ guidStream.guids >= 1
  THEN guidStream.entry
  ELSE NoMvid

\* detectTypeLibId, composed through its abstract specification: the
\* tables it searches are those of the metadata stream.
TL(tables, present) ==
  INSTANCE DotnetTypeLibSpec WITH
    streamsPresent <- present,
    assemblyRefs <- tables.assemblyRefs, typeRefs <- tables.typeRefs,
    memberRefs <- tables.memberRefs, customAttributes <- tables.customAttributes,
    done <- FALSE

DetectedTypeLibIds ==
  IF metadataStream /= None /\ metadataStream.read = "rows"
  THEN TL(metadataStream.tables, stringStream /= None /\ blobStream /= None)!TypeLibIds
  ELSE {NoId}

\* DotnetTypeReconstructor is not part of the repository: it is taken to
\* fail without the metadata, #Strings and #Blob streams.
\* computeTypeRefHashes, called by detectDotnetTypes whatever the
\* reconstruction gave.  It returns without hashing when the metadata or
\* #Strings stream or the TypeRef table is missing.  A stream cut short in
\* the table sizes has created some tables without rows, and a stream with
\* no TypeRef row may or may not have the table.
TypeRefHashOutcomes ==
  IF metadataStream = None \/ stringStream = None \/ metadataStream.read = "header"
  THEN {NoHash}
  ELSE IF metadataStream.read = "sizes" \/ metadataStream.tables.typeRefs = <<>>
  THEN {NoHash, HashOf(<<>>)}
  ELSE {HashOf(TRH!TypeRefHashBytes(metadataStream.tables))}

ReconstructOutcomes ==
  IF metadataStream /= None /\ stringStream /= None /\ blobStream /= None
  THEN BOOLEAN ELSE {FALSE}

\* Mutant: the failed read breaks out of the loop instead of returning, so
\* the detectors run on the entries read so far.
EntryUnreadableBreak ==
  /\ ReadingEntry
  /\ moduleVersionId' = ModuleVersionId
  /\ typeLibId' \in DetectedTypeLibIds
  /\ typesDetected' \in ReconstructOutcomes
  /\ typeRefHash' \in TypeRefHashOutcomes
  /\ pc' = "done"
  /\ UNCHANGED <<peFile, rich, clrHeader, mscoreeImported, imports, loaders, secs, s, p, metadataHeaderAddress,
                 metadataHeader, streamCount, directory, streams>>

\* get4Byte or getNTBS of the entry fails: return before the detectors.
EntryUnreadable ==
  /\ ReadingEntry
  /\ pc' = "returned"
  /\ UNCHANGED <<peFile, rich, clrHeader, mscoreeImported, imports, loaders, secs, s, p, metadataHeaderAddress,
                 metadataHeader, streamCount, directory, streams, results>>

DirectoryRead ==
  /\ pc = "directory"
  /\ Len(directory) = streamCount
  /\ moduleVersionId' = ModuleVersionId
  /\ typeLibId' \in DetectedTypeLibIds
  /\ typesDetected' \in ReconstructOutcomes
  /\ typeRefHash' \in TypeRefHashOutcomes
  /\ pc' = "done"
  /\ UNCHANGED <<peFile, rich, clrHeader, mscoreeImported, imports, loaders, secs, s, p, metadataHeaderAddress,
                 metadataHeader, streamCount, directory, streams>>

Terminated == pc \in {"invalid", "done", "returned"} /\ UNCHANGED vars

Next ==
  \/ OpenPeFile
  \/ StartRichHeader \/ RichHeaderInput \/ RichHeaderStep \/ RichHeaderLoaded
  \/ LoadImportTable \/ LoadExports \/ LoadPdbInfo \/ LoadTlsInformation
  \/ UseClrHeader \/ NotDotnet \/ StartSearch
  \/ SearchNextByte \/ SearchSectionBroken \/ SearchNextSection
  \/ SearchFound \/ SearchEnds
  \/ NoMetadataHeader \/ UseSearchedAddress
  \/ HeaderRejected \/ HeaderRead
  \/ EntryUnreadable
  \/ MetadataStreamTooSmall \/ ParseMetadataStream
  \/ GuidStreamUnreadable \/ ParseGuidStream
  \/ ParseBlobStream \/ ParseStringStream \/ ParseUserStringStream
  \/ SkipUnknownStream
  \/ DirectoryRead
  \/ Terminated

Spec == Init /\ [][Next]_vars

-----------------------------------------------------------------------------
(***************************************************************************)
(* Reference definitions, from the directory as it was read.              *)
(***************************************************************************)
\* The last entry of the directory that Accepts, or 0.
LastEntry(Accepts(_)) ==
  LET K == {k \in DOMAIN directory : Accepts(directory[k])}
  IN  IF K = {} THEN 0 ELSE Max(K)

\* The first position, in section order, where the signature is followed
\* by one of possibleStreamNames.
FirstGenuine ==
  LET G == {<<i, j>> \in (DOMAIN secs) \X (1..MaxCells) :
              j \in DOMAIN secs[i] /\ secs[i][j] = "genuine"}
  IN  IF G = {} THEN NoAddress
      ELSE LET f == CHOOSE g \in G : \A h \in G : g[1] < h[1] \/ (g[1] = h[1] /\ g[2] <= h[2])
           IN  [sec |-> f[1], pos |-> f[2]]

\* The compressed length at byte off of a heap, after ECMA-335 II.23.2,
\* stated with arithmetic instead of masks: one byte 0xxxxxxx, two bytes
\* 10xxxxxx, four bytes 110xxxxx.  A first byte 111xxxxx, which the
\* standard leaves unused, counts as a one-byte length.
CompressedLength(heap, off) ==
  LET b(i) == IF Readable(heap, off, i) THEN heap.bytes[off + i] ELSE 0
  IN  CASE b(1) < 128 \/ b(1) >= 224 -> [size |-> 1, length |-> b(1)]
        [] b(1) < 192 -> [size |-> 2, length |-> (b(1) - 128) * 256 + b(2)]
        [] OTHER      -> [size |-> 4, length |-> (b(1) - 192) * 16777216
                                          + b(2) * 65536 + b(3) * 256 + b(4)]

\* An element can be read at off: its prefix and its data are in the heap.
ElementReadable(heap, off) ==
  LET c == CompressedLength(heap, off)
  IN  Readable(heap, off, c.size) /\ Readable(heap, off + c.size, c.length)

ElementEnd(heap, off) ==
  off + CompressedLength(heap, off).size + CompressedLength(heap, off).length

-----------------------------------------------------------------------------
TypeOK ==
  /\ imports \in {NotLoaded} \cup [loaded : {TRUE}, file : DllListFiles, input : ImportInputs,
                                    dllList : SUBSET [name : STRING, upper : BOOLEAN],
                                    table : [libraries : Seq([name : [name : STRING, upper : BOOLEAN], missing : BOOLEAN]),
                                             imports : Seq([library : Nat])]]
  /\ exportTable \in {NotLoaded} \cup [loaded : {TRUE}, functions : Seq(EX!ExportedFunction),
                                       table : Seq([name : STRING, address : Nat])]
  /\ pdbInfo \in {NotLoaded} \cup
       [loaded : {TRUE}, entries : Seq(PDB!DebugEntry),
        info : {PDB!NoPdb} \cup [loaded : {TRUE}, type : {"RSDS", "NB10"}, timeStamp : Nat,
                                guid : Int, age : Int, path : Int]]
  /\ tlsInfo \in {NotLoaded} \cup
       [loaded : {TRUE}, input : TLS!TlsInput,
        info : {TLS!NoTls} \cup [loaded : {TRUE}, callBacks : Seq(Nat)]]
  /\ clrHeader \in BOOLEAN /\ mscoreeImported \in BOOLEAN
  /\ secs \in Seq(Sections)
  /\ metadataHeaderAddress \in [sec : 0..MaxSecs, pos : 0..MaxCells]
  /\ metadataHeader \in BOOLEAN
  /\ streamCount \in 0..MaxStreams
  /\ directory \in Seq(Entries) /\ Len(directory) <= streamCount
  /\ metadataStream \in {None} \cup [entry : 1..MaxStreams,
                                     read : MetadataReads \ {"small"}, tables : TableSets]
  /\ guidStream \in {None} \cup [entry : 1..MaxStreams, guids : 0..1]
  /\ blobStream \in {None} \cup [entry : 1..MaxStreams, heap : BlobHeaps,
                                 elements : Seq([offset : Nat, data : Seq(0..255)])]
  /\ {stringStream, userStringStream} \subseteq [entry : 0..MaxStreams]
  /\ moduleVersionId \in 0..MaxStreams
  /\ typeLibId \in {NoId, Guid}
  /\ typesDetected \in BOOLEAN
  /\ typeRefHash \in {NoHash} \cup [hashed : {TRUE}, bytes : Seq(STRING)]
  /\ peFile \in {NoPeFile} \cup
       [valid : BOOLEAN, peClass : PeClasses, parser : (PeClasses \ {"PEFILE_UNKNOWN"}) \cup {NoParser},
        machine : Machines, loaderError : LoaderErrors]
  /\ RH!TypeOK
  /\ pc \in {"open", "invalid", "rich", "richInput", "richHeader", "imports", "exports", "pdb", "tls", "start", "search", "searched", "header", "directory", "done", "returned"}

(***************************************************************************)
(* When the directory lists a stream more than once, the detectors see    *)
(* the last entry each parser accepted: the module version id is the GUID *)
(* of the last #GUID entry whose bytes could be read, provided the last   *)
(* #~ or #- entry larger than its header had all its tables parsed with a *)
(* Module row, and the TypeLib id is one the tables of that entry allow.  *)
(* parseMetadataStream replaces the stream before reading it, while       *)
(* parseGuidStream replaces it only after a successful read.              *)
(***************************************************************************)
DetectedIdsFromDirectory ==
  pc = "done" =>
    LET m == LastEntry(LAMBDA e : e.name \in MetadataNames /\ e.read /= "small")
        g == LastEntry(LAMBDA e : e.name = "#GUID" /\ e.read = "ok")
        listed(n) == \E k \in DOMAIN directory : directory[k].name = n
        parsed == m /= 0 /\ directory[m].read = "rows"
    IN  /\ moduleVersionId =
             IF parsed /\ directory[m].tables.modules /= <<>> /\ g /= 0 /\ directory[g].guids >= 1
             THEN g ELSE NoMvid
        /\ typeLibId \in
             IF parsed
             THEN TL(directory[m].tables, listed("#Strings") /\ listed("#Blob"))!TypeLibIds
             ELSE {NoId}

(***************************************************************************)
(* "@return Possible metadata header address, 0 if unsuccessful": the     *)
(* search of a file without CLR header returns the first position whose   *)
(* signature is followed by a known stream name, and 0 only when there is *)
(* none.  A failed read at a spurious signature breaks out of the whole   *)
(* section, while a wrong stream name there only moves on.                *)
(***************************************************************************)
MetadataSearchFindsFirst ==
  pc = "searched" => metadataHeaderAddress = FirstGenuine

(***************************************************************************)
(* loadImports lists the ordinary libraries and then the delay-loaded     *)
(* ones in the parser's order, and each library gets exactly the imports  *)
(* the parser listed under it: the ordinary imports through the index the *)
(* parser sets, the delay-loaded ones through getNumberOfLibraries() - 1. *)
(* So loadDotnetHeaders searches for a metadata header exactly when      *)
(* mscoree.dll, in any case, has an ordinary or a delay-loaded import.   *)
(***************************************************************************)
ImportsAttributedToLibraries ==
  imports.loaded =>
    LET listed == imports.input.libraries \o imports.input.delayLibraries
        table == imports.table
    IN  /\ Len(table.libraries) = Len(listed)
        /\ \A k \in DOMAIN listed :
             /\ table.libraries[k].name = listed[k].name
             /\ Cardinality({m \in DOMAIN table.imports : table.imports[m].library = k - 1})
                  = listed[k].imports
        /\ mscoreeImported =
             \E k \in DOMAIN listed : PI!Lower(listed[k].name) = Mscoree /\ listed[k].imports > 0

(***************************************************************************)
(* The DLL list decides the missing-dependency flags: a library that a    *)
(* line of the opened list names, in any case, is never missing; without *)
(* a list, or with one that cannot be opened, a library is missing        *)
(* exactly when it is not an API set and not in the default set; and a    *)
(* delay-loaded library is never checked.                                  *)
(***************************************************************************)
DllListDecidesMissing ==
  imports.loaded =>
    LET file == imports.file
        libs == imports.table.libraries
        ordinary == Len(imports.input.libraries)
        lower(k) == PI!Lower(libs[k].name)
    IN  \A k \in DOMAIN libs :
          /\ k > ordinary => ~libs[k].missing
          /\ file.given /\ file.opens
             /\ (\E l \in DOMAIN file.lines : PI!Lower(file.lines[l]) = lower(k))
             => ~libs[k].missing
          /\ ~file.given \/ ~file.opens =>
               (libs[k].missing <=>
                  k <= ordinary /\ ~PI!IsApiSet(lower(k)) /\ lower(k) \notin DefaultDlls)

(***************************************************************************)
(* The TypeRef hash of a fully parsed metadata stream is taken of the     *)
(* full names of all TypeRef rows joined by ',', each full name the non-  *)
(* empty parts of the row joined by '.', except that rows whose full name *)
(* is empty leave no separator while they come first: computeTypeRefHashes *)
(* pushes ',' only after some byte was pushed.  Two tables that differ    *)
(* only by leading rows without names hash alike.                         *)
(***************************************************************************)
TypeRefHashJoinsFullNames ==
  pc = "done" /\ typeRefHash.hashed /\ metadataStream.read = "rows" =>
    typeRefHash.bytes = TRH!ExpectedTypeRefHashBytes(metadataStream.tables)

(***************************************************************************)
(* parseBlobStream records the blobs of the heap one after another: the   *)
(* first at offset 0, each next where the previous one's data ends, each *)
(* holding exactly the bytes its length prefix announces, and every one  *)
(* starting inside the stream; the loop ends early only at a blob that    *)
(* cannot be read.  The last blob may run past the stream's size into the *)
(* bytes that follow it: the loop is bounded only at its head.            *)
(***************************************************************************)
BlobElementsTileStream ==
  blobStream /= None =>
    LET heap == blobStream.heap
        E == blobStream.elements
        next == IF E = <<>> THEN 0 ELSE ElementEnd(heap, E[Len(E)].offset)
    IN  /\ \A i \in DOMAIN E :
             /\ E[i].offset = IF i = 1 THEN 0 ELSE ElementEnd(heap, E[i - 1].offset)
             /\ E[i].offset < heap.size
             /\ ElementReadable(heap, E[i].offset)
             /\ Len(E[i].data) = CompressedLength(heap, E[i].offset).length
             /\ \A j \in DOMAIN E[i].data :
                  E[i].data[j] = heap.bytes[ElementEnd(heap, E[i].offset) - Len(E[i].data) + j]
        /\ next < heap.size => ~ElementReadable(heap, next)

\* loadExports keeps the readable exported functions before the first
\* unreadable one, in the parser's order and with their addresses.  A name
\* with a non-printable character is replaced by "exported_function_"
\* followed by the address as a hexadecimal numeral, and a printable one is
\* kept.
ExportTableIsReadablePrefix ==
  exportTable.loaded => EX!IsReadablePrefixTable(exportTable.functions, exportTable.table)

\* loadPdbInfo takes the first debug entry that holds a CodeView record
\* and is fully readable in the directory, whatever follows it, and keeps
\* exactly the GUID, age and path of that record's layout that lie inside
\* the file.  A record whose fields lie past the end of the file still ends
\* the loop.
PdbInfoFromFirstRecord ==
  pdbInfo.loaded => pdbInfo.info = PDB!ExpectedLoadPdbInfo(pdbInfo.entries)

\* With a TLS directory, loadTlsInformation records every non-zero 32-bit
\* word of the callback array in file order, from AddressOfCallBacks up to
\* the first zero word or the last whole word before the end of the file,
\* and nothing when the address maps to no file offset.
TlsCallBacksUntilNull ==
  tlsInfo.loaded => tlsInfo.info = TLS!ExpectedTls(tlsInfo.input)

(***************************************************************************)
(* loadDotnetHeaders returns from the directory loop when an entry cannot *)
(* be read (get4Byte or getNTBS fails), before detectModuleVersionId,     *)
(* detectTypeLibId and detectDotnetTypes: a module version id, TypeLib    *)
(* id, reconstructed types or TypeRef hash is only ever set once every   *)
(* entry the header announces has been read, however many streams were    *)
(* parsed before the failure.                                             *)
(***************************************************************************)
DetectorsSeeWholeDirectory ==
  <<moduleVersionId, typeLibId, typesDetected, typeRefHash>> /= <<NoMvid, NoId, FALSE, NoHash>> =>
    pc = "done" /\ Len(directory) = streamCount

(***************************************************************************)
(* initStructures starts the loaders only for a file whose reads all      *)
(* succeeded and whose class got its format parser: every loader reads    *)
(* through formatParser, so the first one must find the parser of the     *)
(* class getFileType reported, whatever threw or failed to cast before.   *)
(***************************************************************************)
LoadersHaveFormatParser ==
  pc = "rich" => peFile.valid /\ peFile.parser = peFile.peClass

(***************************************************************************)
(* getTargetArchitecture, getEndianness and getBytesPerWord decide by     *)
(* three separate switches over the machine type of the file the loaders  *)
(* run on; they must know the same machine types: a file of a known       *)
(* architecture has a known endianness and a word size, and one of an     *)
(* unknown architecture has neither, in PE32 and PE32+ alike.             *)
(***************************************************************************)
MachineSwitchesAgree ==
  pc = "rich" =>
    LET m == peFile.machine
        known == GetTargetArchitecture(m) /= "UNKNOWN"
    IN  /\ known = (GetEndianness(m) /= "UNKNOWN")
        /\ known = (GetBytesPerWord(m, peFile.peClass) > 0)

(* loadRichHeader, as the first loader of initStructures: the offset     *)
(* getRichHeaderOffset computes is the end of the run of NUL bytes after  *)
(* the DOS stub (RichOffsetIsEndOfNulRun of PeRichHeader).                *)
RichOffsetIsEndOfNulRun == RH!RichOffsetIsEndOfNulRun

(* loadRichHeader reports the Rich header at the first offset tried with  *)
(* a valid header, or else at the largest one with a valid structure,     *)
(* preferring one that is no fixed fallback (RichHeaderChosen of          *)
(* PeRichHeader).                                                          *)
RichHeaderChosen == RH!RichHeaderChosen

====
