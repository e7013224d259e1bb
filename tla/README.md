# TLA+ models of the retdec PE format loader

This directory holds TLA+ specifications of the parts of
`src/src/fileformat/file_format/pe/pe_format.cpp` (class `PeFormat`) that have
enough control logic for a model checker to find something a unit test would
miss. They come with the TLC configurations that check them. `PROJECT.json`
lists every component, run, mutant, finding and hazard. Its `map` ties every
definition to the source lines it translates.

## The system

`PeFormat` is constructed over a file buffer. `initStructures` (lines 415-507)
parses the headers through `PeFormatParser`. It then calls the loaders in a
fixed order, each of which fills one part of the object:

- **Headers:**
  - `loadRichHeader` (608-702) finds the Rich header, trying three offsets.
  - `loadVisualBasicHeader` (704-1239) reads the Visual Basic header.
- **Sections and symbols:** `loadSections` and `loadSymbols` (1241-1304).
- **Imports and exports:** `loadImports` and `loadExports` (1310-1381).
- **Debug and TLS:** `loadPdbInfo` (1386-1462) and `loadTlsInformation` (1816-1856).
- **Resources:** `getResourceNodes`, `loadResourceNodes` and `loadResources`
  (558-606, 1467-1647) flatten the resource tree level by level. They then
  locate the type, name and language nodes by index arithmetic.
- **Certificates:** `loadCertificates` (1649-1814) rebuilds the certificate
  chains of the Authenticode signature.
- **.NET:** `loadDotnetHeaders` and the `parse*Stream` and `detect*` functions
  (1858-2793) read the CLR header, the metadata streams and the TypeLib id.
- **Anomalies:** `scanForAnomalies` (3487-3786) reports malformed layouts.

Two further functions are called on demand rather than from the load pipeline.
`verifySignature` and `calculateDigest` / `getDigestRanges` (1959-2112) compute
the Authenticode digest over the file minus three excluded ranges:
- the CheckSum field;
- the security data-directory entry;
- the security directory itself.

Everything runs on one thread. The hard cases are not interleavings. They are
the unusual inputs the code must survive: ranges in an unexpected order,
offsets past the end of the file, cyclic or duplicated certificate names, and
counts that disagree with what was actually loaded.

The other sources in `src/` hold little logic of their own:
- the ARM calling-convention constructor fills constant register lists, which
  `ParamReturn` uses;
- the parameter-reconstruction pass (`param_return.h`) is only declared: its
  implementation is not in the repository. `ParamReturn` models its caller
  side from the specification and the tests;
- the Watcom ABI and PKCS7 headers are declarations only.

## Modules

| Module | Models | State | Actions |
|---|---|---|---|
| `PeDigest` | `getDigestRanges`, `calculateDigest` | the four header values, the sorted vector `offsets`, `lastOffset`, `result`, the hashed byte positions, `pc` | `BuildRanges` (vector and sort), `SkipCoveredRange` / `EmitRange` (the two outcomes of the loop body), `FinishRanges`, `HashRanges`, `HashFails` |
| `PeCertificates` | `loadCertificates` | the certificate stack, the subject and issuer names, signer and counter-signer, `subjectToCert`, `nextIssuer`, `counterChain`, the certificate table and the two indices, `pc` | `Pkcs7Unavailable`, `NoSigner` (the early returns), `BuildSubjectMap`, `TakeCertificate`, `SwitchToCounterChain`, `ChainBroken`, `ChainsDone` |
| `PeResources` | `getResourceNodes`, `loadResourceNodes`, `loadResources` | the resource tree (nodes named by their path), `nodes`, `levels`, the loop counters `gi`, `ge`, `i`, `j`, the shifts `nSft` and `lSft`, the resources made, `iconGroupIDcounter`, `pc` | `VisitNode` (one step of the breadth-first loop), `ResourceNodesDone`, `LoadResourceNodes`, `StartTypes`, `SkipNullType`, `EnterType`, `SkipNullName`, `EnterName` (all languages of one name), `LeaveType`, `TypesDone`, and the early returns |
| `DotnetTypeLib` | `detectTypeLibId` | the AssemblyRef, TypeRef, MemberRef and CustomAttribute tables with their coded indices and blobs, the rows found, the loop index, `typeLibId`, `pc` | one action per outcome of each of the three searches: found, skipped, search ends, not found; `NotTypeLib`, `TypeLibFound`, `ShortBlob` for the blob |
| `DotnetHeaders` | `initStructures` (`openPeFile`, the reads in its `try` block, `initLoaderErrorInfo`, the switch on the PE class) with `getTargetArchitecture`, `getEndianness` and `getBytesPerWord`, `initDllList` and `loadImports` (through `PeImports`), then `loadDotnetHeaders`, `detectPossibleMetadataHeaderAddress`, the five stream parsers, `detectModuleVersionId`, and the calls of `detectTypeLibId` and `detectDotnetTypes` | what `initStructures` made of the file (`peFile`: `stateIsValid`, `peClass`, the format parser, the machine type, the loader error, until the loaders start), the state of `PeRichHeader` (`rh*`, until the next loader), the results of the loaders before it (`exportTable`, `pdbInfo`, `tlsInfo`, each with its input), the import table loaded (`imports`: the DLL list file, the parser's libraries, `dllList`, the table), whether mscoree.dll has imports, the CLR-header input, the sections as the search reads them, the search position `s`, `p`, the metadata header address, the stream count, the directory entries read so far, the five stream objects (each named by the entry that created it; the #Blob stream also holds its heap and the elements its loop recorded), `moduleVersionId`, `typeLibId`, `typesDetected`, `typeRefHash` (the bytes hashed, or none), `pc` | `OpenPeFile` (one nondeterministic outcome per place the `try` block can throw, and the class switch `SwitchOnClass`), `StartRichHeader`, `RichHeaderInput` (the stub area and the parser's verdicts), `RichHeaderStep` (each step of `PeRichHeader`), `RichHeaderLoaded`, `LoadImportTable` (the two loaders that run before), `LoadExports`, `LoadPdbInfo`, `LoadTlsInformation`, `UseClrHeader`, `NotDotnet`, `StartSearch`; `SearchNextByte`, `SearchSectionBroken` (the breaks), `SearchNextSection`, `SearchFound`, `SearchEnds`; `NoMetadataHeader` / `UseSearchedAddress`; `HeaderRejected` / `HeaderRead`; per directory entry `EntryUnreadable`, `MetadataStreamTooSmall` / `ParseMetadataStream`, `GuidStreamUnreadable` / `ParseGuidStream`, `ParseBlobStream`, `ParseStringStream`, `ParseUserStringStream`, `SkipUnknownStream`; `DirectoryRead` (the three detectors and `computeTypeRefHashes`). `ParseBlobElements` is the element loop of `parseBlobStream` as a RECURSIVE operator: `BlobLengthSize` and `BlobLength` decode the length prefix with the code's masks |
| `PeImports` | `initDllList`, `isMissingDependency`, `loadImports` | none: operators over the DLL list file and the parser's libraries | `InitDllList` reads the list with the `getline` loop's extra empty line, `IsMissingDependency` checks a lowercased name against the list or `defDllList`, and `LoadImports` folds `AddLibrary` over the ordinary libraries and then `AddDelayLibrary` over the delay-loaded ones |
| `PeExports` | `loadExports` | none: operators over the parser's exported functions | `ExportLoop` stops at the first unreadable function, and `ExportName` renames a non-printable name with `NumToHex`, the `numToStr(..., std::hex)` numeral |
| `PeDebugInfo` | `loadPdbInfo` | none: operators over the debug entries | `Skipped` is the chain of `continue`s, `PdbLoop` the loop that breaks at the first entry passing them, and `PdbInfoOf` the GUID, age and path reads with their offsets |
| `PeTls` | `loadTlsInformation` | none: operators over the TLS directory and the file bytes | `LoadTlsInformation` returns early without a directory, and `CallBackLoop` reads 32-bit words until a zero word or the end of the file |
| `DotnetTypeRefHash` | `computeTypeRefHashes` | none: operators over the metadata tables | `FullName` builds a row's name part by part, `TypeRefHashLoop` is the row loop with its ',' rule, and `TypeRefHashBytes` gives the bytes the three digests are taken of |
| `DotnetTypeLibSpec` | what `detectTypeLibId` promises | the same tables, `typeLibId`, `done` | `Detect`: one atomic step that returns and leaves an empty id or the GUID of some mscorlib `GuidAttribute` custom attribute whose blob holds it |
| `PeRichHeader` | `getRichHeaderOffset`, `loadRichHeader`; instantiated as `RH` by `DotnetHeaders` | the bytes between the MZ and PE headers (NUL or not), the stub position, what the parser reads at each offset, `offset`, `standardOffset`, `validStructOffsets`, the offset last read, the reported offset, `pc` | `NoRoom`, `OffsetPastPeHeader`, `ReadAtComputedOffset`, `ReadAfterMzHeader` / `SkipMzHeader`, `ReadAtStandardOffset` / `SkipStandardOffset`, `NoRichHeader`, `ValidRichHeader`, `RecoveredRichHeader`; the NUL-run loop is the recursive operator `NulRunLoop` |
| `PeSections` | `loadSections`, `loadSymbols`, `getSymbolType`, `getSymbolUsageType`, `scanForSectionAnomalies` | the section table (load outcome, name, raw-data start and size, flags), the declared and stored counts, the COFF symbol table, the `sections` vector, the symbols, `anomalies`, the loop counters, `pc` | `LoadSection` / `GetSectionFails`, `SectionsLoaded`, `LoadSymbol`, `SymbolsLoaded`, `ScanEntryPoint`, `ScanSection` / `SkipMissingSection`, `ScanPair` / `SkipMissingPair`, `PairsDone`, `ScanDone` |
| `ParamReturn` | the caller side of `ParamReturn::run` (`collectAllCalls`, `filterCalls`, `applyToIr`) for the ARM convention; spec-modelled, the pass's implementation being absent | `candidates` (each call's `possibleArgStores`), `signature` (the parameters `filter` settles per function), `calls` (each call's arguments), `applied`, `phase` | `AddCall` (one call's stores, chosen from `StoreChoices`), `CollectedAllCalls`, `Filter` (per function: unavailable reaching definitions, a declared arity, or the per-call filters and the cross-call minimum), `FilteredAll`, `ApplyToIr` (rewrites every call of one function), `AppliedAll` |
| `PeVisualBasic` | `loadVisualBasicHeader` and the six `parseVisualBasic*` functions | the outcome of each structure read (header, project info, object table, COM data and info), the extern table, the object descriptors with their method slots, the strings found; `projectName`, `externs`, `objects`, `comObjectName` of `visualBasicInfo`; the loop counters `i`, `m`, the `object` being built, `pc` | `NotVisualBasic`, `NoHeaderAddress`, `HeaderRejected`, `LoadHeader`; `NoProjectInfo` / `ReadProjectInfo`; `ExternUnreadable` (break), `ExternSkipped` (continue), `ExternAdded`, `ExternsDone`; `NoObjectTable` / `ReadObjectTable`; `ObjectUnreadable`, `ObjectNameUnmapped`, `StartObject`, `MethodUnreadable`, `MethodSkipped`, `MethodAdded`, `MethodsDone`, `ObjectAdded` / `ObjectDropped`, `ObjectsDone`; `NoComRegData` / `ReadComRegData`, `ComRegInfoUnreadable` / `ReadComRegInfo` |

Each module with state models one sequential function as a `pc`-driven
state machine. A `Terminated` step stutters once the function has returned,
so deadlock checking stays on. The modules without state (`PeImports`,
`PeExports`, `PeDebugInfo`, `PeTls`, `DotnetTypeRefHash`) model loops as
RECURSIVE or `FoldLeft` operators.

The inputs the function reads are chosen in `Init` from small sets:
- header values in `PeDigest`;
- the certificate stack and the names in `PeCertificates`;
- every resource tree up to a size in `PeResources`;
- the metadata tables in `DotnetTypeLib`;
- the section table, the symbol table and the entry-point section in
  `PeSections`.

`DotnetHeaders` chooses the stub area and the parser's verdict per offset
when the rich header stage starts, the CLR header when `loadDotnetHeaders`
reads it, the sections when the search starts and each directory entry when
it is read. Once the header is read, the search's view
of the sections is dropped from the state, since nothing reads it again.

`DotnetHeaders` composes two components. Its `DirectoryRead` step calls
`detectTypeLibId` through the abstract `DotnetTypeLibSpec`, instantiated on
the tables of the current metadata stream. The id it sets is any the
abstract specification allows. The detailed function implements that
specification only while every coded index names the table the code
expects: `typelib_coded_index` shows it does not once a CustomAttribute
type may name a MethodDef row (finding 7). The tables `DotnetHeaders`
enumerates use only the expected tables.

Three pieces of code the detectors call are not in the repository. The
model assumes the following of them:
- `GuidStream::getGuidString` returns the GUID at the index, or "" past the
  end of the heap.
- `DotnetTypeReconstructor` fails without the metadata, #Strings and #Blob
  streams, and may succeed or fail with them.
- `getString` failing and yielding "" are alike to `computeTypeRefHashes`, so
  a name is one token or "".
- A `ResolutionScope` coded index always names one of its four tables, so
  `getTable` succeeds.
- `get1Byte`, `get2Byte`, `get4Byte` and `getXBytes` fail exactly when the
  bytes lie past the end of the file.

`DotnetHeaders` starts where `initStructures` does (lines 414-488). The
step `OpenPeFile` chooses whether `openPeFile` succeeds, where in the `try`
block an exception is thrown (a read before `initLoaderErrorInfo`,
`getFileType`, or the parser's constructor), the class `getFileType`
reports, whether the `dynamic_cast` succeeds and the header's machine type.
A file that is not valid ends the run (`pc = "invalid"`).

The first loader of a valid file is `loadRichHeader`. `DotnetHeaders`
composes `PeRichHeader` as the instance `RH`, whose variables are the
`rh*` variables of `DotnetHeaders`. `StartRichHeader` drops `peFile`, which
no later step reads. `RichHeaderInput` chooses what lies between the MZ and
PE headers and what the parser reads at each offset. `RichHeaderStep` takes
one step of `PeRichHeader` until it returns, and `RichHeaderLoaded` moves on
to the imports, where the rich header state is reset, so its inputs do not
multiply with those of the later loaders. The DLL list,
which `initStructures` reads before opening the file, is read with
`loadImports` in `LoadImportTable`, since nothing in between reads it.

`DotnetHeaders` also composes `PeImports`. `initStructures` runs
`initDllList` (line 424) and `loadImports` (496) before `loadDotnetHeaders`,
whose metadata search starts only when mscoree.dll has imports (1872). The
first step, `LoadImportTable`, therefore chooses a DLL list file and the
parser's libraries, builds the import table with the `PeImports` operators,
and sets `mscoreeImported` from it. The model assumes of the parser that an
ordinary import's library index is the position of its library. `defDllList`
is the constant `DefaultDlls`.

`initStructures` calls `loadExports`, `loadPdbInfo` and `loadTlsInformation`
between `loadImports` and `loadDotnetHeaders`. They are the steps
`LoadExports`, `LoadPdbInfo` and `LoadTlsInformation` of `DotnetHeaders`, in
that order, each choosing its input and applying the operator of its module.
None of them reads what another loader builds, so each result is kept only
until the next step; otherwise the inputs of the three would multiply. The
`dotnet_headers` run compares each result with a reference definition.
The references are:
- the hexadecimal numeral read back digit by digit (`PeExports`);
- the RSDS and NB10 CodeView record layouts (`PeDebugInfo`);
- the callback array as the words before the first zero (`PeTls`).

These loaders rely on code that is not in the repository. The model assumes:
- `bytesToString` copies every byte of the debug data;
- `getNTBSOffset` succeeds when its first byte lies inside the file;
- `DynamicBuffer::read<uint32_t>` reads little-endian;
- `hasNonprintableChars` is a property of the name, given as an input.

`DirectoryRead` also calls `computeTypeRefHashes`, an operator of
`DotnetTypeRefHash`, on the tables of the current metadata stream.

`PeVisualBasic` instead chooses each input at the step that reads it (the
header in `Init`, the extern table when the project info is read, the object
descriptors when the object table is read, the COM structures last). A parse
that stops early then does not range over what it never reads, which keeps
two tables of two entries within reach. Each read is abstracted to its
outcome: missing (address unmapped or `getBytes` short), an entry of a given
kind, or the string `readNullTerminatedAscii` returns.

Where the code calls into PeLib or the `FileFormat` base class, which are not
in the repository, the model takes the call's result as an input:
- `getSection` succeeding or failing;
- `readRichHeader` finding nothing, a valid structure or a valid header;
- `getEpSection` returning one of the loaded sections or none.

`getNumberOfSections` is taken to be `sections.size()`. The resource tree's
`getNumberOfLeafs` is taken to be the size of the last level.

Data is abstracted as follows:
- certificates and distinguished names are model values;
- byte contents are replaced by byte positions;
- `std::size_t` arithmetic is kept modulo `Word` (2^7). An underflow therefore
  wraps exactly as in the code. Every legitimate value stays below `Word/2`.

`std::sort` of three elements is modelled as a stable sort. libstdc++ and MSVC
both use insertion sort below 16 elements.

Each module `M` with a run of its own has an `MC_M` module that gives its
constants their values for TLC. `PeRichHeader` is checked inside
`MC_DotnetHeaders`.

## Runs

| Run | Config | Expect | What it shows |
|---|---|---|---|
| `digest_separated` | `MC_PeDigest.cfg` | pass | For every placement of the three excluded ranges inside a 16-byte file with data between them, in any of the six orders, the digest covers exactly the remaining bytes, once each and in file order (`DigestExcludesExactlyWhenSeparated`). |
| `digest_exact` | `MC_PeDigest_exact.cfg` | violation | `DigestExact`: over every header layout, the digest must cover exactly the file bytes outside the three ranges. Two bugs break it. When ranges touch or overlap, the shrink step hashes excluded bytes, and with three ranges at one offset the final length wraps. A security directory beyond the end of the file produces a range outside the buffer. With both fixed, the same run passes. |
| `cert_chains` | `MC_PeCertificates.cfg` | pass | For every stack of three certificates, every assignment of three subject names and four issuer names (the empty one included) and every signer and counter-signer, the walk terminates and never adds a certificate twice. With unique subjects it collects exactly the signer's and the counter-signer's chains and records their indices. |
| `cert_signer_first` | `MC_PeCertificates_signer.cfg` | violation | Two certificates with one subject name make the walk start at the wrong certificate, so the signer is not first. |
| `resource_tree` | `MC_PeResources.cfg` | pass | Every tree of up to eight entries with at most two children each, null children and empty directories included. `getResourceNodes` flattens it in level order with the right level sizes (`FlattenedInLevelOrder`). `loadResources` makes one resource per language leaf, in tree order, with icon group ids 0, 1, ... (`ResourcesMatchTree`). |
| `typelib_coded_index` | `MC_DotnetTypeLib.cfg` | violation | `TypeLibRefinesSpec`: `DotnetTypeLib` must implement `DotnetTypeLibSpec` under the mapping `done` = (`pc` = "done"): the id it leaves is empty or the GUID in the blob of a custom attribute of mscorlib's `GuidAttribute`. A CustomAttribute type may name a MethodDef as well as a MemberRef, as ECMA-335 (II.24.2.6) allows. The code compares only the row number, so the attribute of a MethodDef row with the MemberRef's number is taken for the TypeLib attribute. Blob size 38 is left to `typelib_exact`, so that this run shows the coded-index bug alone. |
| `typelib_exact` | `MC_DotnetTypeLib_exact.cfg` | violation | `TypeLibExact`: the id must be the GUID of the first `GuidAttribute` chain, or none. Two bugs break it. A match on the last row of its table is taken for "not found". The blob's length byte is used unchecked, so the GUID string is read past the blob. With both fixed, the same run passes. |
| `dotnet_headers` | `MC_DotnetHeaders.cfg` | pass | The configuration covers both ways to the metadata header, every layout of two sections of up to three positions, and every directory of up to three entries. When a stream is listed more than once, the detectors see the last entry each parser accepted. The module version id is the GUID of the last readable #GUID entry, if the last #~ entry larger than its header had a Module row. The TypeLib id is one the tables of that entry allow (`DetectedIdsFromDirectory`). The elements `parseBlobStream` records start at 0 and follow one another as the ECMA-335 length prefixes say. Each starts inside the stream, and the loop stops early only at an unreadable element (`BlobElementsTileStream`). The last element may take bytes that follow the stream. The TypeRef hash of a parsed stream is the ','-join of the rows' full names, except that leading rows with an empty full name leave no separator (`TypeRefHashJoinsFullNames`). Each library of the import table comes from the parser's lists in order, ordinary before delay-loaded, and holds exactly its own imports; mscoree.dll counts as imported, whatever its case, iff a library of that name has imports (`ImportsAttributedToLibraries`). A delay-loaded library is never missing. An ordinary one is missing iff it is not an API set and not in the list file's lowercased lines, or, with no usable list, not in `defDllList` (`DllListDecidesMissing`). The loaders between `loadImports` and `loadDotnetHeaders` agree with their references on every bounded input. The export table is the readable prefix of the exported functions, with each non-printable name replaced by `exported_function_` and the address's hexadecimal numeral (`ExportTableIsReadablePrefix`). The PDB information comes from the first entry holding a complete CodeView record, even when its fields lie past the end of the file, and keeps exactly the fields its layout puts inside the file (`PdbInfoFromFirstRecord`). The TLS callbacks are the non-zero 32-bit words from the callback offset up to the first zero word or the last whole word (`TlsCallBacksUntilNull`). No detector result is set unless every announced directory entry was read: an unreadable entry returns before the detectors, whatever was parsed before it (`DetectorsSeeWholeDirectory`). The loaders start only on a valid file with the format parser of the class `getFileType` reported, whatever threw or failed to cast (`LoadersHaveFormatParser`). The three machine-type switches know the same machine types, in PE32 and PE32+ (`MachineSwitchesAgree`). For every NUL layout of up to five units, every stub position and every parser outcome per offset, the rich header's computed offset is the end of the NUL padding after the stub (`RichOffsetIsEndOfNulRun`). The reported header is the first valid one tried, or else the preferred largest valid structure, read at the offset reported (`RichHeaderChosen`). |
| `metadata_search` | `MC_DotnetHeaders_search.cfg` | violation | `MetadataSearchFindsFirst`: a file without CLR header gets the first genuine metadata header, and 0 only if there is none. It fails when a spurious signature, whose version length or stream name cannot be read, comes before a genuine header in the same section: the search then gives up the section. With such a failure moving on to the next byte instead, the same run passes. |
| `param_return` | `MC_ParamReturn.cfg` | pass | Two calls of an undeclared function store any subset of r0-r3, d0 or d1 and a stack run with or without a gap. A declared function and one without reaching definitions are called once each. In every order of `filterCalls` and `applyToIr` over the functions, a call of an undeclared function loads only locations stored before it (`ArgumentsWereStored`). A call passes stack words only with all of r0-r3 (`StackOnlyAfterAllRegisters`). |
| `sections_scan` | `MC_PeSections_scan.cfg` | pass | The configuration has two table entries over every load outcome, name, flag set and layout, plus a symbol linked to either. The scan reports each loaded section's own anomalies once, and each shared name or overlap once per pair, lower index first (`ScanReportsExactly`). The symbol gets the right address as long as no entry up to its section was skipped (`SymbolAddressesBeforeFirstSkip`). The entry-point checks report exactly what the entry point's section is. While no entry was skipped, they report it in the last section exactly when it is the last table entry (`EntryPointReports`). |
| `visual_basic` | `MC_PeVisualBasic.cfg` | pass | The configuration covers every outcome of each structure read, up to two extern entries and two object descriptors of every kind, and one method slot per object. When loading ends, the externs are exactly the entries with a name that come before the first unreadable one (`ExternsMatchTable`). The objects are the named-or-non-empty descriptors before the first unreadable one, each with its own methods (`ObjectsMatchTable`). The header's project name wins over the object table's, and an empty one is replaced (`ProjectNamePrecedence`). |

Every property of a passing run is also checked against a mutant of the code
it is about: an operator with a plausible bug is substituted for the mapped
definition, and TLC must then find the property violated. `PROJECT.json`
lists the mutants.

### Bounds

- **Digest:** a 16-byte file is enough for three excluded ranges of sizes 4,
  8 and 1-2 to be separated, to touch, to overlap and to be nested.
  - The checksum and entry offsets range over the whole file.
  - The security directory's offset and size range up to 18, past the end of
    the file.
- **Certificates:** three certificates and three names allow every chain shape
  a signature can carry:
  - a signer, an intermediate and a root;
  - two separate chains;
  - self-issued roots and two- and three-certificate cycles;
  - shared subject names.

- **Resources:** at most two children per directory and eight entries give
  null types, null names, empty directories and types with one and two names
  and languages. The icon-group counter therefore moves past its first value.
- **.NET TypeLib:** up to two rows per table put the attribute on the first
  and on the last row. Blob sizes 2, 38 and 39 are below, at and above the GUID's needs.
  In `typelib_coded_index` a CustomAttribute type names a MemberRef or a
  MethodDef; the other coded indices keep their expected table, since one
  foreign table is enough to show the row-only compare, and all three widened
  take TLC about 15 minutes.
- **.NET headers:** two sections of up to three positions put a spurious
  signature before a genuine one, in the same section or the one before.
  Three directory entries allow a metadata stream followed by two #GUID
  entries, or a stream listed twice after another. A later entry can then
  replace an earlier one, or fail to. There are two table sets: one with a
  GuidAttribute chain and a Module row, one without rows, and five TypeRef
  rows for the hash. The hash rows are an unnamed row first and last, and
  one row with a scope in each of the four tables. Eight #Blob heaps give:
  - an empty heap;
  - 1-, 2- and 4-byte length prefixes;
  - a 111xxxxx first byte;
  - an element ending exactly at the stream's end with a byte after it;
  - an element whose data runs past the stream;
  - data and a 2-byte prefix cut off by the end of the file.
- **Imports:** one default DLL, kernel32.dll. Three list files: none given,
  one that cannot be opened, and one that lists MSCOREE.DLL in upper case
  with a newline at the end, so the extra empty line is read. Four parser
  outputs: mscoree.dll in upper case as an ordinary import; kernel32.dll
  with mscoree.dll delay-loaded; mscoree.dll without imports beside an API
  set; no library at all. Mscoree.dll is thus found by case, by delay index,
  and not found when it has no imports.
- **Exports, PDB, TLS:**
  - Up to two exported functions, readable or not, printable or not, at
    addresses 0, 26 and 255. Their numerals ("0", "1a", "ff") have one and
    two digits and letters.
  - Debug entries over a 40-byte file: every entry alone, or followed by a
    complete RSDS or NB10 record. An entry has data unreadable or RSDS,
    NB10 or another prefix; sizes 3, 16, 17, 24 and 25 (below 4 and on
    both sides of each minimal length); time stamp and pointer unreadable or
    read. The pointers 0, 20, 22 and 24 put every field inside the file, an
    RSDS GUID ending exactly at its end, an RSDS GUID past it, and an NB10
    age ending at its end with no room for the path.
  - Files of up to nine bytes, 0 or 1 at odd positions and 0 at even ones,
    so that a word at offset 0 or 2 is zero or not. There is a callback offset that maps to no
    file offset, to 0 or to the unaligned 2, and a TLS directory that is
    absent, empty or present. A word can therefore end exactly at the end
    of the file, and be followed by a partial one.
- **Rich header** (in `MC_DotnetHeaders`): the MZ header is 1 unit and the standard offset 4. Up to 5
  units lie between the MZ and PE headers. The computed offset can therefore
  fall before, at or after the standard offset, and at or past the PE header.
- **File opening:** every place the `try` block can throw, both loader
  errors, the three classes `getFileType` reports, a failing and a succeeding
  cast, and every machine type the switches name plus one they do not.
- **Parameters:** two calls of one undeclared function are the fewest that
  let the cross-call minimum differ from each call's own list. All 16
  register sets give every prefix with and without gaps, and all of r0-r3,
  the only case where stack words count. The stack sets {-8}, {-12,-4} and
  {-12,-8,-4} give runs of one and three words and a run cut by a gap; FP
  sets {}, {d0} and {d1} a prefix and a gap. The declared function and the
  one without reaching definitions store r0 only, since their stores are
  not read.
- **Sections:** two table entries are enough for a skipped entry followed by a
  loaded one, for a shared name, for an overlap and for an entry point in the
  last section. Raw-data starts are 0 and 1 and sizes 0 and 2, giving
  overlapping, disjoint and empty sections.
  - The flags are "execute" and "uninitialised data". The "writable" check
    is the same test on another bit.
- **Visual Basic:** the strings are "" and one name, so an empty and a real
  name both occur. Two extern entries and two object descriptors let an
  unreadable or unusable entry come before a usable one, and one object
  follow another. Each object has at most one method slot. With one slot, a
  break and a continue in the method loop end alike; the object loop has the
  same form and is covered with two descriptors. Two slots with two objects
  and two externs is past 15 million states.

### Fairness

`PeCertificates` assumes weak fairness of `Next`. That is justified because
`loadCertificates` runs to completion on the thread that loads the file, and no
step of it waits on anything. `WalkTerminates` is checked under that
assumption.

`DotnetTypeLib` is checked under `FairSpec`, weak fairness of `Next`, for the
same reason: `detectTypeLibId` is a plain call whose three loops are bounded
by the row counts. The abstract `DotnetTypeLibSpec` assumes weak fairness of
its one `Detect` step, so the refinement also asks that the detailed
function return; what `typelib_coded_index` finds violated is the safety
part, the id it leaves.

## Findings

1. **`getDigestRanges` shrink (line 2074).** A range that starts at or before
   the end of the previous one gets the covered length instead of the
   uncovered one. The `<=` also empties a range that starts exactly there.
   Excluded bytes are then hashed, and `lastOffset` can pass the end of the
   file.
2. **`getDigestRanges` sanitisation (line 2064).** It underflows when the
   security directory offset is beyond the file.
3. **`loadCertificates` (line 1739).** The subject table keeps the last
   certificate of a name, which contradicts the comment that the signer is
   always first.
4. **`detectTypeLibId` sentinel (lines 2527, 2545).** The row count is the
   "not found" value although rows are numbered from 1. An attribute on the
   last row is missed.
5. **`detectTypeLibId` blob length (line 2568).** The GUID length byte is
   trusted, so the read can run past the blob.
6. **`detectPossibleMetadataHeaderAddress` (lines 2624, 2633).** A failed read
   at a spurious "BSJB" breaks out of the section, while a wrong stream name
   only moves on. A genuine header later in the same section is missed, and
   the file is not read as .NET.
7. **`detectTypeLibId` coded indices (lines 2537, 2556).** Only the row of a
   coded index is compared, not its table. The attribute of a MethodDef row
   is taken for the `GuidAttribute` attribute when their row numbers agree,
   although the comment at 2552 says the attribute's type must refer to the
   MemberRef.

Two more issues are recorded as hazards in `PROJECT.json`; no run of their
own checks them:
- **`loadSymbols` (line 1278).** `sections[link - 1]` indexes the vector of
  loaded sections by table number. `SymbolAddressesBeforeFirstSkip` holds.
  Stated for every symbol, the property fails: after a skipped table entry, a
  symbol gets the next loaded section's address.
- **`scanForSectionAnomalies` (line 3509).** It looks up the last section by
  the declared count in the same compacted vector. `EntryPointReports` holds
  for files where no entry was skipped. Stated for every file, it fails: after
  a skipped entry, "EP in last section" is missed.

Two issues in the Visual Basic parsers are recorded as hazards, since
nothing in the spec or a test says what the code should do instead:
- `parseVisualBasicComRegistrationData` (line 858) reads the project name,
  help file and description into locals and never stores them.
- At line 733, `bytes[4] << 24` sign-extends a header address at or above
  2^31. The VB header of such an image is then ignored.

`initDllList` (line 3237) inserts "" for an empty list file, or one whose
last line ends with a newline. An empty list file then makes `dllList`
non-empty, `defDllList` is not used, and every DLL that is not an API set is
missing. `DllListDecidesMissing` states what the code does; only the comment
at 3205 suggests otherwise, so this is a hazard, not a finding.

`loadTlsInformation` (line 1842) reads the callback array as 32-bit words
even in a PE32+ image, whose callbacks are 64-bit addresses. The high half
of each address then becomes a callback of its own. `TlsCallBacksUntilNull`
states the 32-bit reading; nothing in the repository says what a PE32+ image
should give, so this is a hazard.

None of the other passing properties found anything.

## Plan and what is not yet modelled

Next modules, in order:

1. The resource, import, export and optional-header scans of
   `scanForAnomalies` (3645-3786). Their conditions are decided by
   `getAddressFromOffset`, `isObjectStretchedOverSections` and the occupied
   address ranges, none of which is in the repository, so each would be an
   input and the scan a lookup of it.
2. `parseMetadataTable`, modelled as an operator over short byte
   sequences. `DotnetHeaders` takes the tables it produces as inputs.
3. A composition of the remaining loaders in `initStructures` order, to check
   what one loader leaves for the next. For example, `sections` is read by
   `loadSymbols` and by the anomaly scan. `DotnetHeaders` already runs
   `initStructures`' header stage and the loaders from `loadImports` to
   `loadDotnetHeaders`.

Not modelled, with reasons:
- `parseStringStream`'s loop is left out because its outcome is decided by
  `getNTBS`, which is not in the repository. The #Strings stream is created
  whatever the loop reads.
- `verifySignature` and the OpenSSL parsing are opaque library calls.
- The fixed-layout fields of the Visual Basic structures (LCIDs, CLSIDs,
  flags, versions, the project path) and the extern and object table
  hashes are data computed from what is read; `PeVisualBasic` leaves them out.
- The AArch64 lifter has no implementation in the repository.
- Of parameter/return reconstruction, `param_return.h` declares the classes
  but `param_return.cpp`, the ABI classes and the reaching-definitions
  analysis are absent. `ParamReturn` therefore follows the specification
  (section 4.5) and the ARM tests, and its map entries are marked
  spec-modelled. It leaves out what needs types or function bodies: type
  assignment, pair merging (`_regNumPerParam`), return values (the return
  registers r0-r1 and d0-d1), wrapper detection, format strings, the
  callee side and the entry preamble of rewritten definitions. A declared
  function takes word-size parameters, and at most four, so that its calls
  load no stack slot whose position the specification leaves open.
- `x86_watcom.h` and `pkcs7.h` are declarations only.
