-------------------------- MODULE MC_DotnetHeaders --------------------------
(* Two sections of up to three byte positions: a spurious signature can   *)
(* come before a genuine one in the same section or in the next.  Three   *)
(* directory entries: a metadata stream and two #GUID entries, or one     *)
(* stream listed twice after another, so that a later entry can replace  *)
(* or fail to replace an earlier one.                                      *)
EXTENDS DotnetHeaders

MCMaxSecs == 2
MCMaxCells == 3
MCMaxStreams == 3

\* loadRichHeader: the MZ header is one unit, the standard offset four, and
\* up to five units lie between the MZ and the PE header, so the computed
\* offset can fall before, at and after the standard offset, and at or
\* past the PE header.
MCMzSize == 1
MCStandard == 4
MCMaxPlain == 5

\* Tables holding one GuidAttribute chain of mscorlib and a Module row,
\* tables without rows, and TypeRef rows for the hash.
ChainTables ==
  [assemblyRefs |-> <<[name |-> "mscorlib"]>>,
   typeRefs |-> <<[scope |-> <<"AssemblyRef", 1>>, typeName |-> "GuidAttribute",
                   typeNamespace |-> "System"]>>,
   memberRefs |-> <<[classType |-> <<"TypeRef", 1>>]>>,
   customAttributes |-> <<[type |-> <<"MemberRef", 1>>,
                           value |-> [size |-> 39, length |-> 36, chars |-> Guid]]>>,
   modules |-> <<[name |-> "app"]>>, moduleRefs |-> <<>>]
EmptyTables ==
  [assemblyRefs |-> <<>>, typeRefs |-> <<>>, memberRefs |-> <<>>,
   customAttributes |-> <<>>, modules |-> <<>>, moduleRefs |-> <<>>]
\* TypeRef rows for the hash: a leading row with no name and a scope past
\* its table; scopes of each of the four tables, one of them a row whose
\* own name is empty; a trailing row with no name.
HashTables ==
  [assemblyRefs |-> <<[name |-> ""]>>,
   typeRefs |-> <<[scope |-> <<"AssemblyRef", 2>>, typeName |-> "", typeNamespace |-> ""],
                  [scope |-> <<"TypeRef", 3>>, typeName |-> "A", typeNamespace |-> "N"],
                  [scope |-> <<"Module", 1>>, typeName |-> "B", typeNamespace |-> ""],
                  [scope |-> <<"ModuleRef", 1>>, typeName |-> "", typeNamespace |-> "N"],
                  [scope |-> <<"AssemblyRef", 1>>, typeName |-> "", typeNamespace |-> ""]>>,
   memberRefs |-> <<>>, customAttributes |-> <<>>,
   modules |-> <<[name |-> "app"]>>, moduleRefs |-> <<[name |-> "lib"]>>]
MCTableSets == {ChainTables, EmptyTables, HashTables}

\* #Blob heaps: empty; the 1-, 2- and 4-byte length prefixes, the first
\* followed by a readable byte at the stream's end; a first byte
\* 111xxxxx; a blob whose data runs past the stream into the next bytes;
\* data and a 2-byte prefix cut off by the end of the file.
MCBlobHeaps ==
  {[size |-> 0, bytes |-> <<>>],
   [size |-> 3, bytes |-> <<2, 65, 66, 0>>],
   [size |-> 4, bytes |-> <<128, 1, 65, 0>>],
   [size |-> 5, bytes |-> <<192, 0, 0, 1, 65>>],
   [size |-> 4, bytes |-> <<224, 0, 0, 0>>],
   [size |-> 1, bytes |-> <<1, 65>>],
   [size |-> 2, bytes |-> <<3, 65>>],
   [size |-> 2, bytes |-> <<0, 129>>]}

Dll(name, upper) == [name |-> name, upper |-> upper]
MCDefaultDlls == {Dll("kernel32.dll", FALSE)}
\* No list; a list that cannot be opened; a list naming MSCOREE.DLL in
\* upper case, with a newline at its end.
MCDllListFiles ==
  {[given |-> FALSE, opens |-> FALSE, lines |-> <<>>, newlineAtEnd |-> FALSE],
   [given |-> TRUE, opens |-> FALSE, lines |-> <<>>, newlineAtEnd |-> FALSE],
   [given |-> TRUE, opens |-> TRUE, lines |-> <<Dll("mscoree.dll", TRUE)>>,
    newlineAtEnd |-> TRUE]}
\* mscoree.dll as an ordinary import in upper case; as a delay-loaded
\* import after an ordinary library; listed without imports before an
\* API set; no imports at all.
MCImportInputs ==
  {[libraries |-> <<[name |-> Dll("mscoree.dll", TRUE), imports |-> 1]>>,
    delayLibraries |-> <<>>],
   [libraries |-> <<[name |-> Dll("kernel32.dll", FALSE), imports |-> 1]>>,
    delayLibraries |-> <<[name |-> Dll("mscoree.dll", FALSE), imports |-> 1]>>],
   [libraries |-> <<[name |-> Dll("mscoree.dll", FALSE), imports |-> 0],
                    [name |-> Dll("api-ms-win-core.dll", FALSE), imports |-> 1]>>,
    delayLibraries |-> <<>>],
   [libraries |-> <<>>, delayLibraries |-> <<>>]}
\* loadExports, loadPdbInfo and loadTlsInformation, which initStructures
\* calls between loadImports and loadDotnetHeaders.
\* A 40-byte file: the CodeView fields of a record at PointerToRawData 0
\* lie inside it, at 20 an RSDS GUID ends exactly at its end, at 22 it
\* does not fit, and at 24 an NB10 age ends at its end with no path after.
\* Data sizes around the minimal lengths 17 and 25 and below 4.  Every
\* entry comes first, alone or followed by a complete RSDS or NB10 record,
\* so that both a skipped and a taken first entry are seen.
MCFileSize == 40
DebugEntries ==
  [data : {[read |-> FALSE, prefix |-> "XXXX", size |-> 0]}
          \cup [read : {TRUE}, prefix : {"RSDS", "NB10", "XXXX"}, size : {3, 16, 17, 24, 25}],
   timestamp : {[read |-> FALSE, value |-> 0]} \cup [read : {TRUE}, value : {1}],
   pointer : {[read |-> FALSE, value |-> 0]} \cup [read : {TRUE}, value : {0, 20, 22, 24}]]
CompleteRecords ==
  {[data |-> [read |-> TRUE, prefix |-> pre, size |-> 25],
    timestamp |-> [read |-> TRUE, value |-> 2],
    pointer |-> [read |-> TRUE, value |-> 0]] : pre \in {"RSDS", "NB10"}}
MCDebugInputs ==
  {<<>>} \cup {<<e>> : e \in DebugEntries} \cup {<<e, r>> : e \in DebugEntries, r \in CompleteRecords}

\* Files of up to nine bytes, 0 or 1 at odd positions and 0 at even ones,
\* so that a word at offset 0 or 2 can be zero or not; the callback offset
\* maps to nothing, to the start or to an unaligned position.
TlsBytes ==
  UNION {{b \in [1..n -> {0, 1}] : \A k \in 1..n : k % 2 = 0 => b[k] = 0} : n \in 0..9}
MCTlsInputs ==
  {[directory |-> [read |-> FALSE, size |-> 0], callBacksOffset |-> TLS!NoOffset, bytes |-> <<>>],
   [directory |-> [read |-> TRUE, size |-> 0], callBacksOffset |-> 0, bytes |-> <<1, 0, 0, 0>>]}
  \cup [directory : {[read |-> TRUE, size |-> 24]}, callBacksOffset : {TLS!NoOffset, 0, 2},
        bytes : TlsBytes]

\* Up to two exported functions, readable or not, with a printable name
\* or not, at addresses whose hexadecimal numerals are 0, 1a and ff.
MCExportInputs ==
  UNION {[1..n -> [read : BOOLEAN, printable : BOOLEAN, name : {"f"},
                   address : {0, 26, 255}]] : n \in 0..2}
=============================================================================
