----------------------------- MODULE PeSections -----------------------------
(***************************************************************************)
(* Sections, COFF symbols and the section anomaly scan of a PE file:      *)
(* PeFormat::loadSections, PeFormat::loadSymbols, getSymbolType,           *)
(* getSymbolUsageType and PeFormat::scanForSectionAnomalies               *)
(* (pe_format.cpp).                                                        *)
(*                                                                         *)
(* loadSections appends only the sections the parser could read, so the    *)
(* position of a section in the `sections` vector can be smaller than its *)
(* index in the section table (sec->getIndex()).  A section is represented *)
(* in the vector by its table index.  Section contents are abstracted to   *)
(* a name, raw-data start and size and a set of characteristic flags; the  *)
(* virtual address of table entry h is SecAddress(h).                      *)
(***************************************************************************)
EXTENDS Integers, Sequences, FiniteSets

CONSTANTS
  MaxSecs,          \* most sections declared in the file header
  MayFail,          \* whether formatParser->getSection can fail
  SecNames,         \* section names, "" included
  UsualNames,       \* usualSectionNames
  PackerNames,      \* usualPackerSections
  UsualChars,       \* usualSectionCharacteristics, a function on names
  Flags,            \* the characteristic flags told apart
  Starts, Sizes,    \* raw-data offsets and sizes
  LargeSize,        \* the 100MB threshold of the "largeSec" anomaly
  MaxSymbols,       \* most symbols in the COFF symbol table
  SymbolLinks,      \* the section numbers the symbols carry
  Values,           \* symbol values
  StorageClasses,   \* storage classes, EXTERNAL, STATIC and FILE among them
  ComplexTypes,     \* symbol complex types
  NoSec             \* nullptr / invalidated link or address

WordMax == 65535
Links == {0} \cup (1..(MaxSecs + 1)) \cup {WordMax - 1, WordMax}

ASSUME SymbolLinks \subseteq Links

SecAddress(h) == 16 * (h + 1)

Headers == [loads : IF MayFail THEN BOOLEAN ELSE {TRUE}, name : SecNames,
            start : Starts, size : Sizes, flags : SUBSET Flags]
SymbolEntries == [link : SymbolLinks, value : Values, storageClass : StorageClasses,
                  complex : ComplexTypes]

VARIABLES
  declared,    \* getDeclaredNumberOfSections()
  stored,      \* formatParser->getStoredNumberOfSections()
  header,      \* the section table as the parser reads it
  symTab,      \* file->coffSymTab()
  sections,    \* the sections vector, as table indices
  symbols,     \* the symbols of the symbol table being built
  symbolTables,\* number of symbol tables pushed
  epSec,       \* position in `sections` of getEpSection(), or NoSec
  anomalies,   \* the anomalies vector
  i, j,
  pc

vars == <<declared, stored, header, symTab, sections, symbols, symbolTables,
          epSec, anomalies, i, j, pc>>

Init ==
  /\ declared \in 0..MaxSecs
  /\ stored \in 0..declared
  /\ header \in [0..(MaxSecs - 1) -> Headers]
  /\ symTab \in UNION {[1..n -> SymbolEntries] : n \in 0..MaxSymbols}
  /\ sections = <<>>
  /\ symbols = <<>>
  /\ symbolTables = 0
  /\ epSec = NoSec
  /\ anomalies = <<>>
  /\ i = 0
  /\ j = 0
  /\ pc = "sections"

-----------------------------------------------------------------------------
(* loadSections *)

\* A section recorded under its one-based position in the table.
LoadSectionOneBased ==
  /\ pc = "sections"
  /\ i < stored
  /\ header[i].loads
  /\ sections' = Append(sections, i + 1)
  /\ i' = i + 1
  /\ UNCHANGED <<declared, stored, header, symTab, symbols, symbolTables,
                 epSec, anomalies, j, pc>>

LoadSection ==
  /\ pc = "sections"
  /\ i < stored
  /\ header[i].loads
  /\ sections' = Append(sections, i)
  /\ i' = i + 1
  /\ UNCHANGED <<declared, stored, header, symTab, symbols, symbolTables,
                 epSec, anomalies, j, pc>>

GetSectionFails ==
  /\ pc = "sections"
  /\ i < stored
  /\ ~header[i].loads
  /\ i' = i + 1
  /\ UNCHANGED <<declared, stored, header, symTab, sections, symbols,
                 symbolTables, epSec, anomalies, j, pc>>

SectionsLoaded ==
  /\ pc = "sections"
  /\ i >= stored
  /\ i' = 0
  /\ pc' = "symbols"
  /\ UNCHANGED <<declared, stored, header, symTab, sections, symbols,
                 symbolTables, epSec, anomalies, j>>

-----------------------------------------------------------------------------
(* loadSymbols *)

getSymbolType(link, value, storageClass) ==
  IF link = 0 THEN (IF value /= 0 THEN "COMMON" ELSE "EXTERN")
  ELSE IF link \in {WordMax, WordMax - 1} THEN "ABSOLUTE_SYM"
  ELSE IF storageClass = "EXTERNAL" THEN "PUBLIC"
  ELSE IF storageClass = "STATIC" THEN "PRIVATE"
  ELSE "UNDEFINED_SYM"

getSymbolUsageType(storageClass, complex) ==
  IF complex = "FUNCTION" THEN "FUNCTION"
  ELSE IF storageClass = "FILE" THEN "FILE"
  ELSE "UNKNOWN"

LinksSection(link) == link \notin {0, WordMax, WordMax - 1}

\* sections[link]: the vector indexed one past the link.
SymbolAddressNextSection(link, value) ==
  IF LinksSection(link) /\ link < Len(sections)
    THEN SecAddress(sections[link + 1]) + value
    ELSE NoSec

\* sections[link - 1]->getAddress() + value, the vector indexed by link.
SymbolAddress(link, value) ==
  IF LinksSection(link) /\ link <= Len(sections)
    THEN SecAddress(sections[link]) + value
    ELSE NoSec

LoadSymbol ==
  /\ pc = "symbols"
  /\ i < Len(symTab)
  /\ LET s == symTab[i + 1]
     IN  symbols' = Append(symbols,
           [linkToSection |-> IF LinksSection(s.link) THEN s.link - 1 ELSE NoSec,
            address |-> SymbolAddress(s.link, s.value),
            value |-> s.value,
            type |-> getSymbolType(s.link, s.value, s.storageClass),
            usage |-> getSymbolUsageType(s.storageClass, s.complex)])
  /\ i' = i + 1
  /\ UNCHANGED <<declared, stored, header, symTab, sections, symbolTables,
                 epSec, anomalies, j, pc>>

SymbolsLoaded ==
  /\ pc = "symbols"
  /\ i >= Len(symTab)
  /\ symbolTables' = IF symbols /= <<>> THEN symbolTables + 1 ELSE symbolTables
  /\ i' = 0
  /\ pc' = "scan"
  /\ UNCHANGED <<declared, stored, header, symTab, sections, symbols,
                 epSec, anomalies, j>>

-----------------------------------------------------------------------------
(***************************************************************************)
(* scanForSectionAnomalies, run by scanForAnomalies at the end of          *)
(* initStructures; the loaders in between leave `sections` alone.  Each    *)
(* report is the anomaly's identifier with the table indices of the        *)
(* sections its message names.                                             *)
(***************************************************************************)
Report(kind, secs) == [kind |-> kind, secs |-> secs]

\* getPeSection(k): the section at position k of the vector, or nullptr.
HasSection(k) == k < Len(sections)
SectionAt(k) == header[sections[k + 1]]

\* nSecs - 1 with nSecs the declared count, as a position in the vector.
LastSecPositionPastEnd == IF HasSection(declared) THEN declared ELSE NoSec

\* getPeSection(nSecs - 1), or nullptr when nSecs is 0.
LastSecPosition ==
  IF declared > 0 /\ HasSection(declared - 1) THEN declared - 1 ELSE NoSec

\* getEpSection(): a loaded section containing the entry point, or none.
ScanEntryPoint ==
  /\ pc = "scan"
  /\ \E ep \in 0..(Len(sections) - 1) \cup {NoSec} :
       /\ epSec' = ep
       /\ anomalies' =
            IF ep = NoSec THEN Append(anomalies, Report("epOutsideSecs", <<>>))
            ELSE LET fl == SectionAt(ep).flags
                 IN  anomalies
                     \o (IF ep = LastSecPosition THEN <<Report("epInLastSec", <<>>)>> ELSE <<>>)
                     \o (IF "write" \in fl THEN <<Report("epInWritableSec", <<>>)>> ELSE <<>>)
                     \o (IF "exec" \notin fl THEN <<Report("epInNonExecSec", <<>>)>> ELSE <<>>)
  /\ i' = 0
  /\ pc' = "outer"
  /\ UNCHANGED <<declared, stored, header, symTab, sections, symbols,
                 symbolTables, j>>

\* The reports about one section on its own, in the order of the checks.
SectionReports(sec, idx) ==
  LET named == sec.name /= ""
      when(c, kind) == IF c THEN <<Report(kind, <<idx>>)>> ELSE <<>>
  IN  when(named /\ sec.name \notin UsualNames, "unusualSecName")
      \o when(named /\ sec.name \in PackerNames, "packedSecName")
      \o when(named /\ sec.name \in DOMAIN UsualChars /\ UsualChars[sec.name] /= sec.flags,
              "unusualSecChar")
      \o when(sec.size >= LargeSize, "largeSec")
      \o when("uninit" \in sec.flags /\ (sec.start /= 0 \/ sec.size /= 0), "uninitSecHasData")
      \o when(sec.size = 0, "noRawDataSec")

\* An inner loop that starts at the outer section itself.
ScanSectionFromSelf ==
  /\ pc = "outer"
  /\ i < declared
  /\ HasSection(i)
  /\ anomalies' = anomalies \o SectionReports(SectionAt(i), sections[i + 1])
  /\ j' = i
  /\ pc' = "inner"
  /\ UNCHANGED <<declared, stored, header, symTab, sections, symbols,
                 symbolTables, epSec, i>>

ScanSection ==
  /\ pc = "outer"
  /\ i < declared
  /\ HasSection(i)
  /\ anomalies' = anomalies \o SectionReports(SectionAt(i), sections[i + 1])
  /\ j' = i + 1
  /\ pc' = "inner"
  /\ UNCHANGED <<declared, stored, header, symTab, sections, symbols,
                 symbolTables, epSec, i>>

SkipMissingSection ==
  /\ pc = "outer"
  /\ i < declared
  /\ ~HasSection(i)
  /\ i' = i + 1
  /\ UNCHANGED <<declared, stored, header, symTab, sections, symbols,
                 symbolTables, epSec, anomalies, j, pc>>

\* The reports about the sections at positions a < b of the vector.
PairReports(a, b) ==
  LET sec == SectionAt(a)
      cmp == SectionAt(b)
      secEnd == sec.start + sec.size
      cmpEnd == cmp.start + cmp.size
      pair == <<sections[a + 1], sections[b + 1]>>
  IN  (IF sec.name /= "" /\ sec.name = cmp.name
         THEN <<Report("duplSecNames", pair)>> ELSE <<>>)
      \o (IF \/ sec.start <= cmp.start /\ cmp.start < secEnd
             \/ cmp.start <= sec.start /\ sec.start < cmpEnd
            THEN <<Report("overlappingSecs", pair)>> ELSE <<>>)

ScanPair ==
  /\ pc = "inner"
  /\ j < declared
  /\ HasSection(j)
  /\ anomalies' = anomalies \o PairReports(i, j)
  /\ j' = j + 1
  /\ UNCHANGED <<declared, stored, header, symTab, sections, symbols,
                 symbolTables, epSec, i, pc>>

SkipMissingPair ==
  /\ pc = "inner"
  /\ j < declared
  /\ ~HasSection(j)
  /\ j' = j + 1
  /\ UNCHANGED <<declared, stored, header, symTab, sections, symbols,
                 symbolTables, epSec, anomalies, i, pc>>

PairsDone ==
  /\ pc = "inner"
  /\ j >= declared
  /\ i' = i + 1
  /\ pc' = "outer"
  /\ UNCHANGED <<declared, stored, header, symTab, sections, symbols,
                 symbolTables, epSec, anomalies, j>>

ScanDone ==
  /\ pc = "outer"
  /\ i >= declared
  /\ pc' = "done"
  /\ UNCHANGED <<declared, stored, header, symTab, sections, symbols,
                 symbolTables, epSec, anomalies, i, j>>

Terminated == pc = "done" /\ UNCHANGED vars

Next ==
  \/ LoadSection
  \/ GetSectionFails
  \/ SectionsLoaded
  \/ LoadSymbol
  \/ SymbolsLoaded
  \/ ScanEntryPoint
  \/ ScanSection
  \/ SkipMissingSection
  \/ ScanPair
  \/ SkipMissingPair
  \/ PairsDone
  \/ ScanDone
  \/ Terminated

Spec == Init /\ [][Next]_vars

-----------------------------------------------------------------------------
(***************************************************************************)
(* Reference definitions, by table index: the sections that were loaded,  *)
(* and how often each report was made.                                     *)
(***************************************************************************)
Loaded == {h \in 0..(stored - 1) : header[h].loads}

Times(r) == Cardinality({k \in DOMAIN anomalies : anomalies[k] = r})

SharesName(a, b) == header[a].name /= "" /\ header[a].name = header[b].name

RawBytes(h) == header[h].start..(header[h].start + header[h].size - 1)

\* One section's raw data begins inside the other's.
Overlap(a, b) == header[a].start \in RawBytes(b) \/ header[b].start \in RawBytes(a)

SingleKinds == {"unusualSecName", "packedSecName", "unusualSecChar", "largeSec",
                "uninitSecHasData", "noRawDataSec"}

ExpectedSingle(h) ==
  {r.kind : r \in {SectionReports(header[h], h)[k] :
                     k \in DOMAIN SectionReports(header[h], h)}}

-----------------------------------------------------------------------------
TypeOK ==
  /\ declared \in 0..MaxSecs
  /\ stored \in 0..declared
  /\ header \in [0..(MaxSecs - 1) -> Headers]
  /\ sections \in Seq(0..(MaxSecs - 1))
  /\ symbols \in Seq([linkToSection : (0..MaxSecs) \cup {NoSec},
                      address : Nat \cup {NoSec}, value : Values,
                      type : {"COMMON", "EXTERN", "ABSOLUTE_SYM", "PUBLIC",
                              "PRIVATE", "UNDEFINED_SYM"},
                      usage : {"FUNCTION", "FILE", "UNKNOWN"}])
  /\ symbolTables \in 0..1
  /\ epSec \in Nat \cup {NoSec}
  /\ i \in Nat /\ j \in Nat
  /\ pc \in {"sections", "symbols", "scan", "outer", "inner", "done"}

(* When the scan ends, every loaded section has been reported once for    *)
(* each of its own anomalies, and every pair of loaded sections that share *)
(* a name or overlap once, lower table index first; nothing else about     *)
(* single sections or pairs is reported.                                   *)
ScanReportsExactly ==
  pc = "done" =>
    /\ \A h \in 0..(MaxSecs - 1), kind \in SingleKinds :
         Times(Report(kind, <<h>>)) =
           IF h \in Loaded /\ kind \in ExpectedSingle(h) THEN 1 ELSE 0
    /\ \A a, b \in 0..(MaxSecs - 1) :
         /\ Times(Report("duplSecNames", <<a, b>>)) =
              IF {a, b} \subseteq Loaded /\ a < b /\ SharesName(a, b) THEN 1 ELSE 0
         /\ Times(Report("overlappingSecs", <<a, b>>)) =
              IF {a, b} \subseteq Loaded /\ a < b /\ Overlap(a, b) THEN 1 ELSE 0

(* The entry-point checks report what the entry point's section is: once *)
(* "outside" when no loaded section holds it, else once "writable" and    *)
(* "nonexecutable" exactly as its flags say; and, as long as loadSections *)
(* skipped no table entry, once "in last section" exactly when it is the  *)
(* last entry of the section table.  The code finds that entry by the     *)
(* declared count, as a position in the vector of loaded sections.        *)
EntryPointReports ==
  LET once(kind, cond) == Times(Report(kind, <<>>)) = IF cond THEN 1 ELSE 0
      epIndex == sections[epSec + 1]
  IN  pc = "done" =>
        /\ once("epOutsideSecs", epSec = NoSec)
        /\ epSec /= NoSec =>
             /\ once("epInWritableSec", "write" \in header[epIndex].flags)
             /\ once("epInNonExecSec", "exec" \notin header[epIndex].flags)
             /\ Loaded = 0..(declared - 1) =>
                  once("epInLastSec", epIndex = declared - 1)

(* The address is right as long as no table entry up to the linked one  *)
(* was skipped by loadSections: a symbol linking to table entry h, with   *)
(* entries 0..h all loaded, gets the address of h plus its value.          *)
SymbolAddressesBeforeFirstSkip ==
  \A k \in DOMAIN symbols :
    LET h == symbols[k].linkToSection
    IN  /\ h /= NoSec
        /\ h < stored
        /\ \A g \in 0..h : header[g].loads
        => symbols[k].address = SecAddress(h) + symbols[k].value

====
