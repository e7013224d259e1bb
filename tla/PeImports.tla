------------------------------ MODULE PeImports ------------------------------
(***************************************************************************)
(* The import table of a PE file: PeFormat::initDllList, which reads the  *)
(* override list of system DLLs, isMissingDependency, and loadImports,    *)
(* which copies the parser's libraries and imports, first the ordinary   *)
(* ones and then the delay-loaded ones.  All three are sequential loops  *)
(* over their inputs and are operators here.                               *)
(*                                                                         *)
(* A DLL name is its spelling in lower case and whether it is written in  *)
(* upper case, so that std::transform(..., ::tolower) is what Lower does. *)
(* The DLL list file is whether a path was given, whether it can be      *)
(* opened, a sequence of such names, one per line, and whether its last  *)
(* line ends with a newline.  The                                          *)
(* parser's output is, per library, its name and how many imports         *)
(* getImport / getDelayImport yield before the first nullptr.              *)
(***************************************************************************)
EXTENDS Integers, Sequences, FiniteSets
LOCAL INSTANCE SequencesExt

CONSTANT DefaultDlls   \* defDllList, in lower case

Lower(dll) == [dll EXCEPT !.upper = FALSE]
EmptyLine == [name |-> "", upper |-> FALSE]
NoFile == [given |-> FALSE, opens |-> FALSE, lines |-> <<>>, newlineAtEnd |-> FALSE]

(***************************************************************************)
(* initDllList.  "while(stream) getline" inserts one line more than the  *)
(* file has when the file is empty or ends with a newline: the getline    *)
(* that meets the end of the file then extracts nothing and leaves "".    *)
(* When the last line has no newline, the getline after it fails before  *)
(* erasing the string and inserts that line again.                        *)
(***************************************************************************)
\* Mutant: the lines are inserted as they are written.
InitDllListVerbatim(file) ==
  IF ~file.given THEN [dllList |-> {}, error |-> FALSE]
  ELSE IF ~file.opens THEN [dllList |-> {}, error |-> TRUE]
  ELSE [dllList |-> {file.lines[k] : k \in DOMAIN file.lines}
                    \cup (IF file.lines = <<>> \/ file.newlineAtEnd THEN {EmptyLine} ELSE {}),
        error |-> FALSE]

InitDllList(file) ==
  IF ~file.given THEN [dllList |-> {}, error |-> FALSE]
  ELSE IF ~file.opens THEN [dllList |-> {}, error |-> TRUE]
  ELSE [dllList |-> {Lower(file.lines[k]) : k \in DOMAIN file.lines}
                    \cup (IF file.lines = <<>> \/ file.newlineAtEnd THEN {EmptyLine} ELSE {}),
        error |-> FALSE]

\* Names of API sets ("api-" or "ext-" and more) always exist.
IsApiSet(dll) ==
  Len(dll.name) > 4 /\ SubSeq(dll.name, 1, 4) \in {"api-", "ext-"}

IsMissingDependency(dllList, dll) ==
  /\ ~IsApiSet(Lower(dll))
  /\ Lower(dll) \notin (IF dllList /= {} THEN dllList ELSE DefaultDlls)

(***************************************************************************)
(* loadImports.  An ordinary library gets its missing-dependency flag and *)
(* its imports carry the library's index as the parser sets it, the      *)
(* position i of the library.  A delay-loaded library is added without   *)
(* the check, and its imports get getNumberOfLibraries() - 1.  Indices    *)
(* are 0-based, as in ImportTable.                                        *)
(***************************************************************************)
NoImports == [libraries |-> <<>>, imports |-> <<>>]

ImportsOf(lib, index) == [k \in 1..lib.imports |-> [library |-> index]]

AddLibrary(dllList, table, lib) ==
  [libraries |-> Append(table.libraries,
                        [name |-> lib.name, missing |-> IsMissingDependency(dllList, lib.name)]),
   imports |-> table.imports \o ImportsOf(lib, Len(table.libraries))]

\* Mutant: setLibraryIndex is not called, so the imports keep index 0.
AddDelayLibraryUnindexed(table, lib) ==
  [libraries |-> Append(table.libraries, [name |-> lib.name, missing |-> FALSE]),
   imports |-> table.imports \o ImportsOf(lib, 0)]

AddDelayLibrary(table, lib) ==
  LET added == Append(table.libraries, [name |-> lib.name, missing |-> FALSE])
  IN  [libraries |-> added,
       imports |-> table.imports \o ImportsOf(lib, Len(added) - 1)]

LoadImports(dllList, libraries, delayLibraries) ==
  LET ordinary == FoldLeft(LAMBDA t, lib : AddLibrary(dllList, t, lib), NoImports, libraries)
  IN  FoldLeft(AddDelayLibrary, ordinary, delayLibraries)

\* importTable->getNumberOfImportsInLibraryCaseInsensitive(name)
NumberOfImportsInLibraryCaseInsensitive(table, dll) ==
  Cardinality({k \in DOMAIN table.imports :
                 Lower(table.libraries[table.imports[k].library + 1].name) = Lower(dll)})

=============================================================================
