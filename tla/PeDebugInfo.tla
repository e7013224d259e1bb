----------------------------- MODULE PeDebugInfo -----------------------------
(***************************************************************************)
(* PeFormat::loadPdbInfo: the loop over the debug directory that takes    *)
(* the first CodeView record, RSDS (PDB 7.0) or NB10 (PDB 2.0), and reads *)
(* its GUID, age and PDB path from the file.                               *)
(*                                                                         *)
(* A debug entry is what the parser yields for it: whether its data can   *)
(* be read, the data's first four characters and its size, and the entry's *)
(* time stamp and PointerToRawData, each readable or not.  bytesToString  *)
(* copies every byte, so dataString is as long as data.  The file is read *)
(* by offset: get4ByteOffset, get2ByteOffset and getXByteOffset succeed    *)
(* exactly when their bytes lie inside the file, and getNTBSOffset when   *)
(* its first byte does.  A field read is abstracted to the offset it was  *)
(* read at, so the hexadecimal formatting of the GUID is left out.         *)
(***************************************************************************)
EXTENDS Integers, Sequences

CONSTANT FileSize   \* getBytes().size()

\* What the parser yields for one debug entry.
DebugEntry ==
  [data : [read : BOOLEAN, prefix : STRING, size : Nat],
   timestamp : [read : BOOLEAN, value : Nat],
   pointer : [read : BOOLEAN, value : Nat]]

\* MINIMAL_PDB_NB10_INFO_LENGTH and MINIMAL_PDB_RSDS_INFO_LENGTH
MinimalLength == [NB10 |-> 17, RSDS |-> 25]

NoPdb == [loaded |-> FALSE]
NoField == -1

\* get4ByteOffset and its kin: n bytes at off.
ReadOk(off, n) == off + n <= FileSize

\* The PdbInfo object the loop fills for entry e, once e has passed every
\* check.
\* Mutant: the age is read 16 bytes after the GUID for both record kinds.
PdbInfoOfAgeAfterGuid(e) ==
  LET isRsds == e.data.prefix = "RSDS"
      guidOffset == e.pointer.value + 4 + (IF isRsds THEN 0 ELSE 4)
      ageOffset == guidOffset + 16
  IN  [loaded |-> TRUE, type |-> e.data.prefix, timeStamp |-> e.timestamp.value,
       guid |-> IF ReadOk(guidOffset, IF isRsds THEN 16 ELSE 4) THEN guidOffset ELSE NoField,
       age |-> IF ReadOk(ageOffset, 4) THEN ageOffset ELSE NoField,
       path |-> IF ReadOk(ageOffset + 4, 1) THEN ageOffset + 4 ELSE NoField]

\* The RSDS GUID is five reads ending at guidOffset + 16; with && they all
\* succeed exactly when the last one does.
PdbInfoOf(e) ==
  LET isRsds == e.data.prefix = "RSDS"
      guidOffset == e.pointer.value + 4 + (IF isRsds THEN 0 ELSE 4)
      ageOffset == guidOffset + (IF isRsds THEN 16 ELSE 4)
  IN  [loaded |-> TRUE, type |-> e.data.prefix, timeStamp |-> e.timestamp.value,
       guid |-> IF ReadOk(guidOffset, IF isRsds THEN 16 ELSE 4) THEN guidOffset ELSE NoField,
       age |-> IF ReadOk(ageOffset, 4) THEN ageOffset ELSE NoField,
       path |-> IF ReadOk(ageOffset + 4, 1) THEN ageOffset + 4 ELSE NoField]

\* The checks that make the loop continue with the next entry.
Skipped(e) ==
  \/ ~e.data.read
  \/ e.data.size < 4
  \/ e.data.prefix \notin {"RSDS", "NB10"}
  \/ e.data.size < MinimalLength[e.data.prefix]
  \/ ~e.timestamp.read
  \/ ~e.pointer.read

\* The loop from entry i on: the first entry not skipped ends it.
RECURSIVE PdbLoop(_, _)
PdbLoop(entries, i) ==
  IF i > Len(entries) THEN NoPdb
  ELSE IF Skipped(entries[i]) THEN PdbLoop(entries, i + 1)
  ELSE PdbInfoOf(entries[i])

LoadPdbInfo(entries) == PdbLoop(entries, 1)

-----------------------------------------------------------------------------
(***************************************************************************)
(* Reference: the CodeView records as the PE format lays them out.        *)
(* RSDS: signature, 16-byte GUID, 4-byte age, path.  NB10: signature,     *)
(* 4-byte offset, 4-byte signature (the "GUID"), 4-byte age, path.  A     *)
(* record holds at least the first byte of its path.                      *)
(***************************************************************************)
CvLayout == [RSDS |-> [guid |-> 4, guidLength |-> 16, age |-> 20, path |-> 24],
             NB10 |-> [guid |-> 8, guidLength |-> 4,  age |-> 12, path |-> 16]]

IsCodeViewRecord(e) ==
  /\ e.data.read
  /\ e.data.prefix \in DOMAIN CvLayout
  /\ e.data.size > CvLayout[e.data.prefix].path
  /\ e.timestamp.read /\ e.pointer.read

\* The fields of the record at entry e, those that lie inside the file.
ExpectedPdbInfo(e) ==
  LET l == CvLayout[e.data.prefix]
      at(field, n) == IF e.pointer.value + field + n <= FileSize
                      THEN e.pointer.value + field ELSE NoField
  IN  [loaded |-> TRUE, type |-> e.data.prefix, timeStamp |-> e.timestamp.value,
       guid |-> at(l.guid, l.guidLength), age |-> at(l.age, 4), path |-> at(l.path, 1)]

\* The PDB information of the first CodeView record, or none.
ExpectedLoadPdbInfo(entries) ==
  LET records == {i \in DOMAIN entries : IsCodeViewRecord(entries[i])}
  IN  IF records = {} THEN NoPdb
      ELSE ExpectedPdbInfo(entries[CHOOSE i \in records : \A j \in records : i <= j])

=============================================================================
