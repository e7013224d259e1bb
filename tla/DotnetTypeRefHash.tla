------------------------- MODULE DotnetTypeRefHash -------------------------
(***************************************************************************)
(* The bytes PeFormat::computeTypeRefHashes hashes: for every row of the  *)
(* TypeRef table, in row order, the row's full name (its type name, its   *)
(* namespace and the name of its resolution scope with a suffix telling  *)
(* the scope's table, the non-empty ones joined by '.'), preceded by ','  *)
(* whenever some byte was pushed before.  CRC32, MD5 and SHA-256 are then  *)
(* taken of these bytes; the digests are left out, the bytes are kept.    *)
(*                                                                         *)
(* The tables are a record of row sequences.  A string heap lookup is     *)
(* abstracted to the name it yields, "" when getString fails or yields   *)
(* the empty string (the code treats both alike).  A name is one token of *)
(* the byte sequence, and so are the separators and the suffixes.  The   *)
(* ResolutionScope coded index has two tag bits for exactly four tables   *)
(* (ECMA-335 II.24.2.6), so resolutionScope.getTable is taken to succeed *)
(* and the switch's default case is not reached.                          *)
(***************************************************************************)
EXTENDS Integers, Sequences
LOCAL INSTANCE SequencesExt

NoName == ""

\* The suffix appended to referencedName for each resolution scope table.
ScopeSuffix == [TypeRef |-> "TR", Module |-> "M", ModuleRef |-> "MR", AssemblyRef |-> "AR"]

\* The names of the rows of the table a resolution scope refers to.
ScopeNames(tables, table) ==
  LET rows == CASE table = "TypeRef"     -> tables.typeRefs
                [] table = "Module"      -> tables.modules
                [] table = "ModuleRef"   -> tables.moduleRefs
                [] table = "AssemblyRef" -> tables.assemblyRefs
  IN  [k \in DOMAIN rows |-> IF table = "TypeRef" THEN rows[k].typeName ELSE rows[k].name]

\* referencedName with its suffix, or <<>> when the row is missing or its
\* name cannot be read or is empty.
ReferencedName(tables, scope) ==
  LET names == ScopeNames(tables, scope[1])
  IN  IF scope[2] \in DOMAIN names /\ names[scope[2]] /= NoName
      THEN <<names[scope[2]], ScopeSuffix[scope[1]]>>
      ELSE <<>>

\* fullName of TypeRef row r, built part after part with '.' between.
FullName(tables, r) ==
  LET row == tables.typeRefs[r]
      then(name, part) == IF name = <<>> THEN part ELSE name \o <<".">> \o part
      withType == IF row.typeName /= NoName THEN <<row.typeName>> ELSE <<>>
      withNs == IF row.typeNamespace /= NoName
                THEN then(withType, <<row.typeNamespace>>) ELSE withType
      ref == ReferencedName(tables, row.scope)
  IN  IF ref /= <<>> THEN then(withNs, ref) ELSE withNs

\* Mutant: the ',' is pushed before every row but the first.
RECURSIVE TypeRefHashLoopByRow(_, _, _)
TypeRefHashLoopByRow(tables, i, bytes) ==
  IF i > Len(tables.typeRefs) THEN bytes
  ELSE TypeRefHashLoopByRow(tables, i + 1,
         (IF i > 1 THEN bytes \o <<",">> ELSE bytes) \o FullName(tables, i))

\* The loop over the TypeRef rows from row i on.
RECURSIVE TypeRefHashLoop(_, _, _)
TypeRefHashLoop(tables, i, bytes) ==
  IF i > Len(tables.typeRefs) THEN bytes
  ELSE TypeRefHashLoop(tables, i + 1,
         (IF bytes /= <<>> THEN bytes \o <<",">> ELSE bytes) \o FullName(tables, i))

TypeRefHashBytes(tables) == TypeRefHashLoop(tables, 1, <<>>)

-----------------------------------------------------------------------------
(***************************************************************************)
(* Reference definitions: joining with a separator, stated by positions.  *)
(***************************************************************************)
JoinWith(sep, parts) ==
  IF parts = <<>> THEN <<>>
  ELSE FlattenSeq([k \in 1..(2 * Len(parts) - 1) |->
                     IF k % 2 = 1 THEN parts[(k + 1) \div 2] ELSE sep])

\* The parts of a full name that are not empty, joined by '.'.
ExpectedFullName(tables, r) ==
  LET row == tables.typeRefs[r]
      ref == ReferencedName(tables, row.scope)
      parts == <<<<row.typeName>>, <<row.typeNamespace>>, ref>>
  IN  JoinWith(<<".">>, SelectSeq(parts, LAMBDA p : p /= <<>> /\ p /= <<NoName>>))

\* The full names of all rows joined by ',', once the leading rows whose
\* full name is empty are dropped.
ExpectedTypeRefHashBytes(tables) ==
  LET names == [r \in DOMAIN tables.typeRefs |-> ExpectedFullName(tables, r)]
      first == SelectInSeq(names, LAMBDA n : n /= <<>>)
  IN  IF first = 0 THEN <<>>
      ELSE JoinWith(<<",">>, SubSeq(names, first, Len(names)))

=============================================================================
