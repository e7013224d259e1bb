------------------------------- MODULE PeExports -------------------------------
(***************************************************************************)
(* PeFormat::loadExports: the exported functions the parser yields, up to *)
(* the first one getExportedFunction cannot read, each added to the       *)
(* export table under its own name, or as "exported_function_" and its    *)
(* address in hexadecimal when the name has a non-printable character.    *)
(*                                                                         *)
(* An exported function is whether it can be read, its name (a string    *)
(* and whether hasNonprintableChars holds of it) and its address.         *)
(* loadExpHash and the occupied address ranges are left out.              *)
(***************************************************************************)
EXTENDS Integers, Sequences

\* What the parser yields for one exported function.
ExportedFunction == [read : BOOLEAN, printable : BOOLEAN, name : STRING, address : Nat]

HexDigits == "0123456789abcdef"

\* Mutant: the address is written in decimal digits.
RECURSIVE NumToDec(_)
NumToDec(n) ==
  (IF n < 10 THEN "" ELSE NumToDec(n \div 10)) \o SubSeq(HexDigits, (n % 10) + 1, (n % 10) + 1)

\* numToStr(n, std::hex): lower-case digits, no leading zeros, "0" for 0.
RECURSIVE NumToHex(_)
NumToHex(n) ==
  (IF n < 16 THEN "" ELSE NumToHex(n \div 16)) \o SubSeq(HexDigits, (n % 16) + 1, (n % 16) + 1)

\* The name the export is added under.
ExportName(f) ==
  IF f.printable THEN f.name ELSE "exported_function_" \o NumToHex(f.address)

\* The loop from function i on; the first unreadable one ends it.
RECURSIVE ExportLoop(_, _, _)
ExportLoop(functions, i, table) ==
  IF i > Len(functions) \/ ~functions[i].read THEN table
  ELSE ExportLoop(functions, i + 1,
                  Append(table, [name |-> ExportName(functions[i]),
                                 address |-> functions[i].address]))

LoadExports(functions) == ExportLoop(functions, 1, <<>>)

-----------------------------------------------------------------------------
(***************************************************************************)
(* Reference: a hexadecimal numeral read back, digit by digit.            *)
(***************************************************************************)
Prefix == "exported_function_"

DigitValue(c) == CHOOSE d \in 0..15 : SubSeq(HexDigits, d + 1, d + 1) = c

RECURSIVE HexValue(_)
HexValue(str) ==
  IF str = "" THEN 0
  ELSE 16 * HexValue(SubSeq(str, 1, Len(str) - 1)) + DigitValue(SubSeq(str, Len(str), Len(str)))

\* str is a hexadecimal numeral with no leading zero, naming n.
IsHexOf(str, n) ==
  /\ Len(str) > 0
  /\ \A k \in 1..Len(str) : \E d \in 0..15 : SubSeq(str, k, k) = SubSeq(HexDigits, d + 1, d + 1)
  /\ Len(str) > 1 => SubSeq(str, 1, 1) /= "0"
  /\ HexValue(str) = n

\* table holds the readable functions before the first unreadable one,
\* each at its address, under its own name or, when that is not printable,
\* under "exported_function_" and the address's hexadecimal numeral.
IsReadablePrefixTable(functions, table) ==
  LET readable == {i \in DOMAIN functions : \A j \in 1..i : functions[j].read}
  IN  /\ DOMAIN table = readable
      /\ \A i \in readable :
           /\ table[i].address = functions[i].address
           /\ functions[i].printable => table[i].name = functions[i].name
           /\ ~functions[i].printable =>
                /\ SubSeq(table[i].name, 1, Len(Prefix)) = Prefix
                /\ IsHexOf(SubSeq(table[i].name, Len(Prefix) + 1, Len(table[i].name)),
                           functions[i].address)

=============================================================================
