--------------------------- MODULE MC_PeSections ----------------------------
(* Two section-table entries are enough for one section to be skipped    *)
(* while the other loads, for a pair to share a name or overlap, and for  *)
(* the entry point to lie in the first or the last section.  The names    *)
(* stand for an unnamed section, a usual one with its usual               *)
(* characteristics (.text: code, execute) and a packer section (UPX0).    *)
EXTENDS PeSections

MCUsualChars == [n \in {".text"} |-> {"exec"}]

\* The section scan: names, flags and raw-data layouts, and one symbol.
ScanNames == {"", ".text", "UPX0"}
ScanFlags == {"exec", "uninit"}
=============================================================================
