------------------------------ MODULE PeDigest ------------------------------
(***************************************************************************)
(* The Authenticode digest ranges of a PE file: PeFormat::getDigestRanges  *)
(* and PeFormat::calculateDigest (pe_format.cpp).  The digest covers the   *)
(* whole file except three ranges: the 4-byte CheckSum field, the 8-byte   *)
(* security data-directory entry and the security directory itself.  The  *)
(* three <<offset, size>> pairs are sorted by offset, sanitised against    *)
(* the file size, and the gaps between them are emitted as hash ranges.    *)
(*                                                                         *)
(* std::size_t arithmetic is kept modulo Word: an underflowing subtraction *)
(* wraps to a huge length exactly as in the code.  All legitimate values   *)
(* stay below Word \div 2, so every comparison of a wrapped value with a   *)
(* legitimate one has the outcome it has with 64-bit words.                *)
(***************************************************************************)
EXTENDS Integers, Sequences, FiniteSets, SequencesExt

CONSTANTS
  FileSize,     \* bytes.size()
  HeaderOffsets, \* candidate file offsets of the CheckSum field and the
                 \* security data-directory entry (both in the PE header)
  SecDirOffsets, \* candidate file offsets of the security directory
  SecDirSizes,   \* candidate sizes of the security directory
  Word          \* 2^w, the modulus of std::size_t arithmetic

ASSUME FileSize \in Nat \ {0}
ASSUME HeaderOffsets \cup SecDirOffsets \cup SecDirSizes \subseteq Nat
ASSUME Word \in Nat /\ \A v \in HeaderOffsets \cup SecDirOffsets \cup SecDirSizes :
         2 * (v + FileSize + 8) < Word

ChecksumSize    == 4   \* std::make_pair(checksumFileOffset, 4)
SecDirEntrySize == 8   \* std::make_pair(secDirFileOffset, 8)

VARIABLES
  checksumFileOffset,  \* formatParser->getChecksumFileOffset()
  secDirFileOffset,    \* formatParser->getSecurityDirFileOffset()
  secDirOffset,        \* formatParser->getSecurityDirRva()
  secDirSize,          \* formatParser->getSecurityDirSize()
  offsets,             \* the sorted vector of <<offset, size>> not yet visited
  lastOffset,          \* end of the last excluded range
  result,              \* the digest ranges, <<start, length>>
  hashed,              \* byte positions fed to the hash context, in order
  pc

vars == <<checksumFileOffset, secDirFileOffset, secDirOffset, secDirSize,
          offsets, lastOffset, result, hashed, pc>>

\* Subtraction as if the operands were signed.
SignedSub(a, b) == a - b

\* size_t subtraction and addition
Sub(a, b) == (a - b) % Word
Add(a, b) == (a + b) % Word

\* The three excluded ranges in the order the code lists them.
Excluded == << <<checksumFileOffset, ChecksumSize>>,
               <<secDirFileOffset, SecDirEntrySize>>,
               <<secDirOffset, secDirSize>> >>

(***************************************************************************)
(* std::sort by offset.  For three elements both libstdc++ and MSVC run an *)
(* insertion sort, which keeps elements with equal offsets in their        *)
(* original order, so the result is the stable sort.                      *)
(***************************************************************************)
StableSortByOffset(v) ==
  LET key(i) == <<v[i][1], i>>
      less(i, j) == key(i)[1] < key(j)[1] \/ (key(i)[1] = key(j)[1] /\ i < j)
      rank(i) == Cardinality({j \in DOMAIN v : less(j, i)}) + 1
      perm == [k \in DOMAIN v |-> CHOOSE i \in DOMAIN v : rank(i) = k]
  IN [k \in DOMAIN v |-> v[perm[k]]]

(***************************************************************************)
(* The length of a range after both sanitisation steps of the loop body.  *)
(***************************************************************************)
SanitisedSize(r) ==
  LET s1 == IF r[2] > FileSize THEN FileSize ELSE r[2]
  IN  IF Add(r[1], s1) > FileSize THEN Sub(FileSize, r[1]) ELSE s1

Init ==
  /\ checksumFileOffset \in HeaderOffsets
  /\ secDirFileOffset \in HeaderOffsets
  /\ secDirOffset \in SecDirOffsets
  /\ secDirSize \in SecDirSizes
  /\ offsets = <<>>
  /\ lastOffset = 0
  /\ result = <<>>
  /\ hashed = <<>>
  /\ pc = "build"

\* The vector of the three pairs, left in header order.
BuildRangesUnsorted ==
  /\ pc = "build"
  /\ offsets' = Excluded
  /\ lastOffset' = 0
  /\ result' = <<>>
  /\ pc' = "loop"
  /\ UNCHANGED <<checksumFileOffset, secDirFileOffset, secDirOffset,
                 secDirSize, hashed>>

\* The vector of the three pairs is built and sorted by offset.
BuildRanges ==
  /\ pc = "build"
  /\ offsets' = StableSortByOffset(Excluded)
  /\ lastOffset' = 0
  /\ result' = <<>>
  /\ pc' = "loop"
  /\ UNCHANGED <<checksumFileOffset, secDirFileOffset, secDirOffset,
                 secDirSize, hashed>>

\* A range that ends at or before lastOffset is completely covered: skipped.
SkipCoveredRange ==
  /\ pc = "loop"
  /\ offsets /= <<>>
  /\ LET r == Head(offsets)
     IN  Add(r[1], SanitisedSize(r)) <= lastOffset
  /\ offsets' = Tail(offsets)
  /\ UNCHANGED <<checksumFileOffset, secDirFileOffset, secDirOffset,
                 secDirSize, lastOffset, result, hashed, pc>>

(***************************************************************************)
(* Otherwise the gap before the range is emitted; a range that starts at   *)
(* or before lastOffset is first "shrunk" to begin at lastOffset.          *)
(***************************************************************************)
EmitRange ==
  /\ pc = "loop"
  /\ offsets /= <<>>
  /\ LET r      == Head(offsets)
         size   == SanitisedSize(r)
         shrunk == r[1] <= lastOffset
         first  == IF shrunk THEN lastOffset ELSE r[1]
         second == IF shrunk THEN Sub(lastOffset, r[1]) ELSE size
     IN  /\ Add(r[1], size) > lastOffset
         /\ result' = Append(result, <<lastOffset, Sub(first, lastOffset)>>)
         /\ lastOffset' = Add(first, second)
  /\ offsets' = Tail(offsets)
  /\ UNCHANGED <<checksumFileOffset, secDirFileOffset, secDirOffset,
                 secDirSize, hashed, pc>>

\* The data after the last excluded range finishes the list.
FinishRanges ==
  /\ pc = "loop"
  /\ offsets = <<>>
  /\ result' = IF lastOffset /= FileSize
                 THEN Append(result, <<lastOffset, Sub(FileSize, lastOffset)>>)
                 ELSE result
  /\ pc' = "hash"
  /\ UNCHANGED <<checksumFileOffset, secDirFileOffset, secDirOffset,
                 secDirSize, offsets, lastOffset, hashed>>

\* calculateDigest: hashCtx.addData(data, size) for every range in order.
RangeBytes(r) == [i \in 1..r[2] |-> r[1] + i - 1]

HashRanges ==
  /\ pc = "hash"
  /\ hashed' = FlattenSeq([i \in DOMAIN result |-> RangeBytes(result[i])])
  /\ pc' = "done"
  /\ UNCHANGED <<checksumFileOffset, secDirFileOffset, secDirOffset,
                 secDirSize, offsets, lastOffset, result>>

\* hashCtx.init or hashCtx.addData fails: calculateDigest returns {}.
HashFails ==
  /\ pc = "hash"
  /\ pc' = "failed"
  /\ UNCHANGED <<checksumFileOffset, secDirFileOffset, secDirOffset,
                 secDirSize, offsets, lastOffset, result, hashed>>

\* calculateDigest has returned.
Terminated == pc \in {"done", "failed"} /\ UNCHANGED vars

Next ==
  \/ BuildRanges
  \/ SkipCoveredRange
  \/ EmitRange
  \/ FinishRanges
  \/ HashRanges
  \/ HashFails
  \/ Terminated

Spec == Init /\ [][Next]_vars

-----------------------------------------------------------------------------
(***************************************************************************)
(* Reference definitions.                                                  *)
(***************************************************************************)

\* Bytes of the file that lie in one of the three excluded ranges.
ExcludedBytes ==
  { b \in 0..(FileSize - 1) :
      \E i \in 1..3 : Excluded[i][1] <= b /\ b < Excluded[i][1] + Excluded[i][2] }

\* The bytes the Authenticode digest is defined over, in file order.
ExpectedDigestBytes ==
  LET kept == (0..(FileSize - 1)) \ ExcludedBytes
  IN  [k \in 1..Cardinality(kept) |->
         CHOOSE b \in kept : Cardinality({c \in kept : c < b}) = k - 1]

\* Every range non-empty, inside the file and not at offset 0 (the MZ
\* header is there); the ranges may touch or overlap.
InFileLayout ==
  \A i \in 1..3 : /\ Excluded[i][1] > 0
                 /\ Excluded[i][2] > 0
                 /\ Excluded[i][1] + Excluded[i][2] <= FileSize

\* The layout of a well-formed signed PE file: every range non-empty and
\* inside the file, none at offset 0 (the MZ header is there), and at least
\* one byte of data between any two ranges.
SeparatedLayout ==
  /\ InFileLayout
  /\ \A i, j \in 1..3 :
       i /= j => \/ Excluded[i][1] + Excluded[i][2] < Excluded[j][1]
                 \/ Excluded[j][1] + Excluded[j][2] < Excluded[i][1]

-----------------------------------------------------------------------------
(***************************************************************************)
(* Properties.                                                             *)
(***************************************************************************)

TypeOK ==
  /\ checksumFileOffset \in HeaderOffsets
  /\ secDirFileOffset \in HeaderOffsets
  /\ secDirOffset \in SecDirOffsets
  /\ secDirSize \in SecDirSizes
  /\ offsets \in Seq(Nat \X Nat)
  /\ lastOffset \in 0..(Word - 1)
  /\ result \in Seq((0..(Word - 1)) \X (0..(Word - 1)))
  /\ hashed \in Seq(Nat)
  /\ pc \in {"build", "loop", "hash", "done", "failed"}

(* When the checksum field, the security-directory entry and the security  *)
(* directory lie inside the file with data between them, in whatever order *)
(* the header places them, calculateDigest hashes exactly the bytes        *)
(* outside them, each once and in file order.                              *)
DigestExcludesExactlyWhenSeparated ==
  (SeparatedLayout /\ pc = "done") => hashed = ExpectedDigestBytes

(***************************************************************************)
(* calculateDigest hashes exactly the bytes of the file that lie outside  *)
(* the three excluded ranges, each once and in file order, and nothing    *)
(* outside the file, whatever the header says: the comments of            *)
(* getDigestRanges say that the sort and the sanitisation of each range   *)
(* prevent crashes on unordinary binaries, and that a partially covered   *)
(* range is shrunk to begin where the last one ended.                     *)
(***************************************************************************)
DigestExact ==
  pc = "done" => hashed = ExpectedDigestBytes

=============================================================================
