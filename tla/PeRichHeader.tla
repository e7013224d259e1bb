---------------------------- MODULE PeRichHeader ----------------------------
(***************************************************************************)
(* Location of the Rich header of a PE file: getRichHeaderOffset and       *)
(* PeFormat::loadRichHeader (pe_format.cpp).  The offset is computed as    *)
(* the end of the run of NUL bytes that follows the DOS stub text; if the  *)
(* header read there is not valid, the space right after the MZ header and *)
(* the standard offset 0x80 are tried.  When no try yields a valid header  *)
(* but some yielded a valid structure, the header is read again at the    *)
(* largest such offset, preferring one that is neither of the two fixed    *)
(* fallbacks.                                                              *)
(*                                                                         *)
(* The bytes between the MZ header and the PE header are abstracted to     *)
(* NUL (0) and non-NUL (1) and the position where findDosStub finds a     *)
(* stub text.  Offsets are counted in units with the MZ header MzSize      *)
(* units long.  What PeLib's RichHeader reads at an offset is an input:    *)
(* nothing, a valid structure, or a valid header.                          *)
(***************************************************************************)
EXTENDS Integers, Sequences, FiniteSets

CONSTANTS
  MzSize,       \* getMzHeaderSize()
  Standard,     \* STANDARD_RICH_HEADER_OFFSET
  MaxPlain,     \* most bytes between the MZ and the PE header
  NotFound      \* std::string::npos

ASSUME MzSize \in Nat \ {0} /\ Standard > MzSize /\ MaxPlain \in Nat
ASSUME NotFound \notin Nat

PlainTexts == UNION {[1..n -> {0, 1}] : n \in 0..MaxPlain}

\* The offsets a read can start at, and what PeLib finds there.
Offsets == MzSize..(MzSize + MaxPlain)
Readings == {"none", "structure", "header"}

\* plainFile.find('\0', from), zero-based
FindNul(s, from) ==
  IF \E k \in from..(Len(s) - 1) : s[k + 1] = 0
    THEN CHOOSE k \in from..(Len(s) - 1) : s[k + 1] = 0 /\ \A l \in from..(k - 1) : s[l + 1] /= 0
    ELSE NotFound

(***************************************************************************)
(* The loop of getRichHeaderOffset: the first NUL after the stub, then     *)
(* every following NUL, moving richOffset one past each.                   *)
(***************************************************************************)
\* A loop that does not stop at the end of the first run of NULs.
RECURSIVE NulRunLoopNoBreak(_, _, _, _)
NulRunLoopNoBreak(s, prev, i, richOffset) ==
  LET next == FindNul(s, prev)
  IN  IF next = NotFound THEN richOffset
      ELSE NulRunLoopNoBreak(s, next + 1, i + 1, next + 1)

RECURSIVE NulRunLoop(_, _, _, _)
NulRunLoop(s, prev, i, richOffset) ==
  LET next == FindNul(s, prev)
  IN  IF next = NotFound THEN richOffset
      ELSE IF i = 0 THEN NulRunLoop(s, next + 1, 1, next + 1)
      ELSE IF next /= prev THEN richOffset
      ELSE NulRunLoop(s, prev + 1, i + 1, prev + 1)

GetRichHeaderOffset(s, stub) ==
  LET richOffset == IF stub = NotFound THEN 0 ELSE NulRunLoop(s, stub, 0, 0)
  IN  IF richOffset /= 0 THEN richOffset + MzSize ELSE Standard

VARIABLES
  plain,          \* bytesToString(bytes, ..., MzSize, PE offset - MzSize)
  stub,           \* findDosStub(plainFile)
  reading,        \* what file->readRichHeader finds at each offset
  offset,
  standardOffset,
  validStructOffsets,
  lastRead,       \* the offset file->richHeader() was last read at
  richOffset,     \* richHeader->getOffset(), or NotFound without a header
  pc

vars == <<plain, stub, reading, offset, standardOffset, validStructOffsets,
          lastRead, richOffset, pc>>

PeHeaderOffset == MzSize + Len(plain)

\* findDosStub finds the stub text at a non-NUL byte, or nothing.
Stubs(s) == {k \in 0..(Len(s) - 1) : s[k + 1] = 1} \cup {NotFound}

Init ==
  /\ plain \in PlainTexts
  /\ stub \in Stubs(plain)
  /\ reading \in [Offsets -> Readings]
  /\ offset = 0
  /\ standardOffset = FALSE
  /\ validStructOffsets = <<>>
  /\ lastRead = NotFound
  /\ richOffset = NotFound
  /\ pc = "start"

HeaderValid == lastRead /= NotFound /\ reading[lastRead] = "header"
StructureValid(off) == reading[off] \in {"structure", "header"}

\* file->readRichHeader(off, ...) and the push of a valid structure offset.
ReadAt(off) ==
  /\ lastRead' = off
  /\ validStructOffsets' = IF StructureValid(off)
                             THEN Append(validStructOffsets, off)
                             ELSE validStructOffsets

\* No room between the MZ header and the PE header.
NoRoom ==
  /\ pc = "start"
  /\ PeHeaderOffset <= MzSize
  /\ pc' = "done"
  /\ UNCHANGED <<plain, stub, reading, offset, standardOffset,
                 validStructOffsets, lastRead, richOffset>>

\* The computed offset lies at or after the PE header: return.
OffsetPastPeHeader ==
  /\ pc = "start"
  /\ PeHeaderOffset > MzSize
  /\ GetRichHeaderOffset(plain, stub) >= PeHeaderOffset
  /\ pc' = "done"
  /\ UNCHANGED <<plain, stub, reading, offset, standardOffset,
                 validStructOffsets, lastRead, richOffset>>

ReadAtComputedOffset ==
  /\ pc = "start"
  /\ PeHeaderOffset > MzSize
  /\ LET off == GetRichHeaderOffset(plain, stub)
     IN  /\ off < PeHeaderOffset
         /\ offset' = off
         /\ standardOffset' = (off = Standard)
         /\ ReadAt(off)
  /\ pc' = "mz"
  /\ UNCHANGED <<plain, stub, reading, richOffset>>

\* Try the space immediately after the MZ header.
MzTry == ~HeaderValid /\ offset > MzSize /\ PeHeaderOffset > MzSize

ReadAfterMzHeader ==
  /\ pc = "mz"
  /\ MzTry
  /\ offset' = MzSize
  /\ standardOffset' = (standardOffset \/ MzSize = Standard)
  /\ ReadAt(MzSize)
  /\ pc' = "standard"
  /\ UNCHANGED <<plain, stub, reading, richOffset>>

SkipMzHeader ==
  /\ pc = "mz"
  /\ ~MzTry
  /\ pc' = "standard"
  /\ UNCHANGED <<plain, stub, reading, offset, standardOffset,
                 validStructOffsets, lastRead, richOffset>>

\* Try the standard offset.
StandardTry == ~HeaderValid /\ ~standardOffset /\ Standard < PeHeaderOffset

ReadAtStandardOffset ==
  /\ pc = "standard"
  /\ StandardTry
  /\ offset' = Standard
  /\ ReadAt(Standard)
  /\ pc' = "decide"
  /\ UNCHANGED <<plain, stub, reading, standardOffset, richOffset>>

SkipStandardOffset ==
  /\ pc = "standard"
  /\ ~StandardTry
  /\ pc' = "decide"
  /\ UNCHANGED <<plain, stub, reading, offset, standardOffset,
                 validStructOffsets, lastRead, richOffset>>

\* Neither a valid header nor a valid structure: return.
NoRichHeader ==
  /\ pc = "decide"
  /\ ~HeaderValid
  /\ validStructOffsets = <<>>
  /\ pc' = "done"
  /\ UNCHANGED <<plain, stub, reading, offset, standardOffset,
                 validStructOffsets, lastRead, richOffset>>

\* The last read gave a valid header: it is the Rich header.
ValidRichHeader ==
  /\ pc = "decide"
  /\ HeaderValid
  /\ richOffset' = offset
  /\ pc' = "done"
  /\ UNCHANGED <<plain, stub, reading, offset, standardOffset,
                 validStructOffsets, lastRead>>

(***************************************************************************)
(* Only valid structures: the header is read again, ignoring the invalid  *)
(* signature, at the largest offset with a valid structure, among those   *)
(* that are neither the standard offset nor the MZ header size when such  *)
(* an offset exists.                                                       *)
(***************************************************************************)
\* The largest offset that is no fixed fallback, even when all are: 0.
MaxStructOffsetNonStandardOnly(offs) ==
  LET nonStandard(off) == off /= Standard /\ off /= MzSize
      eligible == {offs[k] : k \in DOMAIN offs} \cap {off \in Offsets : nonStandard(off)}
  IN  CHOOSE m \in eligible \cup {0} : \A o \in eligible : o <= m

\* The largest offset with a valid structure, with no preference.
MaxStructOffsetAny(offs) ==
  LET eligible == {offs[k] : k \in DOMAIN offs}
  IN  CHOOSE m \in eligible \cup {0} : \A o \in eligible : o <= m

MaxStructOffset(offs) ==
  LET nonStandard(off) == off /= Standard /\ off /= MzSize
      anyNonStandard == \E k \in DOMAIN offs : nonStandard(offs[k])
      eligible == {offs[k] : k \in DOMAIN offs} \cap
                  {off \in Offsets : ~anyNonStandard \/ nonStandard(off)}
  IN  CHOOSE m \in eligible \cup {0} : \A o \in eligible : o <= m

RecoveredRichHeader ==
  /\ pc = "decide"
  /\ ~HeaderValid
  /\ validStructOffsets /= <<>>
  /\ lastRead' = MaxStructOffset(validStructOffsets)
  /\ richOffset' = MaxStructOffset(validStructOffsets)
  /\ pc' = "done"
  /\ UNCHANGED <<plain, stub, reading, offset, standardOffset, validStructOffsets>>

Terminated == pc = "done" /\ UNCHANGED vars

Next ==
  \/ NoRoom
  \/ OffsetPastPeHeader
  \/ ReadAtComputedOffset
  \/ ReadAfterMzHeader
  \/ SkipMzHeader
  \/ ReadAtStandardOffset
  \/ SkipStandardOffset
  \/ NoRichHeader
  \/ ValidRichHeader
  \/ RecoveredRichHeader
  \/ Terminated

Spec == Init /\ [][Next]_vars

-----------------------------------------------------------------------------
(***************************************************************************)
(* Reference definitions.  The Rich header follows the NUL padding after   *)
(* the DOS stub: the expected offset is the end of the first run of NULs   *)
(* at or after the stub, or the standard offset when there is no stub or   *)
(* no NUL after it.                                                        *)
(***************************************************************************)
FirstNulAfterStub == FindNul(plain, stub)

EndOfNulRun(k) ==
  CHOOSE e \in (k + 1)..Len(plain) :
    /\ \A l \in k..(e - 1) : plain[l + 1] = 0
    /\ e < Len(plain) => plain[e + 1] /= 0

ExpectedRichOffset ==
  IF stub = NotFound \/ FirstNulAfterStub = NotFound THEN Standard
  ELSE MzSize + EndOfNulRun(FirstNulAfterStub)

\* The offsets loadRichHeader reads at, in order, until a valid header.
Attempts ==
  LET c == ExpectedRichOffset
      mz == IF c > MzSize THEN <<MzSize>> ELSE <<>>
      std == IF Standard < PeHeaderOffset /\ Standard \notin {c} \cup {mz[k] : k \in DOMAIN mz}
               THEN <<Standard>> ELSE <<>>
  IN  IF PeHeaderOffset <= MzSize \/ c >= PeHeaderOffset THEN <<>>
      ELSE <<c>> \o mz \o std

AttemptSet == {Attempts[k] : k \in DOMAIN Attempts}
WithHeader == {k \in DOMAIN Attempts : reading[Attempts[k]] = "header"}
WithStructure == {o \in AttemptSet : StructureValid(o)}
Fallback(o) == o \in {Standard, MzSize}

\* Where the Rich header is expected to be reported, or NotFound.
ExpectedHeaderOffset ==
  IF WithHeader /= {}
    THEN Attempts[CHOOSE k \in WithHeader : \A l \in WithHeader : k <= l]
  ELSE IF WithStructure = {} THEN NotFound
  ELSE LET pref == IF \E o \in WithStructure : ~Fallback(o)
                     THEN {o \in WithStructure : ~Fallback(o)}
                     ELSE WithStructure
       IN  CHOOSE o \in pref : \A p \in pref : p <= o

-----------------------------------------------------------------------------
TypeOK ==
  /\ plain \in PlainTexts
  /\ stub \in Stubs(plain)
  /\ reading \in [Offsets -> Readings]
  /\ offset \in 0..(MzSize + MaxPlain)
  /\ standardOffset \in BOOLEAN
  /\ validStructOffsets \in Seq(Offsets)
  /\ lastRead \in Offsets \cup {NotFound}
  /\ richOffset \in Offsets \cup {NotFound}
  /\ pc \in {"start", "mz", "standard", "decide", "done"}

(* getRichHeaderOffset returns the end of the first run of NUL bytes after *)
(* the DOS stub text, shifted by the MZ header size, and the standard     *)
(* offset when no stub is found or no NUL follows it: the counting loop    *)
(* stops exactly at the first non-NUL byte after the padding.             *)
RichOffsetIsEndOfNulRun == GetRichHeaderOffset(plain, stub) = ExpectedRichOffset

(* When loadRichHeader returns, the Rich header it reports sits at the    *)
(* first offset tried (computed, after the MZ header, standard) where a    *)
(* valid header was read; failing that, at the largest offset with a valid *)
(* structure, one that is not a fixed fallback when there is one; and the  *)
(* header's records were read at the reported offset.                      *)
RichHeaderChosen ==
  pc = "done" =>
    /\ richOffset = ExpectedHeaderOffset
    /\ richOffset /= NotFound => lastRead = richOffset

=============================================================================
