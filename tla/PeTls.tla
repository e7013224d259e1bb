-------------------------------- MODULE PeTls --------------------------------
(***************************************************************************)
(* PeFormat::loadTlsInformation: without a TLS data directory of non-zero *)
(* size there is no TlsInfo; otherwise the TLS directory's fields are     *)
(* copied and the callback array is read from the file as 32-bit words,  *)
(* starting at the file offset of AddressOfCallBacks, until a zero word   *)
(* or the end of the file.                                                 *)
(*                                                                         *)
(* A TLS input is the data directory (whether getDataDirectoryRelative    *)
(* succeeds, and the size), the callback offset (NoOffset when            *)
(* getOffsetFromAddress fails) and the file's bytes.  The directory's     *)
(* scalar fields are copied unchanged and are left out.                   *)
(* DynamicBuffer::read<uint32_t> is taken to read little-endian.          *)
(***************************************************************************)
EXTENDS Integers, Sequences, FiniteSets

NoTls == [loaded |-> FALSE]
NoOffset == -1

TlsInput ==
  [directory : [read : BOOLEAN, size : Nat], callBacksOffset : Nat \cup {NoOffset},
   bytes : Seq(0..255)]

\* structContent.read<std::uint32_t>(off), off counted from 0.
Word32(bytes, off) ==
  bytes[off + 1] + 256 * (bytes[off + 2] + 256 * (bytes[off + 3] + 256 * bytes[off + 4]))

\* Mutant: the loop wants a byte past the word before it reads it.
RECURSIVE CallBackLoopStrict(_, _, _)
CallBackLoopStrict(bytes, off, callBacks) ==
  IF ~(Len(bytes) > off + 4) \/ Word32(bytes, off) = 0 THEN callBacks
  ELSE CallBackLoopStrict(bytes, off + 4, Append(callBacks, Word32(bytes, off)))

\* The while loop from callBacksOffset = off on.
RECURSIVE CallBackLoop(_, _, _)
CallBackLoop(bytes, off, callBacks) ==
  IF ~(Len(bytes) >= off + 4) \/ Word32(bytes, off) = 0 THEN callBacks
  ELSE CallBackLoop(bytes, off + 4, Append(callBacks, Word32(bytes, off)))

LoadTlsInformation(in) ==
  IF ~in.directory.read \/ in.directory.size = 0 THEN NoTls
  ELSE [loaded |-> TRUE,
        callBacks |-> IF in.callBacksOffset = NoOffset THEN <<>>
                      ELSE CallBackLoop(in.bytes, in.callBacksOffset, <<>>)]

-----------------------------------------------------------------------------
(***************************************************************************)
(* Reference: the callback array is the sequence of words at the offset,  *)
(* up to the first zero word, all of whose bytes lie in the file.         *)
(***************************************************************************)
ExpectedCallBacks(bytes, off) ==
  LET slots == {k \in 1..Len(bytes) : off + 4 * k <= Len(bytes)}
      word(k) == Word32(bytes, off + 4 * (k - 1))
      nulls == {k \in slots : word(k) = 0}
      count == IF nulls = {} THEN Cardinality(slots)
               ELSE (CHOOSE k \in nulls : \A j \in nulls : k <= j) - 1
  IN  [k \in 1..count |-> word(k)]

\* What loadTlsInformation leaves for input in.
ExpectedTls(in) ==
  IF ~in.directory.read \/ in.directory.size = 0 THEN NoTls
  ELSE [loaded |-> TRUE,
        callBacks |-> IF in.callBacksOffset = NoOffset THEN <<>>
                      ELSE ExpectedCallBacks(in.bytes, in.callBacksOffset)]

=============================================================================
