---------------------------- MODULE MC_PeDigest ----------------------------
(* Model-checking instance of PeDigest: a 16-byte file whose header fields *)
(* lie anywhere in it, a security directory anywhere from the start of the *)
(* file to two bytes past its end with any size up to two bytes more than  *)
(* the file, and 7-bit size_t arithmetic.                                  *)
EXTENDS PeDigest

MCFileSize      == 16
MCHeaderOffsets == 0..(MCFileSize - 1)
MCSecDirOffsets == 0..(MCFileSize + 2)
MCSecDirSizes   == 0..(MCFileSize + 2)
MCWord          == 2^7
=============================================================================
