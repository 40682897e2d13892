--------------------------- MODULE MCObjectWriter ---------------------------
(* Parts of one, two and three units, four in all: an object of one         *)
(* PutObject, of two to four parts, and one that is too large.              *)
EXTENDS ObjectWriter, FiniteSetsExt

\* The real limits, in MiB: 10 000 parts hold more than the 5 TiB an object may have.
ASSUME CapacityAssumption ==
    MapThenSumSet(LAMBDA k : 1000 * PartSize(8, 5120, 1000, 1000 * k + 1), 0..9) > 5 * 1024 * 1024
=============================================================================
