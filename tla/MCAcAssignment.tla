--------------------------- MODULE MCAcAssignment ---------------------------
(* Instantiates AcAssignment for TLC: three stations and every string of   *)
(* up to four lexemes over the four categories, an out-of-range code,     *)
(* commas, blanks and junk; so lists are empty, shorter than, as long as   *)
(* or longer than nSld, malformed, or hold an invalid code.  An            *)
(* out-of-bounds read yields one of the four categories or 4, standing    *)
(* for every byte wifiAcList has no entry for.                             *)
EXTENDS AcAssignment

MCNSld == 3
MCIntLexemes == {0, 1, 2, 3, 4}
MCMaxLen == 4
MCGarbageBytes == 0 .. 4
(* The PHY's 9 us slot at 5 GHz.                                           *)
MCSlotNs == 9000
(* The default rate 0.00001, and a rate of 0.                              *)
MCLambdas == {<<1, 100000>>, <<0, 1>>}
(* +inf as an int64: INT64_MIN on x86-64, INT64_MAX where the conversion *)
(* saturates; scaled to TLC's integers, only their sign and size matter.   *)
MCUnspecifiedNs == {-(2^30), 2^30}
=============================================================================
