--------------------------- MODULE MCPointerChase ---------------------------
(***************************************************************************)
(* Buffers of up to four entries of two bytes.                             *)
(***************************************************************************)
EXTENDS PointerChase

\* No buffer; sizes that are and are not multiples of an entry; one that is
\* too large; one that wraps, as -1 does.
MCCalls ==
  [buffer_sz : {0, 1, 4, 5, 8, 20, 31}, count : {3, 9}, shuffle : BOOLEAN,
   walk : {"read", "cas", "none"}]
=============================================================================
