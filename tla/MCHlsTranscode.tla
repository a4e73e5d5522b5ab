--------------------------- MODULE MCHlsTranscode ---------------------------
(* Instances of HlsTranscode for TLC.                                       *)
EXTENDS HlsTranscode
=============================================================================
