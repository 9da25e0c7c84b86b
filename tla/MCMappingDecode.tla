-------------------------- MODULE MCMappingDecode ---------------------------
(* Instantiation of MappingDecode for TLC.                                 *)
EXTENDS MappingDecode

(* Each side of every boundary of the conversions: negative, zero, the    *)
(* smallest positive value, and both sides of the 60s TTL minimum.        *)
MCSeconds == {-1, 0, 1, 59, 60}
=============================================================================
