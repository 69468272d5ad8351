--------------------------- MODULE MCElfSegments ---------------------------
(* Model-checking instance of ElfSegments: four program headers of two    *)
(* types over addresses 0..4: the PT_LOAD group has up to four segments,  *)
(* adjacent or with gaps, in any file order, so lower_bound halves a range *)
(* of odd and of even length.                                              *)
EXTENDS ElfSegments

CONSTANTS PT_NOTE

MCMaxAddr == 4
MCMaxSegs == 4
MCSegTypes == {PT_LOAD, PT_NOTE}
=============================================================================
