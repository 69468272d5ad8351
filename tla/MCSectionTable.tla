--------------------------- MODULE MCSectionTable ---------------------------
(* Model-checking instance of SectionTable: one name base, so six names    *)
(* (.debug_x, .zdebug_x and another, each with or without .dwo), up to    *)
(* two sections after section 0, PROGBITS and NOBITS sections, and         *)
(* lookups by PROGBITS or by the SHT_NULL wildcard.                        *)
EXTENDS SectionTable, TLC

MCBases == {"x"}
MCSecTypes == {"PROGBITS", "NOBITS"}
MCQueryTypes == {"NULL", "PROGBITS"}
=============================================================================
