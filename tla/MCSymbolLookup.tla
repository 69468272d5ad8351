--------------------------- MODULE MCSymbolLookup ---------------------------
(* Model-checking instance of SymbolLookup.  Queries are at address 1; the *)
(* symbols sit above it, exactly at it with size 0, cover it, or end at it *)
(* (every case of the scan), in a .text section (index 1, SHF_ALLOC), a    *)
(* .comment section (index 2, not allocated) or outside the section table *)
(* (index 3, e.g. SHN_ABS); of type STT_FUNC or STT_OBJECT.                *)
EXTENDS SymbolLookup, TLC

MCSTT_NOTYPE == 0
STT_OBJECT == 1
STT_FUNC == 2

MCAddrs == 0..2
MCQueryAddrs == {1}
MCSizes == 0..2
MCSymTypes == {STT_OBJECT, STT_FUNC}
MCQueryTypes == {MCSTT_NOTYPE, STT_FUNC}
MCAlloc == (0 :> FALSE @@ 1 :> TRUE @@ 2 :> FALSE)
MCShndx == {1, 2, 3}

Places == {<<2, 0>>, <<1, 0>>, <<1, 1>>, <<0, 1>>, <<0, 2>>}
Kinds == {<<STT_FUNC, 1>>, <<STT_OBJECT, 1>>, <<STT_FUNC, 2>>, <<STT_FUNC, 3>>}
MCSymUniverse ==
    {[st_value |-> p[1], st_size |-> p[2], type |-> k[1], st_shndx |-> k[2]] :
        p \in Places, k \in Kinds}
=============================================================================
