----------------------------- MODULE AddressMap -----------------------------
(***************************************************************************)
(* What an Elf::Object promises about addresses (spec section 4.1): its    *)
(* loadable segments are a fixed set of disjoint intervals                *)
(* [p_vaddr, p_vaddr + p_memsz), and a query for an address answers with   *)
(* the one interval that contains it, or with nothing.  There is no cache  *)
(* and no order here: ElfSegments is shown to implement this module.       *)
(***************************************************************************)
EXTENDS Naturals

CONSTANTS
    MaxAddr,    \* intervals lie inside 0..MaxAddr
    NULL        \* no interval contains the address

VARIABLES
    loads,      \* the set of loadable intervals
    query,      \* the last address asked for
    found       \* the interval returned for it, or NULL

vars == <<loads, query, found>>

Interval == {s \in [p_vaddr: 0..MaxAddr, p_memsz: 1..(MaxAddr + 1)] :
                s.p_vaddr + s.p_memsz <= MaxAddr + 1}

Contains(s, a) == s.p_vaddr <= a /\ a < s.p_vaddr + s.p_memsz

Separate(s, t) ==
    s.p_vaddr + s.p_memsz <= t.p_vaddr \/ t.p_vaddr + t.p_memsz <= s.p_vaddr

Init ==
    /\ loads \subseteq Interval
    /\ \A s, t \in loads : s # t => Separate(s, t)
    /\ query = NULL
    /\ found = NULL

\* Ask for address a: the containing interval, unique since they are disjoint.
Lookup(a) ==
    /\ query' = a
    /\ found' = IF \E s \in loads : Contains(s, a)
                   THEN CHOOSE s \in loads : Contains(s, a)
                   ELSE NULL
    /\ UNCHANGED loads

Next == \E a \in 0..(MaxAddr + 1) : Lookup(a)

Spec == Init /\ [][Next]_vars
=============================================================================
