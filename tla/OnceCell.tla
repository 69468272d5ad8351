------------------------------ MODULE OnceCell ------------------------------
(***************************************************************************)
(* A value computed at most once (spec section 7, invariant I4): the cell  *)
(* starts unset; one step may fill it with any value, a failure included;  *)
(* after that every read sees the same value and nothing recomputes it.    *)
(***************************************************************************)
CONSTANTS
    Unset,      \* the cell has not been filled
    Values      \* what it may be filled with

VARIABLE slot

Init == slot = Unset

Fill ==
    /\ slot = Unset
    /\ slot' \in Values

Spec == Init /\ [][Fill]_slot
=============================================================================
