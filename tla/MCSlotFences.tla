----------------------------- MODULE MCSlotFences ------------------------------
(***************************************************************************)
(* The instances of SlotFences that TLC checks; the .cfg files choose the   *)
(* sizes and the calls.                                                     *)
(***************************************************************************)
EXTENDS SlotFences, TLC

CONSTANTS s1, s2   \* sender threads

\* The senders are interchangeable.
Symmetry == Permutations(Senders)
===============================================================================
