---------------------------- MODULE MCEnsoChannel -----------------------------
(***************************************************************************)
(* The instances of EnsoChannel that TLC checks; the .cfg files choose the  *)
(* sizes, the calls and the faults.                                         *)
(***************************************************************************)
EXTENDS EnsoChannel, TLC

CONSTANTS s1, s2   \* sender uses

\* The senders are interchangeable: Init lets any of them be the first.
Symmetry == Permutations(Senders)

\* One guard at a time of each receiver.
OneEach == [g \in Readers |-> g]

\* Several guards of the same receiver.
Shared == [g \in Readers |-> 0]
===============================================================================
