---------------------------- MODULE MCAsyncChannel ----------------------------
(***************************************************************************)
(* The instances of AsyncChannel that TLC checks.                          *)
(***************************************************************************)
EXTENDS AsyncChannel

CONSTANTS s1, s2   \* sender uses

\* One task for each receiver.
OneEach == [g \in Readers |-> g]
===============================================================================
