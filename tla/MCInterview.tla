---------------------------- MODULE MCInterview ----------------------------
(***************************************************************************)
(* Two devices of two endpoints. Friendly names play no part, so each has  *)
(* the one its IEEE address gives it.                                      *)
(***************************************************************************)
EXTENDS Interview, TLC

CONSTANTS a, b

MCIEEE == {a, b}
MCHex == [i \in IEEE |-> i]
MCHas == [i \in IEEE |-> EP]

Symmetric == Permutations(IEEE)
=============================================================================
