------------------------------ MODULE MCMemory ------------------------------
(***************************************************************************)
(* One key put again and again, another one between, and another scope.    *)
(* The clients differ in nothing but their names.                          *)
(***************************************************************************)
EXTENDS Memory, TLC

CONSTANTS w1, w2, person, team, own, a, b

MCKeyOf   == <<a, b, a, a, a>>
MCScopeOf == <<team, team, team, own, team>>

ClientSymmetry == Permutations(Client)
=============================================================================
