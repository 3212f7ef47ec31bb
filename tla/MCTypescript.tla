---------------------------- MODULE MCTypescript ----------------------------
(* Small instances of Typescript for TLC.                                   *)
EXTENDS Typescript, TLC

CONSTANTS p1, p2, b1, b2

MCProcs == {p1, p2}
MCBytes == {b1, b2}

(* Processes and bytes are interchangeable in every property checked.      *)
MCSymmetry == Permutations(MCProcs) \cup Permutations(MCBytes)
=============================================================================
