------------------------ MODULE MCTypescriptBasename ------------------------
(* Path and name lengths for TLC: from empty to longer than basename.      *)
EXTENDS TypescriptBasename

MCPathLengths == 0 .. 16
MCNameLengths == 0 .. 8
=============================================================================
