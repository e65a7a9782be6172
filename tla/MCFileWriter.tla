---------------------------- MODULE MCFileWriter ----------------------------
(* FileWriter on a small instance: two handlers racing for one path.       *)
EXTENDS FileWriter, TLC

CONSTANTS w1, w2, d1, v1, v2

MCWriter == {w1, w2}
MCDest == {d1}
MCValue == {v1, v2}
MCSymmetry == Permutations(MCWriter) \cup Permutations(MCValue)
=============================================================================
