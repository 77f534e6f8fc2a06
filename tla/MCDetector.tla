----------------------------- MODULE MCDetector -----------------------------
(* Small instances of Detector for TLC.                                    *)
EXTENDS Detector, TLC

Symmetry == Permutations(Vehicles) \cup Permutations(Terms)
=============================================================================
