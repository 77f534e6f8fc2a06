------------------------------- MODULE MCAuth -------------------------------
(* Small instances of Auth for TLC.                                        *)
EXTENDS Auth, TLC

Symmetry == Permutations(Handlers) \cup Permutations(Passwords) \cup Permutations(Tokens) \cup Permutations(Emails)
=============================================================================
