--------------------------- MODULE MCPingDelivery ---------------------------
(* Small instances of PingDelivery for TLC.                                *)
EXTENDS PingDelivery, TLC

CONSTANTS i1, i2, p1, p2

\* The second ping of the first partition cannot be decoded.
SecondUnparsable == {<<p1, 2>>}

Symmetry == Permutations(Instances)
=============================================================================
