--------------------------- MODULE MCStateReport ---------------------------
(* A node with two parameters, one of them indexed.                        *)
EXTENDS StateReport

CONSTANTS self, light, temp

OwnParams == {light, temp}
OwnOwner == [p \in OwnParams |-> self]
OwnIndexed == {temp}
=============================================================================
