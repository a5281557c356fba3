--------------------------- MODULE MCArbitration ---------------------------
(* Instances of Arbitration for TLC: three devices on the line.            *)
EXTENDS Arbitration

CONSTANTS n1, n2, n3

\* Every device announces the same version: the shipped binaries all do (1.4).
SameVersion == [n \in Node |-> 1]

\* Three different versions, n1 the lowest.
RisingVersion == [n \in Node |-> IF n = n1 THEN 1 ELSE IF n = n2 THEN 2 ELSE 3]

=============================================================================
