----------------------------- MODULE MCNetlink -----------------------------
(* Instances of Netlink for TLC.                                           *)
EXTENDS Netlink

CONSTANTS i1, i2, a, b, c1, c2

\* One object that comes and goes, and one that changes too.
SmallContents == [i \in Id |-> IF i = i1 THEN {a, b} ELSE {a}]
=============================================================================
