--------------------------- MODULE MCIntrospection --------------------------
EXTENDS Introspection, TLC

CONSTANTS c1, c2, i1, i2, i3

(* One device-owned and two server-owned interfaces, so that a removal    *)
(* unsubscribes more than once.                                           *)
MCOwner == [i \in Ifaces |-> IF i = i1 THEN "device" ELSE "server"]

MCSymmetry == Permutations({c1, c2})
=============================================================================
