------------------------------ MODULE MCEntity ------------------------------
(* An instance of Entity for TLC.                                          *)
EXTENDS Entity, TLC

CONSTANTS a0, b0, hostA, hostB, eth0, inet, addr

\* Hosts A and B have the interface, which has one address.
Hosts == (a0 :> hostA @@ b0 :> hostB)
Interfaces == [n \in Entry \cup Addr |-> <<eth0, inet>>]
Texts == [n \in Addr |-> n]

\* Hosts are exchanged together with their entries.
Exchange == {p \in Permutations({a0, b0, hostA, hostB}) :
                \A e \in {a0, b0} : p[e] \in {a0, b0} /\ p[Hosts[e]] = Hosts[p[e]]}
=============================================================================
