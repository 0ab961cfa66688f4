----------------------------- MODULE MCPublish -----------------------------
(* Instances of Publish for TLC.                                           *)
EXTENDS Publish, TLC

CONSTANTS l1, l2, host, net, peer, route, n1, n2, up, dn, a, b

\* Two links; the addresses and the neighbor are on the first.
TheKinds ==
    [i \in Id |-> CASE i \in {l1, l2} -> "link"
                    [] i = route -> "route"
                    [] i = peer -> "neighbor"
                    [] OTHER -> "address"]
FirstLink == [i \in Id \ {l1, l2, route} |-> l1]
\* Names, and contents, are interchangeable.
Symmetry == Permutations(Name) \cup Permutations(Content)
=============================================================================
