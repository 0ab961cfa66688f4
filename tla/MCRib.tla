------------------------------- MODULE MCRib -------------------------------
(* Instances of Rib for TLC.                                               *)
EXTENDS Rib

CONSTANTS p1, p2, g1, g2, q1, h1, bad, l1, l2

Texts == {p1, p2, g1, g2, q1, h1, bad}
Addrs == Texts \ {bad}

\* The IPv4 and the IPv6 reading of the texts: p2 (as "default" does) parses in
\* both, q1 and h1 in IPv6 only.
AddressOf ==
    [f \in Family |-> [t \in Texts |->
        IF t \in (IF f = 4 THEN {p1, p2, g1, g2} ELSE {p2, q1, h1}) THEN t ELSE NULL]]

GatewayLink == [a \in Addrs |-> IF a \in {g1, h1} THEN l1 ELSE NULL]

Nothing == [leaf \in Leaf |-> {}]

\* Entries that compete for one prefix, with and without a priority.
SharedCandidates ==
    [k \in Key |->
        CASE k = <<4, 0>> -> [Nothing EXCEPT !["prefix"] = {p1}, !["nexthop"] = {g1}]
          [] k = <<4, 1>> -> [Nothing EXCEPT !["prefix"] = {p1}, !["nexthop"] = {g1},
                                             !["metric"] = {1}]
          [] OTHER -> Nothing]

\* Two entries that compete for one prefix, and one with a prefix of its own
\* whose leaves change in every way but leave it one kind of nexthop.
MixedCandidates ==
    [k \in Key |->
        CASE k = <<4, 1>> -> [Nothing EXCEPT !["prefix"] = {p1}, !["nexthop"] = {g1}]
          [] k = <<4, 2>> -> [Nothing EXCEPT !["prefix"] = {p1}, !["nexthop"] = {g1},
                                             !["metric"] = {1}]
          [] k = <<4, 3>> -> [Nothing EXCEPT !["prefix"] = {p2, g1}, !["ifname"] = {l1},
                                             !["distance"] = {4},
                                             !["id"] = {3}]
          [] OTHER -> Nothing]

\* They are what the proofs of Accurate and Complete ask for.
ASSUME MixedAssumption == Candidates = MixedCandidates => Plain /\ Reachable

\* One IPv6 entry.
SixCandidates ==
    [k \in Key |->
        IF k = <<6, 1>> THEN [Nothing EXCEPT !["prefix"] = {q1}, !["nexthop"] = {h1}]
                        ELSE Nothing]
=============================================================================
