----------------------------- MODULE MCStatics -----------------------------
(* Instances of Statics for TLC.                                           *)
EXTENDS Statics

CONSTANTS four, six, eth, a, b, bad

\* Both entries are on the one link.
OneLink == [e \in Entry |-> eth]

\* Two link-layer addresses, and one that does not parse.
Parsed == [v \in Value |-> IF v = bad THEN NULL ELSE v]
=============================================================================
