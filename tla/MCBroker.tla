------------------------------ MODULE MCBroker ------------------------------
(* Instances of Broker for TLC.                                            *)
EXTENDS Broker, TLC

CONSTANTS k1, k2, k3

\* Two cells on the first cluster, the others on the second.
MCUrlOf == [c \in Cells |-> IF c \in {k1, k2} THEN "sc://a" ELSE "sc://b"]
MCUrls == {"sc://a", "sc://b"}
MCMaxLines == 1

\* The two cells of the first cluster behave alike.
Symmetry == Permutations({k1, k2})
=============================================================================
