------------------------- MODULE MCClusterLifecycle -------------------------
(* Instances of ClusterLifecycle for TLC.                                  *)
EXTENDS ClusterRefinement, TLC

\* Two create bodies: auto-terminate switched off, and a window of one tick.
MCConfigs == {"off", "idle"}
MCIdleMinutes == [f \in Configs |-> IF f = "idle" THEN 1 ELSE 0]

\* One more than the longest window: ages beyond it behave alike.
MCAgeCap == 2

\* Ids and request slots are only compared for equality.
Symmetry == Permutations(Requests) \cup Permutations(Ids)
=============================================================================
