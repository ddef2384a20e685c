------------------------- MODULE ClusterRefinement -------------------------
(***************************************************************************)
(* ClusterLifecycle implements ClusterRegistry.  The table is the same; an *)
(* id is spent when it was issued and has neither a row nor a request left *)
(* that would insert it.                                                   *)
(***************************************************************************)
EXTENDS ClusterLifecycle

\* The ids that are being created.
Expecting == {c \in Ids : \E r \in Requests : Creating(r) /\ req[r].id = c}

spentIds == {c \in issued \ Expecting : rows[c] = None}

Registry == INSTANCE ClusterRegistry WITH spent <- spentIds

\* The rows of the clusters keep the promise of ClusterRegistry through every
\* overlap of handlers and the reconciler, every lost call and every crash: no
\* UPDATE undoes what another has written, and no id is used a second time.
ImplementsRegistry == Registry!Spec
=============================================================================
