---------------------------- MODULE ConsoleProofs ----------------------------
(***************************************************************************)
(* Proofs about the pages of Console, for any number of flows, requests,   *)
(* principals, notebooks, tables and changes, and all faults.              *)
(*                                                                         *)
(* A step of the console is one of the page that is open, or leaves it     *)
(* alone (the lemmas named Turn): each page has its inductive invariant,   *)
(* over its own Init and Next, a lemma named Holds that carries it over to *)
(* Spec, and theorems that follow from it.                                 *)
(***************************************************************************)
EXTENDS Console, FiniteSetTheorems, SequenceTheorems, TLAPS

-----------------------------------------------------------------------------
(* The page that is open.                                                  *)

LEMMA PermissionsTurn ==
    ASSUME [Next]_vars, Is("permissions")'
    PROVE  Is("permissions") /\ (Permissions!Next \/ UNCHANGED Permissions!vars)
  BY DEF Next, Is, vars, permissionsVars, Permissions!vars, Permissions!view,
         IdentityStep, PermissionsStep, CatalogStep, NotebooksStep, DrawerStep

LEMMA NotebooksTurn ==
    ASSUME [Next]_vars, Is("notebooks")'
    PROVE  Is("notebooks") /\ (Notebooks!Next \/ UNCHANGED Notebooks!vars)
  BY DEF Next, Is, vars, notebooksVars, Notebooks!vars, Notebooks!page,
         IdentityStep, PermissionsStep, CatalogStep, NotebooksStep, DrawerStep

LEMMA IdentityTurn ==
    ASSUME [Next]_vars, Is("identity")'
    PROVE  Is("identity") /\ (Identity!Next \/ UNCHANGED Identity!vars)
  BY DEF Next, Is, vars, identityVars, Identity!vars, Identity!page,
         IdentityStep, PermissionsStep, CatalogStep, NotebooksStep, DrawerStep

LEMMA DrawerTurn ==
    ASSUME [Next]_vars, Is("drawer")'
    PROVE  Is("drawer") /\ (Drawer!Next \/ UNCHANGED Drawer!vars)
  BY DEF Next, Is, vars, drawerVars, Drawer!vars,
         IdentityStep, PermissionsStep, CatalogStep, NotebooksStep, DrawerStep

LEMMA CatalogTurn ==
    ASSUME [Next]_vars, Is("catalog")'
    PROVE  Is("catalog") /\ (Catalog!Next \/ UNCHANGED Catalog!vars)
  BY DEF Next, Is, vars, catalogVars, Catalog!vars,
         IdentityStep, PermissionsStep, CatalogStep, NotebooksStep, DrawerStep

\* The bound on the changes of a page.
LEMMA ChangesBound == MaxChanges \in Nat
  BY ConsoleAssumption

-----------------------------------------------------------------------------
(* Flows.                                                                  *)

\* What the update of one flow does to the others.
LEMMA OneFlow ==
    ASSUME NEW S, NEW T, NEW f \in [S -> T], NEW s \in S, NEW new \in T,
           NEW g, g = [f EXCEPT ![s] = new]
    PROVE  /\ g \in [S -> T] /\ g[s] = new
           /\ \A t \in S \ {s} : g[t] = f[t]
  OBVIOUS

\* At most one is at most one.
LEMMA AtMostOne ==
    ASSUME NEW S, \A s, t \in S : s = t
    PROVE  Cardinality(S) <= 1
  <1>1. CASE S = {}
    BY <1>1, FS_EmptySet
  <1>2. CASE S # {}
    <2>1. PICK s \in S : S = {s}
      BY <1>2
    <2>2. Cardinality({s}) = 1
      BY FS_Singleton
    <2> QED
      BY <2>1, <2>2
  <1> QED
    BY <1>1, <1>2

\* The pages count with the same operator.
LEMMA Counting ==
    \A S : /\ Permissions!Cardinality(S) = Cardinality(S)
           /\ Identity!Cardinality(S) = Cardinality(S)
           /\ Notebooks!Cardinality(S) = Cardinality(S)
           /\ Drawer!Cardinality(S) = Cardinality(S)
  BY DEF Permissions!Cardinality, Identity!Cardinality, Notebooks!Cardinality, Drawer!Cardinality,
         Cardinality

-----------------------------------------------------------------------------
(* PermissionsEditor.                                                      *)

\* A flow of the editor's first load asks for nothing but the list.
PermissionsInv ==
    /\ Permissions!TypeOK
    /\ \A s \in Slots : flows[s].kind = "load" => flows[s].asks = "list"

LEMMA PermissionsFree ==
    /\ Permissions!NoFlow \notin Permissions!Flow
    /\ \A f \in Permissions!Flow : /\ f.kind \in {"load", "grant", "revoke"}
                                   /\ f.asks \in {"change", "list"}
  BY DEF Permissions!NoFlow, Permissions!Flow

LEMMA PermissionsFlow ==
    ASSUME Permissions!TypeOK, NEW s \in Slots
    PROVE  /\ s \in Permissions!Active <=> flows[s] \in Permissions!Flow
           /\ s \in Permissions!Active <=> flows[s].kind # "none"
           /\ s \in Permissions!Active => flows[s].asks \in {"change", "list"}
           /\ s \in Permissions!Active <=> flows[s] # Permissions!NoFlow
  BY DEF Permissions!TypeOK, Permissions!Active, Permissions!NoFlow, Permissions!Flow

\* The steps of a flow: each is the update of that flow alone.
LEMMA PermissionsBegins ==
    ASSUME PermissionsInv, NEW s \in Slots, Permissions!Grant(s) \/ Permissions!Revoke(s)
    PROVE  /\ flows' \in [Slots -> Permissions!Flow \cup {Permissions!NoFlow}]
           /\ \A t \in Slots \ {s} : flows'[t] = flows[t]
           /\ flows[s] = Permissions!NoFlow
           /\ flows'[s] \in Permissions!Flow /\ flows'[s].kind \in {"grant", "revoke"}
           /\ flows'[s].asks = "change" /\ flows'[s].state = "sent"
           /\ ~busy /\ busy' = TRUE /\ error' = FALSE
           /\ UNCHANGED <<granted, version, perms, principalId, unsure>>
  <1>1. PICK kind \in {"grant", "revoke"}, who \in Principals \cup {None}, level \in Levels \cup {None} :
            Permissions!Change(s, kind, who, level)
    <2>1. CASE Permissions!Grant(s)
      BY <2>1 DEF Permissions!Grant, PermissionsInv, Permissions!TypeOK
    <2>2. CASE Permissions!Revoke(s)
      BY <2>2 DEF Permissions!Revoke
    <2> QED
      BY <2>1, <2>2
  <1> DEFINE new == Permissions!Sent(kind, who, level, "change")
  <1>2. /\ new \in Permissions!Flow /\ new.kind = kind
        /\ new.asks = "change" /\ new.state = "sent"
    BY DEF Permissions!Sent, Permissions!Flow
  <1>3. flows' = [flows EXCEPT ![s] = new]
    BY <1>1 DEF Permissions!Change
  <1> HIDE DEF new
  <1>4. /\ flows' \in [Slots -> Permissions!Flow \cup {Permissions!NoFlow}] /\ flows'[s] = new
        /\ \A t \in Slots \ {s} : flows'[t] = flows[t]
    BY <1>2, <1>3, OneFlow DEF PermissionsInv, Permissions!TypeOK
  <1> QED
    BY <1>1, <1>2, <1>4 DEF Permissions!Change

LEMMA PermissionsChangeServed ==
    ASSUME PermissionsInv, NEW s \in Slots, Permissions!ServeChange(s)
    PROVE  /\ flows' \in [Slots -> Permissions!Flow \cup {Permissions!NoFlow}]
           /\ \A t \in Slots \ {s} : flows'[t] = flows[t]
           /\ flows[s] \in Permissions!Flow /\ flows'[s] \in Permissions!Flow
           /\ flows'[s].kind = flows[s].kind
           /\ flows[s].asks = "change" /\ flows'[s].asks = "change" /\ flows[s].state = "sent"
           /\ \/ flows'[s].state = "ok" /\ (unsure => unsure')
              \/ unsure'
              \/ flows'[s].state = "bad" /\ UNCHANGED <<granted, unsure>>
           /\ granted' \in Permissions!Grants /\ version' \in 0 .. MaxChanges /\ unsure' \in BOOLEAN
           /\ UNCHANGED <<perms, error, busy, principalId>>
  <1> USE DEF PermissionsInv
  <1>1. flows[s] \in Permissions!Flow /\ flows[s].asks = "change" /\ flows[s].state = "sent"
    BY PermissionsFlow DEF Permissions!ServeChange, Permissions!Asking
  <1>2. ASSUME NEW state \in {"ok", "bad", "thrown"}, flows' = [flows EXCEPT ![s].state = state]
        PROVE  /\ flows' \in [Slots -> Permissions!Flow \cup {Permissions!NoFlow}]
               /\ \A t \in Slots \ {s} : flows'[t] = flows[t]
               /\ flows'[s] \in Permissions!Flow /\ flows'[s].kind = flows[s].kind
               /\ flows'[s].asks = "change" /\ flows'[s].state = state
    <2> DEFINE new == [flows[s] EXCEPT !.state = state]
    <2>1. new \in Permissions!Flow /\ new.kind = flows[s].kind /\ new.asks = "change" /\ new.state = state
      BY <1>1 DEF Permissions!Flow
    <2>2. flows' = [flows EXCEPT ![s] = new]
      BY <1>2 DEF Permissions!TypeOK
    <2> HIDE DEF new
    <2> QED
      BY <2>1, <2>2, OneFlow DEF Permissions!TypeOK
  <1>3. Permissions!After(flows[s]) \in Permissions!Grants
    BY <1>1 DEF Permissions!After, Permissions!Grants, Permissions!TypeOK, Permissions!Flow
  <1>4. CASE UNCHANGED <<granted, version, unsure>> /\ flows' = [flows EXCEPT ![s].state = "bad"]
    BY <1>1, <1>2, <1>4 DEF Permissions!ServeChange, Permissions!view, Permissions!TypeOK
  <1>5. ASSUME granted' = Permissions!After(flows[s]), version < MaxChanges, version' = version + 1,
               NEW ending \in {"ok", "lost"}, unsure' = (unsure \/ ending # "ok"),
               flows' = [flows EXCEPT ![s].state = IF ending = "ok" THEN "ok" ELSE "thrown"]
        PROVE  /\ flows' \in [Slots -> Permissions!Flow \cup {Permissions!NoFlow}]
               /\ \A t \in Slots \ {s} : flows'[t] = flows[t]
               /\ flows'[s] \in Permissions!Flow /\ flows'[s].kind = flows[s].kind
               /\ flows'[s].asks = "change"
               /\ (flows'[s].state = "ok" /\ (unsure => unsure')) \/ unsure'
               /\ granted' \in Permissions!Grants /\ version' \in 0 .. MaxChanges /\ unsure' \in BOOLEAN
    <2>1. version' \in 0 .. MaxChanges
      BY <1>5, ChangesBound DEF Permissions!TypeOK
    <2>2. CASE ending = "ok"
      BY <1>2, <1>3, <1>5, <2>1, <2>2 DEF Permissions!TypeOK
    <2>3. CASE ending = "lost"
      BY <1>2, <1>3, <1>5, <2>1, <2>3 DEF Permissions!TypeOK
    <2> QED
      BY <2>2, <2>3
  <1> QED
    BY <1>1, <1>4, <1>5 DEF Permissions!ServeChange, Permissions!view

LEMMA PermissionsListServed ==
    ASSUME PermissionsInv, NEW s \in Slots, Permissions!ServeList(s)
    PROVE  /\ flows' \in [Slots -> Permissions!Flow \cup {Permissions!NoFlow}]
           /\ \A t \in Slots \ {s} : flows'[t] = flows[t]
           /\ flows[s] \in Permissions!Flow /\ flows'[s] \in Permissions!Flow
           /\ flows'[s].kind = flows[s].kind
           /\ flows[s].asks = "list" /\ flows'[s].asks = "list"
           /\ flows'[s].state = "ok" => flows'[s].list.grants = granted
           /\ UNCHANGED <<granted, version, perms, error, busy, principalId, unsure>>
  <1> USE DEF PermissionsInv
  <1>1. flows[s] \in Permissions!Flow /\ flows[s].asks = "list"
    BY PermissionsFlow DEF Permissions!ServeList, Permissions!Asking
  <1>2. PICK new \in {[flows[s] EXCEPT !.state = "ok", !.list = [version |-> version, grants |-> granted]],
                      [flows[s] EXCEPT !.state = "bad"]} :
            flows' = [flows EXCEPT ![s] = new]
    <2>1. CASE flows' = [flows EXCEPT ![s].state = "ok",
                                      ![s].list = [version |-> version, grants |-> granted]]
      BY <2>1
    <2>2. CASE flows' = [flows EXCEPT ![s].state = "bad"]
      BY <2>2
    <2> QED
      BY <2>1, <2>2 DEF Permissions!ServeList
  <1>3. [version |-> version, grants |-> granted] \in Permissions!List
    BY DEF Permissions!List, Permissions!TypeOK
  <1>4. /\ new \in Permissions!Flow /\ new.kind = flows[s].kind /\ new.asks = "list"
        /\ new.state = "ok" => new.list.grants = granted
    <2>1. CASE new = [flows[s] EXCEPT !.state = "ok", !.list = [version |-> version, grants |-> granted]]
      BY <1>1, <1>3, <2>1 DEF Permissions!Flow
    <2>2. CASE new = [flows[s] EXCEPT !.state = "bad"]
      BY <1>1, <2>2 DEF Permissions!Flow
    <2> QED
      BY <1>2, <2>1, <2>2
  <1>5. /\ flows' \in [Slots -> Permissions!Flow \cup {Permissions!NoFlow}] /\ flows'[s] = new
        /\ \A t \in Slots \ {s} : flows'[t] = flows[t]
    BY <1>2, <1>4, OneFlow DEF Permissions!TypeOK
  <1> QED
    BY <1>1, <1>4, <1>5 DEF Permissions!ServeList, Permissions!view

LEMMA PermissionsChanged ==
    ASSUME PermissionsInv, NEW s \in Slots, Permissions!ChangeDone(s)
    PROVE  /\ flows' \in [Slots -> Permissions!Flow \cup {Permissions!NoFlow}]
           /\ \A t \in Slots \ {s} : flows'[t] = flows[t]
           /\ flows[s] \in Permissions!Flow /\ flows'[s] \in Permissions!Flow
           /\ flows'[s].kind = flows[s].kind
           /\ flows'[s].asks = "list" /\ flows'[s].state = "sent"
           /\ unsure' = (Permissions!Asking("list") # {})
           /\ principalId' \in Principals \cup {None} /\ error' = FALSE
           /\ UNCHANGED <<granted, version, perms, busy>>
  <1> USE DEF PermissionsInv
  <1> DEFINE new == [flows[s] EXCEPT !.asks = "list", !.state = "sent"]
  <1>1. flows[s] \in Permissions!Flow
    BY PermissionsFlow DEF Permissions!ChangeDone, Permissions!Asking
  <1>2. /\ new \in Permissions!Flow /\ new.kind = flows[s].kind
        /\ new.asks = "list" /\ new.state = "sent"
    BY <1>1 DEF Permissions!Flow
  <1>3. flows' = [flows EXCEPT ![s] = new]
    BY DEF Permissions!ChangeDone, Permissions!TypeOK
  <1> HIDE DEF new
  <1>4. /\ flows' \in [Slots -> Permissions!Flow \cup {Permissions!NoFlow}] /\ flows'[s] = new
        /\ \A t \in Slots \ {s} : flows'[t] = flows[t]
    BY <1>2, <1>3, OneFlow DEF Permissions!TypeOK
  <1>5. principalId' \in Principals \cup {None}
    BY DEF Permissions!ChangeDone, Permissions!TypeOK
  <1> QED
    BY <1>1, <1>2, <1>4, <1>5 DEF Permissions!ChangeDone

\* A flow ends with a change that was not made, or with its load.
LEMMA PermissionsEnds ==
    ASSUME PermissionsInv, NEW s \in Slots, Permissions!ChangeFailed(s) \/ Permissions!Loaded(s)
    PROVE  /\ flows' \in [Slots -> Permissions!Flow \cup {Permissions!NoFlow}]
           /\ \A t \in Slots \ {s} : flows'[t] = flows[t]
           /\ flows[s] \in Permissions!Flow /\ flows'[s] = Permissions!NoFlow
           /\ ~(flows[s].asks = "change" /\ flows[s].state = "ok")
           /\ busy' = (busy /\ flows[s].kind = "load") /\ busy' \in BOOLEAN
           /\ perms' \in Permissions!List \cup {Permissions!Null} /\ error' \in BOOLEAN
           /\ error' \/ (flows[s].asks = "list" /\ flows[s].state = "ok" /\ perms' = flows[s].list)
           /\ UNCHANGED <<granted, version, principalId, unsure>>
  <1> USE DEF PermissionsInv
  <1>1. flows[s] \in Permissions!Flow /\ flows' = [flows EXCEPT ![s] = Permissions!NoFlow]
    BY PermissionsFlow DEF Permissions!ChangeFailed, Permissions!Loaded, Permissions!Asking
  <1>2. /\ flows' \in [Slots -> Permissions!Flow \cup {Permissions!NoFlow}]
        /\ flows'[s] = Permissions!NoFlow
        /\ \A t \in Slots \ {s} : flows'[t] = flows[t]
    BY <1>1, OneFlow DEF Permissions!TypeOK
  <1>3. CASE Permissions!ChangeFailed(s)
    <2>1. flows[s].asks = "change" /\ flows[s].kind # "load"
      BY <1>3 DEF Permissions!ChangeFailed, Permissions!Asking
    <2> QED
      BY <1>1, <1>2, <1>3, <2>1 DEF Permissions!ChangeFailed, Permissions!TypeOK
  <1>4. CASE Permissions!Loaded(s)
    <2>1. flows[s].asks = "list" /\ flows[s].list \in Permissions!List \cup {Permissions!Null}
      BY <1>1, <1>4 DEF Permissions!Loaded, Permissions!Asking, Permissions!Flow
    <2>2. Permissions!Empty \in Permissions!List
      BY ChangesBound DEF Permissions!Empty, Permissions!List, Permissions!Grants, Permissions!NoGrants
    <2> QED
      BY <1>1, <1>2, <1>4, <2>1, <2>2 DEF Permissions!Loaded, Permissions!TypeOK
  <1> QED
    BY <1>3, <1>4

LEMMA PermissionsOpens == Permissions!Init => PermissionsInv
  <1> SUFFICES ASSUME Permissions!Init PROVE PermissionsInv
    OBVIOUS
  <1> DEFINE new == Permissions!Sent("load", None, None, "list")
  <1>1. PICK s \in Slots : flows = [t \in Slots |-> IF t = s THEN new ELSE Permissions!NoFlow]
    BY DEF Permissions!Init
  <1>2. new \in Permissions!Flow /\ new.asks = "list"
    BY DEF Permissions!Sent, Permissions!Flow
  <1>3. Permissions!NoFlow.kind = "none"
    BY DEF Permissions!NoFlow
  <1> HIDE DEF new
  <1>4. /\ flows \in [Slots -> Permissions!Flow \cup {Permissions!NoFlow}]
        /\ \A t \in Slots : flows[t].kind = "load" => flows[t].asks = "list"
    BY <1>1, <1>2, <1>3
  <1>5. version \in 0 .. MaxChanges
    BY ChangesBound DEF Permissions!Init
  <1> QED
    BY <1>4, <1>5 DEF Permissions!Init, PermissionsInv, Permissions!TypeOK

LEMMA PermissionsTyped ==
    ASSUME PermissionsInv, Permissions!Next \/ UNCHANGED Permissions!vars
    PROVE  PermissionsInv'
  <1> USE DEF PermissionsInv
  <1>1. CASE Permissions!Type \/ UNCHANGED Permissions!vars
    BY <1>1 DEF Permissions!Type, Permissions!vars, Permissions!view, Permissions!TypeOK
  <1>2. ASSUME NEW s \in Slots, Permissions!Grant(s) \/ Permissions!Revoke(s)
        PROVE  PermissionsInv'
    BY <1>2, PermissionsBegins DEF Permissions!TypeOK
  <1>3. ASSUME NEW s \in Slots, Permissions!ServeChange(s)
        PROVE  PermissionsInv'
    BY <1>3, PermissionsChangeServed DEF Permissions!TypeOK
  <1>4. ASSUME NEW s \in Slots, Permissions!ServeList(s)
        PROVE  PermissionsInv'
    BY <1>4, PermissionsListServed DEF Permissions!TypeOK
  <1>5. ASSUME NEW s \in Slots, Permissions!ChangeDone(s)
        PROVE  PermissionsInv'
    BY <1>5, PermissionsChanged DEF Permissions!TypeOK
  <1>6. ASSUME NEW s \in Slots, Permissions!ChangeFailed(s) \/ Permissions!Loaded(s)
        PROVE  PermissionsInv'
    BY <1>6, PermissionsEnds DEF Permissions!TypeOK, Permissions!NoFlow
  <1> QED
    BY <1>1, <1>2, <1>3, <1>4, <1>5, <1>6 DEF Permissions!Next

\* busy is the one change that is under way.
PermissionsBusy ==
    /\ busy <=> \E s \in Slots : flows[s].kind \in {"grant", "revoke"}
    /\ \A s, t \in Slots : flows[s].kind \in {"grant", "revoke"} /\ flows[t].kind \in {"grant", "revoke"} => s = t

LEMMA PermissionsBusyMeans ==
    ASSUME PermissionsInv, PermissionsBusy
    PROVE  Permissions!BusyIsOneChange
  <1> DEFINE mine == {s \in Permissions!Active : flows[s].kind # "load"}
  <1>1. mine = {s \in Slots : flows[s].kind \in {"grant", "revoke"}}
    BY PermissionsFlow DEF PermissionsInv, Permissions!Active, Permissions!Flow
  <1>2. busy <=> mine # {}
    BY <1>1 DEF PermissionsBusy
  <1>3. Cardinality(mine) <= 1
    BY <1>1, AtMostOne DEF PermissionsBusy
  <1> QED
    BY <1>2, <1>3, Counting DEF Permissions!BusyIsOneChange

LEMMA PermissionsBusyKept ==
    ASSUME PermissionsInv, PermissionsBusy, Permissions!Next \/ UNCHANGED Permissions!vars
    PROVE  PermissionsBusy'
  <1>1. CASE Permissions!Type \/ UNCHANGED Permissions!vars
    BY <1>1 DEF Permissions!Type, Permissions!vars, Permissions!view, PermissionsBusy
  <1>2. ASSUME NEW s \in Slots, Permissions!Grant(s) \/ Permissions!Revoke(s)
        PROVE  PermissionsBusy'
    BY <1>2, PermissionsBegins DEF PermissionsBusy
  <1>3. ASSUME NEW s \in Slots,
               Permissions!ServeChange(s) \/ Permissions!ServeList(s) \/ Permissions!ChangeDone(s)
        PROVE  PermissionsBusy'
    <2>1. (\A t \in Slots : flows'[t].kind = flows[t].kind) /\ busy' = busy
      BY <1>3, PermissionsChangeServed, PermissionsListServed, PermissionsChanged
    <2> QED
      BY <2>1 DEF PermissionsBusy
  <1>4. ASSUME NEW s \in Slots, Permissions!ChangeFailed(s) \/ Permissions!Loaded(s)
        PROVE  PermissionsBusy'
    <2>1. /\ \A t \in Slots \ {s} : flows'[t] = flows[t]
          /\ flows'[s].kind = "none" /\ flows[s].kind \in {"load", "grant", "revoke"}
          /\ busy' = (busy /\ flows[s].kind = "load")
      BY <1>4, PermissionsEnds DEF Permissions!NoFlow, Permissions!Flow
    <2> QED
      BY <2>1 DEF PermissionsBusy
  <1> QED
    BY <1>1, <1>2, <1>3, <1>4 DEF Permissions!Next

\* Unless the editor cannot be sure, and when no change waits for its load, what
\* a load has read, or else the list at rest, is what the API has.
PermissionsWaits(s) == s \in Permissions!Asking("change") /\ flows[s].state = "ok"

PermissionsCurrent ==
    ~unsure =>
        /\ (\A s \in Slots : ~PermissionsWaits(s)) =>
               \A s \in Permissions!Asking("list") :
                   flows[s].state = "ok" => flows[s].list.grants = granted
        /\ Permissions!Active = {} => error \/ perms.grants = granted

LEMMA PermissionsCurrentKept ==
    ASSUME PermissionsInv, PermissionsCurrent, Permissions!Next \/ UNCHANGED Permissions!vars
    PROVE  PermissionsCurrent'
  <1> USE DEF PermissionsCurrent, PermissionsWaits, Permissions!Asking, Permissions!Active
  <1>1. CASE Permissions!Type \/ UNCHANGED Permissions!vars
    BY <1>1 DEF Permissions!Type, Permissions!vars, Permissions!view
  <1>2. ASSUME NEW s \in Slots, Permissions!Grant(s) \/ Permissions!Revoke(s)
        PROVE  PermissionsCurrent'
    <2>1. /\ \A t \in Slots \ {s} : flows'[t] = flows[t]
          /\ flows[s] = Permissions!NoFlow /\ flows'[s] # Permissions!NoFlow
          /\ flows'[s].asks = "change" /\ flows'[s].state = "sent"
          /\ UNCHANGED <<granted, unsure>>
      BY <1>2, PermissionsBegins, PermissionsFree
    <2>2. \A t \in Slots : PermissionsWaits(t)' <=> PermissionsWaits(t)
      BY <2>1
    <2>3. Permissions!Asking("list")' = Permissions!Asking("list") /\ Permissions!Active' # {}
      BY <2>1
    <2>4. \A t \in Permissions!Asking("list") : flows'[t] = flows[t]
      BY <2>1
    <2> QED
      BY <2>1, <2>2, <2>3, <2>4
  <1>3. ASSUME NEW s \in Slots, Permissions!ServeChange(s)
        PROVE  PermissionsCurrent'
    <2>1. /\ s \in Permissions!Active' /\ flows[s] # Permissions!NoFlow
          /\ ~PermissionsWaits(s) /\ perms' = perms /\ error' = error
          /\ \A t \in Slots \ {s} : flows'[t] = flows[t]
          /\ flows[s].asks = "change" /\ flows'[s].asks = "change"
      BY <1>3, PermissionsChangeServed, PermissionsFree
    <2>2. CASE unsure'
      BY <2>2
    <2>3. CASE flows'[s].state = "ok" /\ (unsure => unsure')
      BY <2>1, <2>3
    <2>4. CASE flows'[s].state = "bad" /\ UNCHANGED <<granted, unsure>>
      BY <2>1, <2>4
    <2> QED
      BY <1>3, <2>2, <2>3, <2>4, PermissionsChangeServed
  <1>4. ASSUME NEW s \in Slots, Permissions!ServeList(s)
        PROVE  PermissionsCurrent'
    BY <1>4, PermissionsListServed, PermissionsFree
  <1>5. ASSUME NEW s \in Slots, Permissions!ChangeDone(s)
        PROVE  PermissionsCurrent'
    <2>1. /\ \A t \in Slots \ {s} : flows'[t] = flows[t]
          /\ flows'[s] # Permissions!NoFlow
          /\ flows'[s].asks = "list" /\ flows'[s].state = "sent"
          /\ unsure' = (Permissions!Asking("list") # {})
      BY <1>5, PermissionsChanged, PermissionsFree
    <2>2. Permissions!Asking("list")' \subseteq Permissions!Asking("list") \cup {s} /\ Permissions!Active' # {}
      BY <2>1
    <2> QED
      BY <2>1, <2>2
  <1>6. ASSUME NEW s \in Slots, Permissions!ChangeFailed(s) \/ Permissions!Loaded(s)
        PROVE  PermissionsCurrent'
    <2>1. /\ \A t \in Slots \ {s} : flows'[t] = flows[t]
          /\ flows[s] # Permissions!NoFlow /\ flows'[s] = Permissions!NoFlow
          /\ ~PermissionsWaits(s) /\ UNCHANGED <<granted, unsure>>
          /\ error' \/ (flows[s].asks = "list" /\ flows[s].state = "ok" /\ perms' = flows[s].list)
      BY <1>6, PermissionsEnds, PermissionsFree
    <2>2. \A t \in Slots : PermissionsWaits(t)' <=> PermissionsWaits(t)
      BY <2>1
    <2>3. Permissions!Asking("list")' = Permissions!Asking("list") \ {s}
      BY <2>1
    <2>4. \A t \in Permissions!Asking("list")' : flows'[t] = flows[t]
      BY <2>1
    <2>5. ASSUME ~unsure', Permissions!Active' = {}, ~error'
          PROVE  perms'.grants = granted'
      <3>1. Permissions!Active = {s}
        BY <2>1, <2>5
      <3>2. s \in Permissions!Asking("list") /\ \A t \in Slots : ~PermissionsWaits(t)
        BY <2>1, <2>5, <3>1
      <3> QED
        BY <2>1, <2>5, <3>2
    <2> QED
      BY <2>1, <2>2, <2>3, <2>4, <2>5
  <1> QED
    BY <1>1, <1>2, <1>3, <1>4, <1>5, <1>6 DEF Permissions!Next

LEMMA PermissionsHolds ==
    Spec => [](Is("permissions") => PermissionsInv /\ PermissionsBusy /\ PermissionsCurrent)
  <1> DEFINE Inv == Is("permissions") => PermissionsInv /\ PermissionsBusy /\ PermissionsCurrent
  <1>1. Init => Inv
    <2> SUFFICES ASSUME Permissions!Init
                 PROVE  PermissionsInv /\ PermissionsBusy /\ PermissionsCurrent
      BY DEF Init
    <2>1. PermissionsInv
      BY PermissionsOpens
    <2>2. PICK s \in Slots :
              flows = [t \in Slots |-> IF t = s THEN Permissions!Sent("load", None, None, "list")
                                       ELSE Permissions!NoFlow]
      BY DEF Permissions!Init
    <2>3. /\ \A t \in Slots : flows[t].kind = IF t = s THEN "load" ELSE "none"
          /\ \A t \in Slots \ {s} : flows[t] = Permissions!NoFlow
          /\ flows[s] # Permissions!NoFlow /\ flows[s].asks = "list" /\ flows[s].state = "sent"
      BY <2>2 DEF Permissions!Sent, Permissions!NoFlow
    <2>4. PermissionsBusy
      BY <2>3 DEF PermissionsBusy, Permissions!Init
    <2>5. PermissionsCurrent
      BY <2>3 DEF PermissionsCurrent, Permissions!Asking, Permissions!Active
    <2> QED
      BY <2>1, <2>4, <2>5
  <1>2. Inv /\ [Next]_vars => Inv'
    BY PermissionsTurn, PermissionsTyped, PermissionsBusyKept, PermissionsCurrentKept
  <1> QED
    BY <1>1, <1>2, PTL DEF Spec

\* The grants listed by an editor at rest are those of the API, unless loads have
\* overlapped or an answer was lost (PermissionsEditor: load, grant, revoke).
THEOREM GrantsAreShown == Spec => []GrantsShown
  <1>1. (Is("permissions") => PermissionsInv /\ PermissionsBusy /\ PermissionsCurrent) => GrantsShown
    BY DEF GrantsShown, Permissions!GrantsShown, PermissionsCurrent, PermissionsWaits, Permissions!Asking
  <1> QED
    BY <1>1, PermissionsHolds, PTL

-----------------------------------------------------------------------------
(* ClusterDrawer.                                                          *)

\* A live request is of the tab and the cluster on the screen; the logs on the
\* screen have one live request or a timer, and never both.
DrawerLive(s) == flights[s] # Drawer!NoFlight /\ flights[s].live

DrawerInv ==
    /\ Drawer!TypeOK /\ Drawer!ShownIsOfOpen
    /\ \A s \in Slots : DrawerLive(s) => flights[s].of = open /\ flights[s].tab = tab
    /\ \A s, t \in Drawer!Live("logs") : s = t
    /\ timer # None => timer = open /\ tab = "logs" /\ Drawer!Live("logs") = {}
    /\ open # None /\ tab = "logs" => timer # None \/ Drawer!Live("logs") # {}

LEMMA DrawerApart ==
    /\ None \notin Ids
    /\ Drawer!NoFlight \notin [tab : Drawer!Loading, of : Ids, live : BOOLEAN]
  <1>1. None \notin Ids
    BY ConsoleAssumption
  <1>2. Drawer!NoFlight \notin [tab : Drawer!Loading, of : Ids, live : BOOLEAN]
    BY DEF Drawer!NoFlight, Drawer!Loading
  <1> QED
    BY <1>1, <1>2

LEMMA DrawerOpens == Drawer!Init => DrawerInv
  BY DrawerApart DEF Drawer!Init, DrawerInv, Drawer!TypeOK, Drawer!ShownIsOfOpen, Drawer!Blank,
     Drawer!Tabs, Drawer!Loading, DrawerLive, Drawer!Live

\* A tab is mounted, or the drawer is closed: only the new request is live.
LEMMA DrawerMounts ==
    ASSUME DrawerInv, NEW c \in Ids \cup {None}, NEW t \in Drawer!Tabs, NEW s \in Slots,
           Drawer!Mount(c, t, s), c = None => t = "overview"
    PROVE  DrawerInv'
  <1> DEFINE Record == [tab : Drawer!Loading, of : Ids, live : BOOLEAN]
             sends == c # None /\ t \in Drawer!Loading
             new == [tab |-> t, of |-> c, live |-> TRUE]
  <1>1. \A r \in Slots : flights[r] \in Record \cup {Drawer!NoFlight}
    BY DEF DrawerInv, Drawer!TypeOK
  <1>2. sends => new \in Record
    OBVIOUS
  <1>3. \A r \in Slots : flights[r] # Drawer!NoFlight =>
            [flights[r] EXCEPT !.live = FALSE] \in Record /\ ~[flights[r] EXCEPT !.live = FALSE].live
    BY <1>1
  <1>4. flights' \in [Slots -> Record \cup {Drawer!NoFlight}]
    BY <1>1, <1>2, <1>3 DEF Drawer!Mount
  <1>5. \A r \in Slots : IF r = s /\ sends THEN flights'[r] = new ELSE ~DrawerLive(r)'
    BY <1>3 DEF Drawer!Mount, DrawerLive
  <1>6. open' = c /\ tab' = t /\ timer' = None /\ shown' = [of |-> c, state |-> "loading"]
    BY DEF Drawer!Mount, Drawer!Blank
  <1>7. Drawer!TypeOK' /\ Drawer!ShownIsOfOpen'
    BY <1>4, <1>6 DEF Drawer!TypeOK, Drawer!ShownIsOfOpen
  <1>8. Drawer!Live("logs")' = IF sends /\ t = "logs" THEN {s} ELSE {}
    <2>1. Drawer!Live("logs")' = {r \in Slots : DrawerLive(r)' /\ flights'[r].tab = "logs"}
      BY DEF Drawer!Live, DrawerLive
    <2>2. new.tab = t /\ new.live /\ (sends => new # Drawer!NoFlight)
      BY <1>2, DrawerApart
    <2>3. sends => DrawerLive(s)' /\ flights'[s].tab = t
      BY <1>5, <2>2 DEF DrawerLive
    <2>4. \A r \in Slots : r # s \/ ~sends => ~DrawerLive(r)'
      BY <1>5
    <2> HIDE DEF sends
    <2> QED
      BY <2>1, <2>3, <2>4
  <1>9. \A r \in Slots : DrawerLive(r)' => flights'[r].of = c /\ flights'[r].tab = t
    BY <1>5
  <1>10. "logs" \in Drawer!Loading
    BY DEF Drawer!Loading
  <1> QED
    BY <1>6, <1>7, <1>8, <1>9, <1>10 DEF DrawerInv

\* An answer of a request that was cleaned up changes nothing that is shown.
LEMMA DrawerAnswers ==
    ASSUME DrawerInv, NEW s \in Slots, Drawer!Answer(s) \/ Drawer!AnswerLogs(s)
    PROVE  DrawerInv'
  <1> DEFINE Record == [tab : Drawer!Loading, of : Ids, live : BOOLEAN]
  <1>1. flights[s] \in Record /\ flights[s] # Drawer!NoFlight
    BY DEF DrawerInv, Drawer!TypeOK, Drawer!Answer, Drawer!AnswerLogs
  <1>2. flights' = [flights EXCEPT ![s] = Drawer!NoFlight]
    BY DEF Drawer!Answer, Drawer!AnswerLogs
  <1>3. /\ flights' \in [Slots -> Record \cup {Drawer!NoFlight}] /\ flights'[s] = Drawer!NoFlight
        /\ \A t \in Slots \ {s} : flights'[t] = flights[t]
    BY <1>2, OneFlow DEF DrawerInv, Drawer!TypeOK
  <1>4. Drawer!Live("logs")' = Drawer!Live("logs") \ {s}
    BY <1>3 DEF Drawer!Live
  <1>5. \A t \in Slots : DrawerLive(t)' => DrawerLive(t) /\ flights'[t] = flights[t]
    BY <1>3 DEF DrawerLive
  <1>6. s \in Drawer!Live("logs") <=> flights[s].tab = "logs" /\ flights[s].live
    BY <1>1 DEF Drawer!Live
  <1>7. flights[s].live => flights[s].of = open /\ flights[s].tab = tab
    BY <1>1 DEF DrawerInv, DrawerLive
  <1>8. Drawer!TypeOK' /\ Drawer!ShownIsOfOpen'
    <2>1. UNCHANGED <<open, tab>> /\ timer' \in Ids \cup {None}
      BY <1>1 DEF Drawer!Answer, Drawer!AnswerLogs, DrawerInv, Drawer!TypeOK
    <2>2. CASE flights[s].live
      <3>1. PICK x \in {"ready", "error"} : shown' = [of |-> flights[s].of, state |-> x]
        BY <2>2 DEF Drawer!Answer, Drawer!AnswerLogs, Drawer!Show
      <3>2. open # None /\ tab \in Drawer!Loading
        BY <1>1, <1>7, <2>2, DrawerApart
      <3> QED
        BY <1>1, <1>3, <1>7, <2>1, <2>2, <3>1, <3>2 DEF DrawerInv, Drawer!TypeOK, Drawer!ShownIsOfOpen
    <2>3. CASE ~flights[s].live
      <3>1. shown' = shown
        BY <2>3 DEF Drawer!Answer, Drawer!AnswerLogs, Drawer!Show
      <3> QED
        BY <1>3, <2>1, <3>1 DEF DrawerInv, Drawer!TypeOK, Drawer!ShownIsOfOpen
    <2> QED
      BY <2>2, <2>3
  <1>9. CASE flights[s].tab = "logs" /\ flights[s].live
    <2>1. UNCHANGED <<open, tab>> /\ timer' = open /\ tab = "logs"
      BY <1>7, <1>9 DEF Drawer!Answer, Drawer!AnswerLogs
    <2>2. Drawer!Live("logs")' = {}
      BY <1>4, <1>6, <1>9 DEF DrawerInv
    <2> QED
      BY <1>1, <1>5, <1>7, <1>8, <1>9, <2>1, <2>2, DrawerApart DEF DrawerInv
  <1>10. CASE ~(flights[s].tab = "logs" /\ flights[s].live)
    <2>1. UNCHANGED <<open, tab, timer>> /\ Drawer!Live("logs")' = Drawer!Live("logs")
      BY <1>4, <1>6, <1>10 DEF Drawer!Answer, Drawer!AnswerLogs
    <2> QED
      BY <1>5, <1>8, <2>1 DEF DrawerInv
  <1> QED
    BY <1>9, <1>10

LEMMA DrawerTicks ==
    ASSUME DrawerInv, NEW s \in Slots, Drawer!Tick(s)
    PROVE  DrawerInv'
  <1> DEFINE Record == [tab : Drawer!Loading, of : Ids, live : BOOLEAN]
             new == [tab |-> "logs", of |-> timer, live |-> TRUE]
  <1>1. timer \in Ids /\ timer = open /\ tab = "logs" /\ Drawer!Live("logs") = {}
    BY DEF DrawerInv, Drawer!TypeOK, Drawer!Tick
  <1>2. new \in Record /\ flights' = [flights EXCEPT ![s] = new] /\ timer' = None
    BY <1>1 DEF Drawer!Tick, Drawer!Loading
  <1>3. /\ flights' \in [Slots -> Record \cup {Drawer!NoFlight}] /\ flights'[s] = new
        /\ \A t \in Slots \ {s} : flights'[t] = flights[t]
    BY <1>2, OneFlow DEF DrawerInv, Drawer!TypeOK
  <1>4. new.tab = "logs" /\ new.of = timer /\ new.live /\ new # Drawer!NoFlight
    BY <1>2, DrawerApart
  <1> HIDE DEF new
  <1>5. Drawer!Live("logs")' = {s}
    BY <1>1, <1>3, <1>4 DEF Drawer!Live
  <1>6. \A t \in Slots : DrawerLive(t)' => flights'[t].of = open /\ flights'[t].tab = tab
    BY <1>1, <1>3, <1>4 DEF DrawerLive, DrawerInv
  <1>7. UNCHANGED <<open, tab, shown>>
    BY DEF Drawer!Tick
  <1> QED
    BY <1>1, <1>2, <1>3, <1>5, <1>6, <1>7 DEF DrawerInv, Drawer!TypeOK, Drawer!ShownIsOfOpen

LEMMA DrawerKept ==
    ASSUME DrawerInv, Drawer!Next \/ UNCHANGED Drawer!vars
    PROVE  DrawerInv'
  <1>1. CASE UNCHANGED Drawer!vars
    BY <1>1 DEF Drawer!vars, DrawerInv, Drawer!TypeOK, Drawer!ShownIsOfOpen, DrawerLive, Drawer!Live
  <1>2. "overview" \in Drawer!Tabs /\ open \in Ids \cup {None}
    BY DEF Drawer!Tabs, DrawerInv, Drawer!TypeOK
  <1>3. CASE Drawer!Close
    BY <1>2, <1>3, DrawerMounts DEF Drawer!Close
  <1>4. ASSUME NEW c \in Ids, Drawer!Open(c)
        PROVE  DrawerInv'
    BY <1>2, <1>4, DrawerMounts, DrawerApart DEF Drawer!Open, Drawer!Free
  <1>5. ASSUME NEW t \in Drawer!Tabs, Drawer!Choose(t)
        PROVE  DrawerInv'
    BY <1>2, <1>5, DrawerMounts DEF Drawer!Choose, Drawer!Free
  <1> QED
    BY <1>1, <1>3, <1>4, <1>5, DrawerAnswers, DrawerTicks DEF Drawer!Next

LEMMA DrawerHolds == Spec => [](Is("drawer") => DrawerInv)
  <1>1. Init => (Is("drawer") => DrawerInv)
    BY DrawerOpens DEF Init
  <1>2. (Is("drawer") => DrawerInv) /\ [Next]_vars => (Is("drawer") => DrawerInv)'
    BY DrawerTurn, DrawerKept
  <1> QED
    BY <1>1, <1>2, PTL DEF Spec

LEMMA DrawerLogsCount ==
    ASSUME DrawerInv
    PROVE  Drawer!LogsKeepComing
  <1>1. CASE Drawer!Live("logs") = {}
    <2>1. Cardinality(Drawer!Live("logs")) = 0
      BY <1>1, FS_EmptySet
    <2>2. timer # None <=> open # None /\ tab = "logs"
      BY <1>1, DrawerApart DEF DrawerInv, Drawer!TypeOK
    <2> QED
      BY <2>1, <2>2, Counting DEF Drawer!LogsKeepComing
  <1>2. CASE Drawer!Live("logs") # {}
    <2>1. PICK s \in Drawer!Live("logs") : Drawer!Live("logs") = {s}
      BY <1>2 DEF DrawerInv
    <2>2. Cardinality({s}) = 1
      BY FS_Singleton
    <2>3. flights[s].tab = "logs" /\ DrawerLive(s) /\ flights[s] # Drawer!NoFlight /\ s \in Slots
      BY <2>1 DEF Drawer!Live, DrawerLive
    <2>4. flights[s].of \in Ids
      BY <2>3 DEF DrawerInv, Drawer!TypeOK
    <2>5. timer = None /\ open # None /\ tab = "logs"
      BY <1>2, <2>3, <2>4, DrawerApart DEF DrawerInv
    <2> QED
      BY <2>1, <2>2, <2>5, Counting DEF Drawer!LogsKeepComing
  <1> QED
    BY <1>1, <1>2

\* The logs on the screen have exactly one request or timer, through all errors,
\* answers that come late and changes of tab or cluster; hidden logs have none.
THEOREM LogsKeepBeingAsked == Spec => []DrawerLogsKeepComing
  <1>1. (Is("drawer") => DrawerInv) => DrawerLogsKeepComing
    BY DrawerLogsCount DEF DrawerLogsKeepComing
  <1> QED
    BY <1>1, DrawerHolds, PTL

\* What a tab shows is of the cluster the drawer is open on, however late the
\* answers for other clusters and tabs come.
THEOREM DrawerShowsItsCluster == Spec => []DrawerShownIsOfOpen
  <1>1. (Is("drawer") => DrawerInv) => DrawerShownIsOfOpen
    BY DEF DrawerShownIsOfOpen, DrawerInv
  <1> QED
    BY <1>1, DrawerHolds, PTL

-----------------------------------------------------------------------------
(* NotebooksView.                                                          *)

\* The lists a load may bring, and the flows.  A create has a row once it was
\* made, and a trash always.
NotebooksLists == UNION {[D -> Notebooks!Row] : D \in SUBSET Ids}

NotebooksFlows ==
    [kind : {"load", "create", "trash"}, row : Ids \cup {None}, asks : {"change", "list"},
     draft : Notebooks!Drafts \cup {Notebooks!Closed}, state : {"sent", "ok", "bad", "thrown"},
     list : NotebooksLists \cup {None}]

NotebooksFlowOK(q) ==
    /\ q \in NotebooksFlows
    /\ q.kind = "load" => q.asks = "list"
    /\ q.kind = "trash" => q.row \in Ids
    /\ q.kind = "create" => /\ q.draft \in Notebooks!Drafts /\ q.draft.name \in Names
                            /\ q.asks = "list" \/ q.state = "ok" => q.row \in Ids
    /\ q.asks = "list" /\ q.state = "ok" => q.list \in NotebooksLists

NotebooksInv ==
    /\ Notebooks!TypeOK
    /\ flows \in [Slots -> NotebooksFlows \cup {Notebooks!NoFlow}]
    /\ \A s \in Notebooks!Active : NotebooksFlowOK(flows[s])

LEMMA NotebooksFree ==
    /\ Notebooks!NoFlow \notin NotebooksFlows /\ Notebooks!NoFlow.kind = "none"
    /\ \A q \in NotebooksFlows : q.kind \in {"load", "create", "trash"} /\ q.asks \in {"change", "list"}
    /\ None \notin Ids /\ None \notin Names /\ <<>> \in Folders
  <1>1. None \notin Ids /\ None \notin Names /\ <<>> \in Folders
    BY ConsoleAssumption
  <1> QED
    BY <1>1 DEF Notebooks!NoFlow, NotebooksFlows

LEMMA NotebooksFlow ==
    ASSUME NotebooksInv, NEW s \in Notebooks!Active
    PROVE  s \in Slots /\ flows[s] # Notebooks!NoFlow /\ NotebooksFlowOK(flows[s])
  BY DEF NotebooksInv, Notebooks!Active

\* The update of one flow to one that is well formed, or to none.
LEMMA NotebooksUpdate ==
    ASSUME NotebooksInv, NEW s \in Slots, NEW new, flows' = [flows EXCEPT ![s] = new],
           new = Notebooks!NoFlow \/ NotebooksFlowOK(new)
    PROVE  /\ flows' \in [Slots -> NotebooksFlows \cup {Notebooks!NoFlow}]
           /\ \A t \in Notebooks!Active' : NotebooksFlowOK(flows'[t])
           /\ flows'[s] = new /\ \A t \in Slots \ {s} : flows'[t] = flows[t]
  <1>1. /\ flows' \in [Slots -> NotebooksFlows \cup {Notebooks!NoFlow}]
        /\ flows'[s] = new /\ \A t \in Slots \ {s} : flows'[t] = flows[t]
    BY OneFlow DEF NotebooksInv, NotebooksFlowOK
  <1>2. ASSUME NEW t \in Slots, flows'[t] # Notebooks!NoFlow
        PROVE  NotebooksFlowOK(flows'[t])
    <2>1. CASE t = s
      BY <1>1, <1>2, <2>1
    <2>2. CASE t # s
      BY <1>1, <1>2, <2>2 DEF NotebooksInv, Notebooks!Active
    <2> QED
      BY <2>1, <2>2
  <1> QED
    BY <1>1, <1>2 DEF Notebooks!Active

LEMMA NotebooksBegins ==
    ASSUME NotebooksInv, NEW s \in Slots, Notebooks!Create(s) \/ Notebooks!Trash(s)
    PROVE  /\ flows' \in [Slots -> NotebooksFlows \cup {Notebooks!NoFlow}]
           /\ \A t \in Notebooks!Active' : NotebooksFlowOK(flows'[t])
           /\ \A t \in Slots \ {s} : flows'[t] = flows[t]
           /\ flows[s] = Notebooks!NoFlow /\ flows'[s] # Notebooks!NoFlow
           /\ flows'[s].asks = "change" /\ flows'[s].state = "sent"
           /\ \/ flows'[s].kind = "create" /\ ~creating /\ creating' = TRUE
              \/ flows'[s].kind = "trash" /\ creating' = creating
           /\ UNCHANGED <<rows, notebooks, error, dialog, selectedId, unsure>>
  <1>1. CASE Notebooks!Create(s)
    <2> DEFINE new == Notebooks!Sent("create", None, "change", dialog)
    <2>1. dialog \in Notebooks!Drafts /\ dialog.name \in Names
      <3>1. dialog \in Notebooks!Drafts \cup {Notebooks!Closed} /\ dialog.open /\ dialog.name # None
        BY <1>1 DEF Notebooks!Create, NotebooksInv, Notebooks!TypeOK
      <3>2. dialog # Notebooks!Closed
        BY <3>1 DEF Notebooks!Closed
      <3> QED
        BY <3>1, <3>2 DEF Notebooks!Drafts
    <2>2. NotebooksFlowOK(new) /\ new.kind = "create" /\ new.asks = "change" /\ new.state = "sent"
      BY <2>1 DEF Notebooks!Sent, NotebooksFlows, NotebooksFlowOK
    <2>3. flows' = [flows EXCEPT ![s] = new] /\ flows[s] = Notebooks!NoFlow
      BY <1>1 DEF Notebooks!Create
    <2> HIDE DEF new
    <2>4. flows'[s] = new /\ new # Notebooks!NoFlow
      BY <2>2, <2>3, NotebooksUpdate, NotebooksFree
    <2> QED
      BY <1>1, <2>2, <2>3, <2>4, NotebooksUpdate DEF Notebooks!Create
  <1>2. CASE Notebooks!Trash(s)
    <2> DEFINE new == Notebooks!Sent("trash", selectedId, "change", Notebooks!Closed)
    <2>1. selectedId \in Ids
      BY <1>2 DEF Notebooks!Trash, NotebooksInv, Notebooks!TypeOK
    <2>2. NotebooksFlowOK(new) /\ new.kind = "trash" /\ new.asks = "change" /\ new.state = "sent"
      BY <2>1 DEF Notebooks!Sent, NotebooksFlows, NotebooksFlowOK
    <2>3. flows' = [flows EXCEPT ![s] = new] /\ flows[s] = Notebooks!NoFlow
      BY <1>2 DEF Notebooks!Trash
    <2> HIDE DEF new
    <2>4. flows'[s] = new /\ new # Notebooks!NoFlow
      BY <2>2, <2>3, NotebooksUpdate, NotebooksFree
    <2> QED
      BY <1>2, <2>2, <2>3, <2>4, NotebooksUpdate DEF Notebooks!Trash, Notebooks!page
  <1> QED
    BY <1>1, <1>2

\* What a change makes of the table is a table.
LEMMA NotebooksMade ==
    ASSUME NotebooksInv, NEW q, NotebooksFlowOK(q), q.kind # "load", NEW made \in Notebooks!Made(q)
    PROVE  made[1] \in Ids /\ made[2] \in [Ids -> Notebooks!Row \cup {Notebooks!Unused}]
  <1>1. rows \in [Ids -> Notebooks!Row \cup {Notebooks!Unused}]
    BY DEF NotebooksInv, Notebooks!TypeOK
  <1>2. CASE q.kind = "create"
    <2> DEFINE row == [path |-> Notebooks!StoredPath(q.draft), name |-> q.draft.name, trashed |-> FALSE]
    <2>1. PICK i \in Ids : made = <<i, [rows EXCEPT ![i] = row]>>
      BY <1>2 DEF Notebooks!Made
    <2>2. q.draft.path \in Folders /\ q.draft.name \in Names
      BY <1>2 DEF NotebooksFlowOK, Notebooks!Drafts
    <2>3. Notebooks!StoredPath(q.draft) \in Notebooks!Paths
      BY <2>2 DEF Notebooks!StoredPath, Notebooks!Paths
    <2>4. row \in Notebooks!Row
      BY <2>2, <2>3 DEF Notebooks!Row
    <2> HIDE DEF row
    <2> QED
      BY <1>1, <2>1, <2>4
  <1>3. CASE q.kind # "create"
    <2>1. made = <<q.row, [rows EXCEPT ![q.row].trashed = TRUE]>> /\ q.row \in Ids
      BY <1>3 DEF Notebooks!Made, NotebooksFlowOK, NotebooksFlows
    <2>2. [rows[q.row] EXCEPT !.trashed = TRUE] \in Notebooks!Row \cup {Notebooks!Unused}
      <3>1. CASE rows[q.row] \in Notebooks!Row
        BY <3>1 DEF Notebooks!Row
      <3>2. CASE rows[q.row] = Notebooks!Unused
        BY <3>2 DEF Notebooks!Unused
      <3> QED
        BY <1>1, <2>1, <3>1, <3>2
    <2> QED
      BY <1>1, <2>1, <2>2
  <1> QED
    BY <1>2, <1>3

LEMMA NotebooksChangeServed ==
    ASSUME NotebooksInv, NEW s \in Slots, Notebooks!ServeChange(s)
    PROVE  /\ flows' \in [Slots -> NotebooksFlows \cup {Notebooks!NoFlow}]
           /\ \A t \in Notebooks!Active' : NotebooksFlowOK(flows'[t])
           /\ \A t \in Slots \ {s} : flows'[t] = flows[t]
           /\ flows[s] # Notebooks!NoFlow /\ flows'[s] # Notebooks!NoFlow
           /\ flows'[s].kind = flows[s].kind
           /\ flows[s].asks = "change" /\ flows'[s].asks = "change" /\ flows[s].state = "sent"
           /\ \/ flows'[s].state = "ok" /\ (unsure => unsure')
              \/ unsure'
              \/ flows'[s].state \in {"bad", "thrown"} /\ UNCHANGED <<rows, unsure>>
           /\ rows' \in [Ids -> Notebooks!Row \cup {Notebooks!Unused}] /\ unsure' \in BOOLEAN
           /\ UNCHANGED <<notebooks, error, dialog, creating, selectedId>>
  <1> DEFINE q == flows[s]
  <1>1. NotebooksFlowOK(q) /\ q # Notebooks!NoFlow /\ q.asks = "change" /\ q.state = "sent" /\ q.kind # "load"
    BY NotebooksFlow DEF Notebooks!ServeChange, Notebooks!Asking, NotebooksFlowOK
  <1>2. q \in NotebooksFlows /\ flows \in [Slots -> NotebooksFlows \cup {Notebooks!NoFlow}]
    BY <1>1 DEF NotebooksFlowOK, NotebooksInv
  <1>3. UNCHANGED <<notebooks, error, dialog, creating, selectedId>>
    BY DEF Notebooks!ServeChange, Notebooks!page
  <1>4. ASSUME NEW made \in Notebooks!Made(q), NEW ending \in {"ok", "lost"}, rows' = made[2],
               flows' = [flows EXCEPT ![s].row = made[1],
                             ![s].state = IF ending = "ok" THEN "ok" ELSE "thrown"],
               unsure' = (unsure \/ ending # "ok")
        PROVE  /\ flows' \in [Slots -> NotebooksFlows \cup {Notebooks!NoFlow}]
               /\ \A t \in Notebooks!Active' : NotebooksFlowOK(flows'[t])
               /\ \A t \in Slots \ {s} : flows'[t] = flows[t]
               /\ flows'[s] # Notebooks!NoFlow
               /\ flows'[s].kind = q.kind /\ flows'[s].asks = "change"
               /\ (flows'[s].state = "ok" /\ (unsure => unsure')) \/ unsure'
               /\ rows' \in [Ids -> Notebooks!Row \cup {Notebooks!Unused}] /\ unsure' \in BOOLEAN
    <2> DEFINE state == IF ending = "ok" THEN "ok" ELSE "thrown"
               new == [q EXCEPT !.row = made[1], !.state = state]
    <2>1. made[1] \in Ids /\ made[2] \in [Ids -> Notebooks!Row \cup {Notebooks!Unused}]
      BY <1>1, NotebooksMade
    <2>2. flows' = [flows EXCEPT ![s] = new]
      BY <1>2, <1>4
    <2>3. /\ new \in NotebooksFlows /\ new.kind = q.kind /\ new.asks = "change" /\ new.row = made[1]
          /\ new.draft = q.draft /\ new.state = state
      BY <1>1, <1>2, <2>1 DEF NotebooksFlows
    <2> HIDE DEF new
    <2>4. NotebooksFlowOK(new)
      BY <1>1, <2>1, <2>3 DEF NotebooksFlowOK
    <2>5. new # Notebooks!NoFlow
      BY <2>3, NotebooksFree
    <2>6. (state = "ok" /\ (unsure => unsure')) \/ unsure'
      BY <1>4
    <2>7. unsure' \in BOOLEAN
      BY <1>4 DEF NotebooksInv, Notebooks!TypeOK
    <2> QED
      BY <1>4, <2>1, <2>2, <2>3, <2>4, <2>5, <2>6, <2>7, NotebooksUpdate
  <1>5. ASSUME NEW state \in {"bad", "thrown"}, flows' = [flows EXCEPT ![s].state = state],
               UNCHANGED <<rows, unsure>>
        PROVE  /\ flows' \in [Slots -> NotebooksFlows \cup {Notebooks!NoFlow}]
               /\ \A t \in Notebooks!Active' : NotebooksFlowOK(flows'[t])
               /\ \A t \in Slots \ {s} : flows'[t] = flows[t]
               /\ flows'[s] # Notebooks!NoFlow
               /\ flows'[s].kind = q.kind /\ flows'[s].asks = "change" /\ flows'[s].state = state
               /\ rows' \in [Ids -> Notebooks!Row \cup {Notebooks!Unused}] /\ unsure' \in BOOLEAN
    <2> DEFINE new == [q EXCEPT !.state = state]
    <2>1. flows' = [flows EXCEPT ![s] = new]
      BY <1>2, <1>5
    <2>2. /\ new \in NotebooksFlows /\ new.kind = q.kind /\ new.asks = "change" /\ new.row = q.row
          /\ new.draft = q.draft /\ new.state = state
      BY <1>1, <1>2 DEF NotebooksFlows
    <2> HIDE DEF new
    <2>3. NotebooksFlowOK(new)
      BY <1>1, <2>2 DEF NotebooksFlowOK
    <2>4. new # Notebooks!NoFlow
      BY <2>2, NotebooksFree
    <2>5. rows' \in [Ids -> Notebooks!Row \cup {Notebooks!Unused}] /\ unsure' \in BOOLEAN
      BY <1>5 DEF NotebooksInv, Notebooks!TypeOK
    <2> QED
      BY <2>1, <2>2, <2>3, <2>4, <2>5, NotebooksUpdate
  <1> QED
    BY <1>1, <1>3, <1>4, <1>5 DEF Notebooks!ServeChange

LEMMA NotebooksListServed ==
    ASSUME NotebooksInv, NEW s \in Slots, Notebooks!ServeList(s)
    PROVE  /\ flows' \in [Slots -> NotebooksFlows \cup {Notebooks!NoFlow}]
           /\ \A t \in Notebooks!Active' : NotebooksFlowOK(flows'[t])
           /\ \A t \in Slots \ {s} : flows'[t] = flows[t]
           /\ flows[s] # Notebooks!NoFlow /\ flows'[s] # Notebooks!NoFlow
           /\ flows'[s].kind = flows[s].kind
           /\ flows[s].asks = "list" /\ flows'[s].asks = "list"
           /\ flows'[s].state = "ok" => DOMAIN flows'[s].list = Notebooks!Live
           /\ UNCHANGED <<rows, notebooks, error, dialog, creating, selectedId, unsure>>
  <1> DEFINE q == flows[s]
             list == [i \in Notebooks!Live |-> rows[i]]
  <1>1. NotebooksFlowOK(q) /\ q # Notebooks!NoFlow /\ q.asks = "list"
    BY NotebooksFlow DEF Notebooks!ServeList, Notebooks!Asking
  <1>2. q \in NotebooksFlows /\ flows \in [Slots -> NotebooksFlows \cup {Notebooks!NoFlow}]
    BY <1>1 DEF NotebooksFlowOK, NotebooksInv
  <1>3. list \in NotebooksLists /\ DOMAIN list = Notebooks!Live
    <2>1. Notebooks!Live \in SUBSET Ids /\ \A i \in Notebooks!Live : rows[i] \in Notebooks!Row
      BY DEF Notebooks!Live, NotebooksInv, Notebooks!TypeOK
    <2>2. list \in [Notebooks!Live -> Notebooks!Row]
      BY <2>1
    <2> QED
      BY <2>1, <2>2 DEF NotebooksLists
  <1> HIDE DEF list
  <1>4. PICK new \in {[q EXCEPT !.state = "ok", !.list = list], [q EXCEPT !.state = "bad"]} :
            flows' = [flows EXCEPT ![s] = new]
    <2>1. CASE flows' = [flows EXCEPT ![s].state = "ok", ![s].list = list]
      BY <2>1
    <2>2. CASE flows' = [flows EXCEPT ![s].state = "bad"]
      BY <2>2
    <2> QED
      BY <2>1, <2>2 DEF Notebooks!ServeList, list
  <1>5. /\ new \in NotebooksFlows /\ new.kind = q.kind /\ new.asks = "list" /\ new.row = q.row
        /\ new.draft = q.draft
        /\ new.state = "ok" => new.list = list
    <2>1. CASE new = [q EXCEPT !.state = "ok", !.list = list]
      BY <1>1, <1>2, <1>3, <2>1 DEF NotebooksFlows
    <2>2. CASE new = [q EXCEPT !.state = "bad"]
      BY <1>1, <1>2, <2>2 DEF NotebooksFlows
    <2> QED
      BY <1>4, <2>1, <2>2
  <1>6. NotebooksFlowOK(new) /\ new # Notebooks!NoFlow
    BY <1>1, <1>3, <1>5, NotebooksFree DEF NotebooksFlowOK
  <1>7. UNCHANGED <<rows, notebooks, error, dialog, creating, selectedId, unsure>>
    BY DEF Notebooks!ServeList, Notebooks!page
  <1> QED
    BY <1>1, <1>3, <1>4, <1>5, <1>6, <1>7, NotebooksUpdate

LEMMA NotebooksChanged ==
    ASSUME NotebooksInv, NEW s \in Slots, Notebooks!ChangeDone(s)
    PROVE  /\ flows' \in [Slots -> NotebooksFlows \cup {Notebooks!NoFlow}]
           /\ \A t \in Notebooks!Active' : NotebooksFlowOK(flows'[t])
           /\ \A t \in Slots \ {s} : flows'[t] = flows[t]
           /\ s \in Notebooks!Active /\ flows'[s] # Notebooks!NoFlow
           /\ flows'[s].kind = flows[s].kind
           /\ flows[s].asks = "change" /\ flows'[s].asks = "list" /\ flows'[s].state = "sent"
           /\ unsure' = (Notebooks!Asking("list") \ {s} # {})
           /\ dialog' \in Notebooks!Drafts \cup {Notebooks!Closed}
           /\ selectedId' = IF flows[s].kind = "trash" /\ selectedId = flows[s].row THEN None ELSE selectedId
           /\ UNCHANGED <<rows, notebooks, error, creating>>
  <1> DEFINE q == flows[s]
             new == [q EXCEPT !.asks = "list", !.state = "sent"]
  <1>1. /\ NotebooksFlowOK(q) /\ q # Notebooks!NoFlow /\ q.asks = "change" /\ q.state = "ok"
        /\ s \in Notebooks!Active
    BY NotebooksFlow DEF Notebooks!ChangeDone, Notebooks!Asking
  <1>2. q \in NotebooksFlows
    BY <1>1 DEF NotebooksFlowOK
  <1>3. flows' = [flows EXCEPT ![s] = new]
    BY DEF Notebooks!ChangeDone, NotebooksInv
  <1>4. /\ new \in NotebooksFlows /\ new.kind = q.kind /\ new.asks = "list" /\ new.row = q.row
        /\ new.draft = q.draft /\ new.state = "sent"
    BY <1>2 DEF NotebooksFlows
  <1> HIDE DEF new
  <1>5. NotebooksFlowOK(new) /\ new # Notebooks!NoFlow
    BY <1>1, <1>4, NotebooksFree DEF NotebooksFlowOK
  <1>6. dialog' \in Notebooks!Drafts \cup {Notebooks!Closed}
    BY DEF Notebooks!ChangeDone, NotebooksInv, Notebooks!TypeOK
  <1> QED
    BY <1>1, <1>3, <1>4, <1>5, <1>6, NotebooksUpdate DEF Notebooks!ChangeDone, Notebooks!LoadBegins

LEMMA NotebooksEnds ==
    ASSUME NotebooksInv, NEW s \in Slots, Notebooks!ChangeFailed(s) \/ Notebooks!Loaded(s)
    PROVE  /\ flows' \in [Slots -> NotebooksFlows \cup {Notebooks!NoFlow}]
           /\ \A t \in Notebooks!Active' : NotebooksFlowOK(flows'[t])
           /\ \A t \in Slots \ {s} : flows'[t] = flows[t]
           /\ s \in Notebooks!Active /\ flows'[s] = Notebooks!NoFlow
           /\ ~(flows[s].asks = "change" /\ flows[s].state = "ok")
           /\ creating' = (creating /\ flows[s].kind # "create") /\ creating' \in BOOLEAN
           /\ \/ /\ flows[s].asks = "change" /\ UNCHANGED <<notebooks, selectedId>>
                 /\ error' \in {error, TRUE}
              \/ /\ flows[s].asks = "list" /\ error' \in BOOLEAN
                 /\ IF flows[s].state = "ok"
                    THEN notebooks' = flows[s].list /\ notebooks' \in NotebooksLists
                    ELSE error' = TRUE /\ notebooks' = [i \in {} |-> Notebooks!Unused]
                 /\ selectedId' = IF flows[s].kind = "create" THEN flows[s].row ELSE selectedId
           /\ UNCHANGED <<rows, dialog, unsure>>
  <1> DEFINE q == flows[s]
  <1>1. NotebooksFlowOK(q) /\ q # Notebooks!NoFlow /\ s \in Notebooks!Active
    BY NotebooksFlow DEF Notebooks!ChangeFailed, Notebooks!Loaded, Notebooks!Asking
  <1>2. flows' = [flows EXCEPT ![s] = Notebooks!NoFlow]
    BY DEF Notebooks!ChangeFailed, Notebooks!Loaded
  <1>3. creating' = (creating /\ q.kind # "create") /\ creating' \in BOOLEAN
    BY DEF Notebooks!ChangeFailed, Notebooks!Loaded
  <1>4. CASE Notebooks!ChangeFailed(s)
    <2>1. q.asks = "change" /\ q.state # "ok" /\ UNCHANGED <<notebooks, selectedId, rows, dialog, unsure>>
      BY <1>4 DEF Notebooks!ChangeFailed, Notebooks!Asking
    <2>2. error' \in {error, TRUE}
      BY <1>4 DEF Notebooks!ChangeFailed, NotebooksInv, Notebooks!TypeOK
    <2> QED
      BY <1>1, <1>2, <1>3, <2>1, <2>2, NotebooksUpdate
  <1>5. CASE Notebooks!Loaded(s)
    <2>1. q.asks = "list" /\ UNCHANGED <<rows, dialog, unsure>>
          /\ selectedId' = IF q.kind = "create" THEN q.row ELSE selectedId
      BY <1>5 DEF Notebooks!Loaded, Notebooks!Asking
    <2>2. /\ error' \in BOOLEAN
          /\ IF q.state = "ok" THEN notebooks' = q.list /\ notebooks' \in NotebooksLists
             ELSE error' = TRUE /\ notebooks' = [i \in {} |-> Notebooks!Unused]
      BY <1>1, <1>5, <2>1 DEF Notebooks!Loaded, NotebooksFlowOK
    <2> QED
      BY <1>1, <1>2, <1>3, <2>1, <2>2, NotebooksUpdate
  <1> QED
    BY <1>4, <1>5

LEMMA NotebooksOpens == Notebooks!Init => NotebooksInv
  <1> SUFFICES ASSUME Notebooks!Init PROVE NotebooksInv
    OBVIOUS
  <1> DEFINE new == Notebooks!Sent("load", None, "list", Notebooks!Closed)
  <1>1. PICK s \in Slots : flows = [t \in Slots |-> IF t = s THEN new ELSE Notebooks!NoFlow]
    BY DEF Notebooks!Init
  <1>2. NotebooksFlowOK(new) /\ new \in NotebooksFlows
    BY DEF Notebooks!Sent, NotebooksFlows, NotebooksFlowOK
  <1> HIDE DEF new
  <1>3. /\ flows \in [Slots -> NotebooksFlows \cup {Notebooks!NoFlow}]
        /\ \A t \in Notebooks!Active : NotebooksFlowOK(flows[t])
    BY <1>1, <1>2 DEF Notebooks!Active
  <1>4. rows \in [Ids -> Notebooks!Row \cup {Notebooks!Unused}]
    <2>1. \A n \in Names : [path |-> <<n>>, name |-> n, trashed |-> FALSE] \in Notebooks!Row
      BY DEF Notebooks!Row, Notebooks!Paths
    <2> QED
      BY <2>1 DEF Notebooks!Init
  <1> QED
    BY <1>3, <1>4 DEF Notebooks!Init, NotebooksInv, Notebooks!TypeOK

LEMMA NotebooksTyped ==
    ASSUME NotebooksInv, Notebooks!Next \/ UNCHANGED Notebooks!vars
    PROVE  NotebooksInv'
  <1>1. CASE UNCHANGED Notebooks!vars
    BY <1>1 DEF Notebooks!vars, Notebooks!page, NotebooksInv, Notebooks!TypeOK, Notebooks!Active
  <1>2. CASE Notebooks!Dialog
    <2>1. [Notebooks!Closed EXCEPT !.open = TRUE] \in Notebooks!Drafts
      BY NotebooksFree DEF Notebooks!Closed, Notebooks!Drafts
    <2>2. dialog' \in Notebooks!Drafts \cup {Notebooks!Closed}
      BY <1>2, <2>1 DEF Notebooks!Dialog
    <2> QED
      BY <1>2, <2>2 DEF Notebooks!Dialog, NotebooksInv, Notebooks!TypeOK, Notebooks!Active
  <1>3. ASSUME NEW i \in Ids, Notebooks!Select(i)
        PROVE  NotebooksInv'
    BY <1>3 DEF Notebooks!Select, NotebooksInv, Notebooks!TypeOK, Notebooks!Active
  <1>4. ASSUME NEW i \in Ids, Notebooks!Elsewhere(i)
        PROVE  NotebooksInv'
    <2>1. rows[i] \in Notebooks!Row
      BY <1>4 DEF Notebooks!Elsewhere, Notebooks!Live, NotebooksInv, Notebooks!TypeOK
    <2>2. [rows[i] EXCEPT !.trashed = TRUE] \in Notebooks!Row
      BY <2>1 DEF Notebooks!Row
    <2>3. rows' \in [Ids -> Notebooks!Row \cup {Notebooks!Unused}]
      BY <1>4, <2>2 DEF Notebooks!Elsewhere, NotebooksInv, Notebooks!TypeOK
    <2> QED
      BY <1>4, <2>3 DEF Notebooks!Elsewhere, Notebooks!page, NotebooksInv, Notebooks!TypeOK, Notebooks!Active
  <1>5. ASSUME NEW s \in Slots, Notebooks!Create(s) \/ Notebooks!Trash(s)
        PROVE  NotebooksInv'
    BY <1>5, NotebooksBegins DEF NotebooksInv, Notebooks!TypeOK
  <1>6. ASSUME NEW s \in Slots, Notebooks!ServeChange(s)
        PROVE  NotebooksInv'
    BY <1>6, NotebooksChangeServed DEF NotebooksInv, Notebooks!TypeOK
  <1>7. ASSUME NEW s \in Slots, Notebooks!ServeList(s)
        PROVE  NotebooksInv'
    BY <1>7, NotebooksListServed DEF NotebooksInv, Notebooks!TypeOK
  <1>8. ASSUME NEW s \in Slots, Notebooks!ChangeDone(s)
        PROVE  NotebooksInv'
    <2>1. selectedId' \in Ids \cup {None} /\ unsure' \in BOOLEAN
      BY <1>8, NotebooksChanged DEF NotebooksInv, Notebooks!TypeOK
    <2> QED
      BY <1>8, <2>1, NotebooksChanged DEF NotebooksInv, Notebooks!TypeOK
  <1>9. ASSUME NEW s \in Slots, Notebooks!ChangeFailed(s) \/ Notebooks!Loaded(s)
        PROVE  NotebooksInv'
    <2>1. NotebooksFlowOK(flows[s])
      BY <1>9, NotebooksEnds DEF NotebooksInv
    <2>2. selectedId' \in Ids \cup {None} /\ error' \in BOOLEAN
      BY <1>9, <2>1, NotebooksEnds DEF NotebooksInv, Notebooks!TypeOK, NotebooksFlowOK
    <2>3. notebooks' = None \/ \A i \in DOMAIN notebooks' : i \in Ids /\ notebooks'[i] \in Notebooks!Row
      <3>1. \A l \in NotebooksLists : \A i \in DOMAIN l : i \in Ids /\ l[i] \in Notebooks!Row
        BY DEF NotebooksLists
      <3>2. DOMAIN [i \in {} |-> Notebooks!Unused] = {}
        OBVIOUS
      <3> QED
        BY <1>9, <3>1, <3>2, NotebooksEnds DEF NotebooksInv, Notebooks!TypeOK
    <2> QED
      BY <1>9, <2>2, <2>3, NotebooksEnds DEF NotebooksInv, Notebooks!TypeOK
  <1> QED
    BY <1>1, <1>2, <1>3, <1>4, <1>5, <1>6, <1>7, <1>8, <1>9 DEF Notebooks!Next

\* creating is the one create that is under way.
NotebooksBusy ==
    /\ creating <=> \E s \in Slots : flows[s].kind = "create"
    /\ \A s, t \in Slots : flows[s].kind = "create" /\ flows[t].kind = "create" => s = t

LEMMA NotebooksBusyMeans ==
    ASSUME NotebooksInv, NotebooksBusy
    PROVE  Notebooks!CreatingIsOne
  <1> DEFINE creates == {s \in Notebooks!Active : flows[s].kind = "create"}
  <1>1. creates = {s \in Slots : flows[s].kind = "create"}
    BY NotebooksFree DEF Notebooks!Active
  <1>2. creating <=> creates # {}
    BY <1>1 DEF NotebooksBusy
  <1>3. Cardinality(creates) <= 1
    BY <1>1, AtMostOne DEF NotebooksBusy
  <1> QED
    BY <1>2, <1>3, Counting DEF Notebooks!CreatingIsOne

LEMMA NotebooksBusyKept ==
    ASSUME NotebooksInv, NotebooksBusy, Notebooks!Next \/ UNCHANGED Notebooks!vars
    PROVE  NotebooksBusy'
  <1>1. CASE UNCHANGED Notebooks!vars \/ Notebooks!Dialog \/ \E i \in Ids : Notebooks!Select(i) \/ Notebooks!Elsewhere(i)
    BY <1>1 DEF Notebooks!vars, Notebooks!page, Notebooks!Dialog, Notebooks!Select, Notebooks!Elsewhere,
                NotebooksBusy
  <1>2. ASSUME NEW s \in Slots, Notebooks!Create(s) \/ Notebooks!Trash(s)
        PROVE  NotebooksBusy'
    <2>1. /\ \A t \in Slots \ {s} : flows'[t] = flows[t]
          /\ flows[s].kind = "none"
          /\ \/ flows'[s].kind = "create" /\ ~creating /\ creating' = TRUE
             \/ flows'[s].kind = "trash" /\ creating' = creating
      BY <1>2, NotebooksBegins, NotebooksFree
    <2> QED
      BY <2>1 DEF NotebooksBusy
  <1>3. ASSUME NEW s \in Slots,
               Notebooks!ServeChange(s) \/ Notebooks!ServeList(s) \/ Notebooks!ChangeDone(s)
        PROVE  NotebooksBusy'
    <2>1. (\A t \in Slots : flows'[t].kind = flows[t].kind) /\ creating' = creating
      BY <1>3, NotebooksChangeServed, NotebooksListServed, NotebooksChanged
    <2> QED
      BY <2>1 DEF NotebooksBusy
  <1>4. ASSUME NEW s \in Slots, Notebooks!ChangeFailed(s) \/ Notebooks!Loaded(s)
        PROVE  NotebooksBusy'
    <2>1. /\ \A t \in Slots \ {s} : flows'[t] = flows[t]
          /\ flows'[s].kind = "none" /\ creating' = (creating /\ flows[s].kind # "create")
      BY <1>4, NotebooksEnds, NotebooksFree
    <2> QED
      BY <2>1 DEF NotebooksBusy
  <1> QED
    BY <1>1, <1>2, <1>3, <1>4 DEF Notebooks!Next

\* Unless the page cannot be sure, and when no change waits for its load, what a
\* load has read, or else the list shown, is what the API has.
NotebooksWaits(s) == s \in Notebooks!Asking("change") /\ flows[s].state = "ok"

NotebooksCurrent ==
    ~unsure /\ (\A s \in Slots : ~NotebooksWaits(s)) =>
        /\ \A s \in Notebooks!Asking("list") :
               flows[s].state = "ok" => DOMAIN flows[s].list = Notebooks!Live
        /\ Notebooks!Asking("list") = {} /\ ~error => DOMAIN notebooks = Notebooks!Live

LEMMA NotebooksCurrentKept ==
    ASSUME NotebooksInv, NotebooksCurrent, Notebooks!Next \/ UNCHANGED Notebooks!vars
    PROVE  NotebooksCurrent'
  <1> USE DEF NotebooksWaits, Notebooks!Asking, Notebooks!Active
  <1>1. CASE UNCHANGED Notebooks!vars \/ Notebooks!Dialog \/ \E i \in Ids : Notebooks!Select(i)
    BY <1>1 DEF Notebooks!vars, Notebooks!page, Notebooks!Dialog, Notebooks!Select, Notebooks!Live,
                NotebooksCurrent
  <1>2. CASE \E i \in Ids : Notebooks!Elsewhere(i)
    BY <1>2 DEF Notebooks!Elsewhere, NotebooksCurrent
  <1>3. ASSUME NEW s \in Slots, Notebooks!Create(s) \/ Notebooks!Trash(s)
        PROVE  NotebooksCurrent'
    <2>1. /\ \A t \in Slots \ {s} : flows'[t] = flows[t]
          /\ flows[s] = Notebooks!NoFlow /\ flows'[s] # Notebooks!NoFlow
          /\ flows'[s].asks = "change" /\ flows'[s].state = "sent"
          /\ UNCHANGED <<rows, notebooks, error, unsure>>
      BY <1>3, NotebooksBegins
    <2>2. \A t \in Slots : NotebooksWaits(t)' <=> NotebooksWaits(t)
      BY <2>1
    <2>3. Notebooks!Asking("list")' = Notebooks!Asking("list") /\ Notebooks!Live' = Notebooks!Live
      BY <2>1 DEF Notebooks!Live
    <2>4. \A t \in Notebooks!Asking("list") : flows'[t] = flows[t]
      BY <2>1
    <2> QED
      BY <2>1, <2>2, <2>3, <2>4 DEF NotebooksCurrent
  <1>4. ASSUME NEW s \in Slots, Notebooks!ServeChange(s)
        PROVE  NotebooksCurrent'
    <2>1. /\ \A t \in Slots \ {s} : flows'[t] = flows[t]
          /\ flows[s] # Notebooks!NoFlow /\ flows'[s] # Notebooks!NoFlow
          /\ flows[s].asks = "change" /\ flows'[s].asks = "change" /\ flows[s].state = "sent"
          /\ UNCHANGED <<notebooks, error>>
      BY <1>4, NotebooksChangeServed
    <2>2. CASE unsure'
      BY <2>2 DEF NotebooksCurrent
    <2>3. CASE flows'[s].state = "ok"
      BY <2>1, <2>3 DEF NotebooksCurrent
    <2>4. CASE flows'[s].state \in {"bad", "thrown"} /\ UNCHANGED <<rows, unsure>>
      <3>1. \A t \in Slots : NotebooksWaits(t)' <=> NotebooksWaits(t)
        BY <2>1, <2>4
      <3>2. Notebooks!Asking("list")' = Notebooks!Asking("list") /\ Notebooks!Live' = Notebooks!Live
        BY <2>1, <2>4 DEF Notebooks!Live
      <3>3. \A t \in Notebooks!Asking("list") : flows'[t] = flows[t]
        BY <2>1
      <3> QED
        BY <2>1, <2>4, <3>1, <3>2, <3>3 DEF NotebooksCurrent
    <2> QED
      BY <1>4, <2>2, <2>3, <2>4, NotebooksChangeServed
  <1>5. ASSUME NEW s \in Slots, Notebooks!ServeList(s)
        PROVE  NotebooksCurrent'
    <2>1. /\ \A t \in Slots \ {s} : flows'[t] = flows[t]
          /\ flows[s] # Notebooks!NoFlow /\ flows'[s] # Notebooks!NoFlow
          /\ flows[s].asks = "list" /\ flows'[s].asks = "list"
          /\ flows'[s].state = "ok" => DOMAIN flows'[s].list = Notebooks!Live
          /\ UNCHANGED <<rows, notebooks, error, unsure>>
      BY <1>5, NotebooksListServed
    <2>2. \A t \in Slots : NotebooksWaits(t)' <=> NotebooksWaits(t)
      BY <2>1
    <2>3. Notebooks!Asking("list")' = Notebooks!Asking("list") /\ Notebooks!Live' = Notebooks!Live
      BY <2>1 DEF Notebooks!Live
    <2>4. \A t \in Notebooks!Asking("list") : t # s => flows'[t] = flows[t]
      BY <2>1
    <2> QED
      BY <2>1, <2>2, <2>3, <2>4 DEF NotebooksCurrent
  <1>6. ASSUME NEW s \in Slots, Notebooks!ChangeDone(s)
        PROVE  NotebooksCurrent'
    <2>1. /\ \A t \in Slots \ {s} : flows'[t] = flows[t]
          /\ flows'[s] # Notebooks!NoFlow
          /\ flows'[s].asks = "list" /\ flows'[s].state = "sent"
          /\ unsure' = (Notebooks!Asking("list") \ {s} # {})
      BY <1>6, NotebooksChanged
    <2>2. s \in Notebooks!Asking("list")' /\ Notebooks!Asking("list")' \subseteq Notebooks!Asking("list") \cup {s}
      BY <2>1
    <2> QED
      BY <2>1, <2>2 DEF NotebooksCurrent
  <1>7. ASSUME NEW s \in Slots, Notebooks!ChangeFailed(s) \/ Notebooks!Loaded(s)
        PROVE  NotebooksCurrent'
    <2>1. /\ \A t \in Slots \ {s} : flows'[t] = flows[t]
          /\ s \in Notebooks!Active /\ flows'[s] = Notebooks!NoFlow
          /\ ~NotebooksWaits(s) /\ UNCHANGED <<rows, unsure>>
      BY <1>7, NotebooksEnds
    <2>2. \A t \in Slots : NotebooksWaits(t)' <=> NotebooksWaits(t)
      BY <2>1
    <2>3. Notebooks!Asking("list")' = Notebooks!Asking("list") \ {s} /\ Notebooks!Live' = Notebooks!Live
      BY <2>1 DEF Notebooks!Live
    <2>4. \A t \in Notebooks!Asking("list") \ {s} : flows'[t] = flows[t]
      BY <2>1
    <2>5. CASE flows[s].asks = "change" /\ notebooks' = notebooks /\ error' \in {error, TRUE}
      <3>1. Notebooks!Asking("list")' = Notebooks!Asking("list")
        BY <2>3, <2>5
      <3> QED
        BY <2>1, <2>2, <2>3, <2>4, <2>5, <3>1 DEF NotebooksCurrent
    <2>6. CASE flows[s].asks = "list"
      <3>1. error' \/ (flows[s].state = "ok" /\ notebooks' = flows[s].list)
        BY <1>7, <2>6, NotebooksEnds
      <3>2. s \in Notebooks!Asking("list")
        BY <2>1, <2>6
      <3> QED
        BY <2>1, <2>2, <2>3, <2>4, <3>1, <3>2 DEF NotebooksCurrent
    <2> QED
      BY <1>7, <2>5, <2>6, NotebooksEnds
  <1> QED
    BY <1>1, <1>2, <1>3, <1>4, <1>5, <1>6, <1>7 DEF Notebooks!Next

LEMMA NotebooksHolds ==
    Spec => [](Is("notebooks") => NotebooksInv /\ NotebooksBusy /\ NotebooksCurrent)
  <1> DEFINE Inv == Is("notebooks") => NotebooksInv /\ NotebooksBusy /\ NotebooksCurrent
  <1>1. Init => Inv
    <2> SUFFICES ASSUME Notebooks!Init
                 PROVE  NotebooksInv /\ NotebooksBusy /\ NotebooksCurrent
      BY DEF Init
    <2>1. NotebooksInv
      BY NotebooksOpens
    <2>2. PICK s \in Slots :
              flows = [t \in Slots |-> IF t = s THEN Notebooks!Sent("load", None, "list", Notebooks!Closed)
                                       ELSE Notebooks!NoFlow]
      BY DEF Notebooks!Init
    <2>3. /\ \A t \in Slots : flows[t].kind = IF t = s THEN "load" ELSE "none"
          /\ \A t \in Slots \ {s} : flows[t] = Notebooks!NoFlow
          /\ flows[s] # Notebooks!NoFlow /\ flows[s].asks = "list" /\ flows[s].state = "sent"
      BY <2>2 DEF Notebooks!Sent, Notebooks!NoFlow
    <2>4. NotebooksBusy
      BY <2>3 DEF NotebooksBusy, Notebooks!Init
    <2>5. NotebooksCurrent
      BY <2>3 DEF NotebooksCurrent, Notebooks!Asking, Notebooks!Active
    <2> QED
      BY <2>1, <2>4, <2>5
  <1>2. Inv /\ [Next]_vars => Inv'
    BY NotebooksTurn, NotebooksTyped, NotebooksBusyKept, NotebooksCurrentKept
  <1> QED
    BY <1>1, <1>2, PTL DEF Spec

\* A workspace at rest has exactly the notebooks of the API, unless loads have
\* overlapped, an answer was lost or somebody else trashed a notebook
\* (NotebooksView: onCreate, onTrashed, load).
THEOREM WorkspaceIsTheAPIs == Spec => []NotebooksWorkspaceIsCurrent
  <1>1. (Is("notebooks") => NotebooksInv /\ NotebooksBusy /\ NotebooksCurrent) => NotebooksWorkspaceIsCurrent
    BY DEF NotebooksWorkspaceIsCurrent, Notebooks!WorkspaceIsCurrent, NotebooksCurrent, NotebooksWaits,
           Notebooks!Asking
  <1> QED
    BY <1>1, NotebooksHolds, PTL

LEMMA NotebooksKeepOpen ==
    ASSUME NotebooksInv, Notebooks!Next
    PROVE  Notebooks!KeepsOpen
  <1> SUFFICES ASSUME selectedId # None, selectedId' # selectedId
               PROVE  IF selectedId' = None
                      THEN \E s \in Notebooks!Active : flows[s].kind = "trash" /\ flows[s].row = selectedId
                      ELSE \/ flows' = flows
                           \/ \E s \in Notebooks!Active : flows[s].kind = "create" /\ flows[s].row = selectedId'
    BY DEF Notebooks!KeepsOpen
  <1>1. CASE Notebooks!Dialog \/ \E i \in Ids : Notebooks!Elsewhere(i)
    BY <1>1 DEF Notebooks!Dialog, Notebooks!Elsewhere, Notebooks!page
  <1>2. CASE \E i \in Ids : Notebooks!Select(i)
    BY <1>2, NotebooksFree DEF Notebooks!Select
  <1>3. ASSUME NEW s \in Slots,
               \/ Notebooks!Create(s) \/ Notebooks!Trash(s) \/ Notebooks!ServeChange(s)
               \/ Notebooks!ServeList(s)
        PROVE  FALSE
    BY <1>3, NotebooksBegins, NotebooksChangeServed, NotebooksListServed
  <1>4. ASSUME NEW s \in Slots, Notebooks!ChangeDone(s)
        PROVE  selectedId' = None /\ s \in Notebooks!Active /\ flows[s].kind = "trash" /\ flows[s].row = selectedId
    BY <1>4, NotebooksChanged
  <1>5. ASSUME NEW s \in Slots, Notebooks!ChangeFailed(s) \/ Notebooks!Loaded(s)
        PROVE  selectedId' # None /\ s \in Notebooks!Active /\ flows[s].kind = "create" /\ flows[s].row = selectedId'
    <2>1. /\ s \in Notebooks!Active /\ flows[s].kind = "create" /\ flows[s].asks = "list"
          /\ selectedId' = flows[s].row
      BY <1>5, NotebooksEnds
    <2>2. flows[s].row \in Ids
      BY <2>1 DEF NotebooksInv, NotebooksFlowOK
    <2> QED
      BY <2>1, <2>2, NotebooksFree
  <1> QED
    BY <1>1, <1>2, <1>3, <1>4, <1>5 DEF Notebooks!Next

\* A notebook that is open is closed only by its own trash, and gives way only
\* to the user's choice or to a create that ends (onTrashed, onCreate).
THEOREM OpenNotebookStays == Spec => NotebooksOpenStaysOpen
  <1>1. /\ Is("notebooks") => NotebooksInv /\ NotebooksBusy /\ NotebooksCurrent
        /\ [Next]_vars
        => [Is("notebooks") => Notebooks!KeepsOpen]_vars
    BY NotebooksKeepOpen DEF Next, Is, IdentityStep, PermissionsStep, CatalogStep, NotebooksStep, DrawerStep
  <1> QED
    BY <1>1, NotebooksHolds, PTL DEF Spec, NotebooksOpenStaysOpen

-----------------------------------------------------------------------------
(* IdentityView.                                                           *)

\* A flow that asks for a change is an add of its section, or an assignment.
IdentityFlowOK(q) ==
    /\ q \in Identity!Flow
    /\ q.asks = "change" => q.kind \in {"add", "assign"}
    /\ q.kind = "assign" => q.section = "users"

IdentityInv ==
    /\ Identity!TypeOK
    /\ \A s \in Identity!Active : IdentityFlowOK(flows[s])

LEMMA IdentityFree ==
    /\ Identity!NoFlow \notin Identity!Flow /\ Identity!NoFlow.kind = "none"
    /\ \A q \in Identity!Flow : q.kind \in {"load", "add", "assign"} /\ q.section \in Identity!Sections
    /\ Statuses \subseteq {"forbidden", "unconfigured", "bad"}
  <1>1. Statuses \subseteq {"forbidden", "unconfigured", "bad"}
    BY ConsoleAssumption
  <1> QED
    BY <1>1 DEF Identity!NoFlow, Identity!Flow

LEMMA IdentityFlow ==
    ASSUME IdentityInv, NEW s \in Identity!Active
    PROVE  s \in Slots /\ flows[s] # Identity!NoFlow /\ IdentityFlowOK(flows[s])
  BY DEF IdentityInv, Identity!Active

LEMMA IdentityUpdate ==
    ASSUME IdentityInv, NEW s \in Slots, NEW new, flows' = [flows EXCEPT ![s] = new],
           new = Identity!NoFlow \/ IdentityFlowOK(new)
    PROVE  /\ flows' \in [Slots -> Identity!Flow \cup {Identity!NoFlow}]
           /\ \A t \in Identity!Active' : IdentityFlowOK(flows'[t])
           /\ flows'[s] = new /\ \A t \in Slots \ {s} : flows'[t] = flows[t]
  <1>1. /\ flows' \in [Slots -> Identity!Flow \cup {Identity!NoFlow}]
        /\ flows'[s] = new /\ \A t \in Slots \ {s} : flows'[t] = flows[t]
    BY OneFlow DEF IdentityInv, Identity!TypeOK, IdentityFlowOK
  <1>2. ASSUME NEW t \in Slots, flows'[t] # Identity!NoFlow
        PROVE  IdentityFlowOK(flows'[t])
    <2>1. CASE t = s
      BY <1>1, <1>2, <2>1
    <2>2. CASE t # s
      BY <1>1, <1>2, <2>2 DEF IdentityInv, Identity!Active
    <2> QED
      BY <2>1, <2>2
  <1> QED
    BY <1>1, <1>2 DEF Identity!Active

LEMMA IdentityBegins ==
    ASSUME IdentityInv, NEW s \in Slots, NEW kind \in {"add", "assign"}, NEW x \in Identity!Sections,
           kind = "assign" => x = "users", Identity!Take(s, kind, x)
    PROVE  /\ flows' \in [Slots -> Identity!Flow \cup {Identity!NoFlow}]
           /\ \A t \in Identity!Active' : IdentityFlowOK(flows'[t])
           /\ \A t \in Slots \ {s} : flows'[t] = flows[t]
           /\ flows[s] = Identity!NoFlow /\ flows'[s] # Identity!NoFlow
           /\ flows'[s].kind = kind /\ flows'[s].section = x /\ ~flows'[s].orphan
           /\ flows'[s].asks = "change" /\ flows'[s].state = "sent"
  <1> DEFINE new == Identity!Sent(kind, x, "change")
  <1>1. 0 \in 0 .. MaxChanges
    BY ChangesBound
  <1>2. /\ IdentityFlowOK(new) /\ new.kind = kind /\ new.section = x /\ ~new.orphan
        /\ new.asks = "change" /\ new.state = "sent"
    BY <1>1 DEF Identity!Sent, Identity!Flow, IdentityFlowOK
  <1>3. flows' = [flows EXCEPT ![s] = new] /\ flows[s] = Identity!NoFlow
    BY DEF Identity!Take
  <1> HIDE DEF new
  <1>4. new # Identity!NoFlow
    BY <1>2, IdentityFree DEF IdentityFlowOK
  <1> QED
    BY <1>2, <1>3, <1>4, IdentityUpdate

\* The API answers: a list as it is now, or a change that was made, that was made
\* but is not known to be, or that was not made.
LEMMA IdentityServed ==
    ASSUME IdentityInv, NEW s \in Slots, Identity!Serve(s)
    PROVE  /\ flows' \in [Slots -> Identity!Flow \cup {Identity!NoFlow}]
           /\ \A t \in Identity!Active' : IdentityFlowOK(flows'[t])
           /\ \A t \in Slots \ {s} : flows'[t] = flows[t]
           /\ IdentityFlowOK(flows[s]) /\ flows[s] # Identity!NoFlow /\ flows'[s] # Identity!NoFlow
           /\ flows'[s].kind = flows[s].kind /\ flows'[s].section = flows[s].section
           /\ flows'[s].orphan = flows[s].orphan /\ flows'[s].asks = flows[s].asks
           /\ flows[s].state = "sent"
           /\ added' \in [Identity!Sections -> 0 .. MaxChanges]
           /\ unsure' \in [Identity!Sections -> BOOLEAN]
           /\ \/ /\ flows[s].asks = "list" /\ UNCHANGED <<added, unsure>>
                 /\ flows'[s].state = "ok" => flows'[s].seen = added[flows[s].section]
              \/ /\ flows[s].asks = "change" /\ flows'[s].state # "ok" /\ UNCHANGED <<added, unsure>>
              \/ /\ flows[s].asks = "change"
                 /\ flows'[s].state = "ok" \/ unsure'[flows[s].section]
                 /\ \A x \in Identity!Sections \ {flows[s].section} :
                        added'[x] = added[x] /\ unsure'[x] = unsure[x]
                 /\ unsure[flows[s].section] => unsure'[flows[s].section]
           /\ UNCHANGED <<lists, forms, adding, assigning>>
  <1> DEFINE q == flows[s]
  <1>1. IdentityFlowOK(q) /\ q # Identity!NoFlow /\ q.state = "sent"
    BY IdentityFlow DEF Identity!Serve
  <1>2. /\ q \in Identity!Flow /\ q.section \in Identity!Sections
        /\ flows \in [Slots -> Identity!Flow \cup {Identity!NoFlow}]
        /\ added \in [Identity!Sections -> 0 .. MaxChanges]
        /\ unsure \in [Identity!Sections -> BOOLEAN]
    BY <1>1 DEF IdentityFlowOK, Identity!Flow, IdentityInv, Identity!TypeOK
  <1>3. UNCHANGED <<lists, forms, adding, assigning>>
    BY DEF Identity!Serve, Identity!page
  <1>4. ASSUME NEW new \in Identity!Flow, flows' = [flows EXCEPT ![s] = new],
               new.kind = q.kind, new.section = q.section, new.orphan = q.orphan, new.asks = q.asks
        PROVE  /\ flows' \in [Slots -> Identity!Flow \cup {Identity!NoFlow}]
               /\ \A t \in Identity!Active' : IdentityFlowOK(flows'[t])
               /\ \A t \in Slots \ {s} : flows'[t] = flows[t]
               /\ flows'[s] # Identity!NoFlow /\ flows'[s] = new
    <2>1. IdentityFlowOK(new) /\ new # Identity!NoFlow
      BY <1>1, <1>4, IdentityFree DEF IdentityFlowOK
    <2> QED
      BY <1>4, <2>1, IdentityUpdate
  <1>5. ASSUME NEW state \in {"ok", "thrown"} \cup Statuses, flows' = [flows EXCEPT ![s].state = state]
        PROVE  /\ flows' \in [Slots -> Identity!Flow \cup {Identity!NoFlow}]
               /\ \A t \in Identity!Active' : IdentityFlowOK(flows'[t])
               /\ \A t \in Slots \ {s} : flows'[t] = flows[t]
               /\ flows'[s] # Identity!NoFlow /\ flows'[s].state = state
               /\ flows'[s].kind = q.kind /\ flows'[s].section = q.section
               /\ flows'[s].orphan = q.orphan /\ flows'[s].asks = q.asks
    <2> DEFINE new == [q EXCEPT !.state = state]
    <2>1. /\ new \in Identity!Flow /\ new.kind = q.kind /\ new.section = q.section
          /\ new.orphan = q.orphan /\ new.asks = q.asks /\ new.state = state
      BY <1>2 DEF Identity!Flow
    <2>2. flows' = [flows EXCEPT ![s] = new]
      BY <1>2, <1>5
    <2> HIDE DEF new
    <2> QED
      BY <1>4, <2>1, <2>2
  <1>6. CASE q.asks = "list" /\ UNCHANGED <<added, unsure>>
             /\ flows' = [flows EXCEPT ![s].state = "ok", ![s].seen = added[q.section]]
    <2> DEFINE new == [q EXCEPT !.state = "ok", !.seen = added[q.section]]
    <2>1. /\ new \in Identity!Flow /\ new.kind = q.kind /\ new.section = q.section
          /\ new.orphan = q.orphan /\ new.asks = q.asks /\ new.seen = added[q.section]
      BY <1>2 DEF Identity!Flow
    <2>2. flows' = [flows EXCEPT ![s] = new]
      BY <1>2, <1>6
    <2> HIDE DEF new
    <2>3. /\ flows' \in [Slots -> Identity!Flow \cup {Identity!NoFlow}]
          /\ \A t \in Identity!Active' : IdentityFlowOK(flows'[t])
          /\ \A t \in Slots \ {s} : flows'[t] = flows[t]
          /\ flows'[s] # Identity!NoFlow /\ flows'[s] = new
      BY <1>4, <2>1, <2>2
    <2> QED
      BY <1>1, <1>2, <1>3, <1>6, <2>1, <2>3
  <1>7. ASSUME q.asks = "change", q.kind = "add" => added[q.section] < MaxChanges,
               added' = IF q.kind = "add" THEN [added EXCEPT ![q.section] = @ + 1] ELSE added,
               NEW ending \in {"ok", "thrown"}, flows' = [flows EXCEPT ![s].state = ending],
               unsure' = [unsure EXCEPT ![q.section] = @ \/ ending # "ok"]
        PROVE  LET x == q.section IN
               /\ added' \in [Identity!Sections -> 0 .. MaxChanges]
               /\ unsure' \in [Identity!Sections -> BOOLEAN]
               /\ flows'[s].state = "ok" \/ unsure'[x]
               /\ \A y \in Identity!Sections \ {x} : added'[y] = added[y] /\ unsure'[y] = unsure[y]
               /\ unsure[x] => unsure'[x]
    <2>1. added' \in [Identity!Sections -> 0 .. MaxChanges]
      BY <1>2, <1>7, ChangesBound
    <2>2. flows'[s].state = ending
      BY <1>5, <1>7
    <2>3. unsure'[q.section] = (unsure[q.section] \/ ending # "ok")
      BY <1>2, <1>7
    <2>4. unsure' \in [Identity!Sections -> BOOLEAN]
      BY <1>2, <1>7
    <2> QED
      BY <1>2, <1>7, <2>1, <2>2, <2>3, <2>4
  <1>8. ASSUME NEW status \in Statuses, flows' = [flows EXCEPT ![s].state = status]
        PROVE  flows'[s].state # "ok"
    BY <1>5, <1>8, IdentityFree
  <1>9. q.asks \in {"change", "list"}
    BY <1>2 DEF Identity!Flow
  <1>10. CASE q.asks = "change" /\ (q.kind = "add" => added[q.section] < MaxChanges)
              /\ added' = (IF q.kind = "add" THEN [added EXCEPT ![q.section] = @ + 1] ELSE added)
              /\ \E ending \in {"ok", "thrown"} :
                     /\ flows' = [flows EXCEPT ![s].state = ending]
                     /\ unsure' = [unsure EXCEPT ![q.section] = @ \/ ending # "ok"]
    <2>1. PICK ending \in {"ok", "thrown"} :
              /\ flows' = [flows EXCEPT ![s].state = ending]
              /\ unsure' = [unsure EXCEPT ![q.section] = @ \/ ending # "ok"]
      BY <1>10
    <2> QED
      BY <1>1, <1>3, <1>5, <1>7, <1>10, <2>1
  <1>11. CASE UNCHANGED <<added, unsure>>
              /\ \E status \in Statuses : flows' = [flows EXCEPT ![s].state = status]
    BY <1>1, <1>2, <1>3, <1>5, <1>8, <1>9, <1>11
  <1> QED
    BY <1>6, <1>10, <1>11 DEF Identity!Serve

LEMMA IdentityChanged ==
    ASSUME IdentityInv, NEW s \in Slots, Identity!ChangeDone(s)
    PROVE  /\ flows' \in [Slots -> Identity!Flow \cup {Identity!NoFlow}]
           /\ \A t \in Identity!Active' : IdentityFlowOK(flows'[t])
           /\ \A t \in Slots \ {s} : flows'[t] = flows[t]
           /\ IdentityFlowOK(flows[s]) /\ flows[s] # Identity!NoFlow /\ flows'[s] # Identity!NoFlow
           /\ flows'[s].kind = flows[s].kind /\ flows'[s].section = flows[s].section
           /\ flows'[s].orphan = flows[s].orphan
           /\ flows[s].asks = "change" /\ flows'[s].asks = "list" /\ flows'[s].state = "sent"
           /\ unsure' = [unsure EXCEPT ![flows[s].section] = Identity!Loading(flows[s].section) # {}]
           /\ forms' \in {forms, [forms EXCEPT ![flows[s].section] = Identity!Closed]}
           /\ UNCHANGED <<added, lists, adding, assigning>>
  <1> DEFINE q == flows[s]
             new == [q EXCEPT !.asks = "list", !.state = "sent"]
  <1>1. IdentityFlowOK(q) /\ q # Identity!NoFlow /\ q.asks = "change"
    BY IdentityFlow DEF Identity!ChangeDone, Identity!Asking
  <1>2. q \in Identity!Flow /\ flows' = [flows EXCEPT ![s] = new]
    BY <1>1 DEF Identity!ChangeDone, IdentityInv, Identity!TypeOK, IdentityFlowOK
  <1>3. /\ new \in Identity!Flow /\ new.kind = q.kind /\ new.section = q.section
        /\ new.orphan = q.orphan /\ new.asks = "list" /\ new.state = "sent"
    BY <1>2 DEF Identity!Flow
  <1> HIDE DEF new
  <1>4. IdentityFlowOK(new) /\ new # Identity!NoFlow
    BY <1>1, <1>3, IdentityFree DEF IdentityFlowOK
  <1>5. forms' \in {forms, [forms EXCEPT ![q.section] = Identity!Closed]}
    BY DEF Identity!ChangeDone
  <1> QED
    BY <1>1, <1>2, <1>3, <1>4, <1>5, IdentityUpdate DEF Identity!ChangeDone

LEMMA IdentityFailed ==
    ASSUME IdentityInv, NEW s \in Slots, Identity!ChangeFailed(s)
    PROVE  /\ flows' \in [Slots -> Identity!Flow \cup {Identity!NoFlow}]
           /\ \A t \in Identity!Active' : IdentityFlowOK(flows'[t])
           /\ \A t \in Slots \ {s} : flows'[t] = flows[t]
           /\ IdentityFlowOK(flows[s]) /\ flows[s] # Identity!NoFlow /\ flows'[s] = Identity!NoFlow
           /\ flows[s].asks = "change" /\ flows[s].state # "ok"
           /\ adding' = [adding EXCEPT ![flows[s].section] =
                            @ /\ (flows[s].orphan \/ flows[s].kind # "add")]
           /\ assigning' = (assigning /\ (flows[s].orphan \/ flows[s].kind # "assign"))
           /\ forms' \in [Identity!Sections -> Identity!Forms]
           /\ \A x \in Identity!Sections : forms[x] = Identity!Closed => forms'[x] = Identity!Closed
           /\ UNCHANGED <<added, lists, unsure>>
  <1> DEFINE q == flows[s]
  <1>1. IdentityFlowOK(q) /\ q # Identity!NoFlow /\ q.asks = "change" /\ q.state # "ok"
    BY IdentityFlow DEF Identity!ChangeFailed, Identity!Asking
  <1>2. flows' = [flows EXCEPT ![s] = Identity!NoFlow]
    BY DEF Identity!ChangeFailed
  <1>3. q.section \in Identity!Sections /\ forms \in [Identity!Sections -> Identity!Forms]
    BY <1>1 DEF IdentityFlowOK, Identity!Flow, IdentityInv, Identity!TypeOK
  <1>4. [forms[q.section] EXCEPT !.error = TRUE] \in Identity!Forms
    BY <1>3 DEF Identity!Forms
  <1>5. /\ forms' \in [Identity!Sections -> Identity!Forms]
        /\ \A x \in Identity!Sections : forms[x] = Identity!Closed => forms'[x] = Identity!Closed
    BY <1>3, <1>4 DEF Identity!ChangeFailed
  <1> QED
    BY <1>1, <1>2, <1>5, IdentityUpdate DEF Identity!ChangeFailed, Identity!Free

\* The flow of s ends with its load; the others go on, some of them orphaned.
LEMMA IdentityLoaded ==
    ASSUME IdentityInv, NEW s \in Slots, Identity!Loaded(s)
    PROVE  /\ flows' \in [Slots -> Identity!Flow \cup {Identity!NoFlow}]
           /\ IdentityFlowOK(flows[s]) /\ flows[s] # Identity!NoFlow /\ flows'[s] = Identity!NoFlow
           /\ flows[s].asks = "list" /\ flows[s].state # "sent"
           /\ \A t \in Slots : flows[t] = Identity!NoFlow => flows'[t] = Identity!NoFlow
           /\ \A t \in Slots \ {s} : flows[t] # Identity!NoFlow =>
                  /\ IdentityFlowOK(flows'[t]) /\ flows'[t] # Identity!NoFlow
                  /\ flows'[t].kind = flows[t].kind /\ flows'[t].section = flows[t].section
                  /\ flows'[t].asks = flows[t].asks /\ flows'[t].state = flows[t].state
                  /\ flows'[t].seen = flows[t].seen
                  /\ flows'[t].orphan <=> \/ flows[t].orphan
                                          \/ flows[t].kind = "add" /\ Identity!Gate(lists')
                                          \/ flows[t].kind = "assign" /\ ~Identity!Table(lists')
           /\ lists' = [lists EXCEPT ![flows[s].section] =
                  IF flows[s].state = "ok" THEN [kind |-> "ready", seen |-> flows[s].seen]
                  ELSE [kind |-> Identity!Classify(flows[s].state), seen |-> 0]]
           /\ UNCHANGED <<added, unsure>>
  <1> DEFINE gone(q) == \/ q.kind = "add" /\ Identity!Gate(lists')
                        \/ q.kind = "assign" /\ ~Identity!Table(lists')
             After(q) == [q EXCEPT !.orphan = @ \/ gone(q)]
  <1>1. IdentityFlowOK(flows[s]) /\ flows[s] # Identity!NoFlow /\ flows[s].asks = "list"
        /\ flows[s].state # "sent"
    BY IdentityFlow DEF Identity!Loaded, Identity!Asking
  <1>2. flows' = [t \in Slots |-> IF t = s \/ flows[t] = Identity!NoFlow THEN Identity!NoFlow
                                  ELSE After(flows[t])]
    BY DEF Identity!Loaded, Identity!Unmount
  <1>3. ASSUME NEW t \in Slots \ {s}, flows[t] # Identity!NoFlow
        PROVE  /\ IdentityFlowOK(flows'[t]) /\ flows'[t] # Identity!NoFlow /\ flows'[t] \in Identity!Flow
               /\ flows'[t].kind = flows[t].kind /\ flows'[t].section = flows[t].section
               /\ flows'[t].asks = flows[t].asks /\ flows'[t].state = flows[t].state
               /\ flows'[t].seen = flows[t].seen
               /\ flows'[t].orphan <=> flows[t].orphan \/ gone(flows[t])
    <2>1. IdentityFlowOK(flows[t])
      BY <1>3, IdentityFlow DEF Identity!Active
    <2>2. flows'[t] = After(flows[t])
      BY <1>2, <1>3
    <2>3. flows[t] \in Identity!Flow /\ gone(flows[t]) \in BOOLEAN
      BY <2>1 DEF IdentityFlowOK
    <2> HIDE DEF gone
    <2>4. /\ flows'[t] \in Identity!Flow
          /\ flows'[t].kind = flows[t].kind /\ flows'[t].section = flows[t].section
          /\ flows'[t].asks = flows[t].asks /\ flows'[t].state = flows[t].state
          /\ flows'[t].seen = flows[t].seen
          /\ flows'[t].orphan = (flows[t].orphan \/ gone(flows[t]))
      BY <2>2, <2>3 DEF Identity!Flow
    <2> QED
      BY <2>1, <2>4, IdentityFree DEF IdentityFlowOK
  <1>4. flows' \in [Slots -> Identity!Flow \cup {Identity!NoFlow}]
        /\ flows'[s] = Identity!NoFlow
        /\ \A t \in Slots : flows[t] = Identity!NoFlow => flows'[t] = Identity!NoFlow
    BY <1>2, <1>3
  <1>5. /\ lists' = [lists EXCEPT ![flows[s].section] =
                  IF flows[s].state = "ok" THEN [kind |-> "ready", seen |-> flows[s].seen]
                  ELSE [kind |-> Identity!Classify(flows[s].state), seen |-> 0]]
        /\ UNCHANGED <<added, unsure>>
    BY DEF Identity!Loaded
  <1> QED
    BY <1>1, <1>3, <1>4, <1>5

LEMMA IdentityOpens ==
    ASSUME Identity!Init
    PROVE  /\ IdentityInv
           /\ \A s \in Slots : flows[s] # Identity!NoFlow =>
                  flows[s].kind = "load" /\ flows[s].asks = "list" /\ flows[s].state = "sent"
           /\ \A x \in Identity!Sections : \E s \in Slots :
                  flows[s] # Identity!NoFlow /\ flows[s].section = x
  <1> DEFINE new(x) == Identity!Sent("load", x, "list")
  <1>1. PICK s, t \in Slots :
            /\ s # t
            /\ flows = [r \in Slots |-> CASE r = s -> new("users") [] r = t -> new("groups")
                                          [] OTHER -> Identity!NoFlow]
    BY DEF Identity!Init
  <1>2. 0 \in 0 .. MaxChanges
    BY ChangesBound
  <1>3. ASSUME NEW x \in Identity!Sections
        PROVE  /\ new(x) \in Identity!Flow /\ new(x).kind = "load" /\ new(x).asks = "list"
               /\ new(x).state = "sent" /\ new(x).section = x
    BY <1>2 DEF Identity!Sent, Identity!Flow
  <1> HIDE DEF new
  <1>4. "users" \in Identity!Sections /\ "groups" \in Identity!Sections
        /\ \A x \in Identity!Sections : x \in {"users", "groups"}
    BY DEF Identity!Sections
  <1>5. /\ flows[s] = new("users") /\ flows[t] = new("groups")
        /\ \A r \in Slots \ {s, t} : flows[r] = Identity!NoFlow
    BY <1>1
  <1>6. /\ flows \in [Slots -> Identity!Flow \cup {Identity!NoFlow}]
        /\ \A r \in Identity!Active : IdentityFlowOK(flows[r])
    <2>1. flows \in [Slots -> Identity!Flow \cup {Identity!NoFlow}]
      BY <1>1, <1>3, <1>4
    <2>2. \A r \in Slots : flows[r] = Identity!NoFlow \/ IdentityFlowOK(flows[r])
      BY <1>3, <1>4, <1>5 DEF IdentityFlowOK
    <2> QED
      BY <2>1, <2>2 DEF Identity!Active
  <1>7. Identity!TypeOK
    BY <1>2, <1>6 DEF Identity!Init, Identity!TypeOK, Identity!Kinds, Identity!Closed, Identity!Forms
  <1>8. IdentityInv
    BY <1>6, <1>7 DEF IdentityInv
  <1>9. new("users") # Identity!NoFlow /\ new("groups") # Identity!NoFlow
    BY <1>3, <1>4, IdentityFree
  <1> QED
    BY <1>3, <1>4, <1>5, <1>8, <1>9

LEMMA IdentityTyped ==
    ASSUME IdentityInv, Identity!Next \/ UNCHANGED Identity!vars
    PROVE  IdentityInv'
  <1>1. CASE UNCHANGED Identity!vars
    BY <1>1 DEF Identity!vars, Identity!page, IdentityInv, Identity!TypeOK, Identity!Active
  <1>2. ASSUME NEW x \in Identity!Sections, Identity!Dialog(x)
        PROVE  IdentityInv'
    <2>1. forms[x] \in Identity!Forms /\ forms \in [Identity!Sections -> Identity!Forms]
      BY DEF IdentityInv, Identity!TypeOK
    <2>2. /\ [draft |-> "blank", error |-> FALSE] \in Identity!Forms
          /\ Identity!Closed \in Identity!Forms
          /\ \A d \in {"blank", "named"} : [forms[x] EXCEPT !.draft = d] \in Identity!Forms
      BY <2>1 DEF Identity!Forms, Identity!Closed
    <2>3. forms' \in [Identity!Sections -> Identity!Forms]
      BY <1>2, <2>1, <2>2 DEF Identity!Dialog
    <2> QED
      BY <1>2, <2>3 DEF Identity!Dialog, IdentityInv, Identity!TypeOK, Identity!Active
  <1>3. ASSUME NEW s \in Slots, NEW x \in Identity!Sections, Identity!Add(s, x)
        PROVE  IdentityInv'
    <2>1. /\ flows' \in [Slots -> Identity!Flow \cup {Identity!NoFlow}]
          /\ \A t \in Identity!Active' : IdentityFlowOK(flows'[t])
      BY <1>3, IdentityBegins DEF Identity!Add
    <2>2. adding' \in [Identity!Sections -> BOOLEAN]
      BY <1>3 DEF Identity!Add, IdentityInv, Identity!TypeOK
    <2> QED
      BY <1>3, <2>1, <2>2 DEF Identity!Add, IdentityInv, Identity!TypeOK
  <1>4. ASSUME NEW s \in Slots, Identity!Assign(s)
        PROVE  IdentityInv'
    <2>1. /\ flows' \in [Slots -> Identity!Flow \cup {Identity!NoFlow}]
          /\ \A t \in Identity!Active' : IdentityFlowOK(flows'[t])
      BY <1>4, IdentityBegins DEF Identity!Assign, Identity!Sections
    <2> QED
      BY <1>4, <2>1 DEF Identity!Assign, IdentityInv, Identity!TypeOK
  <1>5. ASSUME NEW s \in Slots, Identity!Serve(s)
        PROVE  IdentityInv'
    BY <1>5, IdentityServed DEF IdentityInv, Identity!TypeOK
  <1>6. ASSUME NEW s \in Slots, Identity!ChangeDone(s)
        PROVE  IdentityInv'
    <2>1. Identity!Closed \in Identity!Forms
      BY DEF Identity!Closed, Identity!Forms
    <2>2. forms' \in [Identity!Sections -> Identity!Forms] /\ unsure' \in [Identity!Sections -> BOOLEAN]
      BY <1>6, <2>1, IdentityChanged DEF IdentityInv, Identity!TypeOK
    <2> QED
      BY <1>6, <2>2, IdentityChanged DEF IdentityInv, Identity!TypeOK
  <1>7. ASSUME NEW s \in Slots, Identity!ChangeFailed(s)
        PROVE  IdentityInv'
    <2>1. adding' \in [Identity!Sections -> BOOLEAN] /\ assigning' \in BOOLEAN
      BY <1>7, IdentityFailed DEF IdentityInv, Identity!TypeOK
    <2> QED
      BY <1>7, <2>1, IdentityFailed DEF IdentityInv, Identity!TypeOK
  <1>8. ASSUME NEW s \in Slots, Identity!Loaded(s)
        PROVE  IdentityInv'
    <2>1. \A t \in Identity!Active' : IdentityFlowOK(flows'[t])
      BY <1>8, IdentityLoaded DEF Identity!Active
    <2>2. adding' \in [Identity!Sections -> BOOLEAN] /\ assigning' \in BOOLEAN
      BY <1>8 DEF Identity!Loaded, Identity!Unmount
    <2>3. forms' \in [Identity!Sections -> Identity!Forms]
      BY <1>8 DEF Identity!Loaded, Identity!Unmount, Identity!Closed, Identity!Forms, IdentityInv, Identity!TypeOK
    <2>4. lists' \in [Identity!Sections -> [kind : Identity!Kinds, seen : 0 .. MaxChanges]]
      <3>1. flows[s] \in Identity!Flow /\ 0 \in 0 .. MaxChanges
        <4>1. IdentityFlowOK(flows[s])
          BY <1>8, IdentityLoaded
        <4> QED
          BY <4>1, ChangesBound DEF IdentityFlowOK
      <3>2. [kind |-> "ready", seen |-> flows[s].seen] \in [kind : Identity!Kinds, seen : 0 .. MaxChanges]
        BY <3>1 DEF Identity!Flow, Identity!Kinds
      <3>3. [kind |-> Identity!Classify(flows[s].state), seen |-> 0]
                \in [kind : Identity!Kinds, seen : 0 .. MaxChanges]
        BY <3>1 DEF Identity!Kinds, Identity!Classify
      <3> QED
        BY <1>8, <3>2, <3>3 DEF Identity!Loaded, IdentityInv, Identity!TypeOK
    <2> QED
      BY <1>8, <2>1, <2>2, <2>3, <2>4, IdentityLoaded DEF IdentityInv, Identity!TypeOK
  <1> QED
    BY <1>1, <1>2, <1>3, <1>4, <1>5, <1>6, <1>7, <1>8 DEF Identity!Next

\* A flag stands for one flow whose component is still there; behind the takeover
\* no dialog is open.
IdentityMine(s, kind, x) ==
    flows[s].kind = kind /\ flows[s].section = x /\ ~flows[s].orphan

IdentityBusy ==
    /\ \A x \in Identity!Sections :
           /\ adding[x] <=> \E s \in Slots : IdentityMine(s, "add", x)
           /\ \A s, t \in Slots : IdentityMine(s, "add", x) /\ IdentityMine(t, "add", x) => s = t
    /\ assigning <=> \E s \in Slots : IdentityMine(s, "assign", "users")
    /\ \A s, t \in Slots : IdentityMine(s, "assign", "users") /\ IdentityMine(t, "assign", "users") => s = t
    /\ Identity!Gate(lists) => \A x \in Identity!Sections : forms[x] = Identity!Closed

LEMMA IdentityBusyMeans ==
    ASSUME IdentityInv, IdentityBusy
    PROVE  Identity!BusyIsWorking
  <1> DEFINE mine(kind, x) ==
                 {s \in Identity!Active : flows[s].kind = kind /\ flows[s].section = x /\ ~flows[s].orphan}
  <1>1. ASSUME NEW kind \in {"add", "assign"}, NEW x
        PROVE  mine(kind, x) = {s \in Slots : IdentityMine(s, kind, x)}
    BY <1>1, IdentityFree DEF Identity!Active, IdentityMine
  <1>2. ASSUME NEW x \in Identity!Sections
        PROVE  (adding[x] <=> mine("add", x) # {}) /\ Cardinality(mine("add", x)) <= 1
    <2>1. mine("add", x) = {s \in Slots : IdentityMine(s, "add", x)}
      BY <1>1
    <2>2. \A s, t \in mine("add", x) : s = t
      BY <2>1 DEF IdentityBusy
    <2>3. adding[x] <=> mine("add", x) # {}
      BY <2>1 DEF IdentityBusy
    <2> HIDE DEF mine
    <2> QED
      BY <2>2, <2>3, AtMostOne
  <1>3. assigning <=> mine("assign", "users") # {}
    BY <1>1 DEF IdentityBusy
  <1>4. Identity!Gate(lists) => \A x \in Identity!Sections : forms[x] = Identity!Closed
    BY DEF IdentityBusy
  <1> QED
    BY <1>2, <1>3, <1>4, Counting DEF Identity!BusyIsWorking

LEMMA IdentityBusyKept ==
    ASSUME IdentityInv, IdentityBusy, Identity!Next \/ UNCHANGED Identity!vars
    PROVE  IdentityBusy'
  <1> USE DEF IdentityMine
  <1>1. /\ adding \in [Identity!Sections -> BOOLEAN] /\ assigning \in BOOLEAN
        /\ forms \in [Identity!Sections -> Identity!Forms]
    BY DEF IdentityInv, Identity!TypeOK
  <1>2. CASE UNCHANGED Identity!vars
    BY <1>2 DEF Identity!vars, Identity!page, IdentityBusy
  <1>3. ASSUME NEW x \in Identity!Sections, Identity!Dialog(x)
        PROVE  IdentityBusy'
    BY <1>3 DEF Identity!Dialog, IdentityBusy
  <1>4. ASSUME NEW s \in Slots, NEW x \in Identity!Sections, Identity!Add(s, x)
        PROVE  IdentityBusy'
    <2>1. /\ \A t \in Slots \ {s} : flows'[t] = flows[t]
          /\ flows[s].kind = "none"
          /\ flows'[s].kind = "add" /\ flows'[s].section = x /\ ~flows'[s].orphan
      BY <1>4, IdentityBegins, IdentityFree DEF Identity!Add
    <2>2. /\ ~adding[x] /\ adding'[x] /\ \A y \in Identity!Sections \ {x} : adding'[y] = adding[y]
          /\ UNCHANGED <<lists, forms, assigning>>
      BY <1>1, <1>4 DEF Identity!Add
    <2> QED
      BY <2>1, <2>2 DEF IdentityBusy
  <1>5. ASSUME NEW s \in Slots, Identity!Assign(s)
        PROVE  IdentityBusy'
    <2>1. /\ \A t \in Slots \ {s} : flows'[t] = flows[t]
          /\ flows[s].kind = "none"
          /\ flows'[s].kind = "assign" /\ flows'[s].section = "users" /\ ~flows'[s].orphan
      BY <1>5, IdentityBegins, IdentityFree DEF Identity!Assign, Identity!Sections
    <2>2. ~assigning /\ assigning' /\ UNCHANGED <<lists, forms, adding>>
      BY <1>5 DEF Identity!Assign
    <2> QED
      BY <2>1, <2>2 DEF IdentityBusy
  <1>6. ASSUME NEW s \in Slots, Identity!Serve(s) \/ Identity!ChangeDone(s)
        PROVE  IdentityBusy'
    <2>1. /\ \A t \in Slots \ {s} : flows'[t] = flows[t]
          /\ flows'[s].kind = flows[s].kind /\ flows'[s].section = flows[s].section
          /\ flows'[s].orphan = flows[s].orphan
          /\ UNCHANGED <<lists, adding, assigning>>
      BY <1>6, IdentityServed, IdentityChanged
    <2>2. \A t \in Slots : \A kind, x : IdentityMine(t, kind, x)' <=> IdentityMine(t, kind, x)
      BY <2>1
    <2>3. \A x \in Identity!Sections : forms[x] = Identity!Closed => forms'[x] = Identity!Closed
      <3>1. forms' = forms \/ forms' = [forms EXCEPT ![flows[s].section] = Identity!Closed]
        BY <1>6, IdentityServed, IdentityChanged
      <3> QED
        BY <1>1, <3>1
    <2> HIDE DEF IdentityMine
    <2> QED
      BY <2>1, <2>2, <2>3 DEF IdentityBusy, Identity!Gate
  <1>7. ASSUME NEW s \in Slots, Identity!ChangeFailed(s)
        PROVE  IdentityBusy'
    <2>1. /\ \A t \in Slots \ {s} : flows'[t] = flows[t]
          /\ flows'[s].kind = "none" /\ IdentityFlowOK(flows[s])
          /\ \A x \in Identity!Sections : forms[x] = Identity!Closed => forms'[x] = Identity!Closed
          /\ lists' = lists
      BY <1>7, IdentityFailed, IdentityFree
    <2>2. /\ \A x \in Identity!Sections : adding'[x] <=> adding[x] /\ ~IdentityMine(s, "add", x)
          /\ assigning' <=> assigning /\ ~IdentityMine(s, "assign", "users")
      <3>1. /\ adding' = [adding EXCEPT ![flows[s].section] = @ /\ (flows[s].orphan \/ flows[s].kind # "add")]
            /\ assigning' = (assigning /\ (flows[s].orphan \/ flows[s].kind # "assign"))
        BY <1>7, IdentityFailed
      <3>2. flows[s].section \in Identity!Sections /\ (flows[s].kind = "assign" => flows[s].section = "users")
        BY <2>1 DEF IdentityFlowOK, Identity!Flow
      <3> QED
        BY <1>1, <3>1, <3>2
    <2>3. \A t \in Slots, kind \in {"add", "assign"} : \A x :
              IdentityMine(t, kind, x)' <=> IdentityMine(t, kind, x) /\ t # s
      BY <2>1
    <2> HIDE DEF IdentityMine
    <2> QED
      BY <2>1, <2>2, <2>3 DEF IdentityBusy, Identity!Gate
  <1>8. ASSUME NEW s \in Slots, Identity!Loaded(s)
        PROVE  IdentityBusy'
    <2> DEFINE gone(kind) == \/ kind = "add" /\ Identity!Gate(lists')
                             \/ kind = "assign" /\ ~Identity!Table(lists')
    <2>1. IdentityFlowOK(flows[s])
      BY <1>8, IdentityLoaded
    <2>2. \A t \in Slots, kind \in {"add", "assign"} : \A x :
              IdentityMine(t, kind, x)' <=> IdentityMine(t, kind, x) /\ t # s /\ ~gone(kind)
      <3> SUFFICES ASSUME NEW t \in Slots, NEW kind \in {"add", "assign"}, NEW x
                   PROVE  IdentityMine(t, kind, x)' <=> IdentityMine(t, kind, x) /\ t # s /\ ~gone(kind)
        OBVIOUS
      <3>1. CASE flows[t] = Identity!NoFlow \/ t = s
        <4>1. flows'[t] = Identity!NoFlow
          BY <1>8, <3>1, IdentityLoaded
        <4> QED
          BY <3>1, <4>1, IdentityFree
      <3>2. CASE flows[t] # Identity!NoFlow /\ t # s
        <4>1. /\ flows'[t].kind = flows[t].kind /\ flows'[t].section = flows[t].section
              /\ flows'[t].orphan <=> flows[t].orphan \/ gone(flows[t].kind)
          BY <1>8, <3>2, IdentityLoaded
        <4> QED
          BY <3>2, <4>1
      <3> QED
        BY <3>1, <3>2
    <2>3. /\ \A x \in Identity!Sections : adding'[x] <=> adding[x] /\ ~IdentityMine(s, "add", x) /\ ~gone("add")
          /\ assigning' <=> assigning /\ ~IdentityMine(s, "assign", "users") /\ ~gone("assign")
      <3>1. flows[s].kind = "assign" => flows[s].section = "users"
        BY <2>1 DEF IdentityFlowOK
      <3> QED
        BY <1>1, <1>8, <3>1 DEF Identity!Loaded, Identity!Unmount
    <2>4. Identity!Gate(lists)' => \A x \in Identity!Sections : forms'[x] = Identity!Closed
      BY <1>8 DEF Identity!Loaded, Identity!Unmount, Identity!Gate
    <2> HIDE DEF IdentityMine, gone
    <2> QED
      BY <2>2, <2>3, <2>4 DEF IdentityBusy
  <1> QED
    BY <1>2, <1>3, <1>4, <1>5, <1>6, <1>7, <1>8 DEF Identity!Next

\* Where no answer was lost and no change is waiting for its load, a list of a
\* section that was read has all that was added there, and so has the list shown
\* once none is under way.
IdentityWaits(s, x) ==
    s \in Identity!Asking("change") /\ flows[s].section = x /\ flows[s].state = "ok"

IdentityCurrent ==
    \A x \in Identity!Sections :
        ~unsure[x] /\ (\A s \in Slots : ~IdentityWaits(s, x)) =>
            /\ \A s \in Identity!Loading(x) : flows[s].state = "ok" => flows[s].seen = added[x]
            /\ Identity!Loading(x) = {} /\ lists[x].kind = "ready" => lists[x].seen = added[x]

LEMMA IdentityCurrentKept ==
    ASSUME IdentityInv, IdentityCurrent, Identity!Next \/ UNCHANGED Identity!vars
    PROVE  IdentityCurrent'
  <1> USE DEF IdentityWaits, Identity!Loading, Identity!Asking, Identity!Active
  <1>1. /\ unsure \in [Identity!Sections -> BOOLEAN]
        /\ lists \in [Identity!Sections -> [kind : Identity!Kinds, seen : 0 .. MaxChanges]]
    BY DEF IdentityInv, Identity!TypeOK
  <1>2. CASE UNCHANGED <<added, lists, flows, unsure>>
    BY <1>2 DEF IdentityCurrent
  <1>3. ASSUME NEW s \in Slots, Identity!Assign(s) \/ \E x \in Identity!Sections : Identity!Add(s, x)
        PROVE  IdentityCurrent'
    <2>1. /\ \A t \in Slots \ {s} : flows'[t] = flows[t]
          /\ flows[s] = Identity!NoFlow /\ flows'[s] # Identity!NoFlow
          /\ flows'[s].asks = "change" /\ flows'[s].state = "sent"
          /\ UNCHANGED <<added, lists, unsure>>
      BY <1>3, IdentityBegins DEF Identity!Add, Identity!Assign, Identity!Sections
    <2>2. \A t \in Slots : \A x : IdentityWaits(t, x)' <=> IdentityWaits(t, x)
      BY <2>1
    <2>3. \A x : Identity!Loading(x)' = Identity!Loading(x)
      BY <2>1
    <2>4. \A x : \A t \in Identity!Loading(x) : flows'[t] = flows[t]
      BY <2>1
    <2> QED
      BY <2>1, <2>2, <2>3, <2>4 DEF IdentityCurrent
  <1>4. ASSUME NEW s \in Slots, Identity!Serve(s)
        PROVE  IdentityCurrent'
    <2>1. /\ \A t \in Slots \ {s} : flows'[t] = flows[t]
          /\ flows[s] # Identity!NoFlow /\ flows'[s] # Identity!NoFlow
          /\ flows'[s].section = flows[s].section /\ flows'[s].asks = flows[s].asks
          /\ flows[s].state = "sent" /\ UNCHANGED lists
      BY <1>4, IdentityServed
    <2>2. \A x : Identity!Loading(x)' = Identity!Loading(x)
      BY <2>1
    <2>3. \A x : \A t \in Identity!Loading(x) : t # s => flows'[t] = flows[t]
      BY <2>1
    <2>4. CASE /\ flows[s].asks = "list" /\ UNCHANGED <<added, unsure>>
               /\ flows'[s].state = "ok" => flows'[s].seen = added[flows[s].section]
      <3>1. \A t \in Slots : \A x : IdentityWaits(t, x)' <=> IdentityWaits(t, x)
        BY <2>1, <2>4
      <3> QED
        BY <2>1, <2>2, <2>3, <2>4, <3>1 DEF IdentityCurrent
    <2>5. CASE flows[s].asks = "change" /\ flows'[s].state # "ok" /\ UNCHANGED <<added, unsure>>
      <3>1. \A t \in Slots : \A x : IdentityWaits(t, x)' <=> IdentityWaits(t, x)
        BY <2>1, <2>5
      <3>2. \A x : \A t \in Identity!Loading(x) : flows'[t] = flows[t]
        BY <2>1, <2>5
      <3> QED
        BY <2>1, <2>2, <2>5, <3>1, <3>2 DEF IdentityCurrent
    <2>6. CASE /\ flows[s].asks = "change"
               /\ flows'[s].state = "ok" \/ unsure'[flows[s].section]
               /\ \A x \in Identity!Sections \ {flows[s].section} :
                      added'[x] = added[x] /\ unsure'[x] = unsure[x]
      <3>1. ASSUME NEW x \in Identity!Sections, x # flows[s].section
            PROVE  /\ \A t \in Slots : IdentityWaits(t, x)' <=> IdentityWaits(t, x)
                   /\ added'[x] = added[x] /\ unsure'[x] = unsure[x]
        BY <2>1, <2>6, <3>1
      <3>2. \A x : \A t \in Identity!Loading(x) : flows'[t] = flows[t]
        BY <2>1, <2>6
      <3>3. unsure'[flows[s].section] \/ IdentityWaits(s, flows[s].section)'
        BY <2>1, <2>6
      <3> QED
        BY <2>1, <2>2, <3>1, <3>2, <3>3 DEF IdentityCurrent
    <2> QED
      BY <1>4, <2>4, <2>5, <2>6, IdentityServed
  <1>5. ASSUME NEW s \in Slots, Identity!ChangeDone(s)
        PROVE  IdentityCurrent'
    <2> DEFINE q == flows[s]
    <2>1. /\ \A t \in Slots \ {s} : flows'[t] = flows[t]
          /\ q # Identity!NoFlow /\ flows'[s] # Identity!NoFlow
          /\ flows'[s].section = q.section /\ q.section \in Identity!Sections
          /\ q.asks = "change" /\ flows'[s].asks = "list" /\ flows'[s].state = "sent"
          /\ unsure' = [unsure EXCEPT ![q.section] = Identity!Loading(q.section) # {}]
          /\ UNCHANGED <<added, lists>>
      <3>1. IdentityFlowOK(q)
        BY <1>5, IdentityChanged
      <3> QED
        BY <1>5, <3>1, IdentityChanged DEF IdentityFlowOK, Identity!Flow
    <2>2. unsure'[q.section] <=> Identity!Loading(q.section) # {}
      BY <1>1, <2>1
    <2>3. Identity!Loading(q.section)' = Identity!Loading(q.section) \cup {s}
      BY <2>1
    <2>4. ASSUME NEW x \in Identity!Sections, x # q.section
          PROVE  /\ \A t \in Slots : IdentityWaits(t, x)' <=> IdentityWaits(t, x)
                 /\ unsure'[x] = unsure[x]
                 /\ Identity!Loading(x)' = Identity!Loading(x)
                 /\ \A t \in Identity!Loading(x) : flows'[t] = flows[t]
      BY <1>1, <2>1, <2>4
    <2>5. ~unsure'[q.section] => \A t \in Identity!Loading(q.section)' : flows'[t].state # "ok"
      BY <2>1, <2>2, <2>3
    <2>6. Identity!Loading(q.section)' # {}
      BY <2>3
    <2> HIDE DEF Identity!Loading, IdentityWaits
    <2> QED
      BY <2>1, <2>4, <2>5, <2>6 DEF IdentityCurrent
  <1>6. ASSUME NEW s \in Slots, Identity!ChangeFailed(s)
        PROVE  IdentityCurrent'
    <2>1. /\ \A t \in Slots \ {s} : flows'[t] = flows[t]
          /\ flows[s] # Identity!NoFlow /\ flows'[s] = Identity!NoFlow
          /\ flows[s].asks = "change" /\ flows[s].state # "ok"
          /\ UNCHANGED <<added, lists, unsure>>
      BY <1>6, IdentityFailed
    <2>2. \A t \in Slots : \A x : IdentityWaits(t, x)' <=> IdentityWaits(t, x)
      BY <2>1
    <2>3. \A x : Identity!Loading(x)' = Identity!Loading(x)
      BY <2>1
    <2>4. \A x : \A t \in Identity!Loading(x) : flows'[t] = flows[t]
      BY <2>1
    <2> QED
      BY <2>1, <2>2, <2>3, <2>4 DEF IdentityCurrent
  <1>7. ASSUME NEW s \in Slots, Identity!Loaded(s)
        PROVE  IdentityCurrent'
    <2> DEFINE q == flows[s]
    <2>1. /\ flows'[s] = Identity!NoFlow /\ q # Identity!NoFlow /\ q.asks = "list"
          /\ UNCHANGED <<added, unsure>>
      BY <1>7, IdentityLoaded
    <2>2. \A t \in Slots : flows[t] = Identity!NoFlow => flows'[t] = Identity!NoFlow
      BY <1>7, IdentityLoaded
    <2>3. \A t \in Slots \ {s} : flows[t] # Identity!NoFlow =>
              /\ flows'[t] # Identity!NoFlow /\ flows'[t].section = flows[t].section
              /\ flows'[t].asks = flows[t].asks /\ flows'[t].state = flows[t].state
              /\ flows'[t].seen = flows[t].seen
      BY <1>7, IdentityLoaded
    <2>4. \A t \in Slots : \A x : IdentityWaits(t, x)' <=> IdentityWaits(t, x)
      BY <2>1, <2>2, <2>3
    <2>5. \A x : Identity!Loading(x)' = Identity!Loading(x) \ {s}
      BY <2>1, <2>2, <2>3
    <2>6. \A x : \A t \in Identity!Loading(x) \ {s} :
              flows'[t].state = flows[t].state /\ flows'[t].seen = flows[t].seen
      BY <2>3
    <2>7. s \in Identity!Loading(q.section)
      BY <2>1
    <2>8. q.section \in Identity!Sections /\ \A x \in Identity!Sections \ {q.section} :
              lists'[x] = lists[x] /\ Identity!Loading(x)' = Identity!Loading(x)
      <3>1. IdentityFlowOK(q)
        BY <1>7, IdentityLoaded
      <3>2. q.section \in Identity!Sections
        BY <3>1 DEF IdentityFlowOK, Identity!Flow
      <3>3. \A x \in Identity!Sections \ {q.section} : lists'[x] = lists[x]
        BY <1>1, <1>7, <3>2 DEF Identity!Loaded
      <3>4. \A x \in Identity!Sections \ {q.section} : s \notin Identity!Loading(x)
        BY <2>1
      <3> QED
        BY <2>5, <3>2, <3>3, <3>4
    <2>9. lists'[q.section].kind = "ready" => q.state = "ok" /\ lists'[q.section].seen = q.seen
      <3>1. lists'[q.section] = IF q.state = "ok" THEN [kind |-> "ready", seen |-> q.seen]
                                ELSE [kind |-> Identity!Classify(q.state), seen |-> 0]
        BY <1>1, <1>7, <2>8 DEF Identity!Loaded
      <3>2. Identity!Classify(q.state) # "ready"
        BY DEF Identity!Classify
      <3> QED
        BY <3>1, <3>2
    <2>10. PICK own \in Identity!Sections : own = q.section
      BY <2>8
    <2> HIDE DEF Identity!Loading, IdentityWaits
    <2>11. ASSUME NEW x \in Identity!Sections, x # own, ~unsure'[x],
                  \A t \in Slots : ~IdentityWaits(t, x)'
           PROVE  /\ \A t \in Identity!Loading(x)' : flows'[t].state = "ok" => flows'[t].seen = added'[x]
                  /\ Identity!Loading(x)' = {} /\ lists'[x].kind = "ready" => lists'[x].seen = added'[x]
      BY <2>1, <2>4, <2>5, <2>6, <2>8, <2>11, <2>10 DEF IdentityCurrent
    <2>12. ASSUME ~unsure'[own], \A t \in Slots : ~IdentityWaits(t, own)'
           PROVE  /\ \A t \in Identity!Loading(own)' :
                         flows'[t].state = "ok" => flows'[t].seen = added'[own]
                  /\ lists'[own].kind = "ready" => lists'[own].seen = added'[own]
      <3>1. ~unsure[own] /\ \A t \in Slots : ~IdentityWaits(t, own)
        BY <2>1, <2>4, <2>12
      <3>2. \A t \in Identity!Loading(own) : flows[t].state = "ok" => flows[t].seen = added[own]
        BY <3>1 DEF IdentityCurrent
      <3>3. lists'[own].kind = "ready" => lists'[own].seen = added[own]
        BY <2>7, <2>9, <2>10, <3>2
      <3> QED
        BY <2>1, <2>5, <2>6, <3>2, <3>3
    <2>13. ASSUME NEW x \in Identity!Sections, ~unsure'[x], \A t \in Slots : ~IdentityWaits(t, x)'
           PROVE  /\ \A t \in Identity!Loading(x)' : flows'[t].state = "ok" => flows'[t].seen = added'[x]
                  /\ Identity!Loading(x)' = {} /\ lists'[x].kind = "ready" => lists'[x].seen = added'[x]
      <3>1. CASE x = own
        BY <2>12, <2>13, <3>1
      <3>2. CASE x # own
        BY <2>11, <2>13, <3>2
      <3> QED
        BY <3>1, <3>2
    <2> QED
      BY <2>13 DEF IdentityCurrent
  <1>8. CASE UNCHANGED Identity!vars \/ \E x \in Identity!Sections : Identity!Dialog(x)
    BY <1>2, <1>8 DEF Identity!vars, Identity!page, Identity!Dialog
  <1> QED
    BY <1>3, <1>4, <1>5, <1>6, <1>7, <1>8 DEF Identity!Next

LEMMA IdentityHolds ==
    Spec => [](Is("identity") => IdentityInv /\ IdentityBusy /\ IdentityCurrent)
  <1> DEFINE Inv == Is("identity") => IdentityInv /\ IdentityBusy /\ IdentityCurrent
  <1>1. Init => Inv
    <2> SUFFICES ASSUME Identity!Init
                 PROVE  IdentityInv /\ IdentityBusy /\ IdentityCurrent
      BY DEF Init
    <2>1. \A s \in Slots : flows[s].kind \notin {"add", "assign"}
      BY IdentityOpens, IdentityFree
    <2>2. IdentityBusy
      <3>1. \A s \in Slots : \A x : ~IdentityMine(s, "add", x) /\ ~IdentityMine(s, "assign", x)
        BY <2>1 DEF IdentityMine
      <3>2. /\ \A x \in Identity!Sections : adding[x] = FALSE /\ lists[x].kind = "loading"
            /\ assigning = FALSE /\ "users" \in Identity!Sections
        BY DEF Identity!Init, Identity!Sections
      <3> QED
        BY <3>1, <3>2 DEF IdentityBusy, Identity!Gate
    <2>3. \A x \in Identity!Sections : lists[x].kind = "loading"
      BY DEF Identity!Init
    <2>4. IdentityCurrent
      BY <2>3, IdentityOpens DEF IdentityCurrent, Identity!Loading, Identity!Asking, Identity!Active
    <2> QED
      BY <2>2, <2>4, IdentityOpens
  <1>2. Inv /\ [Next]_vars => Inv'
    BY IdentityTurn, IdentityTyped, IdentityBusyKept, IdentityCurrentKept
  <1> QED
    BY <1>1, <1>2, PTL DEF Spec

\* A list that is shown when nothing is under way has all the users, or the
\* groups, that this page has added, unless loads of it have overlapped or an
\* answer was lost (IdentityView: createUser, createGroup, reload).
THEOREM AddedIsListed == Spec => []IdentityAddedIsShown
  <1>1. (Is("identity") => IdentityInv /\ IdentityBusy /\ IdentityCurrent) => IdentityAddedIsShown
    <2> SUFFICES ASSUME IdentityCurrent, Identity!Active = {}, NEW x \in Identity!Sections,
                        lists[x].kind = "ready", ~unsure[x]
                 PROVE  lists[x].seen = added[x]
      BY DEF IdentityAddedIsShown, Identity!AddedIsShown
    <2>1. Identity!Loading(x) = {} /\ \A s \in Slots : ~IdentityWaits(s, x)
      BY DEF Identity!Loading, Identity!Asking, IdentityWaits
    <2> QED
      BY <2>1 DEF IdentityCurrent
  <1> QED
    BY <1>1, IdentityHolds, PTL

LEMMA IdentityTakenOver ==
    ASSUME IdentityInv, Identity!Next \/ UNCHANGED Identity!vars
    PROVE  Identity!TakeoverByUsersOnly
  <1>1. CASE lists' = lists
    BY <1>1 DEF Identity!TakeoverByUsersOnly, Identity!Gate
  <1>2. ASSUME NEW s \in Slots, Identity!Loaded(s)
        PROVE  Identity!TakeoverByUsersOnly
    <2> DEFINE q == flows[s]
    <2>1. /\ IdentityFlowOK(q) /\ q # Identity!NoFlow /\ flows'[s] = Identity!NoFlow /\ q.asks = "list"
          /\ lists' = [lists EXCEPT ![q.section] =
                 IF q.state = "ok" THEN [kind |-> "ready", seen |-> q.seen]
                 ELSE [kind |-> Identity!Classify(q.state), seen |-> 0]]
      BY <1>2, IdentityLoaded
    <2>2. "users" \in Identity!Sections /\ lists \in [Identity!Sections -> [kind : Identity!Kinds, seen : 0 .. MaxChanges]]
      BY DEF Identity!Sections, IdentityInv, Identity!TypeOK
    <2>3. CASE q.section # "users"
      <3>1. lists'["users"] = lists["users"]
        BY <2>1, <2>2, <2>3
      <3> QED
        BY <3>1 DEF Identity!TakeoverByUsersOnly, Identity!Gate
    <2>4. CASE q.section = "users"
      <3>1. lists'["users"].kind = IF q.state = "ok" THEN "ready" ELSE Identity!Classify(q.state)
        BY <2>1, <2>2, <2>4
      <3>2. Identity!Gate(lists)' <=> q.state \in {"forbidden", "unconfigured"}
        BY <3>1 DEF Identity!Gate, Identity!Classify
      <3>3. s \in Identity!Loading("users")
        BY <2>1, <2>4 DEF Identity!Loading, Identity!Asking, Identity!Active
      <3> QED
        BY <2>1, <3>2, <3>3 DEF Identity!TakeoverByUsersOnly
    <2> QED
      BY <2>3, <2>4
  <1>3. CASE \E s \in Slots : Identity!Serve(s) \/ Identity!ChangeDone(s) \/ Identity!ChangeFailed(s)
    <2>1. lists' = lists
      BY <1>3 DEF Identity!Serve, Identity!ChangeDone, Identity!ChangeFailed, Identity!page
    <2> QED
      BY <1>1, <2>1
  <1>4. CASE \/ UNCHANGED Identity!vars \/ \E x \in Identity!Sections : Identity!Dialog(x)
             \/ \E s \in Slots : Identity!Assign(s) \/ \E x \in Identity!Sections : Identity!Add(s, x)
    <2>1. lists' = lists
      BY <1>4 DEF Identity!vars, Identity!page, Identity!Dialog, Identity!Assign, Identity!Add
    <2> QED
      BY <1>1, <2>1
  <1> QED
    BY <1>2, <1>3, <1>4 DEF Identity!Next

\* The full-page takeover comes and goes with the answer to a load of the users,
\* and with nothing else (IdentityView: classify, loadUsers).
THEOREM TakeoverIsByUsers == Spec => IdentityTakeoverByUsersOnly
  <1>1. (Is("identity") => IdentityInv /\ IdentityBusy /\ IdentityCurrent) /\ [Next]_vars
            => [Is("identity") => Identity!TakeoverByUsersOnly]_vars
    BY IdentityTakenOver DEF Next, Is, IdentityStep, PermissionsStep, CatalogStep, NotebooksStep, DrawerStep
  <1> QED
    BY <1>1, IdentityHolds, PTL DEF Spec, IdentityTakeoverByUsersOnly

-----------------------------------------------------------------------------
(* CatalogView: paths and ids.                                             *)

\* The elements of what two sequences make.
LEMMA ConcatElements ==
    ASSUME NEW S, NEW s \in Seq(S), NEW t \in Seq(S)
    PROVE  /\ s \o t \in Seq(S) /\ Len(s \o t) = Len(s) + Len(t)
           /\ \A i \in 1 .. Len(s) : (s \o t)[i] = s[i]
           /\ \A i \in 1 .. Len(t) : (s \o t)[Len(s) + i] = t[i]
  <1>1. Len(s) \in Nat /\ Len(t) \in Nat
    OBVIOUS
  <1>2. \A i \in 1 .. Len(s) : i \in 1 .. Len(s) + Len(t) /\ i <= Len(s)
    BY <1>1
  <1>3. \A i \in 1 .. Len(t) :
            Len(s) + i \in 1 .. Len(s) + Len(t) /\ ~(Len(s) + i <= Len(s)) /\ Len(s) + i - Len(s) = i
    BY <1>1
  <1> QED
    BY <1>2, <1>3, ConcatProperties

Glued(nul, a, x) == a \o <<nul>> \o x

\* What two sequences are joined to by a separator.
LEMMA Joined ==
    ASSUME NEW S, NEW nul \in S, NEW n \in Seq(S), NEW z \in Seq(S), NEW w, w = n \o <<nul>> \o z
    PROVE  /\ Len(w) = Len(n) + 1 + Len(z)
           /\ \A i \in 1 .. Len(n) : w[i] = n[i]
           /\ w[Len(n) + 1] = nul
           /\ \A i \in 1 .. Len(z) : w[Len(n) + 1 + i] = z[i]
  <1>1. PICK one \in Seq(S) : one = <<nul>> /\ Len(one) = 1 /\ one[1] = nul
    <2>1. <<nul>> \in Seq(S) /\ Len(<<nul>>) = 1 /\ <<nul>>[1] = nul
      OBVIOUS
    <2> QED
      BY <2>1
  <1>2. PICK v \in Seq(S) : v = n \o one
    BY ConcatProperties
  <1>3. PICK u \in Seq(S) : u = v \o z
    BY ConcatProperties
  <1>4. w = u
    BY <1>1, <1>2, <1>3
  <1>5. /\ Len(v) = Len(n) + Len(one)
        /\ \A i \in 1 .. Len(n) : v[i] = n[i]
        /\ \A i \in 1 .. Len(one) : v[Len(n) + i] = one[i]
    BY <1>2, ConcatElements
  <1>6. /\ Len(u) = Len(v) + Len(z)
        /\ \A i \in 1 .. Len(v) : u[i] = v[i]
        /\ \A i \in 1 .. Len(z) : u[Len(v) + i] = z[i]
    BY <1>3, ConcatElements
  <1>7. Len(n) \in Nat /\ Len(z) \in Nat
    OBVIOUS
  <1>8. Len(v) = Len(n) + 1 /\ v[Len(n) + 1] = nul
    BY <1>1, <1>5, <1>7
  <1>9. \A i \in 1 .. Len(n) : i \in 1 .. Len(v)
    BY <1>7, <1>8
  <1>10. Len(n) + 1 \in 1 .. Len(v)
    BY <1>7, <1>8
  <1>11. \A i \in 1 .. Len(n) : u[i] = n[i]
    BY <1>5, <1>6, <1>9
  <1>12. u[Len(n) + 1] = nul
    BY <1>6, <1>8, <1>10
  <1>13. Len(u) = Len(n) + 1 + Len(z) /\ \A i \in 1 .. Len(z) : u[Len(n) + 1 + i] = z[i]
    BY <1>6, <1>8
  <1> QED
    BY <1>4, <1>11, <1>12, <1>13

\* What was joined is split at the first separator.
LEMMA SplitAtFirst ==
    ASSUME NEW S, NEW nul \in S, NEW a \in Seq(S), NEW b \in Seq(S), NEW x \in Seq(S), NEW y \in Seq(S),
           \A i \in 1 .. Len(a) : a[i] # nul, \A i \in 1 .. Len(b) : b[i] # nul,
           Glued(nul, a, x) = Glued(nul, b, y)
    PROVE  a = b /\ x = y
  <1> DEFINE v == Glued(nul, a, x)
             Splits(n, z) == v = Glued(nul, n, z)
  <1>1. ASSUME NEW n \in Seq(S), NEW z \in Seq(S), Splits(n, z)
        PROVE  /\ Len(v) = Len(n) + 1 + Len(z) /\ v[Len(n) + 1] = nul
               /\ \A i \in 1 .. Len(n) : v[i] = n[i]
               /\ \A i \in 1 .. Len(z) : v[Len(n) + 1 + i] = z[i]
    <2> HIDE DEF v
    <2> QED
      BY <1>1, Joined DEF Glued
  <1>0. Splits(a, x) /\ Splits(b, y)
    OBVIOUS
  <1> HIDE DEF v, Splits
  <1>2. /\ Len(v) = Len(a) + 1 + Len(x) /\ v[Len(a) + 1] = nul
        /\ \A i \in 1 .. Len(a) : v[i] = a[i]
        /\ \A i \in 1 .. Len(x) : v[Len(a) + 1 + i] = x[i]
    BY <1>0, <1>1
  <1>3. /\ Len(v) = Len(b) + 1 + Len(y) /\ v[Len(b) + 1] = nul
        /\ \A i \in 1 .. Len(b) : v[i] = b[i]
        /\ \A i \in 1 .. Len(y) : v[Len(b) + 1 + i] = y[i]
    BY <1>0, <1>1
  <1>4. Len(a) \in Nat /\ Len(b) \in Nat /\ Len(x) \in Nat /\ Len(y) \in Nat
    OBVIOUS
  <1>5. ~(Len(a) < Len(b))
    <2>1. Len(a) < Len(b) => Len(a) + 1 \in 1 .. Len(b)
      BY <1>4
    <2> QED
      BY <1>2, <1>3, <2>1
  <1>6. ~(Len(b) < Len(a))
    <2>1. Len(b) < Len(a) => Len(b) + 1 \in 1 .. Len(a)
      BY <1>4
    <2> QED
      BY <1>2, <1>3, <2>1
  <1>7. Len(a) = Len(b) /\ Len(x) = Len(y)
    BY <1>2, <1>3, <1>4, <1>5, <1>6
  <1>8. a = b
    <2>1. \A i \in 1 .. Len(a) : a[i] = b[i]
      BY <1>2, <1>3, <1>7
    <2> QED
      BY <1>7, <2>1, SeqEqual
  <1>9. x = y
    <2>1. \A i \in 1 .. Len(x) : x[i] = y[i]
      BY <1>2, <1>3, <1>7
    <2> QED
      BY <1>7, <2>1, SeqEqual
  <1> QED
    BY <1>8, <1>9


Char == STRING \cup {"NUL"}
Name == {n \in Seq(Char) : \A i \in 1 .. Len(n) : n[i] # "NUL"}

LEMMA GluedIsSeq ==
    ASSUME NEW S, NEW nul \in S, NEW b \in Seq(S), NEW c \in Seq(S)
    PROVE  Glued(nul, b, c) \in Seq(S)
  BY DEF Glued

LEMMA GluedTwice ==
    ASSUME NEW S, NEW nul \in S, NEW a \in Seq(S), NEW b \in Seq(S), NEW c \in Seq(S)
    PROVE  Glued(nul, Glued(nul, a, b), c) = Glued(nul, a, Glued(nul, b, c))
  <1>1. PICK one \in Seq(S) : one = <<nul>>
    <2>1. <<nul>> \in Seq(S)
      OBVIOUS
    <2> QED
      BY <2>1
  <1>2. \A r, s, t \in Seq(S) : r \o s \in Seq(S) /\ (r \o s) \o t = r \o (s \o t)
    OBVIOUS
  <1>3. ((a \o one \o b) \o one) \o c = (a \o one) \o (b \o one \o c)
    <2>1. PICK u \in Seq(S) : u = a \o one
      BY <1>2
    <2>2. PICK v \in Seq(S) : v = b \o one
      BY <1>2
    <2>3. (u \o b) \o one = u \o v
      <3>1. (u \o b) \o one = u \o (b \o one)
        BY <1>1, <2>1
      <3> QED
        BY <2>2, <3>1
    <2>4. (u \o v) \o c = u \o (v \o c)
      BY <1>2
    <2> QED
      BY <2>1, <2>2, <2>3, <2>4, Zenon
  <1> QED
    BY <1>1, <1>3 DEF Glued

LEMMA SplitAtNul ==
    ASSUME NEW a \in Name, NEW b \in Name, NEW x \in Seq(Char), NEW y \in Seq(Char),
           Glued("NUL", a, x) = Glued("NUL", b, y)
    PROVE  a = b /\ x = y
  <1>1. "NUL" \in Char
    BY DEF Char
  <1>2. /\ a \in Seq(Char) /\ b \in Seq(Char)
        /\ \A i \in 1 .. Len(a) : a[i] # "NUL"
        /\ \A i \in 1 .. Len(b) : b[i] # "NUL"
    BY DEF Name
  <1> QED
    BY <1>1, <1>2, SplitAtFirst

\* A node of the tree is named by as many names as its place in it has.
LEMMA CatalogPath ==
    ASSUME NEW k \in 1 .. 3, NEW p \in Catalog!Paths(k)
    PROVE  p \in Seq(Name) /\ Len(p) = k /\ \A i \in 1 .. k : p[i] \in Name
  <1>1. PICK t \in Tables : p = SubSeq(t, 1, k)
    BY DEF Catalog!Paths
  <1>2. t \in Seq(Seq(STRING)) /\ Len(t) = 3 /\ \A i \in 1 .. 3 : t[i] \in Seq(STRING)
    BY ConsoleAssumption, CatalogNames
  <1>3. \A i \in 1 .. 3 : t[i] \in Name
    <2> SUFFICES ASSUME NEW i \in 1 .. 3
                 PROVE  t[i] \in Name
      OBVIOUS
    <2>1. t[i] \in Seq(Char)
      BY <1>2 DEF Char
    <2>2. \A j \in DOMAIN t[i] : t[i][j] # "NUL"
      BY CatalogNames
    <2>3. DOMAIN t[i] = 1 .. Len(t[i])
      BY <2>1
    <2> QED
      BY <2>1, <2>2, <2>3 DEF Name
  <1>4. \A i \in 1 .. k : t[i] \in Name
    BY <1>3
  <1> QED
    BY <1>1, <1>4, SubSeqProperties

\* The ids of two nodes are equal only if the nodes are.
LEMMA IdsApart ==
    ASSUME NEW j \in 1 .. 3, NEW k \in 1 .. 3, NEW p \in Catalog!Paths(j), NEW q \in Catalog!Paths(k),
           Catalog!Id(p) = Catalog!Id(q)
    PROVE  j = k /\ p = q
  <1>1. /\ p \in Seq(Name) /\ Len(p) = j /\ \A i \in 1 .. j : p[i] \in Name
        /\ q \in Seq(Name) /\ Len(q) = k /\ \A i \in 1 .. k : q[i] \in Name
    BY CatalogPath
  <1>2. j = k /\ Catalog!Join(p, "NUL") = Catalog!Join(q, "NUL")
    BY <1>1 DEF Catalog!Id
  <1>3. ASSUME \A i \in 1 .. k : p[i] = q[i]
        PROVE  p = q
    BY <1>1, <1>2, <1>3, SeqEqual
  <1>4. "NUL" \in Char /\ \A n \in Name : n \in Seq(Char) /\ \A i \in 1 .. Len(n) : n[i] # "NUL"
    BY DEF Name, Char
  <1>5. CASE k = 1
    <2>1. p[1] = q[1]
      BY <1>1, <1>2, <1>5 DEF Catalog!Join
    <2> QED
      BY <1>2, <1>3, <1>5, <2>1
  <1>6. CASE k = 2
    <2>1. /\ p[1] \in Name /\ p[2] \in Name /\ q[1] \in Name /\ q[2] \in Name
      BY <1>1, <1>2, <1>6
    <2>2. Glued("NUL", p[1], p[2]) = Glued("NUL", q[1], q[2])
      BY <1>1, <1>2, <1>6 DEF Catalog!Join, Glued
    <2>3. p[1] = q[1] /\ p[2] = q[2]
      BY <1>4, <2>1, <2>2, SplitAtFirst
    <2> QED
      BY <1>2, <1>3, <1>6, <2>3
  <1>7. CASE k = 3
    <2>1. /\ p[1] \in Name /\ p[2] \in Name /\ p[3] \in Name
          /\ q[1] \in Name /\ q[2] \in Name /\ q[3] \in Name
      BY <1>1, <1>2, <1>7
    <2>2. Glued("NUL", Glued("NUL", p[1], p[2]), p[3]) = Glued("NUL", Glued("NUL", q[1], q[2]), q[3])
      <3>1. /\ Catalog!Join(p, "NUL") = p[1] \o <<"NUL">> \o p[2] \o <<"NUL">> \o p[3]
            /\ Catalog!Join(q, "NUL") = q[1] \o <<"NUL">> \o q[2] \o <<"NUL">> \o q[3]
        <4>1. Len(p) # 1 /\ Len(p) # 2 /\ Len(q) # 1 /\ Len(q) # 2
          BY <1>1, <1>2, <1>7
        <4> QED
          BY <4>1, Zenon DEF Catalog!Join
      <3>2. p[1] \o <<"NUL">> \o p[2] \o <<"NUL">> \o p[3] = q[1] \o <<"NUL">> \o q[2] \o <<"NUL">> \o q[3]
        BY <1>2, <3>1, Zenon
      <3> QED
        BY <3>2, Zenon DEF Glued
    <2>3. /\ p[1] \in Seq(Char) /\ p[2] \in Seq(Char) /\ p[3] \in Seq(Char)
          /\ q[1] \in Seq(Char) /\ q[2] \in Seq(Char) /\ q[3] \in Seq(Char)
      BY <1>4, <2>1
    <2>4. PICK pr \in Seq(Char) : pr = Glued("NUL", p[2], p[3])
      BY <1>4, <2>3, GluedIsSeq
    <2>5. PICK qr \in Seq(Char) : qr = Glued("NUL", q[2], q[3])
      BY <1>4, <2>3, GluedIsSeq
    <2>6. /\ Glued("NUL", Glued("NUL", p[1], p[2]), p[3]) = Glued("NUL", p[1], pr)
          /\ Glued("NUL", Glued("NUL", q[1], q[2]), q[3]) = Glued("NUL", q[1], qr)
      <3>1. Glued("NUL", Glued("NUL", p[1], p[2]), p[3]) = Glued("NUL", p[1], Glued("NUL", p[2], p[3]))
        BY <1>4, <2>3, GluedTwice
      <3>2. Glued("NUL", Glued("NUL", q[1], q[2]), q[3]) = Glued("NUL", q[1], Glued("NUL", q[2], q[3]))
        BY <1>4, <2>3, GluedTwice
      <3> QED
        BY <2>4, <2>5, <3>1, <3>2
    <2>7. Glued("NUL", p[1], pr) = Glued("NUL", q[1], qr)
      BY <2>2, <2>6
    <2>8. p[1] = q[1] /\ pr = qr
      BY <2>1, <2>7, SplitAtNul
    <2>9. p[2] = q[2] /\ p[3] = q[3]
      <3>1. Glued("NUL", p[2], p[3]) = Glued("NUL", q[2], q[3])
        BY <2>4, <2>5, <2>8
      <3> QED
        BY <2>1, <2>3, <3>1, SplitAtNul
    <2> QED
      BY <1>2, <1>3, <1>7, <2>8, <2>9
  <1> QED
    BY <1>2, <1>5, <1>6, <1>7

LEMMA CatalogParent ==
    ASSUME NEW b \in Catalog!Paths(2)
    PROVE  <<b[1]>> \in Catalog!Paths(1)
  <1>1. PICK t \in Tables : b = SubSeq(t, 1, 2)
    BY DEF Catalog!Paths
  <1>2. t \in Seq(Seq(STRING)) /\ Len(t) = 3 /\ \A i \in 1 .. 3 : t[i] \in Seq(STRING)
    BY ConsoleAssumption, CatalogNames
  <1>3. b[1] = t[1]
    BY <1>1, <1>2, SubSeqProperties
  <1>4. /\ SubSeq(t, 1, 1) \in Seq(Seq(STRING)) /\ Len(SubSeq(t, 1, 1)) = 1
        /\ SubSeq(t, 1, 1)[1] = t[1]
    BY <1>2, SubSeqProperties
  <1>5. <<t[1]>> \in Seq(Seq(STRING)) /\ Len(<<t[1]>>) = 1 /\ <<t[1]>>[1] = t[1]
    BY <1>2
  <1>6. SubSeq(t, 1, 1) = <<t[1]>>
    <2>1. \A i \in 1 .. Len(SubSeq(t, 1, 1)) : i = 1
      BY <1>4
    <2> QED
      BY <1>4, <1>5, <2>1, SeqEqual
  <1> QED
    BY <1>3, <1>6 DEF Catalog!Paths

LEMMA CatalogTable ==
    ASSUME NEW p \in Catalog!Paths(3)
    PROVE  p \in Tables
  <1>1. PICK t \in Tables : p = SubSeq(t, 1, 3)
    BY DEF Catalog!Paths
  <1>2. t \in Seq(Seq(STRING)) /\ Len(t) = 3
    BY ConsoleAssumption, CatalogNames
  <1>3. SubSeq(t, 1, Len(t)) = t
    BY <1>2, SubSeqFull
  <1> QED
    BY <1>1, <1>2, <1>3

\* The rows under a branch are the paths of what the server has there.
LEMMA CatalogRows ==
    ASSUME NEW k \in 1 .. 2, NEW b \in Catalog!Paths(k)
    PROVE  /\ Catalog!Under(b) \subseteq Catalog!Paths(k + 1)
           /\ Catalog!RowsOf(b, Catalog!Under(b)) = Catalog!Under(b)
  <1>1. b \in Seq(Name) /\ Len(b) = k
    <2>1. k \in 1 .. 3
      OBVIOUS
    <2> QED
      BY <2>1, CatalogPath
  <1>2. Catalog!Under(b) = {c \in Catalog!Paths(k + 1) : SubSeq(c, 1, k) = b}
    BY <1>1 DEF Catalog!Under
  <1>3. ASSUME NEW c \in Catalog!Under(b)
        PROVE  Append(b, c[Len(c)]) = c
    <2>1. c \in Seq(Name) /\ Len(c) = k + 1 /\ (\A i \in 1 .. k + 1 : c[i] \in Name) /\ SubSeq(c, 1, k) = b
      <3>1. k + 1 \in 1 .. 3 /\ c \in Catalog!Paths(k + 1) /\ SubSeq(c, 1, k) = b
        BY <1>2
      <3> QED
        BY <3>1, CatalogPath
    <2>2. \A i \in 1 .. k : b[i] = c[i]
      BY <2>1, SubSeqProperties
    <2>3. /\ Append(b, c[k + 1]) \in Seq(Name) /\ Len(Append(b, c[k + 1])) = k + 1
          /\ \A i \in 1 .. k : Append(b, c[k + 1])[i] = b[i]
          /\ Append(b, c[k + 1])[k + 1] = c[k + 1]
      BY <1>1, <2>1, AppendProperties
    <2>4. \A i \in 1 .. k + 1 : Append(b, c[k + 1])[i] = c[i]
      BY <2>2, <2>3
    <2> QED
      BY <2>1, <2>3, <2>4, SeqEqual
  <1>4. Catalog!RowsOf(b, Catalog!Under(b)) = {Append(b, c[Len(c)]) : c \in Catalog!Under(b)}
    BY DEF Catalog!RowsOf
  <1> QED
    BY <1>2, <1>3, <1>4

-----------------------------------------------------------------------------
(* CatalogView: the tree.                                                  *)

CatalogBranch == [expanded : BOOLEAN, status : {"idle", "loading", "loaded", "error"},
                  rows : SUBSET (Catalog!Paths(2) \cup Catalog!Paths(3)), calls : 0 .. 1]

\* A branch, where the ids known are coords': it has one load exactly while it
\* says so, the id that load looks up is known, and so are those of its rows.
CatalogBranchOK(b, x, known) ==
    /\ x \in CatalogBranch
    /\ x.calls = IF x.status = "loading" THEN 1 ELSE 0
    /\ x.calls > 0 => Catalog!Id(b) \in known
    /\ \A row \in x.rows : row \in Catalog!Paths(Len(b) + 1) /\ Catalog!Id(row) \in known

CatalogKnows(map, i) ==
    \E k \in 1 .. 3 : map[i] \in Catalog!Paths(k) /\ Catalog!Id(map[i]) = i

CatalogTree ==
    /\ roots \in {"null", "error", "ready"}
    /\ branch \in [Catalog!Branches -> CatalogBranch]
    /\ \A b \in Catalog!Branches : CatalogBranchOK(b, branch[b], DOMAIN coords)
    /\ roots # "ready" => \A b \in Catalog!Branches : branch[b] = Catalog!Folded
    /\ roots = "ready" => \A c \in Catalog!Paths(1) : Catalog!Id(c) \in DOMAIN coords
    /\ \A i \in DOMAIN coords : CatalogKnows(coords, i)

\* What coords has of the id of a node is the node.
LEMMA CatalogLookup ==
    ASSUME CatalogTree, NEW k \in 1 .. 3, NEW p \in Catalog!Paths(k), Catalog!Id(p) \in DOMAIN coords
    PROVE  coords[Catalog!Id(p)] = p
  <1>1. PICK j \in 1 .. 3 : /\ coords[Catalog!Id(p)] \in Catalog!Paths(j)
                            /\ Catalog!Id(coords[Catalog!Id(p)]) = Catalog!Id(p)
    BY DEF CatalogTree, CatalogKnows
  <1> QED
    BY <1>1, IdsApart

LEMMA CatalogBranchPath ==
    ASSUME NEW b \in Catalog!Branches
    PROVE  \E k \in 1 .. 2 : b \in Catalog!Paths(k) /\ Len(b) = k
  <1>1. b \in Catalog!Paths(1) => Len(b) = 1
    BY CatalogPath
  <1>2. b \in Catalog!Paths(2) => Len(b) = 2
    BY CatalogPath
  <1> QED
    BY <1>1, <1>2 DEF Catalog!Branches

LEMMA CatalogFoldedOK ==
    ASSUME NEW b, NEW known
    PROVE  CatalogBranchOK(b, Catalog!Folded, known)
  BY DEF CatalogBranchOK, CatalogBranch, Catalog!Folded

\* A branch on the screen is one whose id is known.
LEMMA CatalogMounted ==
    ASSUME CatalogTree, NEW b \in Catalog!Branches, Catalog!Mounted(b)
    PROVE  Catalog!Id(b) \in DOMAIN coords
  <1>1. PICK k \in 1 .. 2 : b \in Catalog!Paths(k) /\ Len(b) = k
    BY CatalogBranchPath
  <1>2. CASE k = 1
    BY <1>1, <1>2 DEF CatalogTree, Catalog!Mounted
  <1>3. CASE k = 2
    <2>1. <<b[1]>> \in Catalog!Branches
      BY <1>1, <1>3, CatalogParent DEF Catalog!Branches
    <2>2. b \in branch[<<b[1]>>].rows
      BY <1>1, <1>3 DEF Catalog!Mounted
    <2> QED
      BY <2>1, <2>2 DEF CatalogTree, CatalogBranchOK
  <1> QED
    BY <1>2, <1>3

LEMMA CatalogRootsKept ==
    ASSUME CatalogTree, Catalog!RootsLoaded
    PROVE  CatalogTree'
  <1>1. \A b \in Catalog!Branches : branch'[b] = Catalog!Folded
    BY DEF Catalog!RootsLoaded, CatalogTree
  <1>2. \A b \in Catalog!Branches : CatalogBranchOK(b, branch'[b], DOMAIN coords')
    BY <1>1, CatalogFoldedOK
  <1>3. branch' \in [Catalog!Branches -> CatalogBranch]
    BY DEF Catalog!RootsLoaded, CatalogTree
  <1>4. CASE roots' = "error" /\ UNCHANGED coords
    BY <1>1, <1>2, <1>3, <1>4 DEF CatalogTree, CatalogKnows
  <1>5. CASE /\ roots' = "ready"
             /\ coords' = [i \in {Catalog!Id(c) : c \in Catalog!Paths(1)} |->
                              CHOOSE c \in Catalog!Paths(1) : i = Catalog!Id(c)]
    <2>1. DOMAIN coords' = {Catalog!Id(c) : c \in Catalog!Paths(1)}
      BY <1>5
    <2>2. \A i \in DOMAIN coords' : coords'[i] \in Catalog!Paths(1) /\ Catalog!Id(coords'[i]) = i
      BY <1>5, <2>1
    <2>3. \A i \in DOMAIN coords' : CatalogKnows(coords', i)
      BY <2>2 DEF CatalogKnows
    <2> QED
      BY <1>1, <1>2, <1>3, <1>5, <2>1, <2>3 DEF CatalogTree
  <1> QED
    BY <1>4, <1>5 DEF Catalog!RootsLoaded

LEMMA CatalogToggleKept ==
    ASSUME CatalogTree, NEW b \in Catalog!Branches, Catalog!Toggle(b)
    PROVE  CatalogTree'
  <1>1. roots = "ready" /\ UNCHANGED <<roots, coords>>
    BY DEF Catalog!Toggle, Catalog!Mounted
  <1>2. ASSUME NEW x \in Catalog!Branches
        PROVE  CatalogBranchOK(x, branch[x], DOMAIN coords) /\ branch[x] \in CatalogBranch
    BY <1>2 DEF CatalogTree, CatalogBranchOK
  <1>3. CASE Catalog!FoldBranch(b)
    <2>2. ASSUME NEW x \in Catalog!Branches
          PROVE  CatalogBranchOK(x, branch'[x], DOMAIN coords)
      <3> DEFINE folded == [branch[x] EXCEPT !.expanded = FALSE]
      <3>1. CatalogBranchOK(x, folded, DOMAIN coords)
        <4>1. /\ folded \in CatalogBranch /\ folded.calls = branch[x].calls
              /\ folded.status = branch[x].status /\ folded.rows = branch[x].rows
          BY <1>2, <2>2 DEF CatalogBranch
        <4> HIDE DEF folded
        <4> QED
          BY <1>2, <2>2, <4>1 DEF CatalogBranchOK
      <3>2. branch'[x] \in {folded, Catalog!Folded, branch[x]}
        BY <1>3, <2>2 DEF Catalog!FoldBranch
      <3> HIDE DEF folded
      <3> QED
        BY <1>2, <2>2, <3>1, <3>2, CatalogFoldedOK
    <2>3. branch' \in [Catalog!Branches -> CatalogBranch]
      <3>1. \A x \in Catalog!Branches : branch'[x] \in CatalogBranch
        BY <2>2 DEF CatalogBranchOK
      <3> QED
        BY <1>3, <3>1 DEF Catalog!FoldBranch
    <2> QED
      BY <1>1, <2>2, <2>3 DEF CatalogTree
  <1>4. CASE Catalog!Expand(b)
    <2>1. PICK new \in CatalogBranch :
              /\ branch' = [branch EXCEPT ![b] = new]
              /\ \/ /\ new.calls = branch[b].calls /\ new.status = branch[b].status
                    /\ new.rows = branch[b].rows
                 \/ new.calls = 1 /\ new.status = "loading" /\ new.rows = {}
      <3>1. branch \in [Catalog!Branches -> CatalogBranch]
        BY DEF CatalogTree
      <3>2. CASE branch[b].status \in {"loaded", "loading"}
        <4> DEFINE new == [branch[b] EXCEPT !.expanded = TRUE]
        <4>1. branch' = [branch EXCEPT ![b] = new]
          BY <1>4, <3>1, <3>2 DEF Catalog!Expand
        <4>2. /\ new \in CatalogBranch /\ new.calls = branch[b].calls
              /\ new.status = branch[b].status /\ new.rows = branch[b].rows
          BY <3>1 DEF CatalogBranch
        <4> HIDE DEF new
        <4> QED
          BY <4>1, <4>2
      <3>3. CASE branch[b].status \notin {"loaded", "loading"}
        <4> DEFINE new == [branch[b] EXCEPT !.expanded = TRUE, !.status = "loading",
                                            !.rows = {}, !.calls = @ + 1]
        <4>1. branch' = [branch EXCEPT ![b] = new]
          BY <1>4, <3>1, <3>3 DEF Catalog!Expand
        <4>2. branch[b].calls = 0
          BY <1>2, <3>3 DEF CatalogBranchOK
        <4>3. /\ new \in CatalogBranch /\ new.calls = 1 /\ new.status = "loading" /\ new.rows = {}
          <5>1. {} \in SUBSET (Catalog!Paths(2) \cup Catalog!Paths(3)) /\ 0 + 1 \in 0 .. 1 /\ 0 + 1 = 1
            OBVIOUS
          <5> QED
            BY <3>1, <4>2, <5>1 DEF CatalogBranch
        <4> HIDE DEF new
        <4> QED
          BY <4>1, <4>3
      <3> QED
        BY <3>2, <3>3
    <2>2. Catalog!Id(b) \in DOMAIN coords
      BY CatalogMounted DEF Catalog!Toggle
    <2>3. CatalogBranchOK(b, new, DOMAIN coords)
      BY <1>2, <2>1, <2>2 DEF CatalogBranchOK
    <2>4. /\ branch' \in [Catalog!Branches -> CatalogBranch] /\ branch'[b] = new
          /\ \A x \in Catalog!Branches \ {b} : branch'[x] = branch[x]
      BY <2>1 DEF CatalogTree
    <2>5. \A x \in Catalog!Branches : CatalogBranchOK(x, branch'[x], DOMAIN coords)
      BY <1>2, <2>3, <2>4
    <2> QED
      BY <1>1, <2>4, <2>5 DEF CatalogTree
  <1> QED
    BY <1>3, <1>4 DEF Catalog!Toggle

LEMMA CatalogBranchStays ==
    ASSUME NEW b, NEW x, NEW known, NEW more, CatalogBranchOK(b, x, known), known \subseteq more
    PROVE  CatalogBranchOK(b, x, more)
  BY DEF CatalogBranchOK

\* The rows an answer makes are the paths under the branch.
LEMMA CatalogChildrenOf ==
    ASSUME CatalogTree, NEW b \in Catalog!Branches, branch[b].calls > 0
    PROVE  /\ coords[Catalog!Id(b)] = b
           /\ Catalog!RowsOf(b, Catalog!Under(b)) = Catalog!Under(b)
           /\ Catalog!Under(b) \subseteq Catalog!Paths(Len(b) + 1)
           /\ Len(b) + 1 \in 1 .. 3
           /\ Catalog!Under(b) \subseteq Catalog!Paths(2) \cup Catalog!Paths(3)
  <1>1. PICK k \in 1 .. 2 : b \in Catalog!Paths(k) /\ Len(b) = k
    BY CatalogBranchPath
  <1>2. Catalog!Id(b) \in DOMAIN coords
    BY DEF CatalogTree, CatalogBranchOK
  <1>3. coords[Catalog!Id(b)] = b
    BY <1>1, <1>2, CatalogLookup
  <1>4. Catalog!RowsOf(b, Catalog!Under(b)) = Catalog!Under(b)
    BY <1>1, CatalogRows
  <1>5. Catalog!Under(b) \subseteq Catalog!Paths(Len(b) + 1)
    BY DEF Catalog!Under
  <1>6. Len(b) + 1 = 2 \/ Len(b) + 1 = 3
    BY <1>1
  <1> QED
    BY <1>3, <1>4, <1>5, <1>6

LEMMA CatalogChildrenKept ==
    ASSUME CatalogTree, NEW b \in Catalog!Branches, Catalog!ChildrenLoaded(b)
    PROVE  CatalogTree'
  <1> DEFINE kids == Catalog!Under(b)
  <1>1. /\ branch[b] \in CatalogBranch /\ branch[b].calls = 1 /\ branch[b].status = "loading"
        /\ roots' = roots
    BY DEF Catalog!ChildrenLoaded, CatalogTree, CatalogBranchOK, CatalogBranch
  <1>2. /\ coords[Catalog!Id(b)] = b
        /\ Catalog!RowsOf(b, kids) = kids
        /\ kids \subseteq Catalog!Paths(Len(b) + 1)
        /\ Len(b) + 1 \in 1 .. 3
        /\ kids \subseteq Catalog!Paths(2) \cup Catalog!Paths(3)
    BY <1>1, CatalogChildrenOf
  <1>3. branch \in [Catalog!Branches -> CatalogBranch]
    BY DEF CatalogTree
  <1>4. roots = "ready"
    BY <1>1 DEF CatalogTree, Catalog!Folded
  <1> HIDE DEF kids
  <1>5. 1 - 1 = 0 /\ 0 \in 0 .. 1 /\ {} \in SUBSET (Catalog!Paths(2) \cup Catalog!Paths(3))
    OBVIOUS
  <1>6. CASE /\ branch' = [branch EXCEPT ![b].status = "error", ![b].calls = @ - 1, ![b].rows = {}]
             /\ UNCHANGED coords
    <2> DEFINE new == [branch[b] EXCEPT !.status = "error", !.calls = @ - 1, !.rows = {}]
    <2>1. branch' = [branch EXCEPT ![b] = new]
      BY <1>3, <1>6
    <2>2. new \in CatalogBranch /\ new.calls = 0 /\ new.status = "error" /\ new.rows = {}
      BY <1>1, <1>5 DEF CatalogBranch
    <2> HIDE DEF new
    <2>3. CatalogBranchOK(b, new, DOMAIN coords)
      BY <2>2 DEF CatalogBranchOK
    <2>4. branch' \in [Catalog!Branches -> CatalogBranch]
      BY <1>3, <2>1, <2>2
    <2>5. \A x \in Catalog!Branches : CatalogBranchOK(x, branch'[x], DOMAIN coords)
      BY <1>3, <2>1, <2>3 DEF CatalogTree
    <2> QED
      BY <1>1, <1>4, <1>6, <2>4, <2>5 DEF CatalogTree
  <1>7. CASE /\ branch' = [branch EXCEPT ![b].status = "loaded", ![b].calls = @ - 1, ![b].rows = kids]
             /\ coords' = [i \in DOMAIN coords \cup {Catalog!Id(c) : c \in kids} |->
                              IF \E c \in kids : i = Catalog!Id(c)
                              THEN CHOOSE c \in kids : i = Catalog!Id(c) ELSE coords[i]]
    <2> DEFINE new == [branch[b] EXCEPT !.status = "loaded", !.calls = @ - 1, !.rows = kids]
    <2>1. branch' = [branch EXCEPT ![b] = new]
      BY <1>3, <1>7
    <2>2. new \in CatalogBranch /\ new.calls = 0 /\ new.status = "loaded" /\ new.rows = kids
      BY <1>1, <1>2, <1>5 DEF CatalogBranch
    <2> HIDE DEF new
    <2>3. DOMAIN coords' = DOMAIN coords \cup {Catalog!Id(c) : c \in kids}
      BY <1>7
    <2>4. DOMAIN coords \subseteq DOMAIN coords'
      BY <2>3
    <2>5. CatalogBranchOK(b, new, DOMAIN coords')
      BY <1>2, <2>2, <2>3 DEF CatalogBranchOK
    <2>6. branch' \in [Catalog!Branches -> CatalogBranch]
      BY <1>3, <2>1, <2>2
    <2>7. ASSUME NEW x \in Catalog!Branches
          PROVE  CatalogBranchOK(x, branch'[x], DOMAIN coords')
      <3>1. CASE x = b
        BY <1>3, <2>1, <2>5, <3>1
      <3>2. CASE x # b
        <4>1. CatalogBranchOK(x, branch[x], DOMAIN coords)
          BY DEF CatalogTree
        <4>2. branch'[x] = branch[x]
          BY <1>3, <2>1, <3>2
        <4> QED
          BY <2>4, <4>1, <4>2, CatalogBranchStays
      <3> QED
        BY <3>1, <3>2
    <2>8. ASSUME NEW i \in DOMAIN coords'
          PROVE  CatalogKnows(coords', i)
      <3>1. CASE \E c \in kids : i = Catalog!Id(c)
        <4>1. coords'[i] \in kids /\ Catalog!Id(coords'[i]) = i
          BY <1>7, <2>3, <2>8, <3>1
        <4> QED
          BY <1>2, <4>1 DEF CatalogKnows
      <3>2. CASE ~ \E c \in kids : i = Catalog!Id(c)
        <4>1. i \in DOMAIN coords /\ coords'[i] = coords[i]
          BY <1>7, <2>3, <2>8, <3>2
        <4> QED
          BY <4>1 DEF CatalogTree, CatalogKnows
      <3> QED
        BY <3>1, <3>2
    <2>9. \A c \in Catalog!Paths(1) : Catalog!Id(c) \in DOMAIN coords'
      BY <1>4, <2>4 DEF CatalogTree
    <2> QED
      BY <1>1, <1>4, <2>6, <2>7, <2>8, <2>9 DEF CatalogTree
  <1> QED
    BY <1>2, <1>6, <1>7 DEF Catalog!ChildrenLoaded, kids

LEMMA CatalogTreeKept ==
    ASSUME CatalogTree, Catalog!Next
    PROVE  CatalogTree'
  <1>1. ASSUME UNCHANGED <<roots, coords, branch>>
        PROVE  CatalogTree'
    BY <1>1 DEF CatalogTree, CatalogKnows
  <1>2. CASE Catalog!Arrival
    BY <1>1, <1>2 DEF Catalog!Arrival, Catalog!SampleLoaded, Catalog!Answer, Catalog!ReadBody
  <1>3. CASE \E row \in Catalog!TableRows : Catalog!Pick(row)
    BY <1>1, <1>3 DEF Catalog!Pick
  <1>4. CASE \E t \in Catalog!Tabs \cup {"loading"} : Catalog!Choose(t)
    BY <1>1, <1>4 DEF Catalog!Choose
  <1>5. CASE \E b \in Catalog!Branches : Catalog!Toggle(b) \/ Catalog!ChildrenLoaded(b)
    BY <1>5, CatalogToggleKept, CatalogChildrenKept
  <1> QED
    BY <1>2, <1>3, <1>4, <1>5, CatalogRootsKept DEF Catalog!Next

LEMMA CatalogTreeInit ==
    ASSUME Catalog!Init
    PROVE  CatalogTree
  <1>1. \A b \in Catalog!Branches : branch[b] = Catalog!Folded
    BY DEF Catalog!Init
  <1>2. Catalog!Folded \in CatalogBranch
    <2>1. {} \in SUBSET (Catalog!Paths(2) \cup Catalog!Paths(3)) /\ 0 \in 0 .. 1
      OBVIOUS
    <2> QED
      BY <2>1 DEF Catalog!Folded, CatalogBranch
  <1>3. branch \in [Catalog!Branches -> CatalogBranch]
    BY <1>2 DEF Catalog!Init
  <1> QED
    BY <1>1, <1>3, CatalogFoldedOK DEF CatalogTree, Catalog!Init

-----------------------------------------------------------------------------
(* CatalogView: the panel.                                                 *)

LEMMA CatalogTableIsPath ==
    ASSUME NEW t \in Tables
    PROVE  t \in Catalog!Paths(3)
  <1>1. t \in Seq(Seq(STRING)) /\ Len(t) = 3
    BY ConsoleAssumption, CatalogNames
  <1>2. SubSeq(t, 1, 3) = t
    BY <1>1, SubSeqFull
  <1> QED
    BY <1>2 DEF Catalog!Paths

\* A row of a table on the screen is a table, and is what coords has of its id.
LEMMA CatalogRowKnown ==
    ASSUME CatalogTree, NEW row \in Catalog!TableRows
    PROVE  row \in Tables /\ row \in Catalog!Paths(3) /\ coords[Catalog!Id(row)] = row
  <1>1. PICK b \in Catalog!Paths(2) : row \in branch[b].rows
    BY DEF Catalog!TableRows
  <1>2. b \in Catalog!Branches /\ 2 \in 1 .. 3 /\ 3 \in 1 .. 3
    BY DEF Catalog!Branches
  <1>3. Len(b) + 1 = 3
    <2>1. Len(b) = 2
      BY <1>1, <1>2, CatalogPath
    <2> QED
      BY <2>1
  <1>4. row \in Catalog!Paths(3) /\ Catalog!Id(row) \in DOMAIN coords
    BY <1>1, <1>2, <1>3 DEF CatalogTree, CatalogBranchOK
  <1> QED
    BY <1>2, <1>4, CatalogTable, CatalogLookup

CatalogCall == [of : Tables, stage : {"sent", "body", "failure"}, live : BOOLEAN]

\* A request under way is for a table of the panel's key, and for the one that
\* is picked while it counts; so is what the panel shows.
CatalogPanelIsOfPicked ==
    /\ picked = None => selectedId = None /\ calls = {} /\ panel = Catalog!NoPanel
    /\ picked # None => selectedId = Catalog!Id(picked)
    /\ \A c \in calls : /\ Catalog!PanelKey(c.of) = Catalog!PanelKey(picked)
                        /\ c.live => c.of = picked
    /\ panel.detail # None => Catalog!PanelKey(panel.detail) = Catalog!PanelKey(picked)

CatalogPanel ==
    /\ picked \in Tables \cup {None}
    /\ panel \in [detail : Tables \cup {None}, error : BOOLEAN]
    /\ calls \subseteq CatalogCall
    /\ tab \in Catalog!Tabs \cup Catalog!SampleStates
    /\ CatalogPanelIsOfPicked
    /\ Catalog!PickedIsLoading

LEMMA CatalogPickKept ==
    ASSUME CatalogTree, CatalogPanel, NEW row \in Catalog!TableRows, Catalog!Pick(row)
    PROVE  CatalogPanel'
  <1>1. row \in Tables /\ coords[Catalog!Id(row)] = row
    BY CatalogRowKnown
  <1>2. picked' = row /\ selectedId' = Catalog!Id(row) /\ Catalog!Show(row)
    BY <1>1 DEF Catalog!Pick
  <1>3. row # None
    BY <1>1, ConsoleAssumption
  <1>4. CASE row = picked
    <2>1. UNCHANGED <<picked, panel, calls, tab, selectedId>>
      BY <1>2, <1>3, <1>4 DEF Catalog!Show, CatalogPanel, CatalogPanelIsOfPicked
    <2> QED
      BY <2>1 DEF CatalogPanel, CatalogPanelIsOfPicked, Catalog!PickedIsLoading
  <1>5. CASE row # picked
    <2> DEFINE call == [of |-> row, stage |-> "sent", live |-> TRUE]
               left == IF picked # None /\ Catalog!PanelKey(row) = Catalog!PanelKey(picked)
                       THEN Catalog!Cancelled ELSE {}
    <2>1. panel' = Catalog!NoPanel /\ calls' = {call} \cup left /\ tab' = "columns"
      BY <1>2, <1>5 DEF Catalog!Show
    <2>2. \A c \in left : c \in CatalogCall /\ ~ c.live /\ Catalog!PanelKey(c.of) = Catalog!PanelKey(row)
      <3> SUFFICES ASSUME NEW c \in left
                   PROVE  c \in CatalogCall /\ ~ c.live /\ Catalog!PanelKey(c.of) = Catalog!PanelKey(row)
        OBVIOUS
      <3>1. Catalog!PanelKey(row) = Catalog!PanelKey(picked)
        OBVIOUS
      <3>2. PICK x \in calls : c = [x EXCEPT !.live = FALSE]
        BY DEF Catalog!Cancelled
      <3>3. x \in CatalogCall /\ Catalog!PanelKey(x.of) = Catalog!PanelKey(picked)
        BY <3>2 DEF CatalogPanel, CatalogPanelIsOfPicked
      <3>4. c \in CatalogCall /\ ~ c.live /\ c.of = x.of
        BY <3>2, <3>3 DEF CatalogCall
      <3> QED
        BY <3>1, <3>3, <3>4
    <2>3. call \in CatalogCall /\ call.live /\ call.of = row
      BY <1>1 DEF CatalogCall
    <2> HIDE DEF call, left
    <2>4. panel' \in [detail : Tables \cup {None}, error : BOOLEAN] /\ panel'.detail = None
      BY <2>1 DEF Catalog!NoPanel
    <2>5. tab' \in Catalog!Tabs \cup Catalog!SampleStates
      BY <2>1 DEF Catalog!Tabs
    <2>6. calls' \subseteq CatalogCall
      BY <2>1, <2>2, <2>3
    <2>7. CatalogPanelIsOfPicked'
      BY <1>2, <1>3, <2>1, <2>2, <2>3, <2>4 DEF CatalogPanelIsOfPicked
    <2>8. Catalog!PickedIsLoading'
      BY <1>2, <2>1, <2>3 DEF Catalog!PickedIsLoading
    <2> QED
      BY <1>1, <1>2, <2>4, <2>5, <2>6, <2>7, <2>8 DEF CatalogPanel
  <1> QED
    BY <1>4, <1>5

LEMMA CatalogAnswerKept ==
    ASSUME CatalogPanel, NEW c \in calls, Catalog!Answer(c)
    PROVE  CatalogPanel'
  <1>1. /\ c \in CatalogCall /\ picked # None /\ Catalog!PanelKey(c.of) = Catalog!PanelKey(picked)
        /\ c.live => c.of = picked
    BY DEF CatalogPanel, CatalogPanelIsOfPicked
  <1>2. UNCHANGED <<picked, selectedId, tab>>
    BY DEF Catalog!Answer
  <1>3. CASE calls' = calls \ {c} /\ panel' = [panel EXCEPT !.error = TRUE]
    <2>1. /\ panel' \in [detail : Tables \cup {None}, error : BOOLEAN]
          /\ panel'.error /\ panel'.detail = panel.detail
      BY <1>3 DEF CatalogPanel
    <2>2. CatalogPanelIsOfPicked'
      BY <1>1, <1>2, <1>3, <2>1 DEF CatalogPanel, CatalogPanelIsOfPicked
    <2>3. Catalog!PickedIsLoading'
      BY <2>1 DEF Catalog!PickedIsLoading
    <2> QED
      BY <1>2, <1>3, <2>1, <2>2, <2>3 DEF CatalogPanel
  <1>4. ASSUME NEW stage \in {"body", "failure"},
               calls' = (calls \ {c}) \cup {[c EXCEPT !.stage = stage]}, UNCHANGED panel
        PROVE  CatalogPanel'
    <2> DEFINE next == [c EXCEPT !.stage = stage]
    <2>1. next \in CatalogCall /\ next.of = c.of /\ next.live = c.live
      BY <1>1, <1>4 DEF CatalogCall
    <2>2. calls' = (calls \ {c}) \cup {next}
      BY <1>4
    <2> HIDE DEF next
    <2>3. CatalogPanelIsOfPicked'
      BY <1>1, <1>2, <1>4, <2>1, <2>2 DEF CatalogPanel, CatalogPanelIsOfPicked
    <2>4. Catalog!PickedIsLoading'
      BY <1>1, <1>2, <1>4, <2>1, <2>2 DEF CatalogPanel, Catalog!PickedIsLoading
    <2> QED
      BY <1>2, <1>4, <2>1, <2>2, <2>3, <2>4 DEF CatalogPanel
  <1> QED
    BY <1>3, <1>4 DEF Catalog!Answer

LEMMA CatalogReadKept ==
    ASSUME CatalogPanel, NEW c \in calls, Catalog!ReadBody(c)
    PROVE  CatalogPanel'
  <1>1. /\ c \in CatalogCall /\ picked # None /\ Catalog!PanelKey(c.of) = Catalog!PanelKey(picked)
        /\ c.live => c.of = picked
    BY DEF CatalogPanel, CatalogPanelIsOfPicked
  <1>2. UNCHANGED <<picked, selectedId, tab>> /\ calls' = calls \ {c}
    BY DEF Catalog!ReadBody
  <1>3. CASE c.stage = "body" /\ panel' = [panel EXCEPT !.detail = c.of]
    <2>1. /\ panel' \in [detail : Tables \cup {None}, error : BOOLEAN]
          /\ panel'.detail = c.of /\ c.of # None
      BY <1>1, <1>3, ConsoleAssumption DEF CatalogPanel, CatalogCall
    <2>2. CatalogPanelIsOfPicked'
      BY <1>1, <1>2, <2>1 DEF CatalogPanel, CatalogPanelIsOfPicked
    <2>3. Catalog!PickedIsLoading'
      BY <2>1 DEF Catalog!PickedIsLoading
    <2> QED
      BY <1>2, <2>1, <2>2, <2>3 DEF CatalogPanel
  <1>4. CASE panel' = [panel EXCEPT !.error = @ \/ c.stage = "failure" \/ c.live]
    <2> DEFINE fails == panel.error \/ c.stage = "failure" \/ c.live
    <2>1. /\ panel' \in [detail : Tables \cup {None}, error : BOOLEAN]
          /\ panel'.error = fails /\ panel'.detail = panel.detail
      <3>1. fails \in BOOLEAN
        OBVIOUS
      <3>2. panel \in [detail : Tables \cup {None}, error : BOOLEAN] /\ panel' = [panel EXCEPT !.error = fails]
        BY <1>4 DEF CatalogPanel
      <3> HIDE DEF fails
      <3> QED
        BY <3>1, <3>2
    <2>2. CatalogPanelIsOfPicked'
      BY <1>1, <1>2, <2>1 DEF CatalogPanel, CatalogPanelIsOfPicked
    <2>3. Catalog!PickedIsLoading'
      <3>1. CASE panel.error \/ c.live
        BY <2>1, <3>1 DEF Catalog!PickedIsLoading
      <3>2. CASE ~ panel.error /\ ~ c.live
        <4>1. panel.detail # None \/ \E x \in calls \ {c} : x.of = picked /\ x.live
          BY <1>1, <3>2 DEF CatalogPanel, Catalog!PickedIsLoading
        <4> QED
          BY <1>2, <2>1, <4>1 DEF Catalog!PickedIsLoading
      <3> QED
        BY <3>1, <3>2
    <2> QED
      BY <1>2, <2>1, <2>2, <2>3 DEF CatalogPanel
  <1> QED
    BY <1>3, <1>4 DEF Catalog!ReadBody

LEMMA CatalogPanelKept ==
    ASSUME CatalogTree, CatalogPanel, Catalog!Next
    PROVE  CatalogPanel'
  <1>1. ASSUME UNCHANGED <<picked, selectedId, panel, calls>>,
               tab' \in Catalog!Tabs \cup Catalog!SampleStates
        PROVE  CatalogPanel'
    BY <1>1 DEF CatalogPanel, CatalogPanelIsOfPicked, Catalog!PickedIsLoading
  <1>2. tab \in Catalog!Tabs \cup Catalog!SampleStates
    BY DEF CatalogPanel
  <1>3. CASE Catalog!RootsLoaded
    BY <1>1, <1>2, <1>3 DEF Catalog!RootsLoaded
  <1>4. CASE Catalog!SampleLoaded
    BY <1>1, <1>4 DEF Catalog!SampleLoaded, Catalog!SampleStates
  <1>5. CASE \E b \in Catalog!Branches : Catalog!Toggle(b) \/ Catalog!ChildrenLoaded(b)
    BY <1>1, <1>2, <1>5 DEF Catalog!Toggle, Catalog!ChildrenLoaded
  <1>6. CASE \E t \in Catalog!Tabs \cup {"loading"} : Catalog!Choose(t)
    BY <1>1, <1>6 DEF Catalog!Choose, Catalog!SampleStates
  <1>7. CASE \E row \in Catalog!TableRows : Catalog!Pick(row)
    BY <1>7, CatalogPickKept
  <1>8. CASE \E c \in calls : Catalog!Answer(c) \/ Catalog!ReadBody(c)
    BY <1>8, CatalogAnswerKept, CatalogReadKept
  <1> QED
    BY <1>3, <1>4, <1>5, <1>6, <1>7, <1>8 DEF Catalog!Next, Catalog!Arrival

LEMMA CatalogPanelInit ==
    ASSUME Catalog!Init
    PROVE  CatalogPanel
  BY DEF CatalogPanel, CatalogPanelIsOfPicked, Catalog!PickedIsLoading, Catalog!Init,
         Catalog!NoPanel, Catalog!Tabs

CatalogInv == CatalogTree /\ CatalogPanel

LEMMA CatalogHolds ==
    Spec => [](Is("catalog") => CatalogInv)
  <1>1. Init => (Is("catalog") => CatalogInv)
    BY CatalogTreeInit, CatalogPanelInit DEF Init, Is, CatalogInv
  <1>2. (Is("catalog") => CatalogInv) /\ [Next]_vars => (Is("catalog") => CatalogInv)'
    <2> SUFFICES ASSUME Is("catalog") => CatalogInv, [Next]_vars, Is("catalog")'
                 PROVE  CatalogInv'
      OBVIOUS
    <2>1. CASE Is("catalog") /\ Catalog!Next
      BY <2>1, CatalogTreeKept, CatalogPanelKept DEF CatalogInv
    <2>2. CASE Is("catalog") /\ UNCHANGED Catalog!vars
      BY <2>2 DEF CatalogInv, CatalogTree, CatalogKnows, CatalogPanel, CatalogPanelIsOfPicked,
                  Catalog!PickedIsLoading, Catalog!vars
    <2> QED
      BY <2>1, <2>2, CatalogTurn
  <1> QED
    BY <1>1, <1>2, PTL DEF Spec

-----------------------------------------------------------------------------
(* CatalogView: what the page promises.                                    *)

\* A branch has one load exactly while it says so.
LEMMA CatalogLoads ==
    ASSUME CatalogTree
    PROVE  Catalog!LoadingIsOne
  BY DEF CatalogTree, CatalogBranchOK, Catalog!LoadingIsOne

\* What is shown, and the row that is marked, are of the table that is picked.
LEMMA CatalogShows ==
    ASSUME CatalogInv
    PROVE  Catalog!DetailIsOfPicked
  <1>1. ASSUME NEW row \in Catalog!TableRows, Catalog!Id(row) = selectedId
        PROVE  picked = row
    <2>1. row \in Tables /\ row \in Catalog!Paths(3) /\ Catalog!Id(row) # None
      BY CatalogRowKnown, CatalogNames DEF CatalogInv
    <2>2. picked \in Tables /\ selectedId = Catalog!Id(picked)
      BY <1>1, <2>1 DEF CatalogInv, CatalogPanel, CatalogPanelIsOfPicked
    <2>3. picked \in Catalog!Paths(3) /\ 3 \in 1 .. 3
      BY <2>2, CatalogTableIsPath
    <2> QED
      BY <1>1, <2>1, <2>2, <2>3, IdsApart
  <1> QED
    BY <1>1 DEF CatalogInv, CatalogPanel, CatalogPanelIsOfPicked, Catalog!DetailIsOfPicked

LEMMA CatalogTyped ==
    ASSUME CatalogInv
    PROVE  Catalog!TypeOK
  <1>1. \A b \in Catalog!Branches : branch[b] \in CatalogBranch
    BY DEF CatalogInv, CatalogTree
  <1>2. \A b \in Catalog!Branches : /\ branch[b].expanded \in BOOLEAN /\ branch[b].calls \in 0 .. 1
                                    /\ branch[b].status \in {"idle", "loading", "loaded", "error"}
    BY <1>1 DEF CatalogBranch
  <1> QED
    BY <1>2 DEF CatalogInv, CatalogTree, CatalogPanel, Catalog!TypeOK

\* The panel of the catalog has the details, and the tree the mark, of the table
\* that is picked, whatever was picked before (TableDetailPanel, nodeId).
THEOREM DetailsAreOfPicked == Spec => []CatalogDetailIsOfPicked
  <1>1. (Is("catalog") => CatalogInv) => CatalogDetailIsOfPicked
    BY CatalogShows DEF CatalogDetailIsOfPicked
  <1> QED
    BY <1>1, CatalogHolds, PTL

\* A branch of the catalog is loaded once at a time, and waits for an answer that
\* comes (ensureLoaded).
THEOREM BranchLoadsOnce == Spec => []CatalogLoadingIsOne
  <1>1. (Is("catalog") => CatalogInv) => CatalogLoadingIsOne
    BY CatalogLoads DEF CatalogLoadingIsOne, CatalogInv
  <1> QED
    BY <1>1, CatalogHolds, PTL

\* The panel of the catalog that loads has a request under way for its table,
\* which still counts (the effect of TableDetailPanel).
THEOREM PickedKeepsLoading == Spec => []CatalogPickedIsLoading
  <1>1. (Is("catalog") => CatalogInv) => CatalogPickedIsLoading
    BY DEF CatalogPickedIsLoading, CatalogInv, CatalogPanel
  <1> QED
    BY <1>1, CatalogHolds, PTL

-----------------------------------------------------------------------------
(* The pages together.                                                     *)

\* A control that is disabled has one request at work: no button of the pages is
\* left disabled, and no change is made twice at a time (IdentityView,
\* PermissionsEditor, NotebooksView: busy, creating).
THEOREM BusyIsOneRequest == Spec => []BusyIsWorking
  <1>1. /\ (Is("identity") => IdentityInv /\ IdentityBusy /\ IdentityCurrent)
        /\ (Is("permissions") => PermissionsInv /\ PermissionsBusy /\ PermissionsCurrent)
        /\ (Is("notebooks") => NotebooksInv /\ NotebooksBusy /\ NotebooksCurrent)
        => BusyIsWorking
    BY IdentityBusyMeans, PermissionsBusyMeans, NotebooksBusyMeans DEF BusyIsWorking
  <1> QED
    BY <1>1, IdentityHolds, PermissionsHolds, NotebooksHolds, PTL

\* One of the pages is open, and stays so.
LEMMA PageHolds ==
    Spec => [](page \in {"identity", "permissions", "catalog", "notebooks", "drawer"})
  <1> DEFINE Inv == page \in {"identity", "permissions", "catalog", "notebooks", "drawer"}
  <1>1. Init => Inv
    BY DEF Init
  <1>2. Inv /\ [Next]_vars => Inv'
    BY DEF Next, vars, IdentityStep, PermissionsStep, CatalogStep, NotebooksStep, DrawerStep
  <1> QED
    BY <1>1, <1>2, PTL DEF Spec

\* Every page is typed, whichever is open.
THEOREM ConsoleTyped == Spec => []TypeOK
  <1> DEFINE Pages == page \in {"identity", "permissions", "catalog", "notebooks", "drawer"}
  <1>1. /\ Pages
        /\ (Is("identity") => IdentityInv /\ IdentityBusy /\ IdentityCurrent)
        /\ (Is("permissions") => PermissionsInv /\ PermissionsBusy /\ PermissionsCurrent)
        /\ (Is("catalog") => CatalogInv)
        /\ (Is("notebooks") => NotebooksInv /\ NotebooksBusy /\ NotebooksCurrent)
        /\ (Is("drawer") => DrawerInv)
        => TypeOK
    BY CatalogTyped DEF TypeOK, Is, IdentityInv, PermissionsInv, NotebooksInv, DrawerInv
  <1> QED
    BY <1>1, PageHolds, IdentityHolds, PermissionsHolds, CatalogHolds, NotebooksHolds, DrawerHolds, PTL
=============================================================================
