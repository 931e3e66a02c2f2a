-------------------------- MODULE OrgForestProofs --------------------------
(***************************************************************************)
(* Proofs about OrgForest, for every set of ids, tenants, slugs and        *)
(* statuses: the nodes always form a forest.                               *)
(***************************************************************************)
EXTENDS OrgForest, TLAPS

\* The inductive invariant: a parent exists, and no set of nodes contains the parent
\* of each of its members.
FInv == TypeOK /\ ParentsExist /\ Acyclic

\* A move below a node outside the moved subtree closes no cycle: S, the moved
\* subtree, is closed under children, so a set that meets both S and its complement
\* has a member outside S whose parent was not moved.
LEMMA MoveKeepsAcyclic ==
  ASSUME TypeOK, Acyclic,
         NEW id \in DOMAIN nodes, NEW p \in OrgUnitIds \cup {NoId},
         NEW tenantIds \in SUBSET TenantIds, NEW status \in Statuses,
         Move(id, p, tenantIds, status)
  PROVE  Acyclic'
<1>1. PICK S \in SUBSET DOMAIN nodes :
        id \in S /\ ClosedUnderChildren(S) /\ p \notin S
  BY DEF Move, Outside
<1>2. /\ DOMAIN nodes' = DOMAIN nodes
      /\ nodes'[id].parentId = p
      /\ \A x \in DOMAIN nodes : x # id => nodes'[x].parentId = nodes[x].parentId
  BY DEF Move, TypeOK, Node
<1> SUFFICES ASSUME NEW R \in SUBSET DOMAIN nodes, R # {}
             PROVE  \E x \in R : nodes'[x].parentId \notin R
  BY <1>2 DEF Acyclic
<1>3. CASE R \subseteq S
  <2>1. PICK x \in R : nodes[x].parentId \notin R
    BY DEF Acyclic
  <2>2. CASE x = id
    BY <1>1, <1>2, <1>3, <2>1, <2>2
  <2>3. CASE x # id
    BY <1>2, <2>1, <2>3
  <2> QED BY <2>2, <2>3
<1>4. CASE ~(R \subseteq S)
  <2>1. PICK y \in R \ S : nodes[y].parentId \notin R \ S
    BY <1>4 DEF Acyclic
  <2>2. nodes[y].parentId \notin S
    BY <1>1, <2>1 DEF ClosedUnderChildren
  <2>3. y # id
    BY <1>1
  <2> QED BY <1>2, <2>1, <2>2, <2>3
<1> QED BY <1>3, <1>4

\* Steps: an added node is a new leaf, an edit moves nothing.
LEMMA StepKeepsForest ==
  ASSUME NoId \notin OrgUnitIds
  PROVE  FInv /\ [Next]_nodes => FInv'
<1> SUFFICES ASSUME FInv, [Next]_nodes PROVE FInv'
  OBVIOUS
<1> USE DEF FInv
<1>1. CASE UNCHANGED nodes
  BY <1>1 DEF TypeOK, ParentsExist, Acyclic
<1>2. ASSUME NEW id \in OrgUnitIds, NEW tenantIds \in SUBSET TenantIds,
             NEW status \in Statuses, Edit(id, tenantIds, status)
      PROVE  FInv'
  <2>1. /\ DOMAIN nodes' = DOMAIN nodes
        /\ \A x \in DOMAIN nodes : nodes'[x].parentId = nodes[x].parentId
    BY <1>2 DEF Edit, TypeOK, Node
  <2>2. TypeOK'
    BY <1>2 DEF Edit, TypeOK, Node
  <2>3. ParentsExist'
    BY <2>1 DEF ParentsExist
  <2>4. Acyclic'
    BY <2>1 DEF Acyclic
  <2> QED BY <2>2, <2>3, <2>4
<1>3. ASSUME NEW id \in OrgUnitIds, NEW p \in OrgUnitIds \cup {NoId},
             NEW tenantIds \in SUBSET TenantIds, NEW status \in Statuses,
             Move(id, p, tenantIds, status)
      PROVE  FInv'
  <2>1. TypeOK'
    BY <1>3 DEF Move, TypeOK, Node
  <2>2. ParentsExist'
    BY <1>3 DEF Move, Admits, ParentsExist, TypeOK, Node
  <2>3. Acyclic'
    BY <1>3, MoveKeepsAcyclic DEF Move
  <2> QED BY <2>1, <2>2, <2>3
<1>4. ASSUME NEW id \in OrgUnitIds, NEW p \in OrgUnitIds \cup {NoId},
             NEW tenantIds \in SUBSET TenantIds, NEW status \in Statuses,
             NEW slug \in Slugs, Add(id, p, slug, tenantIds, status)
      PROVE  FInv'
  <2>1. /\ id \notin DOMAIN nodes
        /\ DOMAIN nodes' = DOMAIN nodes \cup {id}
        /\ nodes'[id].parentId = p
        /\ \A x \in DOMAIN nodes : nodes'[x] = nodes[x]
    BY <1>4 DEF Add
  <2>2. TypeOK'
    BY <1>4 DEF Add, TypeOK, Node
  <2>3. ParentsExist'
    BY <1>4, <2>1 DEF Add, Admits, ParentsExist
  <2>4. Acyclic'
    <3> SUFFICES ASSUME NEW R \in SUBSET (DOMAIN nodes \cup {id}), R # {}
                 PROVE  \E x \in R : nodes'[x].parentId \notin R
      BY <2>1 DEF Acyclic
    <3>1. CASE R = {id}
      BY <1>4, <2>1, <3>1 DEF Add, Admits
    <3>2. CASE R # {id}
      <4>1. PICK x \in R \ {id} : nodes[x].parentId \notin R \ {id}
        BY <3>2 DEF Acyclic
      <4>2. nodes[x].parentId # id
        BY <1>4, <2>1 DEF ParentsExist
      <4> QED BY <2>1, <4>1, <4>2
    <3> QED BY <3>1, <3>2
  <2> QED BY <2>2, <2>3, <2>4
<1> QED BY <1>1, <1>2, <1>3, <1>4 DEF Next

\* The forest invariant holds in every reachable state: each node hangs below an
\* existing node or is a root, and following parents never returns.
THEOREM ForestIsAcyclic ==
  ASSUME NoId \notin OrgUnitIds
  PROVE  Spec => [](ParentsExist /\ Acyclic)
<1>1. Init => FInv
  BY DEF Init, FInv, TypeOK, ParentsExist, Acyclic
<1>2. FInv /\ [Next]_nodes => FInv'
  BY StepKeepsForest
<1>3. FInv => ParentsExist /\ Acyclic
  BY DEF FInv
<1> QED BY <1>1, <1>2, <1>3, PTL DEF Spec
=============================================================================
