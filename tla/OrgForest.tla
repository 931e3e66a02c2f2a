----------------------------- MODULE OrgForest -----------------------------
(***************************************************************************)
(* What the Org Unit directory promises, without items, versions or        *)
(* interleavings: a forest of nodes that grows by leaves, whose nodes are  *)
(* edited in place and whose subtrees are moved whole, each operation in   *)
(* one step.                                                               *)
(***************************************************************************)
EXTENDS Integers

CONSTANTS OrgUnitIds, TenantIds, Slugs, Statuses, NoId

VARIABLE nodes \* a function from the ids of the nodes that exist to nodes

Node == [parentId : OrgUnitIds \cup {NoId}, slug : Slugs,
         tenantIds : SUBSET TenantIds, status : Statuses]

\* A set of nodes that contains the children of its members.
ClosedUnderChildren(S) ==
  \A x \in DOMAIN nodes : nodes[x].parentId \in S => x \in S

\* p is neither the node id nor below it.
Outside(p, id) ==
  \E S \in SUBSET DOMAIN nodes : id \in S /\ ClosedUnderChildren(S) /\ p \notin S

\* A node may be put below p with these tenants.
Admits(p, tenantIds) ==
  p # NoId => p \in DOMAIN nodes /\ tenantIds \subseteq nodes[p].tenantIds

Add(id, p, slug, tenantIds, status) ==
  /\ id \notin DOMAIN nodes
  /\ Admits(p, tenantIds)
  /\ nodes' = [i \in DOMAIN nodes \cup {id} |->
                 IF i = id
                 THEN [parentId |-> p, slug |-> slug, tenantIds |-> tenantIds,
                       status |-> status]
                 ELSE nodes[i]]

\* An edit keeps the place of the node.  It promises nothing about the tenants
\* of its parent and its children: see ChildTenantsContained of OrgUnits.
Edit(id, tenantIds, status) ==
  /\ id \in DOMAIN nodes
  /\ nodes' = [nodes EXCEPT ![id].tenantIds = tenantIds, ![id].status = status]

Move(id, p, tenantIds, status) ==
  /\ id \in DOMAIN nodes
  /\ Outside(p, id)
  /\ Admits(p, tenantIds)
  /\ nodes' = [nodes EXCEPT ![id].parentId = p, ![id].tenantIds = tenantIds,
                            ![id].status = status]

Init == nodes = [i \in {} |-> NoId]

Next ==
  \E id \in OrgUnitIds, tenantIds \in (SUBSET TenantIds) \ {{}}, status \in Statuses :
    \/ Edit(id, tenantIds, status)
    \/ \E p \in OrgUnitIds \cup {NoId} :
         \/ Move(id, p, tenantIds, status)
         \/ \E slug \in Slugs : Add(id, p, slug, tenantIds, status)

Spec == Init /\ [][Next]_nodes

-----------------------------------------------------------------------------
(* Properties.                                                             *)

TypeOK ==
  /\ DOMAIN nodes \subseteq OrgUnitIds
  /\ nodes \in [DOMAIN nodes -> Node]

\* Every node hangs below an existing node or is a root, and no set of nodes is
\* closed under taking the parent: the nodes form a forest, without a cycle.
ParentsExist ==
  \A x \in DOMAIN nodes : nodes[x].parentId \in DOMAIN nodes \cup {NoId}

Acyclic ==
  \A R \in SUBSET DOMAIN nodes :
    R # {} => \E x \in R : nodes[x].parentId \notin R
=============================================================================
