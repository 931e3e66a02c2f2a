--------------------------- MODULE OrgUnitsProofs ---------------------------
(***************************************************************************)
(* Proofs about OrgUnits, for every set of ids, tenants, slugs, statuses   *)
(* and actors, and for every limit.                                        *)
(***************************************************************************)
EXTENDS OrgUnits, TLAPS

-----------------------------------------------------------------------------
(* The inductive invariant.                                                *)

\* The predecessors a row names are the ones the parent links lead to: a set of Org
\* Units that contains the children of its members and a predecessor of u contains u.
\* It follows from Forest by induction over the length of the path, which is carried
\* along here instead: a move needs it to know that the new parent is not below the
\* moved root.
ClosedUnderChildren(S) ==
  \A x \in DOMAIN units : units[x].parentId \in S => x \in S

GenuinePredecessors ==
  \A S \in SUBSET DOMAIN units :
    ClosedUnderChildren(S) =>
      \A u \in DOMAIN units : \A k \in 1..Len(units[u].ancestorOrgUnitIds) :
        units[u].ancestorOrgUnitIds[k] \in S => u \in S

\* What a handler has read by each of its steps, and, for a move about to be
\* written, that the subtree is connected to its root and complete.
OperationOK(o) ==
  /\ o.op = "idle" => o.rows = NoRows
  /\ o.op = "create" =>
       /\ o.id \in OrgUnitIds /\ o.slug \in Slugs /\ o.status \in Statuses
       /\ o.step = "write"
       /\ o.parentId # NoId => o.parentId \in DOMAIN o.rows
  /\ o.op = "update" =>
       /\ o.id \in OrgUnitIds /\ o.status \in Statuses
       /\ o.id \in DOMAIN o.rows
       /\ CurrentOf(o).parentId # o.id
       /\ o.step # "oldParent" /\ CurrentOf(o).parentId # NoId
            => CurrentOf(o).parentId \in DOMAIN o.rows
       /\ o.step \notin {"oldParent", "newParent"} /\ o.parentId # NoId
            => o.parentId \in DOMAIN o.rows
       /\ o.step = "oldParent" => CurrentOf(o).parentId # NoId
       /\ o.step \in {"oldParent", "newParent", "children"} => o.subtree = {}
       /\ o.step \notin {"oldParent", "newParent"} => o.parentId # o.id
       /\ o.subtree \subseteq DOMAIN o.rows
       /\ \A u \in o.subtree \ {o.id} : o.rows[u].parentId \in o.subtree
       /\ o.step = "subtree" => o.id \in o.subtree
       /\ o.step = "write" /\ Moving(o) =>
            /\ o.id \in o.subtree
            /\ \A u \in o.subtree : o.rows[u].childIds \subseteq o.subtree

IInv ==
  /\ TypeOK
  /\ \A a \in Actors : OperationOK(pending[a])
  /\ VersionIdentifiesRow
  /\ Forest
  /\ Predecessors
  /\ GenuinePredecessors

-----------------------------------------------------------------------------
(* Sequences.  A move writes a new prefix x followed by the part from k on of what *)
(* was there; an element appended before comes out appended after.         *)

\* For the path of a row.
LEMMA SplicedPath ==
  ASSUME NEW x \in Seq(Slugs), NEW s \in Seq(Slugs), NEW e \in Slugs,
         NEW k \in 1..(Len(s) + 1)
  PROVE  x \o SubSeq(Append(s, e), k, Len(Append(s, e)))
           = Append(x \o SubSeq(s, k, Len(s)), e)
<1>1. Len(Append(s, e)) = Len(s) + 1 /\ SubSeq(s, k, Len(s)) \in Seq(Slugs)
  OBVIOUS
<1>2. SubSeq(Append(s, e), k, Len(s) + 1) = Append(SubSeq(s, k, Len(s)), e)
  OBVIOUS
<1> DEFINE t == SubSeq(s, k, Len(s))
<1>3. t \in Seq(Slugs)
  BY <1>1
<1> HIDE DEF t
<1>4. x \o Append(t, e) = Append(x \o t, e)
  BY <1>3
<1> QED BY <1>1, <1>2, <1>4 DEF t

\* For the predecessors of a row.
LEMMA SplicedIds ==
  ASSUME NEW x \in Seq(OrgUnitIds), NEW s \in Seq(OrgUnitIds), NEW e \in OrgUnitIds,
         NEW k \in 1..(Len(s) + 1)
  PROVE  x \o SubSeq(Append(s, e), k, Len(Append(s, e)))
           = Append(x \o SubSeq(s, k, Len(s)), e)
<1>1. Len(Append(s, e)) = Len(s) + 1 /\ SubSeq(s, k, Len(s)) \in Seq(OrgUnitIds)
  OBVIOUS
<1>2. SubSeq(Append(s, e), k, Len(s) + 1) = Append(SubSeq(s, k, Len(s)), e)
  OBVIOUS
<1> DEFINE t == SubSeq(s, k, Len(s))
<1>3. t \in Seq(OrgUnitIds)
  BY <1>1
<1> HIDE DEF t
<1>4. x \o Append(t, e) = Append(x \o t, e)
  BY <1>3
<1> QED BY <1>1, <1>2, <1>4 DEF t

-----------------------------------------------------------------------------
(* Reading.                                                                *)

\* Everything but rows, todo, subtree and step is fixed by the input.
SameInput(o, n) ==
  /\ n.op = o.op /\ n.id = o.id /\ n.slug = o.slug /\ n.parentId = o.parentId
  /\ n.tenantIds = o.tenantIds /\ n.status = o.status /\ n.seeded = o.seeded

\* WithRow adds the stored row of id to what was read, or replaces it.
LEMMA WithRowOK ==
  ASSUME NEW o, IsOperation(o), IsRowMap(units), NEW id \in DOMAIN units
  PROVE  LET w == WithRow(o, id) IN
         /\ IsOperation(w) /\ SameInput(o, w)
         /\ w.step = o.step /\ w.todo = o.todo /\ w.subtree = o.subtree
         /\ DOMAIN w.rows = DOMAIN o.rows \cup {id}
         /\ w.rows[id] = units[id]
         /\ \A i \in DOMAIN o.rows : i # id => w.rows[i] = o.rows[i]
<1> DEFINE w == WithRow(o, id)
<1>1. w.rows = [i \in DOMAIN o.rows \cup {id} |->
                  IF i = id THEN units[id] ELSE o.rows[i]]
  BY DEF WithRow, IsOperation, Operation
<1>2. IsRowMap(w.rows)
  BY <1>1 DEF IsRowMap, IsOperation
<1>3. /\ w \in Operation(w.rows) /\ SameInput(o, w)
      /\ w.step = o.step /\ w.todo = o.todo /\ w.subtree = o.subtree
  BY DEF WithRow, IsOperation, Operation, SameInput
<1> QED BY <1>1, <1>2, <1>3 DEF IsOperation

\* A level that is done leads to the next one, or to the write when the subtree is
\* complete.
LEMMA AfterLevelOK ==
  ASSUME NEW o, IsOperation(o), o.subtree \subseteq DOMAIN o.rows
  PROVE  LET n == AfterLevel(o) IN
         /\ IsOperation(n) /\ SameInput(o, n)
         /\ n.rows = o.rows /\ n.subtree = o.subtree
         /\ n.step \in {"subtree", "write"}
         /\ n.step = "write" =>
              \A u \in o.subtree : o.rows[u].childIds \subseteq o.subtree
<1> DEFINE n == AfterLevel(o)
<1>1. NextLevel(o) \in SUBSET OrgUnitIds
  BY DEF NextLevel, IsOperation, IsRowMap, Row
<1>2. /\ n.rows = o.rows /\ n.subtree = o.subtree /\ SameInput(o, n)
      /\ n \in Operation(n.rows)
      /\ n.step = IF NextLevel(o) = {} THEN "write" ELSE "subtree"
  BY <1>1 DEF AfterLevel, IsOperation, Operation, SameInput
<1>3. NextLevel(o) = {} => \A u \in o.subtree : o.rows[u].childIds \subseteq o.subtree
  BY DEF NextLevel
<1> QED BY <1>2, <1>3 DEF IsOperation

\* After the children check an operation either writes or starts to load its subtree
\* from the root alone; both keep what was read.
LEMMA AfterChildrenOK ==
  ASSUME NEW o, IsOperation(o), o.op = "update", o.id \in DOMAIN o.rows,
         o.id \in OrgUnitIds, o.subtree = {}
  PROVE  LET n == AfterChildren(o) IN
         /\ IsOperation(n) /\ SameInput(o, n) /\ n.rows = o.rows
         /\ n.step \in {"subtree", "write"}
         /\ n.subtree \subseteq {o.id}
         /\ n.step = "subtree" => o.id \in n.subtree
         /\ n.step = "write" /\ Moving(n) =>
              /\ o.id \in n.subtree
              /\ \A u \in n.subtree : o.rows[u].childIds \subseteq n.subtree
<1> DEFINE s == [o EXCEPT !.subtree = {o.id}]
           n == AfterChildren(o)
<1>1. CASE Moving(o)
  <2>1. /\ IsOperation(s) /\ SameInput(o, s) /\ s.rows = o.rows
        /\ s.subtree = {o.id}
    BY DEF IsOperation, Operation, SameInput
  <2>2. n = AfterLevel(s)
    BY <1>1 DEF AfterChildren
  <2> HIDE DEF s, n
  <2>3. /\ IsOperation(n) /\ SameInput(s, n) /\ n.rows = s.rows
        /\ n.subtree = s.subtree /\ n.step \in {"subtree", "write"}
        /\ n.step = "write" =>
             \A u \in s.subtree : s.rows[u].childIds \subseteq s.subtree
    BY <2>1, <2>2, AfterLevelOK
  <2> QED BY <2>1, <2>3 DEF n, SameInput
<1>2. CASE ~Moving(o)
  <2>1. n = [o EXCEPT !.step = "write"]
    BY <1>2 DEF AfterChildren
  <2>2. /\ IsOperation(n) /\ SameInput(o, n) /\ n.rows = o.rows
        /\ n.step = "write" /\ n.subtree = {} /\ n.id = o.id
        /\ n.parentId = o.parentId
    BY <2>1 DEF IsOperation, Operation, SameInput
  <2>3. ~Moving(n)
    BY <1>2, <2>2 DEF Moving, CurrentOf
  <2> QED BY <2>2, <2>3
<1> QED BY <1>1, <1>2

\* After the parent reads an operation checks children, or goes on as above.
LEMMA AfterParentsOK ==
  ASSUME NEW o, IsOperation(o), o.op = "update", o.id \in DOMAIN o.rows,
         o.id \in OrgUnitIds, o.status \in Statuses, o.subtree = {},
         CurrentOf(o).parentId # o.id, o.parentId # o.id,
         CurrentOf(o).parentId # NoId => CurrentOf(o).parentId \in DOMAIN o.rows,
         o.parentId # NoId => o.parentId \in DOMAIN o.rows
  PROVE  LET n == AfterParents(o) IN
         IsOperation(n) /\ OperationOK(n) /\ n.rows = o.rows
<1> DEFINE ids == CurrentOf(o).childIds
           n == AfterParents(o)
<1>1. CASE ids = {}
  <2>1. n = AfterChildren(o)
    BY <1>1 DEF AfterParents
  <2> HIDE DEF n
  <2>2. /\ IsOperation(n) /\ SameInput(o, n) /\ n.rows = o.rows
        /\ n.step \in {"subtree", "write"}
        /\ n.subtree \subseteq {o.id}
        /\ n.step = "subtree" => o.id \in n.subtree
        /\ n.step = "write" /\ Moving(n) =>
              /\ o.id \in n.subtree
              /\ \A u \in n.subtree : o.rows[u].childIds \subseteq n.subtree
    BY <2>1, AfterChildrenOK
  <2>3. CurrentOf(n) = CurrentOf(o)
    BY <2>2 DEF CurrentOf, SameInput
  <2>4. OperationOK(n)
    BY <2>2, <2>3 DEF OperationOK, SameInput
  <2> QED BY <2>2, <2>4 DEF n
<1>2. CASE ids # {}
  <2>1. ids \in SUBSET OrgUnitIds
    BY DEF CurrentOf, IsOperation, IsRowMap, Row
  <2>2. n = [o EXCEPT !.step = "children", !.todo = ids]
    BY <1>2 DEF AfterParents
  <2>3. /\ IsOperation(n) /\ SameInput(o, n) /\ n.rows = o.rows
        /\ n.step = "children" /\ n.subtree = {}
    BY <2>1, <2>2 DEF IsOperation, Operation, SameInput
  <2>4. CurrentOf(n) = CurrentOf(o)
    BY <2>3 DEF CurrentOf, SameInput
  <2>5. OperationOK(n)
    BY <2>3, <2>4 DEF OperationOK, SameInput
  <2> QED BY <2>3, <2>5
<1> QED BY <1>1, <1>2

\* A step that only reads keeps the invariant when the rows of the new operation are
\* rows it had or stored rows.
LEMMA ReadKeepsInvariant ==
  ASSUME IInv, NEW a \in Actors, NEW n, Become(a, n), TableUnchanged,
         IsOperation(n), OperationOK(n),
         \A i \in DOMAIN n.rows :
           \/ i \in DOMAIN units /\ n.rows[i] = units[i]
           \/ i \in DOMAIN pending[a].rows /\ n.rows[i] = pending[a].rows[i]
  PROVE  IInv'
<1>1. /\ pending' = [b \in Actors |-> IF b = a THEN n ELSE pending[b]]
      /\ units' = units /\ attachments' = attachments /\ markers' = markers
      /\ tenants' = tenants
  BY DEF IInv, TypeOK, Become, TableUnchanged
<1>2. TypeOK'
  BY <1>1 DEF IInv, TypeOK
<1>3. \A b \in Actors : OperationOK(pending'[b])
  BY <1>1 DEF IInv
<1>4. VersionIdentifiesRow'
  <2> SUFFICES ASSUME NEW b \in Actors, NEW i \in DOMAIN pending'[b].rows
               PROVE  /\ i \in DOMAIN units
                      /\ pending'[b].rows[i].version <= units[i].version
                      /\ pending'[b].rows[i].version = units[i].version
                           => pending'[b].rows[i] = units[i]
    BY <1>1 DEF VersionIdentifiesRow
  <2>1. CASE b = a /\ n.rows[i] = units[i] /\ i \in DOMAIN units
    <3>1. units[i].version \in Nat
      BY <2>1 DEF IInv, TypeOK, IsRowMap, Row
    <3> QED BY <1>1, <2>1, <3>1
  <2>2. CASE b = a /\ i \in DOMAIN pending[a].rows /\ n.rows[i] = pending[a].rows[i]
    BY <1>1, <2>2 DEF IInv, VersionIdentifiesRow
  <2>3. CASE b # a
    BY <1>1, <2>3 DEF IInv, VersionIdentifiesRow
  <2> QED BY <1>1, <2>1, <2>2, <2>3
<1>5. Forest'
  BY <1>1 DEF IInv, Forest, DerivesFromParent, ListsItsChildren
<1>6. Predecessors'
  BY <1>1 DEF IInv, Predecessors, NamesPredecessors
<1>7. GenuinePredecessors'
  BY <1>1 DEF IInv, GenuinePredecessors, ClosedUnderChildren
<1> QED BY <1>1, <1>2, <1>3, <1>4, <1>5, <1>6, <1>7 DEF IInv

\* An actor without an operation has read nothing.
LEMMA IdleOK == IsOperation(Idle) /\ OperationOK(Idle) /\ DOMAIN Idle.rows = {}
BY DEF Idle, NoRows, IsOperation, Operation, IsRowMap, OperationOK

\* An operation that ends without writing forgets what it read.
LEMMA FailOperationStep ==
  ASSUME IInv, NEW a \in Actors, FailOperation(a)
  PROVE  IInv'
BY ReadKeepsInvariant, IdleOK DEF FailOperation

\* A create starts with its parent's stored row, or as a root.
LEMMA BeginCreateStep ==
  ASSUME IInv, NEW a \in Actors, BeginCreate(a)
  PROVE  IInv'
<1>1. PICK id \in OrgUnitIds, slug \in Slugs, parentId \in DOMAIN units \cup {NoId},
           tenantIds \in TenantSets, status \in Statuses, seeded \in Seeding :
        LET o == [Idle EXCEPT !.op = "create", !.id = id, !.slug = slug,
                              !.parentId = parentId, !.tenantIds = tenantIds,
                              !.status = status, !.seeded = seeded]
        IN IF parentId = NoId THEN Become(a, o)
           ELSE /\ tenantIds \subseteq units[parentId].tenantIds
                /\ Become(a, WithRow(o, parentId))
  BY DEF BeginCreate
<1> DEFINE o == [Idle EXCEPT !.op = "create", !.id = id, !.slug = slug,
                             !.parentId = parentId, !.tenantIds = tenantIds,
                             !.status = status, !.seeded = seeded]
<1>2. IsRowMap(units) /\ TableUnchanged
  BY DEF IInv, TypeOK, BeginCreate
<1>3. /\ IsOperation(o) /\ DOMAIN o.rows = {} /\ o.op = "create" /\ o.id = id
      /\ o.slug = slug /\ o.parentId = parentId /\ o.status = status
      /\ o.step = "write"
  BY <1>2, OrgUnitsAssumption
     DEF Idle, NoRows, IsOperation, Operation, IsRowMap, TenantSets
<1> HIDE DEF o
<1>4. CASE parentId = NoId
  <2>1. Become(a, o)
    BY <1>1, <1>4 DEF o
  <2>2. OperationOK(o)
    BY <1>3, <1>4 DEF OperationOK
  <2> QED BY <1>2, <1>3, <2>1, <2>2, ReadKeepsInvariant
<1>5. CASE parentId # NoId
  <2> DEFINE w == WithRow(o, parentId)
  <2>1. Become(a, w)
    BY <1>1, <1>5 DEF o
  <2>2. /\ IsOperation(w) /\ SameInput(o, w) /\ w.step = o.step
        /\ DOMAIN w.rows = {parentId} /\ w.rows[parentId] = units[parentId]
    BY <1>2, <1>3, <1>5, WithRowOK
  <2> HIDE DEF w
  <2>3. OperationOK(w)
    BY <1>3, <1>5, <2>2 DEF OperationOK, SameInput
  <2> QED BY <1>2, <1>5, <2>1, <2>2, <2>3, ReadKeepsInvariant
<1> QED BY <1>4, <1>5

\* A row is never its own parent: its path would be longer than itself.
LEMMA NotOwnParent ==
  ASSUME IInv, NEW u \in DOMAIN units
  PROVE  units[u].parentId # u
<1> SUFFICES ASSUME units[u].parentId = u PROVE FALSE
  OBVIOUS
<1>1. u \in OrgUnitIds /\ units[u] \in Row
  BY DEF IInv, TypeOK, IsRowMap
<1>2. units[u].path = Append(units[u].path, units[u].slug)
  BY <1>1, OrgUnitsAssumption DEF IInv, Forest, DerivesFromParent
<1>3. Len(units[u].path) = Len(units[u].path) + 1 /\ Len(units[u].path) \in Nat
  BY <1>1, <1>2 DEF Row
<1> QED BY <1>3

\* An update starts with the stored row and with the read its parents call for.
LEMMA BeginUpdateStep ==
  ASSUME IInv, NEW a \in Actors, BeginUpdate(a)
  PROVE  IInv'
<1>1. PICK id \in DOMAIN units, parentId \in OrgUnitIds \cup {NoId},
           tenantIds \in TenantSets, status \in Statuses :
        LET o == WithRow([Idle EXCEPT !.op = "update", !.id = id,
                           !.parentId = parentId, !.tenantIds = tenantIds,
                           !.status = status], id)
        IN Become(a, IF units[id].parentId # NoId
                     THEN [o EXCEPT !.step = "oldParent"]
                     ELSE IF parentId # NoId THEN [o EXCEPT !.step = "newParent"]
                     ELSE AfterParents(o))
  BY DEF BeginUpdate
<1> DEFINE i == [Idle EXCEPT !.op = "update", !.id = id, !.parentId = parentId,
                             !.tenantIds = tenantIds, !.status = status]
           o == WithRow(i, id)
<1>2. IsRowMap(units) /\ TableUnchanged /\ id \in OrgUnitIds /\ units[id] \in Row
  BY DEF IInv, TypeOK, BeginUpdate, IsRowMap
<1>3. /\ IsOperation(i) /\ DOMAIN i.rows = {} /\ i.op = "update" /\ i.id = id
      /\ i.parentId = parentId /\ i.status = status /\ i.subtree = {}
  BY <1>2, OrgUnitsAssumption
     DEF Idle, NoRows, IsOperation, Operation, IsRowMap, TenantSets
<1> HIDE DEF i
<1>4. /\ IsOperation(o) /\ SameInput(i, o) /\ o.subtree = {}
      /\ DOMAIN o.rows = {id} /\ o.rows[id] = units[id]
  BY <1>2, <1>3, WithRowOK
<1>5. Become(a, IF units[id].parentId # NoId
                THEN [o EXCEPT !.step = "oldParent"]
                ELSE IF parentId # NoId THEN [o EXCEPT !.step = "newParent"]
                ELSE AfterParents(o))
  BY <1>1 DEF i
<1> HIDE DEF o
<1>6. /\ o.op = "update" /\ o.id = id /\ o.parentId = parentId
      /\ o.status = status /\ CurrentOf(o) = units[id]
      /\ CurrentOf(o).parentId # id
  BY <1>3, <1>4, NotOwnParent DEF SameInput, CurrentOf
<1>7. CASE units[id].parentId # NoId
  <2> DEFINE n == [o EXCEPT !.step = "oldParent"]
  <2>1. /\ IsOperation(n) /\ n.rows = o.rows /\ n.step = "oldParent"
        /\ SameInput(o, n) /\ n.subtree = o.subtree
    BY <1>4 DEF IsOperation, Operation, SameInput
  <2>2. Become(a, n)
    BY <1>5, <1>7
  <2> HIDE DEF n
  <2>3. OperationOK(n)
    BY <1>2, <1>4, <1>6, <1>7, <2>1 DEF OperationOK, SameInput, CurrentOf
  <2> QED BY <1>2, <1>4, <2>1, <2>2, <2>3, ReadKeepsInvariant
<1>8. CASE units[id].parentId = NoId /\ parentId # NoId
  <2> DEFINE n == [o EXCEPT !.step = "newParent"]
  <2>1. /\ IsOperation(n) /\ n.rows = o.rows /\ n.step = "newParent"
        /\ SameInput(o, n) /\ n.subtree = o.subtree
    BY <1>4 DEF IsOperation, Operation, SameInput
  <2>2. Become(a, n)
    BY <1>5, <1>8
  <2> HIDE DEF n
  <2>3. OperationOK(n)
    BY <1>2, <1>4, <1>6, <1>8, <2>1 DEF OperationOK, SameInput, CurrentOf
  <2> QED BY <1>2, <1>4, <2>1, <2>2, <2>3, ReadKeepsInvariant
<1>9. CASE units[id].parentId = NoId /\ parentId = NoId
  <2> DEFINE n == AfterParents(o)
  <2>1. Become(a, n)
    BY <1>5, <1>9
  <2>2. IsOperation(n) /\ OperationOK(n) /\ n.rows = o.rows
    BY <1>2, <1>4, <1>6, <1>9, AfterParentsOK, OrgUnitsAssumption
  <2> HIDE DEF n
  <2> QED BY <1>2, <1>4, <2>1, <2>2, ReadKeepsInvariant
<1> QED BY <1>7, <1>8, <1>9

\* The read of the current parent adds its stored row.
LEMMA ReadOldParentStep ==
  ASSUME IInv, NEW a \in Actors, ReadOldParent(a)
  PROVE  IInv'
<1> DEFINE o == pending[a]
           q == CurrentOf(o).parentId
           w == WithRow(o, q)
<1>1. /\ o.op = "update" /\ o.step = "oldParent" /\ q \in DOMAIN units
      /\ TableUnchanged /\ IsRowMap(units)
      /\ IsOperation(o) /\ OperationOK(o)
      /\ \/ o.parentId = q /\ Become(a, AfterParents(w))
         \/ o.parentId \notin {q, NoId} /\ Become(a, [w EXCEPT !.step = "newParent"])
         \/ o.parentId = NoId /\ Become(a, AfterParents(w))
  BY DEF ReadOldParent, IInv, TypeOK
<1>2. /\ o.id \in DOMAIN o.rows /\ o.id \in OrgUnitIds /\ o.status \in Statuses
      /\ q # o.id /\ q # NoId /\ o.subtree \subseteq DOMAIN o.rows
  BY <1>1 DEF OperationOK
<1>3. /\ IsOperation(w) /\ SameInput(o, w) /\ w.subtree = o.subtree
      /\ DOMAIN w.rows = DOMAIN o.rows \cup {q} /\ w.rows[q] = units[q]
      /\ \A i \in DOMAIN o.rows : i # q => w.rows[i] = o.rows[i]
  BY <1>1, WithRowOK
<1>4. CurrentOf(w) = CurrentOf(o)
  BY <1>2, <1>3 DEF CurrentOf, SameInput
<1> HIDE DEF w
<1>5. o.subtree = {}
  BY <1>1 DEF OperationOK
<1>6. CASE o.parentId \in {q, NoId} /\ Become(a, AfterParents(w))
  <2> DEFINE n == AfterParents(w)
  <2>1. IsOperation(n) /\ OperationOK(n) /\ n.rows = w.rows
    BY <1>1, <1>2, <1>3, <1>4, <1>5, <1>6, AfterParentsOK, OrgUnitsAssumption
       DEF SameInput
  <2> HIDE DEF n
  <2> QED BY <1>1, <1>3, <1>6, <2>1, ReadKeepsInvariant DEF n
<1>7. CASE o.parentId \notin {q, NoId} /\ Become(a, [w EXCEPT !.step = "newParent"])
  <2> DEFINE n == [w EXCEPT !.step = "newParent"]
  <2>1. /\ IsOperation(n) /\ n.rows = w.rows /\ n.step = "newParent"
        /\ SameInput(w, n) /\ n.subtree = w.subtree
    BY <1>3 DEF IsOperation, Operation, SameInput
  <2> HIDE DEF n
  <2>2. /\ n.op = "update" /\ n.id = o.id /\ n.status = o.status
        /\ CurrentOf(n) = CurrentOf(o) /\ n.subtree = {} /\ n.step = "newParent"
        /\ DOMAIN n.rows = DOMAIN o.rows \cup {q}
    BY <1>1, <1>3, <1>4, <1>5, <2>1 DEF SameInput, CurrentOf
  <2>3. OperationOK(n)
    BY <1>2, <2>2 DEF OperationOK
  <2> QED BY <1>1, <1>3, <1>7, <2>1, <2>3, ReadKeepsInvariant DEF n
<1> QED BY <1>1, <1>6, <1>7

\* The read of the requested parent adds its stored row, and never the row's own.
LEMMA ReadNewParentStep ==
  ASSUME IInv, NEW a \in Actors, ReadNewParent(a)
  PROVE  IInv'
<1> DEFINE o == pending[a]
           p == o.parentId
           w == WithRow(o, p)
           n == AfterParents(w)
<1>1. /\ o.op = "update" /\ o.step = "newParent" /\ p \in DOMAIN units
      /\ p # o.id /\ TableUnchanged /\ IsRowMap(units)
      /\ IsOperation(o) /\ OperationOK(o) /\ Become(a, n)
  BY DEF ReadNewParent, IInv, TypeOK
<1>2. /\ o.id \in DOMAIN o.rows /\ o.id \in OrgUnitIds /\ o.status \in Statuses
      /\ CurrentOf(o).parentId # o.id /\ o.subtree = {}
      /\ CurrentOf(o).parentId # NoId => CurrentOf(o).parentId \in DOMAIN o.rows
  BY <1>1 DEF OperationOK
<1>3. /\ IsOperation(w) /\ SameInput(o, w) /\ w.subtree = o.subtree
      /\ DOMAIN w.rows = DOMAIN o.rows \cup {p} /\ w.rows[p] = units[p]
      /\ \A i \in DOMAIN o.rows : i # p => w.rows[i] = o.rows[i]
  BY <1>1, WithRowOK
<1>4. CurrentOf(w) = CurrentOf(o)
  BY <1>1, <1>2, <1>3 DEF CurrentOf, SameInput
<1> HIDE DEF w
<1>5. /\ w.op = "update" /\ w.id = o.id /\ w.status = o.status /\ w.subtree = {}
      /\ w.parentId = p
  BY <1>1, <1>2, <1>3 DEF SameInput
<1>6. IsOperation(n) /\ OperationOK(n) /\ n.rows = w.rows
  BY <1>1, <1>2, <1>3, <1>4, <1>5, AfterParentsOK
<1> HIDE DEF n
<1> QED BY <1>1, <1>3, <1>6, ReadKeepsInvariant

\* The children check adds nothing to what was read.
LEMMA ReadChildStep ==
  ASSUME IInv, NEW a \in Actors, NEW c \in OrgUnitIds, ReadChild(a, c)
  PROVE  IInv'
<1> DEFINE o == pending[a]
           rest == [o EXCEPT !.todo = @ \ {c}]
           n == IF rest.todo = {} THEN AfterChildren(rest) ELSE rest
<1>1. /\ o.op = "update" /\ o.step = "children" /\ TableUnchanged
      /\ IsOperation(o) /\ OperationOK(o) /\ Become(a, n)
  BY DEF ReadChild, IInv, TypeOK
<1>2. /\ IsOperation(rest) /\ SameInput(o, rest) /\ rest.rows = o.rows
      /\ rest.step = o.step /\ rest.subtree = o.subtree
  BY <1>1 DEF IsOperation, Operation, SameInput
<1> HIDE DEF rest
<1>3. /\ o.id \in DOMAIN o.rows /\ o.id \in OrgUnitIds /\ o.status \in Statuses
      /\ CurrentOf(o).parentId # o.id /\ o.subtree = {} /\ o.parentId # o.id
      /\ CurrentOf(o).parentId # NoId => CurrentOf(o).parentId \in DOMAIN o.rows
      /\ o.parentId # NoId => o.parentId \in DOMAIN o.rows
  BY <1>1 DEF OperationOK
<1>4. /\ rest.op = "update" /\ rest.id = o.id /\ rest.status = o.status
      /\ rest.subtree = {} /\ rest.step = "children" /\ rest.parentId = o.parentId
      /\ CurrentOf(rest) = CurrentOf(o)
  BY <1>1, <1>2, <1>3 DEF SameInput, CurrentOf
<1>5. CASE rest.todo = {}
  <2> DEFINE m == AfterChildren(rest)
  <2>1. /\ IsOperation(m) /\ SameInput(rest, m) /\ m.rows = rest.rows
        /\ m.step \in {"subtree", "write"}
        /\ m.subtree \subseteq {rest.id}
        /\ m.step = "subtree" => rest.id \in m.subtree
        /\ m.step = "write" /\ Moving(m) =>
              /\ rest.id \in m.subtree
              /\ \A u \in m.subtree : rest.rows[u].childIds \subseteq m.subtree
    BY <1>2, <1>3, <1>4, AfterChildrenOK
  <2>2. n = m
    BY <1>5
  <2> HIDE DEF m, n
  <2>3. /\ m.op = "update" /\ m.id = o.id /\ m.status = o.status
        /\ m.parentId = o.parentId /\ CurrentOf(m) = CurrentOf(o)
    BY <1>2, <1>4, <2>1 DEF SameInput, CurrentOf
  <2>4. OperationOK(m)
    BY <1>2, <1>3, <1>4, <2>1, <2>3 DEF OperationOK
  <2> QED BY <1>1, <1>2, <2>1, <2>2, <2>4, ReadKeepsInvariant
<1>6. CASE rest.todo # {}
  <2>1. n = rest
    BY <1>6
  <2> HIDE DEF n
  <2>2. OperationOK(rest)
    BY <1>2, <1>3, <1>4 DEF OperationOK
  <2> QED BY <1>1, <1>2, <2>1, <2>2, ReadKeepsInvariant
<1> QED BY <1>5, <1>6

\* A level of loadSubtree adds rows whose parents it has already accepted.
LEMMA ReadDescendantStep ==
  ASSUME IInv, NEW a \in Actors, NEW c \in OrgUnitIds, ReadDescendant(a, c)
  PROVE  IInv'
<1> DEFINE o == pending[a]
           w == WithRow(o, c)
           r == [w EXCEPT !.todo = @ \ {c}, !.subtree = @ \cup {c}]
           n == IF r.todo = {} THEN AfterLevel(r) ELSE r
<1>1. /\ o.op = "update" /\ o.step = "subtree" /\ c \in DOMAIN units
      /\ c \notin o.subtree /\ units[c].parentId \in o.subtree
      /\ TableUnchanged /\ IsRowMap(units)
      /\ IsOperation(o) /\ OperationOK(o) /\ Become(a, n)
  BY DEF ReadDescendant, IInv, TypeOK
<1>2. /\ o.id \in DOMAIN o.rows /\ o.id \in OrgUnitIds /\ o.status \in Statuses
      /\ CurrentOf(o).parentId # o.id /\ o.id \in o.subtree /\ o.parentId # o.id
      /\ CurrentOf(o).parentId # NoId => CurrentOf(o).parentId \in DOMAIN o.rows
      /\ o.parentId # NoId => o.parentId \in DOMAIN o.rows
      /\ o.subtree \subseteq DOMAIN o.rows
      /\ \A u \in o.subtree \ {o.id} : o.rows[u].parentId \in o.subtree
  BY <1>1 DEF OperationOK
<1>3. /\ IsOperation(w) /\ SameInput(o, w) /\ w.step = o.step
      /\ w.subtree = o.subtree
      /\ DOMAIN w.rows = DOMAIN o.rows \cup {c} /\ w.rows[c] = units[c]
      /\ \A i \in DOMAIN o.rows : i # c => w.rows[i] = o.rows[i]
  BY <1>1, WithRowOK
<1> HIDE DEF w
<1>4. /\ IsOperation(r) /\ SameInput(w, r) /\ r.step = w.step /\ r.rows = w.rows
      /\ r.subtree = w.subtree \cup {c}
  BY <1>3 DEF IsOperation, Operation, SameInput
<1> HIDE DEF r
<1>5. /\ r.op = "update" /\ r.id = o.id /\ r.status = o.status
      /\ r.parentId = o.parentId /\ r.step = "subtree"
      /\ CurrentOf(r) = CurrentOf(o) /\ o.id # c
  BY <1>1, <1>2, <1>3, <1>4 DEF SameInput, CurrentOf
<1>6. \A u \in r.subtree \ {o.id} : r.rows[u].parentId \in r.subtree
  BY <1>1, <1>2, <1>3, <1>4
<1>7. r.subtree \subseteq DOMAIN r.rows /\ o.id \in r.subtree
  BY <1>2, <1>3, <1>4
<1>8. CASE r.todo = {}
  <2> DEFINE m == AfterLevel(r)
  <2>1. /\ IsOperation(m) /\ SameInput(r, m) /\ m.rows = r.rows
        /\ m.subtree = r.subtree /\ m.step \in {"subtree", "write"}
        /\ m.step = "write" =>
             \A u \in r.subtree : r.rows[u].childIds \subseteq r.subtree
    BY <1>4, <1>7, AfterLevelOK
  <2>2. n = m
    BY <1>8
  <2> HIDE DEF m, n
  <2>3. /\ m.op = "update" /\ m.id = o.id /\ m.status = o.status
        /\ m.parentId = o.parentId /\ CurrentOf(m) = CurrentOf(o)
    BY <1>5, <2>1 DEF SameInput, CurrentOf
  <2>4. OperationOK(m)
    BY <1>2, <1>3, <1>4, <1>6, <1>7, <2>1, <2>3 DEF OperationOK
  <2> QED BY <1>1, <1>3, <1>4, <2>1, <2>2, <2>4, ReadKeepsInvariant
<1>9. CASE r.todo # {}
  <2>1. n = r
    BY <1>9
  <2> HIDE DEF n
  <2>2. OperationOK(r)
    BY <1>2, <1>3, <1>4, <1>5, <1>6, <1>7 DEF OperationOK
  <2> QED BY <1>1, <1>3, <1>4, <2>1, <2>2, ReadKeepsInvariant
<1> QED BY <1>8, <1>9

-----------------------------------------------------------------------------
(* Writing.                                                                *)

\* After a write that keeps every row or moves its version, what the other handlers
\* have read still is at most as new as the table, and equal where versions agree.
LEMMA WriteKeepsReads ==
  ASSUME IInv, NEW a \in Actors, Become(a, Idle), IsRowMap(units'),
         \A i \in DOMAIN units :
           /\ i \in DOMAIN units'
           /\ \/ units'[i] = units[i]
              \/ units'[i].version = units[i].version + 1
  PROVE  /\ pending' = [b \in Actors |-> pending'[b]]
         /\ \A b \in Actors : IsOperation(pending'[b]) /\ OperationOK(pending'[b])
         /\ VersionIdentifiesRow'
<1>1. pending' = [b \in Actors |-> IF b = a THEN Idle ELSE pending[b]]
  BY DEF IInv, TypeOK, Become
<1>2. \A b \in Actors : IsOperation(pending'[b]) /\ OperationOK(pending'[b])
  BY <1>1, IdleOK DEF IInv, TypeOK
<1>3. VersionIdentifiesRow'
  <2> SUFFICES ASSUME NEW b \in Actors, NEW i \in DOMAIN pending'[b].rows
               PROVE  /\ i \in DOMAIN units'
                      /\ pending'[b].rows[i].version <= units'[i].version
                      /\ pending'[b].rows[i].version = units'[i].version
                           => pending'[b].rows[i] = units'[i]
    BY <1>1 DEF VersionIdentifiesRow
  <2>1. b # a /\ pending'[b] = pending[b]
    BY <1>1, IdleOK
  <2>2. /\ i \in DOMAIN units
        /\ pending[b].rows[i].version <= units[i].version
        /\ pending[b].rows[i].version = units[i].version
             => pending[b].rows[i] = units[i]
    BY <2>1 DEF IInv, VersionIdentifiesRow
  <2>3. units[i].version \in Nat /\ pending[b].rows[i].version \in Nat
    BY <2>1, <2>2 DEF IInv, TypeOK, IsOperation, IsRowMap, Row
  <2> QED BY <2>1, <2>2, <2>3
<1> QED BY <1>1, <1>2, <1>3

\* A row whose stored version is the version that was read is the row that was read.
LEMMA UnchangedIsRead ==
  ASSUME IInv, NEW a \in Actors, NEW i \in DOMAIN pending[a].rows,
         Unchanged(pending[a], i)
  PROVE  i \in DOMAIN units /\ pending[a].rows[i] = units[i]
BY DEF IInv, VersionIdentifiesRow, Unchanged

\* The attachments of a row are well-formed items.
LEMMA AttachmentsOfOK ==
  ASSUME NEW id \in OrgUnitIds, NEW row \in Row
  PROVE  AttachmentsOf(id, row) \subseteq AttachmentItem
BY DEF AttachmentsOf, AttachmentOf, AttachmentItem, Row

\* Predecessors that agreed still do where path and predecessors of rows stay.
LEMMA SameAncestry ==
  ASSUME IInv, NEW u \in DOMAIN units,
         \A i \in DOMAIN units :
           /\ i \in DOMAIN units' /\ units'[i].path = units[i].path
           /\ units'[i].ancestorOrgUnitIds = units[i].ancestorOrgUnitIds
  PROVE  NamesPredecessors(u)'
<1> DEFINE ids == units[u].ancestorOrgUnitIds
<1>1. /\ Len(units[u].path) = Len(ids) + 1
      /\ \A k \in 1..Len(ids) :
           /\ ids[k] \in DOMAIN units
           /\ Len(units[ids[k]].ancestorOrgUnitIds) = k - 1
           /\ \A j \in 1..(k - 1) : units[ids[k]].ancestorOrgUnitIds[j] = ids[j]
  BY DEF IInv, Predecessors, NamesPredecessors
<1>2. units'[u].path = units[u].path /\ units'[u].ancestorOrgUnitIds = ids
  OBVIOUS
<1> HIDE DEF ids
<1>3. \A k \in 1..Len(ids) :
        /\ ids[k] \in DOMAIN units'
        /\ units'[ids[k]].ancestorOrgUnitIds = units[ids[k]].ancestorOrgUnitIds
  BY <1>1
<1>4. \A k \in 1..Len(ids) :
        /\ ids[k] \in DOMAIN units'
        /\ Len(units'[ids[k]].ancestorOrgUnitIds) = k - 1
        /\ \A j \in 1..(k - 1) : units'[ids[k]].ancestorOrgUnitIds[j] = ids[j]
  BY <1>1, <1>3
<1> QED BY <1>1, <1>2, <1>4 DEF NamesPredecessors

\* A created row is a new leaf: it derives from the parent row that is stored, for
\* the parent's version has not moved, and no other row names it.
LEMMA CommitCreateStep ==
  ASSUME IInv, NEW a \in Actors, CommitCreate(a)
  PROVE  IInv'
<1> DEFINE o == pending[a]
           id == o.id
           p == o.parentId
           row == CreatedRow(o)
           parent == [units[p] EXCEPT !.childIds = @ \cup {id}, !.version = @ + 1]
<1>1. /\ o.op = "create" /\ id \notin DOMAIN units
      /\ p # NoId => Unchanged(o, p)
      /\ units' = [i \in DOMAIN units \cup {id} |->
                     IF i = id THEN row ELSE IF i = p THEN parent ELSE units[i]]
      /\ attachments' = attachments \cup AttachmentsOf(id, row)
      /\ markers' = IF o.seeded THEN markers \cup {id} ELSE markers
      /\ tenants' = tenants
      /\ Become(a, Idle)
      /\ IsOperation(o) /\ OperationOK(o) /\ IsRowMap(units)
  BY DEF CommitCreate, IInv, TypeOK
<1>2. /\ id \in OrgUnitIds /\ o.slug \in Slugs /\ o.status \in Statuses
      /\ p # NoId => p \in DOMAIN o.rows
      /\ p \in OrgUnitIds \cup {NoId} /\ o.tenantIds \in SUBSET TenantIds
      /\ o.seeded \in BOOLEAN
  BY <1>1 DEF OperationOK, IsOperation, Operation
<1>3. p # NoId => p \in DOMAIN units /\ o.rows[p] = units[p] /\ p # id
  BY <1>1, <1>2, UnchangedIsRead
<1>4. \A i \in DOMAIN units : units[i] \in Row /\ i \in OrgUnitIds
  BY <1>1 DEF IsRowMap
<1>5. /\ row \in Row /\ row.slug = o.slug /\ row.parentId = p /\ row.childIds = {}
      /\ p = NoId => row.path = <<row.slug>> /\ row.ancestorOrgUnitIds = <<>>
      /\ p # NoId => /\ row.path = Append(units[p].path, row.slug)
                     /\ row.ancestorOrgUnitIds = Append(units[p].ancestorOrgUnitIds, p)
  <2>1. CASE p = NoId
    BY <1>2, <2>1 DEF CreatedRow, Row
  <2>2. CASE p # NoId
    <3>1. units[p].path \in Seq(Slugs) /\ units[p].ancestorOrgUnitIds \in Seq(OrgUnitIds)
      BY <1>3, <1>4, <2>2 DEF Row
    <3> DEFINE path == Append(units[p].path, o.slug)
               ids == Append(units[p].ancestorOrgUnitIds, p)
    <3>2. path \in Seq(Slugs) /\ ids \in Seq(OrgUnitIds)
      BY <1>2, <2>2, <3>1
    <3>3. row = [slug |-> o.slug, path |-> path, parentId |-> p,
                 ancestorOrgUnitIds |-> ids, tenantIds |-> o.tenantIds,
                 childIds |-> {}, status |-> o.status, seeded |-> o.seeded,
                 version |-> 1]
      BY <1>3, <2>2 DEF CreatedRow
    <3> HIDE DEF path, ids, row
    <3>4. row \in Row
      BY <1>2, <3>2, <3>3 DEF Row
    <3> QED BY <2>2, <3>3, <3>4 DEF path, ids
  <2> QED BY <2>1, <2>2
<1> HIDE DEF row
<1>6. p \in DOMAIN units =>
        /\ parent \in Row /\ parent.version = units[p].version + 1
        /\ parent.childIds = units[p].childIds \cup {id}
        /\ parent.slug = units[p].slug /\ parent.path = units[p].path
        /\ parent.parentId = units[p].parentId
        /\ parent.ancestorOrgUnitIds = units[p].ancestorOrgUnitIds
  <2> SUFFICES ASSUME p \in DOMAIN units
               PROVE  /\ parent \in Row /\ parent.version = units[p].version + 1
                      /\ parent.childIds = units[p].childIds \cup {id}
                      /\ parent.slug = units[p].slug /\ parent.path = units[p].path
                      /\ parent.parentId = units[p].parentId
                      /\ parent.ancestorOrgUnitIds = units[p].ancestorOrgUnitIds
    OBVIOUS
  <2> DEFINE r == units[p]
             n == [r EXCEPT !.childIds = @ \cup {id}, !.version = @ + 1]
  <2>1. r \in Row
    BY <1>4
  <2> HIDE DEF r
  <2>2. r.version + 1 \in Nat /\ r.childIds \cup {id} \in SUBSET OrgUnitIds
    BY <1>2, <2>1 DEF Row
  <2>3. n \in Row
    BY <2>1, <2>2 DEF Row
  <2>4. /\ n.version = r.version + 1 /\ n.childIds = r.childIds \cup {id}
        /\ n.slug = r.slug /\ n.path = r.path /\ n.parentId = r.parentId
        /\ n.ancestorOrgUnitIds = r.ancestorOrgUnitIds
    BY <2>1 DEF Row
  <2> QED BY <2>3, <2>4 DEF r
<1> HIDE DEF parent
<1>7. \A i \in DOMAIN units :
        /\ i \in DOMAIN units' /\ i # id
        /\ units'[i].slug = units[i].slug /\ units'[i].path = units[i].path
        /\ units'[i].parentId = units[i].parentId
        /\ units'[i].ancestorOrgUnitIds = units[i].ancestorOrgUnitIds
        /\ units[i].childIds \subseteq units'[i].childIds
        /\ i = p => id \in units'[i].childIds
        /\ i # p => units'[i] = units[i]
        /\ units'[i].childIds \subseteq units[i].childIds \cup {id}
        /\ \/ units'[i] = units[i]
           \/ units'[i].version = units[i].version + 1
  BY <1>1, <1>6
<1>8. DOMAIN units' = DOMAIN units \cup {id} /\ units'[id] = row
  BY <1>1
<1>9. IsRowMap(units')
  BY <1>1, <1>2, <1>4, <1>5, <1>6 DEF IsRowMap
<1>10. /\ pending' = [b \in Actors |-> pending'[b]]
       /\ \A b \in Actors : IsOperation(pending'[b]) /\ OperationOK(pending'[b])
       /\ VersionIdentifiesRow'
  BY <1>1, <1>7, <1>9, WriteKeepsReads
<1>11. TypeOK'
  BY <1>1, <1>2, <1>5, <1>9, <1>10, AttachmentsOfOK DEF IInv, TypeOK
<1>12. Forest'
  <2> SUFFICES ASSUME NEW u \in DOMAIN units'
               PROVE  DerivesFromParent(u)' /\ ListsItsChildren(u)'
    BY DEF Forest
  <2>1. CASE u = id
    <3>1. DerivesFromParent(u)'
      <4>1. CASE p = NoId
        BY <1>5, <1>8, <2>1, <4>1 DEF DerivesFromParent
      <4>2. CASE p # NoId
        <5>1. /\ p \in DOMAIN units' /\ id \in units'[p].childIds
              /\ units'[p].path = units[p].path
              /\ units'[p].ancestorOrgUnitIds = units[p].ancestorOrgUnitIds
          BY <1>3, <1>7, <4>2
        <5> QED BY <1>5, <1>8, <2>1, <4>2, <5>1 DEF DerivesFromParent
      <4> QED BY <4>1, <4>2
    <3>2. ListsItsChildren(u)'
      BY <1>5, <1>8, <2>1 DEF ListsItsChildren
    <3> QED BY <3>1, <3>2
  <2>2. CASE u \in DOMAIN units
    <3>1. DerivesFromParent(u) /\ ListsItsChildren(u)
      BY <2>2 DEF IInv, Forest
    <3>2. /\ units'[u].slug = units[u].slug /\ units'[u].path = units[u].path
          /\ units'[u].parentId = units[u].parentId
          /\ units'[u].ancestorOrgUnitIds = units[u].ancestorOrgUnitIds
      BY <1>7, <2>2
    <3>3. DerivesFromParent(u)'
      <4>1. CASE units[u].parentId = NoId
        BY <3>1, <3>2, <4>1 DEF DerivesFromParent
      <4>2. CASE units[u].parentId # NoId
        <5> DEFINE q == units[u].parentId
        <5>1. /\ q \in DOMAIN units /\ u \in units[q].childIds
              /\ units[u].path = Append(units[q].path, units[u].slug)
              /\ units[u].ancestorOrgUnitIds = Append(units[q].ancestorOrgUnitIds, q)
          BY <3>1, <4>2 DEF DerivesFromParent
        <5>2. /\ q \in DOMAIN units' /\ u \in units'[q].childIds
              /\ units'[q].path = units[q].path
              /\ units'[q].ancestorOrgUnitIds = units[q].ancestorOrgUnitIds
          BY <1>7, <5>1
        <5> QED BY <3>2, <4>2, <5>1, <5>2 DEF DerivesFromParent
      <4> QED BY <4>1, <4>2
    <3>4. ListsItsChildren(u)'
      BY <1>5, <1>7, <1>8, <2>2, <3>1 DEF ListsItsChildren
    <3> QED BY <3>3, <3>4
  <2> QED BY <1>8, <2>1, <2>2
<1>13. Predecessors'
  <2> SUFFICES ASSUME NEW u \in DOMAIN units' PROVE NamesPredecessors(u)'
    BY DEF Predecessors
  <2>1. CASE u \in DOMAIN units
    BY <1>7, <2>1, SameAncestry
  <2>2. CASE u = id /\ p = NoId
    <3>1. units'[u].ancestorOrgUnitIds = <<>> /\ units'[u].path = <<row.slug>>
      BY <1>5, <1>8, <2>2
    <3> QED BY <3>1 DEF NamesPredecessors
  <2>3. CASE u = id /\ p # NoId
    <3> DEFINE s == units[p].ancestorOrgUnitIds
               t == units[p].path
    <3>1. p \in DOMAIN units /\ s \in Seq(OrgUnitIds) /\ t \in Seq(Slugs)
      BY <1>3, <1>4, <2>3 DEF Row
    <3>2. /\ Len(t) = Len(s) + 1
          /\ \A k \in 1..Len(s) :
               /\ s[k] \in DOMAIN units
               /\ Len(units[s[k]].ancestorOrgUnitIds) = k - 1
               /\ \A j \in 1..(k - 1) : units[s[k]].ancestorOrgUnitIds[j] = s[j]
      BY <3>1 DEF IInv, Predecessors, NamesPredecessors
    <3> DEFINE ids == units'[u].ancestorOrgUnitIds
    <3>3. ids = Append(s, p) /\ units'[u].path = Append(t, row.slug)
      BY <1>5, <1>8, <2>3
    <3> HIDE DEF s, t, ids
    <3>4. /\ Len(ids) = Len(s) + 1 /\ Len(units'[u].path) = Len(t) + 1
          /\ Len(s) \in Nat
          /\ \A k \in 1..Len(s) : ids[k] = s[k]
          /\ ids[Len(s) + 1] = p
      BY <3>1, <3>3
    <3>5. ASSUME NEW k \in 1..Len(ids)
          PROVE  /\ ids[k] \in DOMAIN units'
                 /\ Len(units'[ids[k]].ancestorOrgUnitIds) = k - 1
                 /\ \A j \in 1..(k - 1) :
                      units'[ids[k]].ancestorOrgUnitIds[j] = ids[j]
      <4>1. CASE k \in 1..Len(s)
        <5>1. \A j \in 1..(k - 1) : ids[j] = s[j]
          BY <3>4, <4>1
        <5>2. /\ ids[k] = s[k] /\ s[k] \in DOMAIN units'
              /\ units'[s[k]].ancestorOrgUnitIds = units[s[k]].ancestorOrgUnitIds
          BY <1>7, <3>2, <3>4, <4>1
        <5> QED BY <3>2, <4>1, <5>1, <5>2
      <4>2. CASE k = Len(s) + 1
        <5>1. ids[k] = p /\ units'[p].ancestorOrgUnitIds = s
          BY <1>7, <3>1, <3>4, <4>2 DEF s
        <5> QED BY <1>7, <3>1, <3>4, <4>2, <5>1
      <4> QED BY <3>4, <4>1, <4>2
    <3> QED BY <3>2, <3>4, <3>5 DEF ids, NamesPredecessors
  <2> QED BY <1>8, <2>1, <2>2, <2>3
<1>14. GenuinePredecessors'
  <2> SUFFICES ASSUME NEW T \in SUBSET DOMAIN units', ClosedUnderChildren(T)',
                      NEW u \in DOMAIN units',
                      NEW k \in 1..Len(units'[u].ancestorOrgUnitIds),
                      units'[u].ancestorOrgUnitIds[k] \in T
               PROVE  u \in T
    BY DEF GenuinePredecessors
  <2> DEFINE S == T \ {id}
  <2>1. S \in SUBSET DOMAIN units /\ ClosedUnderChildren(S)
    BY <1>7, <1>8 DEF ClosedUnderChildren
  <2>2. ASSUME NEW v \in DOMAIN units, NEW j \in 1..Len(units[v].ancestorOrgUnitIds),
               units[v].ancestorOrgUnitIds[j] \in T
        PROVE  v \in T
    <3>1. units[v].ancestorOrgUnitIds[j] \in DOMAIN units
      BY DEF IInv, Predecessors, NamesPredecessors
    <3>2. units[v].ancestorOrgUnitIds[j] \in S
      BY <1>1, <2>2, <3>1
    <3> HIDE DEF S
    <3>3. v \in S
      BY <2>1, <3>2 DEF IInv, GenuinePredecessors
    <3> QED BY <3>3 DEF S
  <2>3. CASE u \in DOMAIN units
    BY <1>7, <2>2, <2>3
  <2>4. CASE u = id
    <3>1. p # NoId
      BY <1>5, <1>8, <2>4
    <3>2. units[p].ancestorOrgUnitIds \in Seq(OrgUnitIds) /\ p \in DOMAIN units
      BY <1>3, <1>4, <3>1 DEF Row
    <3>3. units'[u].ancestorOrgUnitIds = Append(units[p].ancestorOrgUnitIds, p)
      BY <1>5, <1>8, <2>4, <3>1
    <3>4. \/ /\ k \in 1..Len(units[p].ancestorOrgUnitIds)
             /\ units[p].ancestorOrgUnitIds[k] \in T
          \/ p \in T
      BY <3>2, <3>3
    <3>5. p \in T
      BY <2>2, <3>2, <3>4
    <3> QED BY <1>5, <1>8, <2>4, <3>5 DEF ClosedUnderChildren
  <2> QED BY <1>8, <2>3, <2>4
<1> QED BY <1>10, <1>11, <1>12, <1>13, <1>14 DEF IInv

\* An edit keeps links, paths and predecessors of every row.
LEMMA CommitEditStep ==
  ASSUME IInv, NEW a \in Actors, CommitEdit(a)
  PROVE  IInv'
<1> DEFINE o == pending[a]
           id == o.id
           row == EditedRow(o)
           dropped == KeysOf(CurrentOf(o)) \ KeysOf(row)
<1>1. /\ o.op = "update" /\ Unchanged(o, id)
      /\ units' = [units EXCEPT ![id] = row]
      /\ attachments' =
           {att \in attachments : KeyOf(att) \notin dropped \cup KeysOf(row)}
             \cup AttachmentsOf(id, row)
      /\ markers' = markers /\ tenants' = tenants
      /\ Become(a, Idle)
      /\ IsOperation(o) /\ OperationOK(o) /\ IsRowMap(units)
  BY DEF CommitEdit, IInv, TypeOK
<1>2. /\ id \in OrgUnitIds /\ o.status \in Statuses /\ id \in DOMAIN o.rows
      /\ o.tenantIds \in SUBSET TenantIds
  BY <1>1 DEF OperationOK, IsOperation, Operation
<1>3. id \in DOMAIN units /\ o.rows[id] = units[id]
  BY <1>1, <1>2, UnchangedIsRead
<1>4. \A i \in DOMAIN units : units[i] \in Row /\ i \in OrgUnitIds
  BY <1>1 DEF IsRowMap
<1>5. /\ row \in Row /\ row.slug = units[id].slug /\ row.path = units[id].path
      /\ row.parentId = units[id].parentId /\ row.childIds = units[id].childIds
      /\ row.ancestorOrgUnitIds = units[id].ancestorOrgUnitIds
      /\ row.version = units[id].version + 1
  <2> DEFINE r == units[id]
             n == [r EXCEPT !.tenantIds = o.tenantIds, !.status = o.status,
                            !.version = @ + 1]
  <2>1. row = n
    BY <1>3 DEF EditedRow, CurrentOf
  <2>2. r \in Row
    BY <1>3, <1>4
  <2> HIDE DEF row, r
  <2>3. r.version + 1 \in Nat
    BY <2>2 DEF Row
  <2>4. n \in Row
    BY <1>2, <2>2, <2>3 DEF Row
  <2>5. /\ n.slug = r.slug /\ n.path = r.path
        /\ n.parentId = r.parentId /\ n.childIds = r.childIds
        /\ n.ancestorOrgUnitIds = r.ancestorOrgUnitIds
        /\ n.version = r.version + 1
    BY <2>2 DEF Row
  <2> HIDE DEF n
  <2> QED BY <2>1, <2>4, <2>5 DEF r
<1> HIDE DEF row, dropped
<1>6. /\ DOMAIN units' = DOMAIN units
      /\ \A i \in DOMAIN units :
           /\ units'[i].slug = units[i].slug /\ units'[i].path = units[i].path
           /\ units'[i].parentId = units[i].parentId
           /\ units'[i].childIds = units[i].childIds
           /\ units'[i].ancestorOrgUnitIds = units[i].ancestorOrgUnitIds
           /\ \/ units'[i] = units[i]
              \/ units'[i].version = units[i].version + 1
  BY <1>1, <1>3, <1>5
<1>7. IsRowMap(units')
  BY <1>1, <1>4, <1>5 DEF IsRowMap
<1>8. /\ pending' = [b \in Actors |-> pending'[b]]
      /\ \A b \in Actors : IsOperation(pending'[b]) /\ OperationOK(pending'[b])
      /\ VersionIdentifiesRow'
  BY <1>1, <1>6, <1>7, WriteKeepsReads
<1>9. TypeOK'
  BY <1>1, <1>2, <1>5, <1>7, <1>8, AttachmentsOfOK DEF IInv, TypeOK
<1>10. Forest'
  <2> SUFFICES ASSUME NEW u \in DOMAIN units
               PROVE  DerivesFromParent(u)' /\ ListsItsChildren(u)'
    BY <1>6 DEF Forest
  <2>1. DerivesFromParent(u) /\ ListsItsChildren(u)
    BY DEF IInv, Forest
  <2>2. ListsItsChildren(u)'
    BY <1>6, <2>1 DEF ListsItsChildren
  <2>3. /\ units'[u].slug = units[u].slug /\ units'[u].path = units[u].path
        /\ units'[u].parentId = units[u].parentId
        /\ units'[u].ancestorOrgUnitIds = units[u].ancestorOrgUnitIds
    BY <1>6
  <2>4. CASE units[u].parentId = NoId
    <3>1. DerivesFromParent(u)'
      BY <2>1, <2>3, <2>4 DEF DerivesFromParent
    <3> QED BY <2>2, <3>1
  <2>5. CASE units[u].parentId # NoId
    <3> DEFINE q == units[u].parentId
    <3>1. /\ q \in DOMAIN units /\ u \in units[q].childIds
          /\ units[u].path = Append(units[q].path, units[u].slug)
          /\ units[u].ancestorOrgUnitIds = Append(units[q].ancestorOrgUnitIds, q)
      BY <2>1, <2>5 DEF DerivesFromParent
    <3>2. /\ q \in DOMAIN units' /\ u \in units'[q].childIds
          /\ units'[q].path = units[q].path
          /\ units'[q].ancestorOrgUnitIds = units[q].ancestorOrgUnitIds
      BY <1>6, <3>1
    <3>3. DerivesFromParent(u)'
      BY <2>3, <2>5, <3>1, <3>2 DEF DerivesFromParent
    <3> QED BY <2>2, <3>3
  <2> QED BY <2>2, <2>4, <2>5
<1>11. Predecessors'
  BY <1>6, SameAncestry DEF Predecessors
<1>12. GenuinePredecessors'
  BY <1>6 DEF IInv, GenuinePredecessors, ClosedUnderChildren
<1> QED BY <1>8, <1>9, <1>10, <1>11, <1>12 DEF IInv

\* A move rewrites the subtree below its new parent.  The subtree was read in steps,
\* but no row of it changed since, so it is what it was when the move commits: closed
\* under children, with the moved root at one depth in the predecessors of every
\* other row, and without either parent.
LEMMA CommitMoveStep ==
  ASSUME IInv, NEW a \in Actors, CommitMove(a)
  PROVE  IInv'
<1> DEFINE o == pending[a]
           id == o.id
           S == o.subtree
           p == o.parentId
           q == CurrentOf(o).parentId
           L == Len(units[id].ancestorOrgUnitIds)
           R == RootAncestors(o)
           P == RootPath(o)
           moved == [u \in S |-> MovedRow(o, u)]
(* What was read is what is stored.                                        *)
<1>1. /\ o.op = "update" /\ o.step = "write" /\ Moving(o)
      /\ IsOperation(o) /\ OperationOK(o) /\ IsRowMap(units)
      /\ ParentsOf(o) \cap S = {}
      /\ \A u \in S \cup ParentsOf(o) : Unchanged(o, u)
      /\ markers' = markers /\ tenants' = tenants
      /\ Become(a, Idle)
  BY DEF CommitMove, IInv, TypeOK
<1>2. /\ \A u \in S \ {id} :
           \E k \in 1..Len(o.rows[u].ancestorOrgUnitIds) :
             o.rows[u].ancestorOrgUnitIds[k] = id
      /\ units' = [i \in DOMAIN units |->
                    IF i \in S THEN moved[i]
                    ELSE IF i = p THEN WithChildIds(i, o.rows[i].childIds \cup {id})
                    ELSE IF i = q THEN WithChildIds(i, o.rows[i].childIds \ {id})
                    ELSE units[i]]
      /\ attachments' =
           {att \in attachments : KeyOf(att) \notin OldKeys(o)}
             \cup (UNION {AttachmentsOf(u, moved[u]) : u \in S})
  BY DEF CommitMove
<1>3. /\ id \in OrgUnitIds /\ o.status \in Statuses /\ id \in S
      /\ S \subseteq DOMAIN o.rows /\ p # q
      /\ p # NoId => p \in DOMAIN o.rows
      /\ q # NoId => q \in DOMAIN o.rows
      /\ \A u \in S \ {id} : o.rows[u].parentId \in S
      /\ \A u \in S : o.rows[u].childIds \subseteq S
      /\ p \in OrgUnitIds \cup {NoId} /\ o.tenantIds \in SUBSET TenantIds
  BY <1>1 DEF OperationOK, IsOperation, Operation, Moving
<1>4. /\ \A u \in S : u \in DOMAIN units /\ o.rows[u] = units[u]
      /\ p # NoId => p \in DOMAIN units \ S /\ o.rows[p] = units[p]
      /\ q # NoId => q \in DOMAIN units \ S /\ o.rows[q] = units[q]
  BY <1>1, <1>3, UnchangedIsRead DEF ParentsOf
<1>5. \A i \in DOMAIN units : units[i] \in Row /\ i \in OrgUnitIds
  BY <1>1 DEF IsRowMap
<1>6. CurrentOf(o) = units[id] /\ q = units[id].parentId
  BY <1>3, <1>4 DEF CurrentOf
<1>7. /\ NoId \notin DOMAIN units /\ p \notin S /\ q \notin S
      /\ \A u \in S \ {id} : units[u].parentId \in S
      /\ \A u \in S : units[u].childIds \subseteq S
  BY <1>3, <1>4, <1>5, OrgUnitsAssumption
<1> HIDE DEF q
<1>8. ClosedUnderChildren(S)
  BY <1>4, <1>7 DEF ClosedUnderChildren, IInv, Forest, DerivesFromParent
<1>9. \A u \in DOMAIN units : DerivesFromParent(u) /\ ListsItsChildren(u)
  BY DEF IInv, Forest
(* The moved root sits at depth L + 1 of every other row of the subtree.   *)
<1>10. /\ L \in Nat /\ Len(units[id].path) = L + 1
       /\ \A u \in DOMAIN units :
            /\ units[u].ancestorOrgUnitIds \in Seq(OrgUnitIds)
            /\ units[u].path \in Seq(Slugs)
            /\ Len(units[u].path) = Len(units[u].ancestorOrgUnitIds) + 1
  <2>1. \A u \in DOMAIN units :
          /\ units[u].ancestorOrgUnitIds \in Seq(OrgUnitIds)
          /\ units[u].path \in Seq(Slugs)
    BY <1>5 DEF Row
  <2>2. \A u \in DOMAIN units :
          Len(units[u].path) = Len(units[u].ancestorOrgUnitIds) + 1
    BY DEF IInv, Predecessors, NamesPredecessors
  <2>3. id \in DOMAIN units
    BY <1>3, <1>4
  <2>4. L \in Nat /\ Len(units[id].path) = L + 1
    BY <2>1, <2>2, <2>3
  <2> QED BY <2>1, <2>2, <2>4
<1>11. ASSUME NEW u \in S \ {id}
       PROVE  /\ L + 1 \in 1..Len(units[u].ancestorOrgUnitIds)
              /\ units[u].ancestorOrgUnitIds[L + 1] = id
              /\ IndexOf(units[u].ancestorOrgUnitIds, id) = L + 1
  <2> DEFINE ids == units[u].ancestorOrgUnitIds
  <2>1. PICK k \in 1..Len(ids) : ids[k] = id
    BY <1>2, <1>4
  <2>2. u \in DOMAIN units /\ NamesPredecessors(u) /\ Len(ids) \in Nat
    BY <1>4, <1>10 DEF IInv, Predecessors
  <2>3. \A j \in 1..Len(ids) : Len(units[ids[j]].ancestorOrgUnitIds) = j - 1
    BY <2>2 DEF NamesPredecessors
  <2>4. \A j \in 1..Len(ids) : ids[j] = id => L = j - 1
    <3> HIDE DEF ids
    <3> QED BY <2>3
  <2>5. k = L + 1 /\ Len(ids) \in Nat
    <3> HIDE DEF ids, L
    <3> QED BY <1>10, <2>2, <2>1, <2>4
  <2> HIDE DEF ids, L
  <2>6. \A j \in 1..(k - 1) : ids[j] # id
    BY <2>4, <2>5
  <2>7. \A i \in 1..Len(ids) :
          ids[i] = id /\ (\A j \in 1..(i - 1) : ids[j] # id) => i = L + 1
    BY <1>10, <2>4
  <2>8. IndexOf(ids, id) = L + 1
    BY <2>1, <2>5, <2>6, <2>7 DEF IndexOf
  <2> QED BY <2>1, <2>5, <2>8 DEF ids
<1>12. /\ R \in Seq(OrgUnitIds) /\ P \in Seq(Slugs) /\ Len(P) = Len(R) + 1
       /\ Len(R) \in Nat
       /\ p = NoId => R = <<>> /\ P = <<units[id].slug>>
       /\ p # NoId => /\ R = Append(units[p].ancestorOrgUnitIds, p)
                      /\ P = Append(units[p].path, units[id].slug)
  <2>1. units[id].slug \in Slugs
    BY <1>3, <1>4, <1>5 DEF Row
  <2>2. CASE p = NoId
    BY <1>6, <2>1, <2>2 DEF RootAncestors, RootPath
  <2>3. CASE p # NoId
    <3>1. /\ R = Append(units[p].ancestorOrgUnitIds, p)
          /\ P = Append(units[p].path, units[id].slug)
          /\ p \in DOMAIN units /\ p \in OrgUnitIds
      BY <1>4, <1>5, <1>6, <2>3 DEF RootAncestors, RootPath
    <3> QED BY <1>10, <2>1, <2>3, <3>1
  <2> QED BY <2>2, <2>3
<1> HIDE DEF R, P, L
(* The rows that are written.                                              *)
<1>13. /\ moved[id] \in Row /\ moved[id].slug = units[id].slug
       /\ moved[id].path = P /\ moved[id].parentId = p
       /\ moved[id].ancestorOrgUnitIds = R
       /\ moved[id].childIds = units[id].childIds
       /\ moved[id].version = units[id].version + 1
  <2> DEFINE r == units[id]
             n == [r EXCEPT !.path = P, !.parentId = p, !.ancestorOrgUnitIds = R,
                            !.tenantIds = o.tenantIds, !.status = o.status,
                            !.version = @ + 1]
  <2>1. moved[id] = n
    BY <1>3, <1>4 DEF MovedRow, P, R
  <2>2. r \in Row
    BY <1>3, <1>4, <1>5
  <2> HIDE DEF moved, r
  <2>3. r.version + 1 \in Nat
    BY <2>2 DEF Row
  <2>4. n \in Row
    BY <1>3, <1>12, <2>2, <2>3 DEF Row
  <2>5. /\ n.slug = r.slug /\ n.path = P /\ n.parentId = p
        /\ n.ancestorOrgUnitIds = R /\ n.childIds = r.childIds
        /\ n.version = r.version + 1
    BY <2>2 DEF Row
  <2> HIDE DEF n
  <2> QED BY <2>1, <2>4, <2>5 DEF r
<1> DEFINE NewIds(u) == Append(R, id) \o SubSeq(units[u].ancestorOrgUnitIds, L + 2,
                                               Len(units[u].ancestorOrgUnitIds))
           NewPath(u) == P \o SubSeq(units[u].path, L + 2, Len(units[u].path))
<1>14. Append(R, id) \in Seq(OrgUnitIds) /\ Len(Append(R, id)) = Len(R) + 1
  BY <1>3, <1>12
<1>15. ASSUME NEW u \in S \ {id}
       PROVE  /\ NewIds(u) \in Seq(OrgUnitIds) /\ NewPath(u) \in Seq(Slugs)
              /\ Len(NewIds(u)) = Len(R) + Len(units[u].ancestorOrgUnitIds) - L
              /\ Len(NewPath(u)) = Len(NewIds(u)) + 1
              /\ \A i \in 1..Len(NewIds(u)) :
                   NewIds(u)[i] = IF i <= Len(R) THEN R[i]
                                  ELSE units[u].ancestorOrgUnitIds[i - Len(R) + L]
  <2> DEFINE ids == units[u].ancestorOrgUnitIds
             path == units[u].path
             x == Append(R, id)
  <2>1. /\ ids \in Seq(OrgUnitIds) /\ path \in Seq(Slugs) /\ Len(path) = Len(ids) + 1
        /\ L + 1 \in 1..Len(ids) /\ ids[L + 1] = id
    BY <1>4, <1>10, <1>11
  <2>2. /\ x \in Seq(OrgUnitIds) /\ Len(x) = Len(R) + 1
        /\ x[Len(R) + 1] = id /\ \A i \in 1..Len(R) : x[i] = R[i]
    BY <1>3, <1>12
  <2> DEFINE K == L + 2
             y == x \o SubSeq(ids, K, Len(ids))
             z == P \o SubSeq(path, K, Len(path))
  <2> HIDE DEF ids, path, x
  <2>3. /\ K \in 1..(Len(ids) + 1) /\ K \in 1..(Len(path) + 1)
        /\ Len(ids) \in Nat
    BY <1>10, <2>1
  <2> HIDE DEF K
  <2>4. /\ y \in Seq(OrgUnitIds) /\ Len(y) = Len(x) + Len(ids) + 1 - K
        /\ \A i \in 1..Len(y) : y[i] = IF i <= Len(x) THEN x[i]
                                      ELSE ids[i - Len(x) + K - 1]
    <3>1. ids \in Seq(OrgUnitIds) /\ x \in Seq(OrgUnitIds) /\ K \in 1..(Len(ids) + 1)
      BY <2>1, <2>2, <2>3
    <3> QED BY <3>1
  <2>5. z \in Seq(Slugs) /\ Len(z) = Len(P) + Len(path) + 1 - K
    <3>1. path \in Seq(Slugs) /\ P \in Seq(Slugs) /\ K \in 1..(Len(path) + 1)
      BY <1>12, <2>1, <2>3
    <3> QED BY <3>1
  <2> HIDE DEF y, z
  <2>6. /\ Len(y) = Len(R) + Len(ids) - L
        /\ Len(z) = Len(y) + 1
    BY <1>10, <1>12, <2>1, <2>2, <2>3, <2>4, <2>5 DEF K
  <2>7. ASSUME NEW i \in 1..Len(y)
        PROVE  y[i] = IF i <= Len(R) THEN R[i] ELSE ids[i - Len(R) + L]
    <3>1. CASE i <= Len(R)
      BY <1>12, <2>2, <2>4, <3>1
    <3>2. CASE i = Len(R) + 1
      <4>1. y[i] = id
        BY <1>12, <2>2, <2>4, <3>2
      <4>2. i - Len(R) + L = L + 1
        BY <1>10, <1>12, <3>2
      <4> QED BY <1>12, <2>1, <3>2, <4>1, <4>2
    <3>3. CASE i > Len(R) + 1
      <4>1. i - Len(x) + K - 1 = i - Len(R) + L
        BY <1>10, <1>12, <2>2 DEF K
      <4>2. ~(i <= Len(x)) /\ ~(i <= Len(R))
        BY <1>12, <2>2, <3>3
      <4> QED BY <2>4, <4>1, <4>2
    <3> QED BY <1>12, <3>1, <3>2, <3>3
  <2> QED BY <2>4, <2>5, <2>6, <2>7 DEF x, y, z, ids, path, K
<1>16. ASSUME NEW u \in S \ {id}
       PROVE  /\ moved[u] \in Row /\ moved[u].slug = units[u].slug
              /\ moved[u].path = NewPath(u)
              /\ moved[u].parentId = units[u].parentId
              /\ moved[u].ancestorOrgUnitIds = NewIds(u)
              /\ moved[u].childIds = units[u].childIds
              /\ moved[u].version = units[u].version + 1
  <2> DEFINE path == NewPath(u)
             ids == NewIds(u)
  <2>1. /\ o.rows[u] = units[u] /\ Len(CurrentOf(o).path) + 1 = L + 2
        /\ IndexOf(units[u].ancestorOrgUnitIds, id) + 1 = L + 2
    BY <1>4, <1>6, <1>10, <1>11
  <2> DEFINE r == units[u]
             n == [r EXCEPT !.path = path, !.ancestorOrgUnitIds = ids,
                            !.version = @ + 1]
  <2>2. moved[u] = n
    BY <2>1 DEF MovedRow, P, R
  <2>3. r \in Row /\ path \in Seq(Slugs) /\ ids \in Seq(OrgUnitIds)
    BY <1>4, <1>5, <1>15
  <2> HIDE DEF moved, path, ids, r
  <2>4. r.version + 1 \in Nat
    BY <2>3 DEF Row
  <2>5. n \in Row
    BY <2>3, <2>4 DEF Row
  <2>6. /\ n.slug = r.slug /\ n.path = path
        /\ n.parentId = r.parentId /\ n.ancestorOrgUnitIds = ids
        /\ n.childIds = r.childIds /\ n.version = r.version + 1
    BY <2>3 DEF Row
  <2> HIDE DEF n
  <2> QED BY <2>2, <2>5, <2>6 DEF path, ids, r
<1> HIDE DEF moved, NewIds, NewPath
(* The table after the move.                                               *)
<1>17. /\ DOMAIN units' = DOMAIN units
       /\ \A u \in S : units'[u] = moved[u]
       /\ \A i \in DOMAIN units \ S :
            /\ units'[i] \in Row
            /\ units'[i].slug = units[i].slug /\ units'[i].path = units[i].path
            /\ units'[i].parentId = units[i].parentId
            /\ units'[i].ancestorOrgUnitIds = units[i].ancestorOrgUnitIds
            /\ units'[i].childIds = IF i = p THEN units[i].childIds \cup {id}
                                    ELSE IF i = q THEN units[i].childIds \ {id}
                                    ELSE units[i].childIds
            /\ \/ units'[i] = units[i]
               \/ units'[i].version = units[i].version + 1
  <2>1. DOMAIN units' = DOMAIN units
    BY <1>2
  <2>2. \A u \in S : units'[u] = moved[u]
    BY <1>2, <1>4
  <2>3. ASSUME NEW r \in Row, NEW ids \in SUBSET OrgUnitIds
        PROVE  LET n == [r EXCEPT !.childIds = ids, !.version = @ + 1] IN
               /\ n \in Row /\ n.version = r.version + 1 /\ n.childIds = ids
               /\ n.slug = r.slug /\ n.path = r.path /\ n.parentId = r.parentId
               /\ n.ancestorOrgUnitIds = r.ancestorOrgUnitIds
    <3>1. r.version + 1 \in Nat
      BY DEF Row
    <3> QED BY <3>1 DEF Row
  <2>4. ASSUME NEW i \in DOMAIN units \ S
        PROVE  /\ units'[i] \in Row
               /\ units'[i].slug = units[i].slug /\ units'[i].path = units[i].path
               /\ units'[i].parentId = units[i].parentId
               /\ units'[i].ancestorOrgUnitIds = units[i].ancestorOrgUnitIds
               /\ units'[i].childIds = IF i = p THEN units[i].childIds \cup {id}
                                       ELSE IF i = q THEN units[i].childIds \ {id}
                                       ELSE units[i].childIds
               /\ \/ units'[i] = units[i]
                  \/ units'[i].version = units[i].version + 1
    <3> DEFINE r == units[i]
    <3>1. r \in Row /\ r.childIds \in SUBSET OrgUnitIds
      BY <1>5 DEF Row
    <3>2. CASE i = p
      <4>1. units'[i] = [r EXCEPT !.childIds = r.childIds \cup {id}, !.version = @ + 1]
        BY <1>2, <1>4, <1>7, <3>2 DEF WithChildIds
      <4>2. r.childIds \cup {id} \in SUBSET OrgUnitIds
        BY <1>3, <3>1
      <4> HIDE DEF r
      <4> DEFINE n == [r EXCEPT !.childIds = r.childIds \cup {id}, !.version = @ + 1]
      <4>3. /\ n \in Row /\ n.version = r.version + 1
            /\ n.childIds = r.childIds \cup {id}
            /\ n.slug = r.slug /\ n.path = r.path /\ n.parentId = r.parentId
            /\ n.ancestorOrgUnitIds = r.ancestorOrgUnitIds
        BY <2>3, <3>1, <4>2
      <4>4. units'[i] = n
        BY <4>1
      <4> HIDE DEF n
      <4> QED BY <3>2, <4>3, <4>4 DEF r
    <3>3. CASE i # p /\ i = q
      <4>1. units'[i] = [r EXCEPT !.childIds = r.childIds \ {id}, !.version = @ + 1]
        BY <1>2, <1>4, <1>7, <3>3 DEF WithChildIds
      <4>2. r.childIds \ {id} \in SUBSET OrgUnitIds
        BY <3>1
      <4> HIDE DEF r
      <4> DEFINE n == [r EXCEPT !.childIds = r.childIds \ {id}, !.version = @ + 1]
      <4>3. /\ n \in Row /\ n.version = r.version + 1
            /\ n.childIds = r.childIds \ {id}
            /\ n.slug = r.slug /\ n.path = r.path /\ n.parentId = r.parentId
            /\ n.ancestorOrgUnitIds = r.ancestorOrgUnitIds
        BY <2>3, <3>1, <4>2
      <4>4. units'[i] = n
        BY <4>1
      <4> HIDE DEF n
      <4> QED BY <3>3, <4>3, <4>4 DEF r
    <3>4. CASE i # p /\ i # q
      <4>1. units'[i] = units[i]
        BY <1>2, <3>4
      <4> QED BY <3>1, <3>4, <4>1
    <3> QED BY <3>2, <3>3, <3>4
  <2> QED BY <2>1, <2>2, <2>4
<1>18. IsRowMap(units')
  <2>1. ASSUME NEW u \in DOMAIN units
        PROVE  units'[u] \in Row
    <3>1. CASE u \in S \ {id}
      BY <1>16, <1>17, <3>1
    <3>2. CASE u = id
      BY <1>3, <1>13, <1>17, <3>2
    <3>3. CASE u \notin S
      BY <1>17, <3>3
    <3> QED BY <3>1, <3>2, <3>3
  <2> QED BY <1>1, <1>2, <1>17, <2>1 DEF IsRowMap
<1>19. \A i \in DOMAIN units :
         /\ i \in DOMAIN units'
         /\ \/ units'[i] = units[i]
            \/ units'[i].version = units[i].version + 1
  <2> SUFFICES ASSUME NEW i \in DOMAIN units
               PROVE  /\ i \in DOMAIN units'
                      /\ \/ units'[i] = units[i]
                         \/ units'[i].version = units[i].version + 1
    OBVIOUS
  <2>1. CASE i \in S \ {id}
    BY <1>16, <1>17, <2>1
  <2>2. CASE i = id
    BY <1>3, <1>13, <1>17, <2>2
  <2>3. CASE i \notin S
    BY <1>17, <2>3
  <2> QED BY <2>1, <2>2, <2>3
<1>20. /\ pending' = [b \in Actors |-> pending'[b]]
       /\ \A b \in Actors : IsOperation(pending'[b]) /\ OperationOK(pending'[b])
       /\ VersionIdentifiesRow'
  BY <1>1, <1>18, <1>19, WriteKeepsReads
<1>21. TypeOK'
  <2>1. \A u \in S : AttachmentsOf(u, moved[u]) \subseteq AttachmentItem
    BY <1>4, <1>5, <1>13, <1>16, AttachmentsOfOK
  <2>2. attachments' \subseteq AttachmentItem
    BY <1>2, <2>1 DEF moved, IInv, TypeOK
  <2> QED BY <1>1, <1>18, <1>20, <2>2 DEF IInv, TypeOK
(* Every row of the subtree has the predecessors of the root's new place in front *)
(* of the part of its own that follows depth L.                            *)
<1>22. ASSUME NEW u \in S
       PROVE  /\ units'[u].ancestorOrgUnitIds \in Seq(OrgUnitIds)
              /\ Len(units'[u].ancestorOrgUnitIds) =
                   Len(R) + Len(units[u].ancestorOrgUnitIds) - L
              /\ Len(units'[u].path) = Len(units'[u].ancestorOrgUnitIds) + 1
              /\ \A i \in 1..Len(units'[u].ancestorOrgUnitIds) :
                   units'[u].ancestorOrgUnitIds[i] =
                     IF i <= Len(R) THEN R[i]
                     ELSE units[u].ancestorOrgUnitIds[i - Len(R) + L]
  <2>1. CASE u = id
    <3>1. units'[u].ancestorOrgUnitIds = R /\ units'[u].path = P
      BY <1>3, <1>13, <1>17, <2>1
    <3>2. Len(units[u].ancestorOrgUnitIds) = L
      BY <2>1 DEF L
    <3> QED BY <1>10, <1>12, <3>1, <3>2
  <2>2. CASE u # id
    <3>1. units'[u].ancestorOrgUnitIds = NewIds(u) /\ units'[u].path = NewPath(u)
      BY <1>16, <1>17, <2>2
    <3> QED BY <1>15, <2>2, <3>1
  <2> QED BY <2>1, <2>2
<1>23. ASSUME NEW u \in S, NEW k \in (L + 1)..Len(units[u].ancestorOrgUnitIds)
       PROVE  units[u].ancestorOrgUnitIds[k] \in S
  <2> DEFINE ids == units[u].ancestorOrgUnitIds
  <2>0. k \in 1..Len(ids) /\ u \in DOMAIN units
    BY <1>4, <1>10
  <2>1. /\ ids[k] \in DOMAIN units /\ Len(units[ids[k]].ancestorOrgUnitIds) = k - 1
        /\ \A j \in 1..(k - 1) : units[ids[k]].ancestorOrgUnitIds[j] = ids[j]
    BY <2>0 DEF IInv, Predecessors, NamesPredecessors
  <2>2. u # id
    BY <1>10 DEF L
  <2>3. CASE k = L + 1
    BY <1>3, <1>11, <2>2, <2>3
  <2>4. CASE k > L + 1
    <3> DEFINE v == ids[k]
    <3>1. L + 1 \in 1..(k - 1)
      BY <1>10, <2>4
    <3>2. L + 1 \in 1..Len(units[v].ancestorOrgUnitIds)
      BY <2>1, <3>1
    <3>3. units[v].ancestorOrgUnitIds[L + 1] = id
      BY <1>11, <2>1, <2>2, <3>1
    <3>4. S \in SUBSET DOMAIN units
      BY <1>4
    <3>5. v \in DOMAIN units
      BY <2>1
    <3> HIDE DEF v
    <3>6. v \in S
      BY <1>3, <1>8, <3>2, <3>3, <3>4, <3>5 DEF IInv, GenuinePredecessors
    <3> QED BY <3>6 DEF v
  <2> QED BY <1>10, <2>3, <2>4
<1>24. ASSUME NEW u \in DOMAIN units \ S,
              NEW k \in 1..Len(units[u].ancestorOrgUnitIds)
       PROVE  /\ units[u].ancestorOrgUnitIds[k] \in DOMAIN units \ S
              /\ Len(units[units[u].ancestorOrgUnitIds[k]].ancestorOrgUnitIds) = k - 1
              /\ \A j \in 1..(k - 1) :
                   units[units[u].ancestorOrgUnitIds[k]].ancestorOrgUnitIds[j]
                     = units[u].ancestorOrgUnitIds[j]
  <2>1. S \in SUBSET DOMAIN units
    BY <1>4
  <2>2. units[u].ancestorOrgUnitIds[k] \notin S
    BY <1>8, <2>1 DEF IInv, GenuinePredecessors
  <2> QED BY <2>2 DEF IInv, Predecessors, NamesPredecessors
<1>25. ASSUME NEW k \in 1..Len(R)
       PROVE  /\ R[k] \in DOMAIN units \ S
              /\ Len(units[R[k]].ancestorOrgUnitIds) = k - 1
              /\ \A j \in 1..(k - 1) : units[R[k]].ancestorOrgUnitIds[j] = R[j]
  <2> DEFINE ids == units[p].ancestorOrgUnitIds
  <2>1. p # NoId /\ R = Append(ids, p) /\ p \in DOMAIN units \ S
    BY <1>4, <1>12
  <2>2. ids \in Seq(OrgUnitIds) /\ p \in OrgUnitIds
    BY <1>5, <1>10, <2>1
  <2> HIDE DEF ids
  <2>3. /\ \A j \in 1..Len(ids) : R[j] = ids[j]
        /\ R[Len(ids) + 1] = p /\ Len(R) = Len(ids) + 1 /\ Len(ids) \in Nat
    BY <2>1, <2>2
  <2>4. CASE k = Len(ids) + 1
    <3>1. R[k] = p /\ \A j \in 1..(k - 1) : R[j] = ids[j]
      BY <2>3, <2>4
    <3>2. units[p].ancestorOrgUnitIds = ids
      BY DEF ids
    <3> QED BY <2>1, <2>3, <2>4, <3>1, <3>2
  <2>5. CASE k \in 1..Len(ids)
    <3>1. /\ ids[k] \in DOMAIN units \ S
          /\ Len(units[ids[k]].ancestorOrgUnitIds) = k - 1
          /\ \A j \in 1..(k - 1) : units[ids[k]].ancestorOrgUnitIds[j] = ids[j]
      BY <1>24, <2>1, <2>5 DEF ids
    <3>2. R[k] = ids[k] /\ \A j \in 1..(k - 1) : R[j] = ids[j]
      BY <2>3, <2>5
    <3> QED BY <3>1, <3>2
  <2> QED BY <2>3, <2>4, <2>5
<1>26. Predecessors'
  <2> SUFFICES ASSUME NEW u \in DOMAIN units PROVE NamesPredecessors(u)'
    BY <1>17 DEF Predecessors
  <2>1. CASE u \notin S
    <3> DEFINE ids == units[u].ancestorOrgUnitIds
    <3>1. units'[u].path = units[u].path /\ units'[u].ancestorOrgUnitIds = ids
      BY <1>17, <2>1
    <3>2. Len(units[u].path) = Len(ids) + 1
      BY <1>10
    <3>3. ASSUME NEW k \in 1..Len(ids)
          PROVE  /\ ids[k] \in DOMAIN units'
                 /\ Len(units'[ids[k]].ancestorOrgUnitIds) = k - 1
                 /\ \A j \in 1..(k - 1) : units'[ids[k]].ancestorOrgUnitIds[j] = ids[j]
      <4>1. /\ ids[k] \in DOMAIN units \ S
            /\ Len(units[ids[k]].ancestorOrgUnitIds) = k - 1
            /\ \A j \in 1..(k - 1) : units[ids[k]].ancestorOrgUnitIds[j] = ids[j]
        BY <1>24, <2>1
      <4>2. units'[ids[k]].ancestorOrgUnitIds = units[ids[k]].ancestorOrgUnitIds
        BY <1>17, <4>1
      <4> QED BY <1>17, <4>1, <4>2
    <3> HIDE DEF ids
    <3> QED BY <3>1, <3>2, <3>3 DEF NamesPredecessors
  <2>2. CASE u \in S
    <3> DEFINE old == units[u].ancestorOrgUnitIds
               ids == units'[u].ancestorOrgUnitIds
    <3>1. /\ ids \in Seq(OrgUnitIds) /\ Len(ids) = Len(R) + Len(old) - L
          /\ Len(units'[u].path) = Len(ids) + 1
          /\ \A i \in 1..Len(ids) :
               ids[i] = IF i <= Len(R) THEN R[i] ELSE old[i - Len(R) + L]
      BY <1>22, <2>2
    <3>2. old \in Seq(OrgUnitIds) /\ Len(old) \in Nat
      BY <1>10
    <3>3. ASSUME NEW k \in 1..Len(ids)
          PROVE  /\ ids[k] \in DOMAIN units'
                 /\ Len(units'[ids[k]].ancestorOrgUnitIds) = k - 1
                 /\ \A j \in 1..(k - 1) : units'[ids[k]].ancestorOrgUnitIds[j] = ids[j]
      <4>1. CASE k <= Len(R)
        <5>1. /\ R[k] \in DOMAIN units \ S
              /\ Len(units[R[k]].ancestorOrgUnitIds) = k - 1
              /\ \A j \in 1..(k - 1) : units[R[k]].ancestorOrgUnitIds[j] = R[j]
          BY <1>12, <1>25, <4>1
        <5>2. ids[k] = R[k] /\ \A j \in 1..(k - 1) : ids[j] = R[j]
          <6>1. \A j \in 1..k : j \in 1..Len(ids) /\ j <= Len(R)
            BY <1>12, <3>1, <4>1
          <6> QED BY <3>1, <4>1, <6>1
        <5>3. units'[R[k]].ancestorOrgUnitIds = units[R[k]].ancestorOrgUnitIds
          BY <1>17, <5>1
        <5> HIDE DEF ids
        <5> QED BY <1>17, <5>1, <5>2, <5>3
      <4>2. CASE k > Len(R)
        <5> DEFINE m == k - Len(R) + L
                   v == old[m]
        <5>1. m \in (L + 1)..Len(old) /\ m \in 1..Len(old) /\ ids[k] = v
          BY <1>10, <1>12, <3>1, <3>2, <4>2
        <5>2. v \in S
          BY <1>23, <2>2, <5>1
        <5>3. /\ Len(units[v].ancestorOrgUnitIds) = m - 1
              /\ \A j \in 1..(m - 1) : units[v].ancestorOrgUnitIds[j] = old[j]
          BY <5>1 DEF IInv, Predecessors, NamesPredecessors
        <5> DEFINE w == units'[v].ancestorOrgUnitIds
        <5>4. /\ Len(w) = Len(R) + (m - 1) - L
              /\ \A i \in 1..Len(w) :
                   w[i] = IF i <= Len(R) THEN R[i]
                          ELSE units[v].ancestorOrgUnitIds[i - Len(R) + L]
          BY <1>22, <5>2, <5>3
        <5> HIDE DEF w, v, old, ids
        <5>5. Len(w) = k - 1
          BY <1>10, <1>12, <5>4
        <5>6. ASSUME NEW j \in 1..(k - 1)
              PROVE  w[j] = ids[j]
          <6>1. CASE j <= Len(R)
            <7>1. j \in 1..Len(w) /\ j \in 1..Len(ids)
              BY <1>12, <3>1, <5>5
            <7> QED BY <3>1, <5>4, <6>1, <7>1
          <6>2. CASE j > Len(R)
            <7>1. j - Len(R) + L \in 1..(m - 1) /\ j \in 1..Len(ids)
              BY <1>10, <1>12, <3>1, <3>2, <6>2
            <7>2. w[j] = units[v].ancestorOrgUnitIds[j - Len(R) + L]
              BY <1>12, <5>4, <5>5, <6>2
            <7>3. ids[j] = old[j - Len(R) + L]
              BY <1>12, <3>1, <6>2, <7>1
            <7> QED BY <5>3, <7>1, <7>2, <7>3
          <6> QED BY <1>12, <6>1, <6>2
        <5> QED BY <1>4, <1>17, <5>1, <5>2, <5>5, <5>6 DEF w
      <4> QED BY <1>12, <4>1, <4>2
    <3> QED BY <3>1, <3>3 DEF NamesPredecessors
  <2> QED BY <2>1, <2>2
<1>27. GenuinePredecessors'
  <2> SUFFICES ASSUME NEW T \in SUBSET DOMAIN units, ClosedUnderChildren(T)',
                      NEW u \in DOMAIN units,
                      NEW k \in 1..Len(units'[u].ancestorOrgUnitIds),
                      units'[u].ancestorOrgUnitIds[k] \in T
               PROVE  u \in T
    BY <1>17 DEF GenuinePredecessors
  <2>1. /\ \A x \in DOMAIN units \ {id} : units[x].parentId \in T => x \in T
        /\ p \in T => id \in T
    <3>1. \A x \in DOMAIN units \ {id} : units'[x].parentId = units[x].parentId
      BY <1>16, <1>17
    <3>2. units'[id].parentId = p /\ id \in DOMAIN units
      BY <1>3, <1>4, <1>13, <1>17
    <3> QED BY <1>17, <3>1, <3>2 DEF ClosedUnderChildren
  <2>2. ASSUME NEW v \in DOMAIN units \ S,
               NEW j \in 1..Len(units[v].ancestorOrgUnitIds),
               units[v].ancestorOrgUnitIds[j] \in T
        PROVE  v \in T
    <3> DEFINE X == T \cup S
    <3>1. X \in SUBSET DOMAIN units /\ ClosedUnderChildren(X)
      BY <1>3, <1>4, <1>8, <2>1 DEF ClosedUnderChildren
    <3>2. units[v].ancestorOrgUnitIds[j] \in X
      BY <2>2
    <3> HIDE DEF X
    <3>3. v \in X
      BY <3>1, <3>2 DEF IInv, GenuinePredecessors
    <3> QED BY <3>3 DEF X
  <2>3. ASSUME NEW v \in S, NEW j \in 1..Len(units[v].ancestorOrgUnitIds),
               units[v].ancestorOrgUnitIds[j] \in T \cap S
        PROVE  v \in T
    <3> DEFINE X == T \cap S
    <3>1. X \in SUBSET DOMAIN units /\ ClosedUnderChildren(X)
      BY <1>6, <1>7, <1>8, <2>1 DEF ClosedUnderChildren
    <3>2. units[v].ancestorOrgUnitIds[j] \in X /\ v \in DOMAIN units
      BY <1>4, <2>3
    <3> HIDE DEF X
    <3>3. v \in X
      BY <3>1, <3>2 DEF IInv, GenuinePredecessors
    <3> QED BY <3>3 DEF X
  <2>4. CASE u \notin S
    BY <1>17, <2>2, <2>4
  <2>5. CASE u \in S
    <3> DEFINE ids == units'[u].ancestorOrgUnitIds
               old == units[u].ancestorOrgUnitIds
    <3>1. /\ ids \in Seq(OrgUnitIds) /\ Len(ids) = Len(R) + Len(old) - L
          /\ ids[k] = IF k <= Len(R) THEN R[k] ELSE old[k - Len(R) + L]
      BY <1>22, <2>5
    <3>2. old \in Seq(OrgUnitIds) /\ Len(old) \in Nat
      BY <1>10
    <3>3. CASE k <= Len(R)
      <4> DEFINE above == units[p].ancestorOrgUnitIds
      <4>1. /\ R = Append(above, p) /\ p \in DOMAIN units \ S
            /\ above \in Seq(OrgUnitIds) /\ p \in OrgUnitIds
        BY <1>4, <1>5, <1>10, <1>12, <3>3
      <4>2. R[k] = p \/ (k \in 1..Len(above) /\ R[k] = above[k])
        BY <3>3, <4>1
      <4>3. p \in T
        BY <2>2, <3>1, <3>3, <4>1, <4>2
      <4>4. id \in T
        BY <2>1, <4>3
      <4>5. CASE u # id
        BY <1>3, <1>11, <2>3, <2>5, <4>4, <4>5
      <4> QED BY <4>4, <4>5
    <3>4. CASE k > Len(R)
      <4> DEFINE m == k - Len(R) + L
      <4>1. m \in (L + 1)..Len(old) /\ m \in 1..Len(old) /\ ids[k] = old[m]
        BY <1>10, <1>12, <3>1, <3>2, <3>4
      <4>2. old[m] \in S
        BY <1>23, <2>5, <4>1
      <4> QED BY <2>3, <2>5, <4>1, <4>2
    <3> QED BY <1>12, <3>3, <3>4
  <2> QED BY <2>4, <2>5
<1>28. Forest'
  <2> SUFFICES ASSUME NEW u \in DOMAIN units
               PROVE  DerivesFromParent(u)' /\ ListsItsChildren(u)'
    BY <1>17 DEF Forest
  <2>1. \A x \in S \ {id} : units'[x].parentId = units[x].parentId
    BY <1>16, <1>17
  <2>2. \A x \in S : units'[x].childIds = units[x].childIds /\ units'[x].slug = units[x].slug
    BY <1>13, <1>16, <1>17
  <2>3. /\ units'[id].parentId = p /\ units'[id].path = P
        /\ units'[id].ancestorOrgUnitIds = R
    BY <1>3, <1>13, <1>17
  <2>4. \A c \in units[u].childIds : c \in DOMAIN units /\ units[c].parentId = u
    BY <1>9 DEF ListsItsChildren
  <2>5. CASE u \notin S
    <3> DEFINE r == units[u].parentId
    <3>1. r \notin S
      BY <1>8, <2>5 DEF ClosedUnderChildren
    <3>2. /\ units'[u].slug = units[u].slug /\ units'[u].path = units[u].path
          /\ units'[u].parentId = r
          /\ units'[u].ancestorOrgUnitIds = units[u].ancestorOrgUnitIds
      BY <1>17, <2>5
    <3>3. DerivesFromParent(u)'
      <4>1. CASE r = NoId
        BY <1>9, <3>2, <4>1 DEF DerivesFromParent
      <4>2. CASE r # NoId
        <5>1. /\ r \in DOMAIN units \ S /\ u \in units[r].childIds
              /\ units[u].path = Append(units[r].path, units[u].slug)
              /\ units[u].ancestorOrgUnitIds = Append(units[r].ancestorOrgUnitIds, r)
          BY <1>9, <3>1, <4>2 DEF DerivesFromParent
        <5>2. /\ r \in DOMAIN units' /\ u \in units'[r].childIds
              /\ units'[r].path = units[r].path
              /\ units'[r].ancestorOrgUnitIds = units[r].ancestorOrgUnitIds
          <6>1. u # id /\ r \in DOMAIN units \ S
            BY <1>3, <2>5, <5>1
          <6>2. /\ r \in DOMAIN units' /\ units'[r].path = units[r].path
                /\ units'[r].ancestorOrgUnitIds = units[r].ancestorOrgUnitIds
                /\ units[r].childIds \ {id} \subseteq units'[r].childIds
            BY <1>17, <6>1
          <6> QED BY <5>1, <6>1, <6>2
        <5> QED BY <3>2, <4>2, <5>1, <5>2 DEF DerivesFromParent
      <4> QED BY <4>1, <4>2
    <3>4. ASSUME NEW c \in units'[u].childIds
          PROVE  c \in DOMAIN units' /\ units'[c].parentId = u
      <4>1. CASE c = id
        <5>1. u = p
          <6>1. u # p => c \in units[u].childIds
            BY <1>17, <2>5
          <6>2. u # p => u = q
            BY <1>6, <2>4, <4>1, <6>1
          <6>3. u # p /\ u = q => c # id
            BY <1>17, <2>5
          <6> QED BY <4>1, <6>2, <6>3
        <5> QED BY <1>3, <1>4, <1>17, <2>3, <4>1, <5>1
      <4>2. CASE c # id
        <5>1. c \in units[u].childIds
          <6>1. units'[u].childIds \subseteq units[u].childIds \cup {id}
            BY <1>17, <2>5
          <6> QED BY <4>2, <6>1
        <5>2. c \in DOMAIN units /\ units[c].parentId = u
          BY <2>4, <5>1
        <5> QED BY <1>17, <2>1, <4>2, <5>2
      <4> QED BY <4>1, <4>2
    <3> QED BY <3>3, <3>4 DEF ListsItsChildren
  <2>6. CASE u \in S
    <3>1. \A c \in units[u].childIds : c \in DOMAIN units' /\ units'[c].parentId = u
      <4>1. \A c \in units[u].childIds : c \in S /\ c # id
        BY <1>6, <1>7, <2>4, <2>6
      <4> QED BY <1>17, <2>1, <2>4, <4>1
    <3>2. ListsItsChildren(u)'
      BY <2>2, <2>6, <3>1 DEF ListsItsChildren
    <3>3. CASE u = id
      <4> SUFFICES DerivesFromParent(u)'
        BY <3>2
      <4>1. CASE p = NoId
        BY <1>12, <2>2, <2>3, <2>6, <3>3, <4>1 DEF DerivesFromParent
      <4>2. CASE p # NoId
        <5>1. /\ p \in DOMAIN units' /\ id \in units'[p].childIds
              /\ units'[p].path = units[p].path
              /\ units'[p].ancestorOrgUnitIds = units[p].ancestorOrgUnitIds
          BY <1>4, <1>17, <4>2
        <5>2. units'[u].path = Append(units'[p].path, units'[u].slug)
          BY <1>12, <2>2, <2>3, <2>6, <3>3, <4>2, <5>1
        <5>3. units'[u].ancestorOrgUnitIds = Append(units'[p].ancestorOrgUnitIds, p)
          BY <1>12, <2>3, <3>3, <4>2, <5>1
        <5> QED BY <2>3, <3>3, <4>2, <5>1, <5>2, <5>3 DEF DerivesFromParent
      <4> QED BY <4>1, <4>2
    <3>4. CASE u # id
      <4> DEFINE r == units[u].parentId
                 ids == units[r].ancestorOrgUnitIds
                 path == units[r].path
                 e == units[u].slug
      <4>1. /\ r \in S /\ r # NoId /\ r \in DOMAIN units /\ r \in OrgUnitIds
            /\ u \in units[r].childIds
            /\ units[u].path = Append(path, e)
            /\ units[u].ancestorOrgUnitIds = Append(ids, r)
        BY <1>4, <1>5, <1>7, <1>9, <2>6, <3>4 DEF DerivesFromParent
      <4>2. /\ ids \in Seq(OrgUnitIds) /\ path \in Seq(Slugs)
            /\ Len(path) = Len(ids) + 1 /\ e \in Slugs
        BY <1>5, <1>10, <4>1 DEF Row
      <4>3. Len(ids) >= L /\ Len(ids) \in Nat
        <5>1. CASE r = id
          BY <4>2, <5>1 DEF L
        <5>2. CASE r # id
          BY <1>10, <1>11, <4>1, <4>2, <5>2
        <5> QED BY <5>1, <5>2
      <4>4. units'[u].path = NewPath(u) /\ units'[u].ancestorOrgUnitIds = NewIds(u)
        BY <1>16, <1>17, <2>6, <3>4
      <4> DEFINE K == L + 2
                 x == Append(R, id)
      <4>5. /\ NewPath(u) = P \o SubSeq(Append(path, e), K, Len(Append(path, e)))
            /\ NewIds(u) = x \o SubSeq(Append(ids, r), K, Len(Append(ids, r)))
        BY <4>1 DEF NewPath, NewIds
      <4> HIDE DEF ids, path, e, K, x
      <4>6. units'[u].path = Append(P \o SubSeq(path, K, Len(path)), e)
        <5>1. K \in 1..(Len(path) + 1)
          BY <1>10, <4>2, <4>3 DEF K
        <5>2. P \in Seq(Slugs) /\ path \in Seq(Slugs) /\ e \in Slugs
          BY <1>12, <4>2
        <5>3. P \o SubSeq(Append(path, e), K, Len(Append(path, e)))
                = Append(P \o SubSeq(path, K, Len(path)), e)
          BY <5>1, <5>2, SplicedPath
        <5> QED BY <4>4, <4>5, <5>3
      <4>7. units'[r].path = P \o SubSeq(path, K, Len(path))
        <5>1. CASE r = id
          <6>1. Len(path) = L + 1
            BY <1>10, <5>1 DEF path
          <6>2. SubSeq(path, K, Len(path)) = <<>>
            BY <1>10, <4>2, <6>1 DEF K
          <6> QED BY <1>12, <2>3, <5>1, <6>2
        <5>2. CASE r # id
          <6>1. units'[r].path = NewPath(r)
            BY <1>16, <1>17, <4>1, <5>2
          <6> QED BY <6>1 DEF NewPath, path, K
        <5> QED BY <5>1, <5>2
      <4>8. units'[u].ancestorOrgUnitIds = Append(units'[r].ancestorOrgUnitIds, r)
        <5>1. CASE r = id
          <6>1. Len(ids) = L /\ x \in Seq(OrgUnitIds)
            BY <1>14, <5>1 DEF ids, L, x
          <6>2. SubSeq(Append(ids, r), K, Len(Append(ids, r))) = <<>>
            BY <1>10, <4>1, <4>2, <6>1 DEF K
          <6>3. units'[u].ancestorOrgUnitIds = x
            BY <4>4, <4>5, <6>1, <6>2
          <6> QED BY <2>3, <5>1, <6>3 DEF x
        <5>2. CASE r # id
          <6>1. units'[r].ancestorOrgUnitIds = x \o SubSeq(ids, K, Len(ids))
            <7>1. units'[r].ancestorOrgUnitIds = NewIds(r)
              BY <1>16, <1>17, <4>1, <5>2
            <7> QED BY <7>1 DEF NewIds, ids, x, K
          <6>2. Len(ids) >= L + 1
            BY <1>10, <1>11, <4>1, <4>2, <5>2 DEF ids
          <6>3. K \in 1..(Len(ids) + 1) /\ x \in Seq(OrgUnitIds)
            BY <1>10, <1>14, <4>2, <6>2 DEF K, x
          <6>4. x \o SubSeq(Append(ids, r), K, Len(Append(ids, r)))
                  = Append(x \o SubSeq(ids, K, Len(ids)), r)
            <7>1. ids \in Seq(OrgUnitIds) /\ r \in OrgUnitIds
              BY <4>1, <4>2
            <7> HIDE DEF r
            <7> QED BY <6>3, <7>1, SplicedIds
          <6> QED BY <4>4, <4>5, <6>1, <6>4
        <5> QED BY <5>1, <5>2
      <4>9. DerivesFromParent(u)'
        <5>1. units'[u].parentId = r /\ units'[u].slug = e /\ r \in DOMAIN units'
          BY <1>17, <2>1, <2>2, <2>6, <3>4, <4>1 DEF e
        <5>2. u \in units'[r].childIds
          BY <2>2, <4>1
        <5>3. units'[u].path = Append(units'[r].path, e)
          BY <4>6, <4>7
        <5> QED BY <4>1, <4>8, <5>1, <5>2, <5>3 DEF DerivesFromParent
      <4> QED BY <3>2, <4>9
    <3> QED BY <3>3, <3>4
  <2> QED BY <2>5, <2>6
<1> QED BY <1>20, <1>21, <1>26, <1>27, <1>28 DEF IInv

-----------------------------------------------------------------------------
(* Theorems.                                                               *)

\* The empty table satisfies the invariant.
LEMMA InitOK == Init => IInv
<1> SUFFICES ASSUME Init PROVE IInv
  OBVIOUS
<1>1. DOMAIN units = {} /\ IsRowMap(units)
  BY DEF Init, NoRows, IsRowMap
<1>2. /\ pending = [a \in Actors |-> pending[a]]
      /\ \A a \in Actors : IsOperation(pending[a]) /\ OperationOK(pending[a])
      /\ \A a \in Actors : DOMAIN pending[a].rows = {}
  BY IdleOK DEF Init
<1>3. TypeOK
  BY <1>1, <1>2 DEF Init, TypeOK
<1>4. VersionIdentifiesRow /\ Forest /\ Predecessors /\ GenuinePredecessors
  BY <1>1, <1>2 DEF VersionIdentifiesRow, Forest, Predecessors, GenuinePredecessors
<1> QED BY <1>2, <1>3, <1>4 DEF IInv

\* A step that leaves the variables alone keeps the invariant.
LEMMA StutterOK == IInv /\ UNCHANGED vars => IInv'
<1> SUFFICES ASSUME IInv, UNCHANGED vars PROVE IInv'
  OBVIOUS
<1>1. /\ units' = units /\ attachments' = attachments /\ markers' = markers
      /\ tenants' = tenants /\ pending' = pending
  BY DEF vars
<1>2. TypeOK' /\ (\A a \in Actors : OperationOK(pending[a]))'
  BY <1>1 DEF IInv, TypeOK
<1>3. VersionIdentifiesRow'
  BY <1>1 DEF IInv, VersionIdentifiesRow
<1>4. Forest' /\ Predecessors'
  BY <1>1 DEF IInv, Forest, DerivesFromParent, ListsItsChildren, Predecessors,
              NamesPredecessors
<1>5. GenuinePredecessors'
  BY <1>1 DEF IInv, GenuinePredecessors, ClosedUnderChildren
<1> QED BY <1>2, <1>3, <1>4, <1>5 DEF IInv

\* Every step of a handler keeps the invariant.
LEMMA StepKeepsInvariant == IInv /\ [Next]_vars => IInv'
<1> SUFFICES ASSUME IInv, [Next]_vars PROVE IInv'
  OBVIOUS
<1>1. ASSUME NEW a \in Actors, CreateNext(a) PROVE IInv'
  BY <1>1, BeginCreateStep, CommitCreateStep DEF CreateNext
<1>2. ASSUME NEW a \in Actors, UpdateNext(a) PROVE IInv'
  BY <1>2, BeginUpdateStep, ReadOldParentStep, ReadNewParentStep, ReadChildStep,
     ReadDescendantStep, CommitEditStep, CommitMoveStep DEF UpdateNext
<1>3. ASSUME NEW a \in Actors, FailOperation(a) PROVE IInv'
  BY <1>3, FailOperationStep
<1>4. CASE UNCHANGED vars
  BY <1>4, StutterOK
<1> QED BY <1>1, <1>2, <1>3, <1>4 DEF Next

\* The invariant holds in every reachable state.
THEOREM InductiveInvariant == Spec => []IInv
BY InitOK, StepKeepsInvariant, PTL DEF Spec

\* Every item and every operation keeps its shape.
THEOREM TypeCorrect == Spec => []TypeOK
BY InductiveInvariant, PTL DEF IInv

\* The stored rows always form a forest whose views agree, however many handlers
\* create, edit and move at once.
THEOREM ForestHolds == Spec => []Forest
BY InductiveInvariant, PTL DEF IInv

\* Every predecessor a row names exists, sits at the depth of its position, and agrees
\* with the row about what is above both.
THEOREM PredecessorsAgree == Spec => []Predecessors
BY InductiveInvariant, PTL DEF IInv

\* Equal versions mean equal rows, for whatever a handler has read.
THEOREM VersionsIdentifyRows == Spec => []VersionIdentifiesRow
BY InductiveInvariant, PTL DEF IInv

-----------------------------------------------------------------------------
(* ROUTING.  The routing attachments of the directory are sound.           *)

-----------------------------------------------------------------------------
(* A transaction removes the attachments with some keys and puts those of  *)
(* the rows it writes.                                                     *)

\* What an attachment copies from a row.
SameRoute(r, s) ==
  /\ r.tenantIds = s.tenantIds /\ r.path = s.path /\ r.parentId = s.parentId
  /\ r.ancestorOrgUnitIds = s.ancestorOrgUnitIds /\ r.status = s.status

LEMMA AttachmentParts ==
  ASSUME NEW id, NEW row, NEW att \in AttachmentsOf(id, row)
  PROVE  /\ att.orgUnitId = id /\ att.tenantId \in row.tenantIds
         /\ att = AttachmentOf(id, row, att.tenantId)
         /\ KeyOf(att) = <<att.tenantId, row.path>> /\ KeyOf(att) \in KeysOf(row)
<1>1. PICK t \in row.tenantIds : att = AttachmentOf(id, row, t)
  BY DEF AttachmentsOf
<1>2. att.orgUnitId = id /\ att.tenantId = t /\ att.path = row.path
  BY <1>1 DEF AttachmentOf
<1> QED BY <1>1, <1>2 DEF KeyOf, KeysOf

\* A sound attachment has a key of the row it copies.
LEMMA SoundKey ==
  ASSUME AttachmentsSound, NEW att \in attachments
  PROVE  /\ att.orgUnitId \in DOMAIN units
         /\ att.tenantId \in units[att.orgUnitId].tenantIds
         /\ att = AttachmentOf(att.orgUnitId, units[att.orgUnitId], att.tenantId)
         /\ KeyOf(att) = <<att.tenantId, units[att.orgUnitId].path>>
         /\ KeyOf(att) \in KeysOf(units[att.orgUnitId])
<1>1. /\ att.orgUnitId \in DOMAIN units
      /\ att.tenantId \in units[att.orgUnitId].tenantIds
      /\ att = AttachmentOf(att.orgUnitId, units[att.orgUnitId], att.tenantId)
  BY DEF AttachmentsSound
<1>2. att.path = units[att.orgUnitId].path
  BY <1>1 DEF AttachmentOf
<1> QED BY <1>1, <1>2 DEF KeyOf, KeysOf

\* Attachments stay sound when those of the written rows W are replaced, the others
\* belong to rows whose route stays, and no key is given twice.
LEMMA RoutesRewritten ==
  ASSUME AttachmentsSound, NEW W, NEW K,
         attachments' = {att \in attachments : KeyOf(att) \notin K}
                          \cup (UNION {AttachmentsOf(u, units'[u]) : u \in W}),
         W \subseteq DOMAIN units', DOMAIN units \subseteq DOMAIN units',
         \A i \in DOMAIN units \ W : SameRoute(units[i], units'[i]),
         \A att \in attachments : att.orgUnitId \in W => KeyOf(att) \in K,
         \A att \in attachments : \A u \in W :
           KeyOf(att) \in KeysOf(units'[u]) => KeyOf(att) \in K,
         \A u, v \in W : u # v => KeysOf(units'[u]) \cap KeysOf(units'[v]) = {}
  PROVE  AttachmentsSound'
<1>1. ASSUME NEW att \in attachments, KeyOf(att) \notin K
      PROVE  /\ att.orgUnitId \in DOMAIN units' \ W
             /\ att.tenantId \in units'[att.orgUnitId].tenantIds
             /\ att = AttachmentOf(att.orgUnitId, units'[att.orgUnitId], att.tenantId)
  BY <1>1, SoundKey DEF SameRoute, AttachmentOf
<1>2. ASSUME NEW u \in W, NEW att \in AttachmentsOf(u, units'[u])
      PROVE  /\ att.orgUnitId = u /\ u \in DOMAIN units'
             /\ att.tenantId \in units'[u].tenantIds
             /\ att = AttachmentOf(u, units'[u], att.tenantId)
             /\ KeyOf(att) = <<att.tenantId, units'[u].path>>
             /\ KeyOf(att) \in KeysOf(units'[u])
  BY AttachmentParts
<1>3. \A att \in attachments' :
        \/ att \in attachments /\ KeyOf(att) \notin K
        \/ \E u \in W : att \in AttachmentsOf(u, units'[u])
  OBVIOUS
<1>4. ASSUME NEW att \in attachments'
      PROVE  /\ att.orgUnitId \in DOMAIN units'
             /\ att.tenantId \in units'[att.orgUnitId].tenantIds
             /\ att = AttachmentOf(att.orgUnitId, units'[att.orgUnitId], att.tenantId)
  BY <1>1, <1>2, <1>3
<1>5. ASSUME NEW x \in attachments', NEW y \in attachments', KeyOf(x) = KeyOf(y)
      PROVE  x = y
  <2>1. CASE x \in attachments /\ KeyOf(x) \notin K
    <3>1. \A u \in W : y \notin AttachmentsOf(u, units'[u])
      BY <1>2, <1>5, <2>1
    <3>2. y \in attachments
      BY <1>3, <3>1
    <3> QED BY <1>5, <2>1, <3>2 DEF AttachmentsSound
  <2>2. CASE y \in attachments /\ KeyOf(y) \notin K
    <3>1. \A u \in W : x \notin AttachmentsOf(u, units'[u])
      BY <1>2, <1>5, <2>2
    <3>2. x \in attachments
      BY <1>3, <3>1
    <3> QED BY <1>5, <2>2, <3>2 DEF AttachmentsSound
  <2>3. ASSUME NEW u \in W, x \in AttachmentsOf(u, units'[u]),
               NEW v \in W, y \in AttachmentsOf(v, units'[v])
        PROVE  x = y
    <3>1. KeyOf(x) \in KeysOf(units'[u]) /\ KeyOf(y) \in KeysOf(units'[v])
      BY <1>2, <2>3
    <3>2. u = v
      BY <1>5, <3>1
    <3>3. x.tenantId = y.tenantId
      BY <1>2, <1>5, <2>3
    <3> QED BY <1>2, <2>3, <3>2, <3>3
  <2> QED BY <1>3, <2>1, <2>2, <2>3
<1> QED BY <1>4, <1>5 DEF AttachmentsSound

-----------------------------------------------------------------------------
(* Create and edit.                                                        *)

LEMMA CreateKeepsRoutes ==
  ASSUME IInv, AttachmentsSound, NEW a \in Actors, CommitCreate(a)
  PROVE  AttachmentsSound'
<1> DEFINE o == pending[a]
           id == o.id
           p == o.parentId
           row == CreatedRow(o)
<1>1. /\ id \notin DOMAIN units /\ KeysFree(KeysOf(row)) /\ IsRowMap(units)
      /\ units' = [i \in DOMAIN units \cup {id} |->
                     IF i = id THEN row
                     ELSE IF i = p
                          THEN [units[i] EXCEPT !.childIds = @ \cup {id},
                                                !.version = @ + 1]
                          ELSE units[i]]
      /\ attachments' = attachments \cup AttachmentsOf(id, row)
  BY DEF CommitCreate, IInv, TypeOK
<1>2. DOMAIN units' = DOMAIN units \cup {id} /\ units'[id] = row
  BY <1>1
<1>3. ASSUME NEW i \in DOMAIN units PROVE SameRoute(units[i], units'[i])
  <2>1. units[i] \in Row
    BY <1>1 DEF IsRowMap
  <2>2. CASE i = p
    <3>1. units'[i] = [units[i] EXCEPT !.childIds = @ \cup {id}, !.version = @ + 1]
      BY <1>1, <2>2
    <3> QED BY <2>1, <3>1 DEF Row, SameRoute
  <2>3. CASE i # p
    <3>1. units'[i] = units[i]
      BY <1>1, <2>3
    <3> QED BY <3>1 DEF SameRoute
  <2> QED BY <2>2, <2>3
<1>4. \A att \in attachments : att.orgUnitId # id /\ KeyOf(att) \notin KeysOf(row)
  BY <1>1, SoundKey DEF KeysFree
<1> HIDE DEF row, id, p
<1>5. PICK K, W : K = {} /\ W = {id}
  OBVIOUS
<1>6. attachments' = {att \in attachments : KeyOf(att) \notin K}
                       \cup (UNION {AttachmentsOf(u, units'[u]) : u \in W})
  <2>1. attachments = {att \in attachments : KeyOf(att) \notin K}
    BY <1>5
  <2>2. UNION {AttachmentsOf(u, units'[u]) : u \in W} = AttachmentsOf(id, row)
    BY <1>2, <1>5
  <2> QED BY <1>1, <2>1, <2>2
<1>7. /\ W \subseteq DOMAIN units' /\ DOMAIN units \subseteq DOMAIN units'
      /\ \A i \in DOMAIN units \ W : SameRoute(units[i], units'[i])
      /\ \A att \in attachments : att.orgUnitId \in W => KeyOf(att) \in K
      /\ \A att \in attachments : \A u \in W :
           KeyOf(att) \in KeysOf(units'[u]) => KeyOf(att) \in K
      /\ \A u, v \in W : u # v => KeysOf(units'[u]) \cap KeysOf(units'[v]) = {}
  BY <1>2, <1>3, <1>4, <1>5
<1> QED BY <1>6, <1>7, RoutesRewritten

\* An edit takes over the keys it needs; the attachments it leaves are of other rows.
LEMMA EditKeepsRoutes ==
  ASSUME IInv, AttachmentsSound, NEW a \in Actors, CommitEdit(a)
  PROVE  AttachmentsSound'
<1> DEFINE o == pending[a]
           id == o.id
           row == EditedRow(o)
           K == (KeysOf(CurrentOf(o)) \ KeysOf(row)) \cup KeysOf(row)
<1>1. /\ o.op = "update" /\ Unchanged(o, id) /\ OperationOK(o) /\ IsRowMap(units)
      /\ units' = [units EXCEPT ![id] = row]
      /\ attachments' = {att \in attachments : KeyOf(att) \notin K}
                          \cup AttachmentsOf(id, row)
  BY DEF CommitEdit, IInv, TypeOK
<1>2. id \in DOMAIN units /\ CurrentOf(o) = units[id]
  <2>1. id \in DOMAIN o.rows
    BY <1>1 DEF OperationOK
  <2> QED BY <1>1, <2>1, UnchangedIsRead DEF CurrentOf
<1>3. /\ DOMAIN units' = DOMAIN units /\ units'[id] = row
      /\ \A i \in DOMAIN units \ {id} : units'[i] = units[i]
  BY <1>1, <1>2
<1>4. KeysOf(units[id]) \subseteq K /\ KeysOf(row) \subseteq K
  BY <1>2
<1> HIDE DEF K, row
<1>5. \A i \in DOMAIN units \ {id} : SameRoute(units[i], units'[i])
  BY <1>3 DEF SameRoute
<1>6. \A att \in attachments : att.orgUnitId = id => KeyOf(att) \in K
  BY <1>4, SoundKey
<1> HIDE DEF id
<1>7. PICK W : W = {id}
  OBVIOUS
<1>8. attachments' = {att \in attachments : KeyOf(att) \notin K}
                       \cup (UNION {AttachmentsOf(u, units'[u]) : u \in W})
  <2>1. UNION {AttachmentsOf(u, units'[u]) : u \in W} = AttachmentsOf(id, row)
    BY <1>3, <1>7
  <2> QED BY <1>1, <2>1
<1>9. /\ W \subseteq DOMAIN units' /\ DOMAIN units \subseteq DOMAIN units'
      /\ \A i \in DOMAIN units \ W : SameRoute(units[i], units'[i])
      /\ \A att \in attachments : att.orgUnitId \in W => KeyOf(att) \in K
      /\ \A att \in attachments : \A u \in W :
           KeyOf(att) \in KeysOf(units'[u]) => KeyOf(att) \in K
      /\ \A u, v \in W : u # v => KeysOf(units'[u]) \cap KeysOf(units'[v]) = {}
  BY <1>2, <1>3, <1>4, <1>5, <1>6, <1>7
<1> QED BY <1>8, <1>9, RoutesRewritten

-----------------------------------------------------------------------------
(* Move.                                                                   *)

\* Two sequences with one prefix are equal when they are with another.
LEMMA ReplacedPrefix ==
  ASSUME NEW x \in Seq(Slugs), NEW s \in Seq(Slugs), NEW t \in Seq(Slugs),
         NEW n \in Nat, n <= Len(s), n <= Len(t),
         \A i \in 1..n : s[i] = t[i],
         x \o SubSeq(s, n + 1, Len(s)) = x \o SubSeq(t, n + 1, Len(t))
  PROVE  s = t
<1> DEFINE u == SubSeq(s, n + 1, Len(s))
           v == SubSeq(t, n + 1, Len(t))
<1>1. /\ u \in Seq(Slugs) /\ Len(u) = Len(s) - n
      /\ \A i \in 1..Len(u) : u[i] = s[i + n]
  OBVIOUS
<1>2. /\ v \in Seq(Slugs) /\ Len(v) = Len(t) - n
      /\ \A i \in 1..Len(v) : v[i] = t[i + n]
  OBVIOUS
<1>3. x \o u = x \o v
  OBVIOUS
<1> HIDE DEF u, v
<1>4. /\ Len(x \o u) = Len(x) + Len(u) /\ Len(x \o v) = Len(x) + Len(v)
      /\ \A i \in 1..Len(u) : (x \o u)[Len(x) + i] = u[i]
      /\ \A i \in 1..Len(v) : (x \o v)[Len(x) + i] = v[i]
  <2>1. ASSUME NEW z \in Seq(Slugs)
        PROVE  /\ Len(x \o z) = Len(x) + Len(z)
               /\ \A i \in 1..Len(z) : (x \o z)[Len(x) + i] = z[i]
    <3>1. /\ Len(x \o z) = Len(x) + Len(z) /\ Len(x) \in Nat /\ Len(z) \in Nat
          /\ \A j \in 1..Len(x \o z) :
               (x \o z)[j] = IF j <= Len(x) THEN x[j] ELSE z[j - Len(x)]
      OBVIOUS
    <3>2. PICK m \in Nat, k \in Nat : m = Len(x) /\ k = Len(z)
      BY <3>1
    <3>3. ASSUME NEW i \in 1..k
          PROVE  m + i \in 1..(m + k) /\ ~(m + i <= m) /\ (m + i) - m = i
      OBVIOUS
    <3>4. \A j \in 1..(m + k) : (x \o z)[j] = IF j <= m THEN x[j] ELSE z[j - m]
      BY <3>1, <3>2
    <3>5. \A i \in 1..k : (x \o z)[m + i] = z[i]
      <4>1. PICK y : y = x \o z
        OBVIOUS
      <4>2. \A i \in 1..k : y[m + i] = z[(m + i) - m]
        BY <3>3, <3>4, <4>1
      <4> QED BY <3>3, <4>1, <4>2
    <3> QED BY <3>1, <3>2, <3>5
  <2> QED BY <1>1, <1>2, <2>1
<1>5. Len(x) \in Nat /\ Len(u) \in Nat /\ Len(v) \in Nat
      /\ Len(s) \in Nat /\ Len(t) \in Nat
  BY <1>1, <1>2
<1>6. Len(u) = Len(v) /\ Len(s) = Len(t)
  BY <1>1, <1>2, <1>3, <1>4, <1>5
<1>7. \A i \in 1..Len(u) : u[i] = v[i]
  BY <1>3, <1>4, <1>6
<1>8. ASSUME NEW i \in 1..Len(s) PROVE s[i] = t[i]
  <2>1. CASE i <= n
    BY <2>1
  <2>2. CASE i > n
    <3>1. i - n \in 1..Len(u) /\ (i - n) + n = i
      BY <1>1, <1>5, <2>2
    <3> QED BY <1>1, <1>2, <1>6, <1>7, <3>1
  <2> QED BY <2>1, <2>2
<1> QED BY <1>6, <1>8

\* The path of a row begins with the path of each of its predecessors.
LEMMA PathsExtend ==
  ASSUME IInv, NEW id \in DOMAIN units, NEW u \in DOMAIN units,
         NEW k \in 1..Len(units[u].ancestorOrgUnitIds),
         units[u].ancestorOrgUnitIds[k] = id
  PROVE  /\ Len(units[id].path) < Len(units[u].path)
         /\ \A i \in 1..Len(units[id].path) : units[u].path[i] = units[id].path[i]
<1> DEFINE n == Len(units[id].path)
           Begins(x) == /\ n <= Len(units[x].path)
                        /\ \A i \in 1..n : units[x].path[i] = units[id].path[i]
           X == {x \in DOMAIN units : Begins(x)}
<1>1. \A x \in DOMAIN units : /\ units[x].path \in Seq(Slugs)
                              /\ units[x].ancestorOrgUnitIds \in Seq(OrgUnitIds)
                              /\ units[x].slug \in Slugs
  BY DEF IInv, TypeOK, IsRowMap, Row
<1>2. n \in Nat /\ id \in X
  BY <1>1
<1>3. ASSUME NEW x \in DOMAIN units, units[x].parentId \in X PROVE x \in X
  <2> DEFINE q == units[x].parentId
  <2>1. q # NoId
    BY <1>3, OrgUnitsAssumption DEF IInv, TypeOK, IsRowMap
  <2>2. units[x].path = Append(units[q].path, units[x].slug)
    BY <2>1 DEF IInv, Forest, DerivesFromParent
  <2>3. q \in DOMAIN units /\ Begins(q)
    BY <1>3
  <2> HIDE DEF q, n
  <2>4. /\ Len(units[x].path) = Len(units[q].path) + 1
        /\ \A i \in 1..Len(units[q].path) : units[x].path[i] = units[q].path[i]
    <3>1. PICK s \in Seq(Slugs), e \in Slugs :
            s = units[q].path /\ e = units[x].slug
      BY <1>1, <2>3
    <3>2. /\ Len(Append(s, e)) = Len(s) + 1
          /\ \A i \in 1..Len(s) : Append(s, e)[i] = s[i]
      OBVIOUS
    <3> QED BY <2>2, <3>1, <3>2
  <2>5. Len(units[q].path) \in Nat
    BY <1>1, <2>3
  <2>6. Begins(x)
    BY <1>2, <2>3, <2>4, <2>5
  <2> QED BY <2>6
<1>4. u \in X
  <2>1. ClosedUnderChildren(X) /\ X \in SUBSET DOMAIN units
    BY <1>3 DEF ClosedUnderChildren
  <2> HIDE DEF X
  <2> QED BY <1>2, <2>1 DEF IInv, GenuinePredecessors
<1>5. n < Len(units[u].path)
  <2>1. /\ NamesPredecessors(u) /\ NamesPredecessors(id)
    BY DEF IInv, Predecessors
  <2>2. /\ Len(units[u].path) = Len(units[u].ancestorOrgUnitIds) + 1
        /\ n = Len(units[id].ancestorOrgUnitIds) + 1
        /\ Len(units[id].ancestorOrgUnitIds) = k - 1
    BY <2>1 DEF NamesPredecessors
  <2>3. Len(units[u].ancestorOrgUnitIds) \in Nat
    BY <1>1
  <2> HIDE DEF n
  <2> QED BY <2>2, <2>3
<1> QED BY <1>4, <1>5

\* Within a moved subtree no two rows get one key: they had none in common before,
\* since each key was held by its row, and only the common prefix of the paths changes.
LEMMA MovedKeysApart ==
  ASSUME IInv, AttachmentsSound, NEW a \in Actors, CommitMove(a),
         NEW u \in pending[a].subtree, NEW v \in pending[a].subtree, u # v,
         u # pending[a].id
  PROVE  KeysOf(MovedRow(pending[a], u)) \cap KeysOf(MovedRow(pending[a], v)) = {}
<1> DEFINE o == pending[a]
           id == o.id
           S == o.subtree
           P == RootPath(o)
           n == Len(units[id].path)
<1>1. /\ o.op = "update" /\ o.step = "write" /\ Moving(o)
      /\ IsOperation(o) /\ OperationOK(o) /\ IsRowMap(units)
      /\ \A w \in S \cup ParentsOf(o) : Unchanged(o, w)
      /\ \A w \in S \ {id} :
           \E k \in 1..Len(o.rows[w].ancestorOrgUnitIds) :
             o.rows[w].ancestorOrgUnitIds[k] = id
      /\ \A w \in S : KeysHeldBy(w, KeysOf(o.rows[w]))
  BY DEF CommitMove, IInv, TypeOK
<1>2. /\ id \in S /\ S \subseteq DOMAIN o.rows
      /\ o.parentId # NoId => o.parentId \in DOMAIN o.rows
  BY <1>1 DEF OperationOK
<1>3. /\ \A w \in S : w \in DOMAIN units /\ o.rows[w] = units[w]
      /\ o.parentId # NoId => /\ o.parentId \in DOMAIN units
                              /\ o.rows[o.parentId] = units[o.parentId]
  BY <1>1, <1>2, UnchangedIsRead DEF ParentsOf
<1>4. /\ CurrentOf(o) = units[id]
      /\ \A w \in DOMAIN units : /\ units[w] \in Row /\ units[w].path \in Seq(Slugs)
                                 /\ units[w].slug \in Slugs
  BY <1>1, <1>2, <1>3 DEF CurrentOf, IsRowMap, Row
<1>5. P \in Seq(Slugs) /\ n \in Nat
  <2>1. CASE o.parentId = NoId
    BY <1>2, <1>3, <1>4, <2>1 DEF RootPath
  <2>2. CASE o.parentId # NoId
    BY <1>2, <1>3, <1>4, <2>2 DEF RootPath
  <2> QED BY <1>2, <1>3, <1>4, <2>1, <2>2
<1>6. ASSUME NEW w \in S, w # id
      PROVE  /\ n < Len(units[w].path)
             /\ \A i \in 1..n : units[w].path[i] = units[id].path[i]
             /\ MovedRow(o, w).path = P \o SubSeq(units[w].path, n + 1,
                                                  Len(units[w].path))
             /\ MovedRow(o, w).tenantIds = units[w].tenantIds
  <2>1. PICK k \in 1..Len(units[w].ancestorOrgUnitIds) :
          units[w].ancestorOrgUnitIds[k] = id
    BY <1>1, <1>3, <1>6
  <2>2. /\ n < Len(units[w].path)
        /\ \A i \in 1..n : units[w].path[i] = units[id].path[i]
    BY <1>2, <1>3, <2>1, PathsExtend
  <2>3. PICK path, ids : /\ path = P \o SubSeq(units[w].path, n + 1, Len(units[w].path))
                         /\ MovedRow(o, w) = [units[w] EXCEPT !.path = path,
                              !.ancestorOrgUnitIds = ids, !.version = @ + 1]
    BY <1>3, <1>4, <1>6 DEF MovedRow
  <2>4. MovedRow(o, w).path = path /\ MovedRow(o, w).tenantIds = units[w].tenantIds
    BY <1>3, <1>4, <2>3 DEF Row
  <2> QED BY <2>2, <2>3, <2>4
<1>7. MovedRow(o, id).path = P
  BY <1>2, <1>3, <1>4 DEF MovedRow, Row
<1> SUFFICES ASSUME NEW k, k \in KeysOf(MovedRow(o, u)), k \in KeysOf(MovedRow(o, v))
             PROVE  FALSE
  OBVIOUS
<1>8. PICK t : /\ t \in MovedRow(o, u).tenantIds /\ t \in MovedRow(o, v).tenantIds
               /\ MovedRow(o, u).path = MovedRow(o, v).path
  BY DEF KeysOf
<1> HIDE DEF P, n
<1>9. CASE v = id
  <2>1. PICK s \in Seq(Slugs) : s = units[u].path
    BY <1>3, <1>4
  <2>2. Len(P \o SubSeq(s, n + 1, Len(s))) = Len(P) + Len(s) - n /\ n < Len(s)
    BY <1>5, <1>6, <2>1
  <2>3. P \o SubSeq(s, n + 1, Len(s)) = P
    BY <1>6, <1>7, <1>8, <1>9, <2>1
  <2>4. Len(P) \in Nat /\ Len(s) \in Nat
    BY <1>5
  <2> QED BY <1>5, <2>2, <2>3, <2>4
<1>10. CASE v # id
  <2>1. units[u].path = units[v].path
    <3>1. PICK s \in Seq(Slugs), r \in Seq(Slugs) :
            s = units[u].path /\ r = units[v].path
      BY <1>3, <1>4
    <3>2. /\ n <= Len(s) /\ n <= Len(r) /\ \A i \in 1..n : s[i] = r[i]
      BY <1>5, <1>6, <1>10, <3>1
    <3>3. P \o SubSeq(s, n + 1, Len(s)) = P \o SubSeq(r, n + 1, Len(r))
      BY <1>6, <1>8, <1>10, <3>1
    <3> QED BY <1>5, <3>1, <3>2, <3>3, ReplacedPrefix
  <2> DEFINE key == <<t, units[u].path>>
  <2>2. key \in KeysOf(units[u]) /\ key \in KeysOf(units[v])
    BY <1>6, <1>8, <1>10, <2>1 DEF KeysOf
  <2>3. PICK x \in attachments : KeyOf(x) = key /\ x.orgUnitId = u
    BY <1>1, <1>3, <2>2 DEF KeysHeldBy
  <2>4. PICK y \in attachments : KeyOf(y) = key /\ y.orgUnitId = v
    BY <1>1, <1>3, <2>2 DEF KeysHeldBy
  <2>5. x = y
    BY <2>3, <2>4 DEF AttachmentsSound
  <2> QED BY <2>3, <2>4, <2>5
<1> QED BY <1>9, <1>10

LEMMA MoveKeepsRoutes ==
  ASSUME IInv, AttachmentsSound, NEW a \in Actors, CommitMove(a)
  PROVE  AttachmentsSound'
<1> DEFINE o == pending[a]
           id == o.id
           S == o.subtree
           p == o.parentId
           q == CurrentOf(o).parentId
           K == OldKeys(o)
<1>1. /\ o.op = "update" /\ o.step = "write" /\ Moving(o)
      /\ OperationOK(o) /\ IsRowMap(units)
      /\ \A w \in S \cup ParentsOf(o) : Unchanged(o, w)
      /\ \A w \in S : KeysFree(KeysOf([u \in S |-> MovedRow(o, u)][w]))
      /\ units' = [i \in DOMAIN units |->
                    IF i \in S THEN [u \in S |-> MovedRow(o, u)][i]
                    ELSE IF i = p THEN WithChildIds(i, o.rows[i].childIds \cup {id})
                    ELSE IF i = q THEN WithChildIds(i, o.rows[i].childIds \ {id})
                    ELSE units[i]]
      /\ attachments' =
           {att \in attachments : KeyOf(att) \notin K}
             \cup (UNION {AttachmentsOf(u, [w \in S |-> MovedRow(o, w)][u]) : u \in S})
  BY DEF CommitMove, IInv, TypeOK
<1>2. S \subseteq DOMAIN o.rows
  BY <1>1 DEF OperationOK
<1>3. \A w \in S : w \in DOMAIN units /\ o.rows[w] = units[w]
  BY <1>1, <1>2, UnchangedIsRead
<1>4. DOMAIN units' = DOMAIN units /\ \A w \in S : units'[w] = MovedRow(o, w)
  BY <1>1, <1>3
<1>5. ASSUME NEW i \in DOMAIN units \ S PROVE SameRoute(units[i], units'[i])
  <2>1. units[i] \in Row
    BY <1>1 DEF IsRowMap
  <2>2. CASE i \in {p, q}
    <3>1. PICK ids : units'[i] = WithChildIds(i, ids)
      BY <1>1, <2>2
    <3> QED BY <2>1, <3>1 DEF Row, SameRoute, WithChildIds
  <2>3. CASE i \notin {p, q}
    <3>1. units'[i] = units[i]
      BY <1>1, <2>3
    <3> QED BY <3>1 DEF SameRoute
  <2> QED BY <2>2, <2>3
<1>6. \A w \in S : KeysOf(units[w]) \subseteq K
  BY <1>3 DEF OldKeys
<1> HIDE DEF K
<1>7. \A att \in attachments : att.orgUnitId \in S => KeyOf(att) \in K
  BY <1>6, SoundKey
<1>8. \A att \in attachments : \A w \in S : KeyOf(att) \notin KeysOf(units'[w])
  BY <1>1, <1>4 DEF KeysFree
<1>9. attachments' = {att \in attachments : KeyOf(att) \notin K}
                       \cup (UNION {AttachmentsOf(u, units'[u]) : u \in S})
  <2>1. {AttachmentsOf(u, [w \in S |-> MovedRow(o, w)][u]) : u \in S}
          = {AttachmentsOf(u, units'[u]) : u \in S}
    BY <1>4
  <2> QED BY <1>1, <2>1
<1>10. \A u, v \in S : u # v => KeysOf(units'[u]) \cap KeysOf(units'[v]) = {}
  <2> SUFFICES ASSUME NEW u \in S, NEW v \in S, u # v
               PROVE  KeysOf(units'[u]) \cap KeysOf(units'[v]) = {}
    OBVIOUS
  <2>1. CASE u # id
    BY <1>4, <2>1, MovedKeysApart
  <2>2. CASE u = id
    <3>1. KeysOf(units'[v]) \cap KeysOf(units'[u]) = {}
      BY <1>4, <2>2, MovedKeysApart
    <3> QED BY <3>1
  <2> QED BY <2>1, <2>2
<1>11. S \subseteq DOMAIN units'
  BY <1>3, <1>4
<1> HIDE DEF S
<1> QED BY <1>4, <1>5, <1>7, <1>8, <1>9, <1>10, <1>11, RoutesRewritten

-----------------------------------------------------------------------------
\* Every step of a handler keeps the routes sound.
LEMMA StepKeepsRoutes == IInv /\ AttachmentsSound /\ [Next]_vars => AttachmentsSound'
<1> SUFFICES ASSUME IInv, AttachmentsSound, [Next]_vars PROVE AttachmentsSound'
  OBVIOUS
<1>1. ASSUME units' = units, attachments' = attachments PROVE AttachmentsSound'
  BY <1>1 DEF AttachmentsSound
<1>2. ASSUME NEW a \in Actors, CreateNext(a) PROVE AttachmentsSound'
  BY <1>1, <1>2, CreateKeepsRoutes DEF CreateNext, BeginCreate, TableUnchanged
<1>3. ASSUME NEW a \in Actors, UpdateNext(a) PROVE AttachmentsSound'
  BY <1>1, <1>3, EditKeepsRoutes, MoveKeepsRoutes
     DEF UpdateNext, BeginUpdate, ReadOldParent, ReadNewParent, ReadChild,
         ReadDescendant, TableUnchanged
<1>4. ASSUME NEW a \in Actors, FailOperation(a) PROVE AttachmentsSound'
  BY <1>1, <1>4 DEF FailOperation, TableUnchanged
<1>5. CASE UNCHANGED vars
  BY <1>1, <1>5 DEF vars
<1> QED BY <1>2, <1>3, <1>4, <1>5 DEF Next

\* What routing resolves is true, for any number of handlers: although an edit takes
\* over keys without a condition, an attachment copies the row it names, and a key
\* resolves to one Org Unit, so a moved subtree never fights over its own keys.
THEOREM RoutingSound == Spec => []AttachmentsSound
<1>1. Init => AttachmentsSound
  BY DEF Init, AttachmentsSound
<1> QED BY <1>1, StepKeepsRoutes, InductiveInvariant, PTL DEF Spec

-----------------------------------------------------------------------------
(* REFINEMENT.  The directory implements the abstract forest of OrgForest. *)

-----------------------------------------------------------------------------
(* What the invariant of OrgUnits does not say: an operation about to put  *)
(* a node below a parent has compared its tenants with the parent it read. *)
(* A parent found again inside the subtree is another matter: a move is    *)
(* refused then.                                                           *)

BelowParent(o) ==
  o.parentId # NoId => o.tenantIds \subseteq o.rows[o.parentId].tenantIds

Admitted(o) ==
  /\ o.op # "idle" => o.tenantIds # {}
  /\ o.op = "create" => BelowParent(o)
  /\ o.op = "update" /\ o.step \notin {"oldParent", "newParent"}
       /\ o.parentId \notin o.subtree => BelowParent(o)

RInv == IInv /\ \A a \in Actors : Admitted(pending[a])

-----------------------------------------------------------------------------
(* Reading.                                                                *)

\* What follows a batch keeps the input and the rows.
LEMMA AfterLevelInput ==
  ASSUME NEW o, IsOperation(o)
  PROVE  LET n == AfterLevel(o) IN
         SameInput(o, n) /\ n.rows = o.rows /\ n.subtree = o.subtree
BY DEF AfterLevel, IsOperation, Operation, SameInput

LEMMA AfterChildrenInput ==
  ASSUME NEW o, IsOperation(o), o.id \in OrgUnitIds
  PROVE  LET n == AfterChildren(o) IN SameInput(o, n) /\ n.rows = o.rows
<1> DEFINE s == [o EXCEPT !.subtree = {o.id}]
           n == AfterChildren(o)
<1>1. CASE Moving(o)
  <2>1. IsOperation(s) /\ SameInput(o, s) /\ s.rows = o.rows
    BY DEF IsOperation, Operation, SameInput
  <2>2. n = AfterLevel(s)
    BY <1>1 DEF AfterChildren
  <2> HIDE DEF s, n
  <2>3. SameInput(s, n) /\ n.rows = s.rows
    BY <2>1, <2>2, AfterLevelInput
  <2> QED BY <2>1, <2>3 DEF n, SameInput
<1>2. CASE ~Moving(o)
  <2>1. n = [o EXCEPT !.step = "write"]
    BY <1>2 DEF AfterChildren
  <2> QED BY <2>1 DEF IsOperation, Operation, SameInput
<1> QED BY <1>1, <1>2

LEMMA AfterParentsInput ==
  ASSUME NEW o, IsOperation(o), o.id \in OrgUnitIds
  PROVE  LET n == AfterParents(o) IN SameInput(o, n) /\ n.rows = o.rows
<1> DEFINE ids == CurrentOf(o).childIds
           n == AfterParents(o)
<1>1. CASE ids = {}
  <2>1. n = AfterChildren(o)
    BY <1>1 DEF AfterParents
  <2> QED BY <2>1, AfterChildrenInput
<1>2. CASE ids # {}
  <2>1. n = [o EXCEPT !.step = "children", !.todo = ids]
    BY <1>2 DEF AfterParents
  <2> QED BY <2>1 DEF IsOperation, Operation, SameInput
<1> QED BY <1>1, <1>2

\* An update whose tenants the read parent admits is admitted by it later on.
LEMMA AdmittedLater ==
  ASSUME NEW o, NEW n, o.op = "update", o.tenantIds # {}, BelowParent(o),
         SameInput(o, n), n.rows = o.rows
  PROVE  Admitted(n)
BY DEF Admitted, BelowParent, SameInput

\* A step of one actor is one of its operation.
LEMMA OthersAdmitted ==
  ASSUME RInv, NEW a \in Actors, NEW n, Become(a, n), Admitted(n)
  PROVE  \A b \in Actors : Admitted(pending'[b])
<1>1. pending' = [b \in Actors |-> IF b = a THEN n ELSE pending[b]]
  BY DEF RInv, IInv, TypeOK, Become
<1> QED BY <1>1 DEF RInv

LEMMA IdleAdmitted == Admitted(Idle)
BY DEF Admitted, Idle

LEMMA BeginCreateAdmitted ==
  ASSUME RInv, NEW a \in Actors, BeginCreate(a)
  PROVE  \A b \in Actors : Admitted(pending'[b])
<1>1. PICK id \in OrgUnitIds, slug \in Slugs, parentId \in DOMAIN units \cup {NoId},
           tenantIds \in TenantSets, status \in Statuses, seeded \in Seeding :
        LET o == [Idle EXCEPT !.op = "create", !.id = id, !.slug = slug,
                              !.parentId = parentId, !.tenantIds = tenantIds,
                              !.status = status, !.seeded = seeded]
        IN IF parentId = NoId THEN Become(a, o)
           ELSE /\ tenantIds \subseteq units[parentId].tenantIds
                /\ Become(a, WithRow(o, parentId))
  BY DEF BeginCreate
<1> DEFINE o == [Idle EXCEPT !.op = "create", !.id = id, !.slug = slug,
                             !.parentId = parentId, !.tenantIds = tenantIds,
                             !.status = status, !.seeded = seeded]
<1>2. IsRowMap(units)
  BY DEF RInv, IInv, TypeOK
<1>3. /\ IsOperation(o) /\ o.op = "create" /\ o.parentId = parentId
      /\ o.tenantIds = tenantIds /\ tenantIds # {}
  <2>1. tenantIds \in SUBSET TenantIds /\ tenantIds # {}
    BY DEF TenantSets
  <2>2. IsOperation(o) /\ o.op = "create" /\ o.parentId = parentId
    BY <1>2, <2>1, OrgUnitsAssumption
       DEF Idle, NoRows, IsOperation, Operation, IsRowMap
  <2>3. o.tenantIds = tenantIds
    BY DEF Idle
  <2> QED BY <2>1, <2>2, <2>3
<1> HIDE DEF o
<1>4. CASE parentId = NoId
  <2>1. Become(a, o)
    BY <1>1, <1>4 DEF o
  <2>2. Admitted(o)
    BY <1>3, <1>4 DEF Admitted, BelowParent
  <2> QED BY <2>1, <2>2, OthersAdmitted
<1>5. CASE parentId # NoId
  <2> DEFINE w == WithRow(o, parentId)
  <2>1. Become(a, w) /\ tenantIds \subseteq units[parentId].tenantIds
    BY <1>1, <1>5 DEF o
  <2>2. SameInput(o, w) /\ w.rows[parentId] = units[parentId]
    BY <1>2, <1>3, <1>5, WithRowOK
  <2> HIDE DEF w
  <2>3. Admitted(w)
    BY <1>3, <2>1, <2>2 DEF Admitted, BelowParent, SameInput
  <2> QED BY <2>1, <2>3, OthersAdmitted
<1> QED BY <1>4, <1>5

LEMMA BeginUpdateAdmitted ==
  ASSUME RInv, NEW a \in Actors, BeginUpdate(a)
  PROVE  \A b \in Actors : Admitted(pending'[b])
<1>1. PICK id \in DOMAIN units, parentId \in OrgUnitIds \cup {NoId},
           tenantIds \in TenantSets, status \in Statuses :
        LET o == WithRow([Idle EXCEPT !.op = "update", !.id = id,
                            !.parentId = parentId, !.tenantIds = tenantIds,
                            !.status = status], id)
        IN Become(a, IF units[id].parentId # NoId
                     THEN [o EXCEPT !.step = "oldParent"]
                     ELSE IF parentId # NoId THEN [o EXCEPT !.step = "newParent"]
                     ELSE AfterParents(o))
  BY DEF BeginUpdate
<1> DEFINE i == [Idle EXCEPT !.op = "update", !.id = id,
                             !.parentId = parentId, !.tenantIds = tenantIds,
                             !.status = status]
           o == WithRow(i, id)
<1>2. IsRowMap(units) /\ id \in OrgUnitIds
  BY DEF RInv, IInv, TypeOK, IsRowMap
<1>3. /\ IsOperation(i) /\ i.op = "update" /\ i.id = id /\ i.parentId = parentId
      /\ i.tenantIds = tenantIds /\ tenantIds # {}
  <2>1. tenantIds \in SUBSET TenantIds /\ tenantIds # {}
    BY DEF TenantSets
  <2>2. IsOperation(i) /\ i.op = "update" /\ i.id = id /\ i.parentId = parentId
    BY <1>2, <2>1, OrgUnitsAssumption
       DEF Idle, NoRows, IsOperation, Operation, IsRowMap
  <2>3. i.tenantIds = tenantIds
    BY DEF Idle
  <2> QED BY <2>1, <2>2, <2>3
<1> HIDE DEF i
<1>4. IsOperation(o) /\ SameInput(i, o)
  BY <1>2, <1>3, WithRowOK
<1>5. /\ o.op = "update" /\ o.id = id /\ o.parentId = parentId
      /\ o.tenantIds # {}
  BY <1>3, <1>4 DEF SameInput
<1>6. Become(a, IF units[id].parentId # NoId
                THEN [o EXCEPT !.step = "oldParent"]
                ELSE IF parentId # NoId THEN [o EXCEPT !.step = "newParent"]
                ELSE AfterParents(o))
  BY <1>1 DEF i
<1> HIDE DEF o
<1>7. ASSUME NEW step \in {"oldParent", "newParent"}
      PROVE  Admitted([o EXCEPT !.step = step])
  BY <1>4, <1>5 DEF Admitted, IsOperation, Operation
<1>8. CASE units[id].parentId = NoId /\ parentId = NoId
  <2>1. SameInput(o, AfterParents(o)) /\ AfterParents(o).rows = o.rows
    BY <1>2, <1>4, <1>5, AfterParentsInput
  <2>2. Admitted(AfterParents(o))
    BY <1>5, <1>8, <2>1, AdmittedLater DEF BelowParent
  <2> QED BY <1>6, <1>8, <2>2, OthersAdmitted
<1>9. CASE units[id].parentId # NoId
  BY <1>6, <1>7, <1>9, OthersAdmitted
<1>10. CASE units[id].parentId = NoId /\ parentId # NoId
  BY <1>6, <1>7, <1>10, OthersAdmitted
<1> QED BY <1>8, <1>9, <1>10

LEMMA ReadOldParentAdmitted ==
  ASSUME RInv, NEW a \in Actors, ReadOldParent(a)
  PROVE  \A b \in Actors : Admitted(pending'[b])
<1> DEFINE o == pending[a]
           q == CurrentOf(o).parentId
           w == WithRow(o, q)
<1>1. /\ o.op = "update" /\ o.step = "oldParent" /\ q \in DOMAIN units
      /\ IsRowMap(units) /\ IsOperation(o) /\ OperationOK(o) /\ Admitted(o)
      /\ \/ /\ o.parentId = q /\ o.tenantIds \subseteq units[q].tenantIds
            /\ Become(a, AfterParents(w))
         \/ o.parentId \notin {q, NoId} /\ Become(a, [w EXCEPT !.step = "newParent"])
         \/ o.parentId = NoId /\ Become(a, AfterParents(w))
  BY DEF ReadOldParent, RInv, IInv, TypeOK
<1>2. IsOperation(w) /\ SameInput(o, w) /\ w.rows[q] = units[q]
  BY <1>1, WithRowOK
<1> HIDE DEF w
<1>3. w.op = "update" /\ w.tenantIds # {} /\ w.id \in OrgUnitIds
  BY <1>1, <1>2 DEF Admitted, OperationOK, SameInput
<1>4. CASE Become(a, AfterParents(w)) /\ BelowParent(w)
  <2>1. SameInput(w, AfterParents(w)) /\ AfterParents(w).rows = w.rows
    BY <1>2, <1>3, AfterParentsInput
  <2>2. Admitted(AfterParents(w))
    BY <1>3, <1>4, <2>1, AdmittedLater
  <2> QED BY <1>4, <2>2, OthersAdmitted
<1>5. CASE Become(a, [w EXCEPT !.step = "newParent"])
  <2>1. Admitted([w EXCEPT !.step = "newParent"])
    BY <1>2, <1>3 DEF Admitted, IsOperation, Operation
  <2> QED BY <1>5, <2>1, OthersAdmitted
<1> QED BY <1>1, <1>2, <1>4, <1>5 DEF BelowParent, SameInput

LEMMA ReadNewParentAdmitted ==
  ASSUME RInv, NEW a \in Actors, ReadNewParent(a)
  PROVE  \A b \in Actors : Admitted(pending'[b])
<1> DEFINE o == pending[a]
           p == o.parentId
           w == WithRow(o, p)
<1>1. /\ o.op = "update" /\ p \in DOMAIN units /\ IsRowMap(units)
      /\ o.tenantIds \subseteq units[p].tenantIds
      /\ IsOperation(o) /\ OperationOK(o) /\ Admitted(o)
      /\ Become(a, AfterParents(w))
  BY DEF ReadNewParent, RInv, IInv, TypeOK
<1>2. IsOperation(w) /\ SameInput(o, w) /\ w.rows[p] = units[p]
  BY <1>1, WithRowOK
<1> HIDE DEF w
<1>3. /\ w.op = "update" /\ w.tenantIds # {} /\ w.id \in OrgUnitIds
      /\ BelowParent(w)
  BY <1>1, <1>2 DEF Admitted, OperationOK, SameInput, BelowParent
<1>4. SameInput(w, AfterParents(w)) /\ AfterParents(w).rows = w.rows
  BY <1>2, <1>3, AfterParentsInput
<1>5. Admitted(AfterParents(w))
  BY <1>3, <1>4, AdmittedLater
<1> QED BY <1>1, <1>5, OthersAdmitted

LEMMA ReadChildAdmitted ==
  ASSUME RInv, NEW a \in Actors, NEW c \in OrgUnitIds, ReadChild(a, c)
  PROVE  \A b \in Actors : Admitted(pending'[b])
<1> DEFINE o == pending[a]
           rest == [o EXCEPT !.todo = @ \ {c}]
           n == IF rest.todo = {} THEN AfterChildren(rest) ELSE rest
<1>1. /\ o.op = "update" /\ o.step = "children" /\ Become(a, n)
      /\ IsOperation(o) /\ OperationOK(o) /\ Admitted(o)
  BY DEF ReadChild, RInv, IInv, TypeOK
<1>2. IsOperation(rest) /\ SameInput(o, rest) /\ rest.rows = o.rows
  BY <1>1 DEF IsOperation, Operation, SameInput
<1> HIDE DEF rest
<1>3. /\ rest.op = "update" /\ rest.tenantIds # {} /\ rest.id \in OrgUnitIds
      /\ BelowParent(rest)
  BY <1>1, <1>2 DEF Admitted, OperationOK, SameInput, BelowParent
<1>4. SameInput(rest, n) /\ n.rows = rest.rows
  <2>1. CASE rest.todo = {}
    BY <1>2, <1>3, <2>1, AfterChildrenInput
  <2>2. CASE rest.todo # {}
    BY <2>2 DEF SameInput
  <2> QED BY <2>1, <2>2
<1> HIDE DEF n
<1> QED BY <1>1, <1>3, <1>4, AdmittedLater, OthersAdmitted

\* The parent is read again only when it turns out to be below the moved root.
LEMMA ReadDescendantAdmitted ==
  ASSUME RInv, NEW a \in Actors, NEW c \in OrgUnitIds, ReadDescendant(a, c)
  PROVE  \A b \in Actors : Admitted(pending'[b])
<1> DEFINE o == pending[a]
           w == WithRow(o, c)
           r == [w EXCEPT !.todo = @ \ {c}, !.subtree = @ \cup {c}]
           n == IF r.todo = {} THEN AfterLevel(r) ELSE r
<1>1. /\ o.op = "update" /\ o.step = "subtree" /\ c \in DOMAIN units
      /\ IsRowMap(units) /\ IsOperation(o) /\ OperationOK(o) /\ Admitted(o)
      /\ Become(a, n)
  BY DEF ReadDescendant, RInv, IInv, TypeOK
<1>2. o.parentId # NoId => o.parentId \in DOMAIN o.rows
  BY <1>1 DEF OperationOK
<1>3. /\ IsOperation(w) /\ SameInput(o, w) /\ w.subtree = o.subtree
      /\ \A i \in DOMAIN o.rows : i # c => w.rows[i] = o.rows[i]
  BY <1>1, WithRowOK
<1> HIDE DEF w
<1>4. /\ IsOperation(r) /\ SameInput(w, r) /\ r.rows = w.rows
      /\ r.subtree = w.subtree \cup {c}
  BY <1>3 DEF IsOperation, Operation, SameInput
<1> HIDE DEF r
<1>5. SameInput(r, n) /\ n.rows = r.rows /\ n.subtree = r.subtree
  <2>1. CASE r.todo = {}
    BY <1>4, <2>1, AfterLevelInput
  <2>2. CASE r.todo # {}
    BY <2>2 DEF SameInput
  <2> QED BY <2>1, <2>2
<1> HIDE DEF n
<1>6. /\ n.op = "update" /\ n.tenantIds = o.tenantIds /\ n.parentId = o.parentId
      /\ n.subtree = o.subtree \cup {c} /\ n.rows = w.rows
  BY <1>1, <1>3, <1>4, <1>5 DEF SameInput
<1>7. o.tenantIds # {} /\ (o.parentId \notin o.subtree => BelowParent(o))
  BY <1>1 DEF Admitted
<1>8. Admitted(n)
  BY <1>2, <1>3, <1>6, <1>7 DEF Admitted, BelowParent
<1> QED BY <1>1, <1>8, OthersAdmitted

-----------------------------------------------------------------------------
(* Writing: each transaction is one step of the forest.                    *)

NodeOf(row) == [parentId |-> row.parentId, slug |-> row.slug,
                tenantIds |-> row.tenantIds, status |-> row.status]

LEMMA NodesOf ==
  /\ Nodes = [u \in DOMAIN units |-> NodeOf(units[u])]
  /\ Nodes' = [u \in DOMAIN units' |-> NodeOf(units'[u])]
BY DEF Nodes, NodeOf

\* What a committing operation knows of its parent is still true.
LEMMA ParentAdmits ==
  ASSUME RInv, NEW a \in Actors, NEW p, p = pending[a].parentId,
         BelowParent(pending[a]),
         p # NoId => p \in DOMAIN pending[a].rows /\ Unchanged(pending[a], p)
  PROVE  Hierarchy!Admits(p, pending[a].tenantIds)
<1> SUFFICES ASSUME p # NoId
             PROVE  /\ p \in DOMAIN Nodes
                    /\ pending[a].tenantIds \subseteq Nodes[p].tenantIds
  BY DEF Hierarchy!Admits
<1>1. p \in DOMAIN units /\ pending[a].rows[p] = units[p]
  BY UnchangedIsRead DEF RInv
<1> QED BY <1>1 DEF Nodes, BelowParent

\* An update in place replaces parts of one node.
LEMMA ReplacedPart ==
  ASSUME NEW f, NEW id \in DOMAIN f, f = [i \in DOMAIN f |-> f[i]], NEW x
  PROVE  LET g == [f EXCEPT ![id] = x] IN
         /\ DOMAIN g = DOMAIN f /\ g[id] = x /\ g = [i \in DOMAIN g |-> g[i]]
         /\ \A i \in DOMAIN f : i # id => g[i] = f[i]
         /\ g = [i \in DOMAIN f |-> IF i = id THEN x ELSE f[i]]
OBVIOUS

Edited(f, id, t, s) == [f EXCEPT ![id].tenantIds = t, ![id].status = s]
Moved(f, id, p, t, s) ==
  [f EXCEPT ![id].parentId = p, ![id].tenantIds = t, ![id].status = s]

LEMMA EditedNode ==
  ASSUME NEW f, NEW id \in DOMAIN f, f = [i \in DOMAIN f |-> f[i]], NEW t, NEW s,
         NEW p, NEW e, NEW t0, NEW s0,
         f[id] = [parentId |-> p, slug |-> e, tenantIds |-> t0, status |-> s0]
  PROVE  Edited(f, id, t, s)
           = [i \in DOMAIN f |->
                IF i = id THEN [parentId |-> p, slug |-> e, tenantIds |-> t, status |-> s]
                          ELSE f[i]]
<1>1. PICK x : x = [parentId |-> p, slug |-> e, tenantIds |-> t, status |-> s0]
  OBVIOUS
<1>2. PICK y : y = [parentId |-> p, slug |-> e, tenantIds |-> t, status |-> s]
  OBVIOUS
<1>3. [f[id] EXCEPT !.tenantIds = t] = x
  BY <1>1
<1>4. [x EXCEPT !.status = s] = y
  BY <1>1, <1>2
<1>5. PICK g : g = [f EXCEPT ![id] = x]
  OBVIOUS
<1>6. [f EXCEPT ![id].tenantIds = t] = g
  BY <1>3, <1>5
<1>7. /\ DOMAIN g = DOMAIN f /\ g[id] = x /\ g = [i \in DOMAIN g |-> g[i]]
      /\ \A i \in DOMAIN f : i # id => g[i] = f[i]
  BY <1>5, ReplacedPart
<1>8. [g EXCEPT ![id].status = s] = [g EXCEPT ![id] = y]
  BY <1>4, <1>7
<1>9. [g EXCEPT ![id] = y] = [i \in DOMAIN f |-> IF i = id THEN y ELSE f[i]]
  BY <1>7
<1> QED BY <1>2, <1>6, <1>8, <1>9 DEF Edited

LEMMA MovedNode ==
  ASSUME NEW f, NEW id \in DOMAIN f, f = [i \in DOMAIN f |-> f[i]], NEW t, NEW s,
         NEW p, NEW e, NEW p0, NEW t0, NEW s0,
         f[id] = [parentId |-> p0, slug |-> e, tenantIds |-> t0, status |-> s0]
  PROVE  Moved(f, id, p, t, s)
           = [i \in DOMAIN f |->
                IF i = id THEN [parentId |-> p, slug |-> e, tenantIds |-> t, status |-> s]
                          ELSE f[i]]
<1>1. PICK x : x = [parentId |-> p, slug |-> e, tenantIds |-> t0, status |-> s0]
  OBVIOUS
<1>2. [f[id] EXCEPT !.parentId = p] = x
  BY <1>1
<1>3. PICK g : g = [f EXCEPT ![id] = x]
  OBVIOUS
<1>4. [f EXCEPT ![id].parentId = p] = g
  BY <1>2, <1>3
<1>5. /\ DOMAIN g = DOMAIN f /\ g[id] = x /\ g = [i \in DOMAIN g |-> g[i]]
      /\ \A i \in DOMAIN f : i # id => g[i] = f[i]
  BY <1>3, ReplacedPart
<1>6. PICK y : y = [parentId |-> p, slug |-> e, tenantIds |-> t, status |-> s]
  OBVIOUS
<1>7. PICK h : h = Edited(g, id, t, s)
  OBVIOUS
<1>8. h = [i \in DOMAIN g |->
             IF i = id THEN [parentId |-> p, slug |-> e, tenantIds |-> t, status |-> s]
                       ELSE g[i]]
  BY <1>1, <1>5, <1>7, EditedNode
<1>9. h = [i \in DOMAIN f |-> IF i = id THEN y ELSE f[i]]
  BY <1>5, <1>6, <1>8
<1>10. Moved(f, id, p, t, s) = h
  BY <1>4, <1>7 DEF Edited, Moved
<1> QED BY <1>6, <1>9, <1>10

LEMMA CreateIsAdd ==
  ASSUME RInv, NEW a \in Actors, CommitCreate(a)
  PROVE  Hierarchy!Next
<1> DEFINE o == pending[a]
           id == o.id
           p == o.parentId
           row == CreatedRow(o)
<1>1. /\ o.op = "create" /\ id \notin DOMAIN units
      /\ p # NoId => Unchanged(o, p)
      /\ units' = [i \in DOMAIN units \cup {id} |->
                     IF i = id THEN row
                     ELSE IF i = p
                          THEN [units[i] EXCEPT !.childIds = @ \cup {id},
                                                !.version = @ + 1]
                          ELSE units[i]]
      /\ IsOperation(o) /\ OperationOK(o) /\ Admitted(o) /\ IsRowMap(units)
  BY DEF CommitCreate, RInv, IInv, TypeOK
<1>2. /\ id \in OrgUnitIds /\ o.slug \in Slugs /\ o.status \in Statuses
      /\ p \in OrgUnitIds \cup {NoId}
      /\ o.tenantIds \in SUBSET TenantIds /\ o.tenantIds # {}
      /\ p # NoId => p \in DOMAIN o.rows
  BY <1>1 DEF OperationOK, Admitted, IsOperation, Operation
<1>3. Hierarchy!Admits(p, o.tenantIds)
  BY <1>1, <1>2, ParentAdmits DEF Admitted
<1>4. NodeOf(row) = [parentId |-> p, slug |-> o.slug, tenantIds |-> o.tenantIds,
                     status |-> o.status]
  BY DEF CreatedRow, NodeOf
<1>5. DOMAIN units' = DOMAIN units \cup {id} /\ units'[id] = row
  BY <1>1
<1>6. ASSUME NEW i \in DOMAIN units PROVE NodeOf(units'[i]) = NodeOf(units[i])
  <2>1. units[i] \in Row
    BY <1>1 DEF IsRowMap
  <2>2. CASE i = p
    <3>1. units'[i] = [units[i] EXCEPT !.childIds = @ \cup {id}, !.version = @ + 1]
      BY <1>1, <2>2
    <3> QED BY <2>1, <3>1 DEF Row, NodeOf
  <2>3. CASE i # p
    BY <1>1, <2>3
  <2> QED BY <2>2, <2>3
<1>7. Nodes' = [i \in DOMAIN Nodes \cup {id} |->
                  IF i = id THEN [parentId |-> p, slug |-> o.slug,
                                  tenantIds |-> o.tenantIds, status |-> o.status]
                            ELSE Nodes[i]]
  <2> HIDE DEF row
  <2> QED BY <1>1, <1>4, <1>5, <1>6, NodesOf
<1>8. Hierarchy!Add(id, p, o.slug, o.tenantIds, o.status)
  BY <1>1, <1>3, <1>7, NodesOf DEF Hierarchy!Add
<1> QED BY <1>2, <1>8 DEF Hierarchy!Next

LEMMA EditIsEdit ==
  ASSUME RInv, NEW a \in Actors, CommitEdit(a)
  PROVE  Hierarchy!Next
<1> DEFINE o == pending[a]
           id == o.id
<1>1. /\ o.op = "update" /\ Unchanged(o, id)
      /\ units' = [units EXCEPT ![id] = EditedRow(o)]
      /\ IsOperation(o) /\ OperationOK(o) /\ Admitted(o) /\ IsRowMap(units)
  BY DEF CommitEdit, RInv, IInv, TypeOK
<1>2. /\ id \in OrgUnitIds /\ o.status \in Statuses /\ id \in DOMAIN o.rows
      /\ o.tenantIds \in SUBSET TenantIds /\ o.tenantIds # {}
  BY <1>1 DEF OperationOK, Admitted, IsOperation, Operation
<1>3. id \in DOMAIN units /\ o.rows[id] = units[id]
  BY <1>1, <1>2, UnchangedIsRead DEF RInv
<1>4. units[id] \in Row
  BY <1>1, <1>3 DEF IsRowMap
<1>5. EditedRow(o) = [units[id] EXCEPT !.tenantIds = o.tenantIds,
                                       !.status = o.status, !.version = @ + 1]
  BY <1>3 DEF EditedRow, CurrentOf
<1>6. NodeOf(EditedRow(o)) = [parentId |-> units[id].parentId,
                              slug |-> units[id].slug,
                              tenantIds |-> o.tenantIds, status |-> o.status]
  BY <1>4, <1>5 DEF Row, NodeOf
<1>7. /\ DOMAIN units' = DOMAIN units /\ units'[id] = EditedRow(o)
      /\ \A i \in DOMAIN units : i # id => units'[i] = units[i]
  BY <1>1, <1>3
<1>8. Nodes' = [Nodes EXCEPT ![id].tenantIds = o.tenantIds, ![id].status = o.status]
  <2>1. PICK f : f = Nodes
    OBVIOUS
  <2>2. PICK p, e, t, s : NodeOf(units[id]) = [parentId |-> p, slug |-> e,
                                               tenantIds |-> t, status |-> s]
                          /\ p = units[id].parentId /\ e = units[id].slug
    BY DEF NodeOf
  <2>3. /\ id \in DOMAIN f /\ f = [i \in DOMAIN f |-> f[i]]
        /\ f[id] = [parentId |-> p, slug |-> e, tenantIds |-> t, status |-> s]
    BY <1>3, <2>1, <2>2, NodesOf
  <2>4. PICK y : y = NodeOf(units'[id])
    OBVIOUS
  <2>5. Nodes' = [i \in DOMAIN f |-> IF i = id THEN y ELSE f[i]]
    BY <1>7, <2>1, <2>4, NodesOf
  <2>6. y = [parentId |-> p, slug |-> e, tenantIds |-> o.tenantIds,
             status |-> o.status]
    BY <1>6, <1>7, <2>2, <2>4
  <2>7. Edited(f, id, o.tenantIds, o.status)
          = [i \in DOMAIN f |-> IF i = id THEN y ELSE f[i]]
    BY <2>3, <2>6, EditedNode
  <2> QED BY <2>1, <2>5, <2>7 DEF Edited
<1>9. Hierarchy!Edit(id, o.tenantIds, o.status)
  BY <1>3, <1>8, NodesOf DEF Hierarchy!Edit
<1> QED BY <1>2, <1>9 DEF Hierarchy!Next

\* The loaded subtree shows that the new parent is not below the moved root: it is
\* closed under children, because its rows list their children and are still stored.
LEMMA MoveIsMove ==
  ASSUME RInv, NEW a \in Actors, CommitMove(a)
  PROVE  Hierarchy!Next
<1> DEFINE o == pending[a]
           id == o.id
           S == o.subtree
           p == o.parentId
           q == CurrentOf(o).parentId
<1>1. /\ o.op = "update" /\ o.step = "write" /\ Moving(o)
      /\ ParentsOf(o) \cap S = {}
      /\ \A u \in S \cup ParentsOf(o) : Unchanged(o, u)
      /\ units' = [i \in DOMAIN units |->
                    IF i \in S THEN [u \in S |-> MovedRow(o, u)][i]
                    ELSE IF i = p THEN WithChildIds(i, o.rows[i].childIds \cup {id})
                    ELSE IF i = q THEN WithChildIds(i, o.rows[i].childIds \ {id})
                    ELSE units[i]]
      /\ IsOperation(o) /\ OperationOK(o) /\ Admitted(o) /\ IsRowMap(units)
  BY DEF CommitMove, RInv, IInv, TypeOK
<1>2. /\ id \in OrgUnitIds /\ o.status \in Statuses /\ id \in S
      /\ S \subseteq DOMAIN o.rows /\ p \in OrgUnitIds \cup {NoId}
      /\ o.tenantIds \in SUBSET TenantIds /\ o.tenantIds # {}
      /\ p # NoId => p \in DOMAIN o.rows
      /\ \A u \in S : o.rows[u].childIds \subseteq S
  BY <1>1 DEF OperationOK, Admitted, IsOperation, Operation
<1>3. \A u \in S : u \in DOMAIN units /\ o.rows[u] = units[u]
  BY <1>1, <1>2, UnchangedIsRead DEF RInv
<1>4. p \notin S /\ (p # NoId => Unchanged(o, p))
  <2>1. NoId \notin DOMAIN units
    BY <1>1, OrgUnitsAssumption DEF IsRowMap
  <2> QED BY <1>1, <1>3, <2>1 DEF ParentsOf
<1>5. Hierarchy!Admits(p, o.tenantIds)
  BY <1>1, <1>2, <1>4, ParentAdmits DEF Admitted
<1>6. Hierarchy!Outside(p, id)
  <2>1. ASSUME NEW x \in DOMAIN units, units[x].parentId \in S PROVE x \in S
    <3>1. units[x].parentId # NoId
      BY <1>3, <2>1, <1>1, OrgUnitsAssumption DEF IsRowMap
    <3>2. x \in units[units[x].parentId].childIds
      BY <3>1 DEF RInv, IInv, Forest, DerivesFromParent
    <3> QED BY <1>2, <1>3, <2>1, <3>2
  <2>2. \A x \in DOMAIN Nodes : Nodes[x].parentId \in S => x \in S
    BY <2>1 DEF Nodes
  <2>3. S \in SUBSET DOMAIN Nodes
    BY <1>3 DEF Nodes
  <2> QED BY <1>2, <1>4, <2>2, <2>3
      DEF Hierarchy!Outside, Hierarchy!ClosedUnderChildren
<1>7. \A i \in DOMAIN units : units[i] \in Row
  BY <1>1 DEF IsRowMap
<1>8. NodeOf(units'[id]) = [parentId |-> p, slug |-> units[id].slug,
                            tenantIds |-> o.tenantIds, status |-> o.status]
  <2>1. PICK path, ids :
          units'[id] = [units[id] EXCEPT !.path = path, !.parentId = p,
                          !.ancestorOrgUnitIds = ids, !.tenantIds = o.tenantIds,
                          !.status = o.status, !.version = @ + 1]
    BY <1>1, <1>2, <1>3 DEF MovedRow
  <2>2. units[id] \in Row
    BY <1>2, <1>3, <1>7
  <2> QED BY <2>1, <2>2 DEF Row, NodeOf
<1>9. ASSUME NEW i \in DOMAIN units, i # id
      PROVE  NodeOf(units'[i]) = NodeOf(units[i])
  <2>1. units[i] \in Row
    BY <1>7
  <2>2. CASE i \in S
    <3>1. PICK path, ids :
            units'[i] = [units[i] EXCEPT !.path = path, !.ancestorOrgUnitIds = ids,
                                         !.version = @ + 1]
      BY <1>1, <1>3, <1>9, <2>2 DEF MovedRow
    <3> QED BY <2>1, <3>1 DEF Row, NodeOf
  <2>3. CASE i \notin S /\ i \in {p, q}
    <3>1. PICK ids : units'[i] = WithChildIds(i, ids)
      BY <1>1, <2>3
    <3> QED BY <2>1, <3>1 DEF Row, NodeOf, WithChildIds
  <2>4. CASE i \notin S \cup {p, q}
    BY <1>1, <2>4
  <2> QED BY <2>2, <2>3, <2>4
<1>10. DOMAIN units' = DOMAIN units /\ id \in DOMAIN units
  BY <1>1, <1>2, <1>3
<1>11. Nodes' = [Nodes EXCEPT ![id].parentId = p, ![id].tenantIds = o.tenantIds,
                              ![id].status = o.status]
  <2>1. PICK f : f = Nodes
    OBVIOUS
  <2>2. PICK p0, e, t, s : NodeOf(units[id]) = [parentId |-> p0, slug |-> e,
                                                tenantIds |-> t, status |-> s]
                           /\ e = units[id].slug
    BY DEF NodeOf
  <2>3. /\ id \in DOMAIN f /\ f = [i \in DOMAIN f |-> f[i]]
        /\ f[id] = [parentId |-> p0, slug |-> e, tenantIds |-> t, status |-> s]
    BY <1>10, <2>1, <2>2, NodesOf
  <2>4. PICK y : y = NodeOf(units'[id])
    OBVIOUS
  <2>5. Nodes' = [i \in DOMAIN f |-> IF i = id THEN y ELSE f[i]]
    BY <1>9, <1>10, <2>1, <2>4, NodesOf
  <2>6. y = [parentId |-> p, slug |-> e, tenantIds |-> o.tenantIds,
             status |-> o.status]
    BY <1>8, <2>2, <2>4
  <2>7. Moved(f, id, p, o.tenantIds, o.status)
          = [i \in DOMAIN f |-> IF i = id THEN y ELSE f[i]]
    BY <2>3, <2>6, MovedNode
  <2> QED BY <2>1, <2>5, <2>7 DEF Moved
<1>12. Hierarchy!Move(id, p, o.tenantIds, o.status)
  BY <1>5, <1>6, <1>10, <1>11, NodesOf DEF Hierarchy!Move
<1> QED BY <1>2, <1>12 DEF Hierarchy!Next

-----------------------------------------------------------------------------
(* Every step.                                                             *)

LEMMA StepIsForestStep ==
  ASSUME RInv, [Next]_vars
  PROVE  (\A a \in Actors : Admitted(pending'[a])) /\ [Hierarchy!Next]_Nodes
<1>1. ASSUME TableUnchanged PROVE UNCHANGED Nodes
  BY <1>1 DEF TableUnchanged, Nodes
<1>2. ASSUME NEW a \in Actors, CreateNext(a)
      PROVE  (\A b \in Actors : Admitted(pending'[b])) /\ [Hierarchy!Next]_Nodes
  <2>1. CASE BeginCreate(a)
    BY <1>1, <2>1, BeginCreateAdmitted DEF BeginCreate
  <2>2. CASE CommitCreate(a)
    <3>1. Become(a, Idle)
      BY <2>2 DEF CommitCreate
    <3> QED BY <2>2, <3>1, CreateIsAdd, IdleAdmitted, OthersAdmitted
  <2> QED BY <1>2, <2>1, <2>2 DEF CreateNext
<1>3. ASSUME NEW a \in Actors, UpdateNext(a)
      PROVE  (\A b \in Actors : Admitted(pending'[b])) /\ [Hierarchy!Next]_Nodes
  <2>1. CASE BeginUpdate(a)
    BY <1>1, <2>1, BeginUpdateAdmitted DEF BeginUpdate
  <2>2. CASE ReadOldParent(a)
    BY <1>1, <2>2, ReadOldParentAdmitted DEF ReadOldParent
  <2>3. CASE ReadNewParent(a)
    BY <1>1, <2>3, ReadNewParentAdmitted DEF ReadNewParent
  <2>4. ASSUME NEW c \in OrgUnitIds, ReadChild(a, c) \/ ReadDescendant(a, c)
        PROVE  (\A b \in Actors : Admitted(pending'[b])) /\ [Hierarchy!Next]_Nodes
    BY <1>1, <2>4, ReadChildAdmitted, ReadDescendantAdmitted
       DEF ReadChild, ReadDescendant
  <2>5. CASE CommitEdit(a)
    <3>1. Become(a, Idle)
      BY <2>5 DEF CommitEdit
    <3> QED BY <2>5, <3>1, EditIsEdit, IdleAdmitted, OthersAdmitted
  <2>6. CASE CommitMove(a)
    <3>1. Become(a, Idle)
      BY <2>6 DEF CommitMove
    <3> QED BY <2>6, <3>1, MoveIsMove, IdleAdmitted, OthersAdmitted
  <2> QED BY <1>3, <2>1, <2>2, <2>3, <2>4, <2>5, <2>6 DEF UpdateNext
<1>4. ASSUME NEW a \in Actors, FailOperation(a)
      PROVE  (\A b \in Actors : Admitted(pending'[b])) /\ [Hierarchy!Next]_Nodes
  BY <1>1, <1>4, IdleAdmitted, OthersAdmitted DEF FailOperation
<1>5. CASE UNCHANGED vars
  BY <1>5 DEF vars, Nodes, RInv
<1> QED BY <1>2, <1>3, <1>4, <1>5 DEF Next

LEMMA InitIsForestInit == Init => Hierarchy!Init /\ \A a \in Actors : Admitted(pending[a])
<1> SUFFICES ASSUME Init
             PROVE  Hierarchy!Init /\ \A a \in Actors : Admitted(pending[a])
  OBVIOUS
<1>1. DOMAIN units = {}
  BY DEF Init, NoRows
<1>2. Nodes = [i \in {} |-> NoId]
  BY <1>1 DEF Nodes
<1> QED BY <1>2, IdleAdmitted DEF Init, Hierarchy!Init

\* The directory is an implementation of the abstract forest: whatever creates, edits
\* and moves interleave, readers of the table see whole operations, one after another,
\* each allowed by the forest as it is at that moment.
THEOREM DirectoryImplementsForest == Spec => ImplementsOrgForest
<1>1. (IInv /\ [Next]_vars) /\ (\A a \in Actors : Admitted(pending[a]))
        => (\A a \in Actors : Admitted(pending[a]))'
  BY StepIsForestStep DEF RInv
<1>2. IInv /\ [Next]_vars /\ (\A a \in Actors : Admitted(pending[a]))
        => [Hierarchy!Next]_Nodes
  BY StepIsForestStep DEF RInv
<1> QED BY <1>1, <1>2, InitIsForestInit, InductiveInvariant, PTL
        DEF Spec, ImplementsOrgForest, Hierarchy!Spec
=============================================================================
