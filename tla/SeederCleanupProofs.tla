-------------------------- MODULE SeederCleanupProofs --------------------------
(***************************************************************************)
(* Proofs about a cleanup of seeded data that has the table to itself      *)
(* (QuietSpec), for every set of ids, tenants, slugs and actors: it leaves *)
(* the directory a forest with sound routes, and removes all that nothing  *)
(* else depends on.                                                        *)
(***************************************************************************)
EXTENDS SeederCleanup, OrgUnitsProofs

-----------------------------------------------------------------------------
(* The invariant.                                                          *)

Depths == UNION {[S -> Nat] : S \in SUBSET OrgUnitIds}
RowMaps == UNION {[S -> Row] : S \in SUBSET OrgUnitIds}
Cleanups ==
  [step : CleanupSteps, todo : SUBSET OrgUnitIds, tenantTodo : SUBSET TenantIds,
   depth : Depths, id : OrgUnitIds \cup {NoId}, rows : RowMaps]

DepthOf(u) == Len(units[u].ancestorOrgUnitIds)

\* The markers the cleanup has still to decide about, the visited one included.
Open == cleanup.todo \cup ({cleanup.id} \ {NoId})

\* The depths that were read are those of the stored rows.
DepthsRead ==
  /\ cleanup.step = "depths" => cleanup.todo = markers
  /\ cleanup.step # "depths" => cleanup.todo \subseteq DOMAIN cleanup.depth
  /\ \A u \in cleanup.todo \cap DOMAIN cleanup.depth : cleanup.depth[u] = DepthOf(u)

\* The Org Unit that is visited is a leaf, none of those to come is deeper, and what
\* was read of it and of its parent is what is stored.
Visiting ==
  IF cleanup.step \in {"depths", "visit"}
  THEN cleanup.id = NoId /\ DOMAIN cleanup.rows = {}
  ELSE /\ cleanup.id # NoId
       /\ units[cleanup.id].childIds = {}
       /\ \A u \in cleanup.todo : DepthOf(u) <= DepthOf(cleanup.id)
       /\ DOMAIN cleanup.rows =
            IF cleanup.step = "parent" THEN {cleanup.id}
            ELSE {cleanup.id, units[cleanup.id].parentId} \ {NoId}
       /\ \A i \in DOMAIN cleanup.rows : cleanup.rows[i] = units[i]
       /\ cleanup.step = "parent" => units[cleanup.id].parentId # NoId

\* A marker that was passed over is no deeper than one to come would be high: its Org
\* Unit has children or lost a route, and none of its children will be deleted.
PassedOver ==
  \A u \in markers \ Open :
    /\ \A c \in Open : DepthOf(c) <= DepthOf(u)
    /\ units[u].childIds # {} \/ ~KeysHeldBy(u, KeysOf(units[u]))

Busy ==
  /\ \A a \in Actors : pending[a] = Idle
  /\ Open \subseteq markers /\ cleanup.id \notin cleanup.todo
  /\ DepthsRead /\ Visiting /\ PassedOver

Sound == IInv /\ AttachmentsSound /\ SeededUnitsMarked

QInv ==
  /\ Sound
  /\ tenantMarkers \subseteq TenantIds /\ cleanup \in Cleanups
  /\ IF cleanup.step = "idle" THEN cleanup = NoCleanup ELSE Busy

-----------------------------------------------------------------------------
(* Markers and seeded rows, whatever the handlers do.                      *)

LEMMA NoCleanupOK ==
  /\ NoCleanup \in Cleanups /\ NoCleanup.step = "idle" /\ NoCleanup.todo = {}
  /\ NoCleanup.id = NoId /\ DOMAIN NoCleanup.rows = {} /\ DOMAIN NoCleanup.depth = {}
<1>1. NoRows \in [{} -> Nat] /\ NoRows \in [{} -> Row] /\ DOMAIN NoRows = {}
  BY DEF NoRows
<1>2. NoRows \in Depths /\ NoRows \in RowMaps
  BY <1>1 DEF Depths, RowMaps
<1> QED BY <1>1, <1>2 DEF NoCleanup, Cleanups, CleanupSteps

\* A create marks the row it seeds, edits and moves keep a row's provenance.
LEMMA HandlersKeepMarkers ==
  ASSUME IInv, SeededUnitsMarked, NEW a \in Actors,
         CreateNext(a) \/ UpdateNext(a) \/ FailOperation(a)
  PROVE  SeededUnitsMarked'
<1> DEFINE o == pending[a]
<1>1. CASE UNCHANGED <<units, markers>>
  BY <1>1 DEF SeededUnitsMarked
<1>2. CASE CommitCreate(a)
  <2>1. /\ o.id \notin DOMAIN units /\ DOMAIN units' = DOMAIN units \cup {o.id}
        /\ units'[o.id] = CreatedRow(o)
        /\ markers' = IF o.seeded THEN markers \cup {o.id} ELSE markers
    BY <1>2 DEF CommitCreate
  <2>2. CreatedRow(o).seeded = o.seeded /\ o.seeded \in BOOLEAN
    BY DEF CreatedRow, IInv, TypeOK, IsOperation, Operation
  <2>3. ASSUME NEW i \in DOMAIN units PROVE units'[i].seeded = units[i].seeded
    <3>1. \/ units'[i] = units[i]
          \/ units'[i] = [units[i] EXCEPT !.childIds = @ \cup {o.id}, !.version = @ + 1]
      BY <1>2, <2>1 DEF CommitCreate
    <3>2. units[i] \in Row
      BY DEF IInv, TypeOK, IsRowMap
    <3> QED BY <3>1, <3>2 DEF Row
  <2> QED BY <2>1, <2>2, <2>3 DEF SeededUnitsMarked
<1>3. CASE CommitEdit(a)
  <2>1. o.op = "update" /\ Unchanged(o, o.id) /\ markers' = markers
        /\ units' = [units EXCEPT ![o.id] = EditedRow(o)]
    BY <1>3 DEF CommitEdit
  <2>2. o.id \in DOMAIN o.rows
    BY <2>1 DEF IInv, OperationOK
  <2>3. o.id \in DOMAIN units /\ CurrentOf(o) = units[o.id] /\ units[o.id] \in Row
    BY <2>1, <2>2, UnchangedIsRead DEF CurrentOf, IInv, TypeOK, IsRowMap
  <2>4. EditedRow(o).seeded = units[o.id].seeded
    BY <2>3 DEF EditedRow, Row
  <2> QED BY <2>1, <2>3, <2>4 DEF SeededUnitsMarked
<1>4. CASE CommitMove(a)
  <2>1. /\ o.op = "update" /\ markers' = markers /\ DOMAIN units' = DOMAIN units
        /\ \A u \in o.subtree : Unchanged(o, u)
    BY <1>4 DEF CommitMove
  <2>2. o.subtree \subseteq DOMAIN o.rows
    BY <2>1 DEF IInv, OperationOK
  <2>3. ASSUME NEW i \in DOMAIN units PROVE units'[i].seeded = units[i].seeded
    <3>1. units[i] \in Row
      BY DEF IInv, TypeOK, IsRowMap
    <3>2. CASE i \in o.subtree
      <4>1. o.rows[i] = units[i]
        BY <2>1, <2>2, <3>2, UnchangedIsRead
      <4>2. units'[i] = MovedRow(o, i)
        BY <1>4, <3>2 DEF CommitMove
      <4> QED BY <3>1, <4>1, <4>2 DEF MovedRow, Row
    <3>3. CASE i \notin o.subtree
      <4>1. units'[i] = units[i] \/ \E S : units'[i] = WithChildIds(i, S)
        BY <1>4, <3>3 DEF CommitMove
      <4> QED BY <3>1, <4>1 DEF WithChildIds, Row
    <3> QED BY <3>2, <3>3
  <2> QED BY <2>1, <2>3 DEF SeededUnitsMarked
<1> QED BY <1>1, <1>2, <1>3, <1>4
        DEF CreateNext, UpdateNext, FailOperation, BeginCreate, BeginUpdate,
            ReadOldParent, ReadNewParent, ReadChild, ReadDescendant, TableUnchanged

LEMMA HandlersKeepSound == Sound /\ [Next]_vars => Sound'
<1> SUFFICES ASSUME Sound, [Next]_vars PROVE Sound'
  OBVIOUS
<1>1. IInv' /\ AttachmentsSound'
  BY StepKeepsInvariant, StepKeepsRoutes DEF Sound
<1>2. SeededUnitsMarked'
  <2>1. CASE UNCHANGED vars
    BY <2>1 DEF Sound, SeededUnitsMarked, vars
  <2>2. CASE Next
    BY <2>2, HandlersKeepMarkers DEF Next, Sound
  <2> QED BY <2>1, <2>2
<1> QED BY <1>1, <1>2 DEF Sound

\* Tenants may change under the directory.
LEMMA TenantsKeepSound ==
  ASSUME Sound, UNCHANGED <<units, attachments, markers, pending>>,
         tenants' \in [TenantIds -> TenantStates]
  PROVE  Sound'
<1>1. TypeOK' /\ (\A a \in Actors : OperationOK(pending[a]))'
  BY DEF Sound, IInv, TypeOK
<1>2. VersionIdentifiesRow'
  BY DEF Sound, IInv, VersionIdentifiesRow
<1>3. Forest' /\ Predecessors'
  BY DEF Sound, IInv, Forest, DerivesFromParent, ListsItsChildren, Predecessors,
         NamesPredecessors
<1>4. GenuinePredecessors'
  BY DEF Sound, IInv, GenuinePredecessors, ClosedUnderChildren
<1>5. AttachmentsSound' /\ SeededUnitsMarked'
  BY DEF Sound, AttachmentsSound, SeededUnitsMarked
<1> QED BY <1>1, <1>2, <1>3, <1>4, <1>5 DEF Sound, IInv

-----------------------------------------------------------------------------
(* Reading and passing over.                                               *)

\* A step of the cleanup that leaves the table alone keeps what is sound.
LEMMA TableKeepsSound ==
  ASSUME Sound, UNCHANGED vars
  PROVE  Sound'
BY HandlersKeepSound

\* The same table, as the parts of the invariant see it.
LEMMA SameTable ==
  ASSUME UNCHANGED vars
  PROVE  /\ units' = units /\ attachments' = attachments /\ markers' = markers
         /\ tenants' = tenants /\ pending' = pending
         /\ \A u : DepthOf(u)' = DepthOf(u)
         /\ \A u, K : KeysHeldBy(u, K)' = KeysHeldBy(u, K)
BY DEF vars, DepthOf, KeysHeldBy

LEMMA BeginCleanupKeeps ==
  ASSUME QInv, BeginCleanup, \A a \in Actors : pending[a] = Idle
  PROVE  QInv'
<1>1. UNCHANGED vars /\ UNCHANGED tenantMarkers /\ Sound'
  BY TableKeepsSound DEF BeginCleanup, QInv
<1>2. markers \subseteq OrgUnitIds /\ tenantMarkers \subseteq TenantIds
  BY DEF QInv, Sound, IInv, TypeOK
<1>3. PICK step \in {"visit", "depths"} :
        /\ step = IF markers = {} THEN "visit" ELSE "depths"
        /\ cleanup' = [NoCleanup EXCEPT !.step = step, !.todo = markers,
                                        !.tenantTodo = tenantMarkers]
  BY DEF BeginCleanup
<1>4. /\ cleanup' \in Cleanups /\ cleanup'.step = step /\ cleanup'.todo = markers
      /\ cleanup'.id = NoId /\ DOMAIN cleanup'.rows = {} /\ DOMAIN cleanup'.depth = {}
  BY <1>2, <1>3, NoCleanupOK DEF Cleanups, CleanupSteps
<1>5. Open' = markers' /\ cleanup'.id \notin cleanup'.todo
  BY <1>1, <1>2, <1>4, OrgUnitsAssumption DEF Open, vars
<1>6. DepthsRead' /\ Visiting' /\ PassedOver'
  BY <1>1, <1>3, <1>4, <1>5 DEF DepthsRead, Visiting, PassedOver, vars
<1>7. Busy'
  BY <1>1, <1>4, <1>5, <1>6 DEF Busy, vars
<1> QED BY <1>1, <1>2, <1>3, <1>4, <1>7 DEF QInv

LEMMA ReadDepthKeeps ==
  ASSUME QInv, NEW u \in OrgUnitIds, ReadDepth(u)
  PROVE  QInv'
<1> DEFINE S == DOMAIN cleanup.depth \cup {u}
<1>1. UNCHANGED vars /\ UNCHANGED tenantMarkers /\ Sound'
  BY TableKeepsSound DEF ReadDepth, QInv
<1>2. Busy /\ cleanup \in Cleanups /\ cleanup.step = "depths" /\ u \in cleanup.todo
  BY DEF ReadDepth, QInv
<1>3. u \in DOMAIN units /\ DepthOf(u) \in Nat
  <2>1. u \in markers
    BY <1>2 DEF Busy, Open
  <2>2. u \in DOMAIN units
    BY <2>1 DEF QInv, Sound, SeededUnitsMarked
  <2>3. units[u] \in Row
    BY <2>2 DEF QInv, Sound, IInv, TypeOK, IsRowMap
  <2>4. units[u].ancestorOrgUnitIds \in Seq(OrgUnitIds)
    BY <2>3 DEF Row
  <2> QED BY <2>2, <2>4 DEF DepthOf
<1> DEFINE depth == [i \in S |-> IF i = u THEN DepthOf(u) ELSE cleanup.depth[i]]
           step == IF DOMAIN depth = cleanup.todo THEN "visit" ELSE "depths"
<1>4. cleanup' = [cleanup EXCEPT !.depth = depth, !.step = step]
  BY DEF ReadDepth, DepthOf
<1>5. DOMAIN cleanup.depth \subseteq OrgUnitIds
      /\ \A i \in DOMAIN cleanup.depth : cleanup.depth[i] \in Nat
  BY <1>2 DEF Cleanups, Depths
<1>6. depth \in [S -> Nat] /\ S \subseteq OrgUnitIds
  BY <1>3, <1>5
<1>7. depth \in Depths
  <2> HIDE DEF S, depth
  <2> QED BY <1>6 DEF Depths
<1> HIDE DEF depth
<1>8. /\ cleanup' \in Cleanups /\ cleanup'.step = step /\ cleanup'.depth = depth
      /\ cleanup'.todo = cleanup.todo /\ cleanup'.id = cleanup.id
      /\ cleanup'.rows = cleanup.rows
  BY <1>2, <1>4, <1>7 DEF Cleanups, CleanupSteps
<1>9. Open' = Open
  BY <1>8 DEF Open
<1>10. DepthsRead'
  <2>1. /\ cleanup'.todo = markers' /\ units' = units
        /\ \A i \in cleanup.todo \cap DOMAIN cleanup.depth : cleanup.depth[i] = DepthOf(i)
    BY <1>1, <1>2, <1>8 DEF Busy, DepthsRead, vars
  <2>2. cleanup'.step # "depths" => cleanup'.todo = DOMAIN cleanup'.depth
    BY <1>8
  <2>3. \A i \in cleanup'.todo \cap DOMAIN cleanup'.depth : cleanup'.depth[i] = DepthOf(i)
    BY <1>8, <2>1 DEF depth
  <2>4. \A i : DepthOf(i)' = DepthOf(i)
    BY <1>1, SameTable
  <2> QED BY <2>1, <2>2, <2>3, <2>4 DEF DepthsRead
<1>11. Visiting'
  BY <1>2, <1>8 DEF Busy, Visiting
<1>12. PassedOver' /\ Open' \subseteq markers' /\ cleanup'.id \notin cleanup'.todo
  BY <1>1, <1>2, <1>8, <1>9 DEF Busy, PassedOver, DepthOf, KeysHeldBy, vars
<1>13. Busy'
  BY <1>1, <1>2, <1>10, <1>11, <1>12 DEF Busy, vars
<1> QED BY <1>1, <1>8, <1>13 DEF QInv

\* Leaving an Org Unit for good: it has children, or one of its routes is another's.
LEMMA PreserveUnitKeeps ==
  ASSUME QInv, NEW u \in OrgUnitIds, PreserveUnit(u)
  PROVE  QInv'
<1>1. UNCHANGED vars /\ UNCHANGED tenantMarkers /\ Sound'
  BY TableKeepsSound DEF PreserveUnit, QInv
<1>2. Busy /\ cleanup \in Cleanups /\ cleanup.step = "visit" /\ Deepest(u)
  BY DEF PreserveUnit, QInv
<1>3. /\ cleanup' = [cleanup EXCEPT !.todo = @ \ {u}] /\ u \in cleanup.todo
      /\ cleanup.id = NoId /\ DOMAIN cleanup.rows = {} /\ cleanup.todo \subseteq markers
  BY <1>2 DEF PreserveUnit, Deepest, Busy, Visiting, Open
<1>4. /\ cleanup' \in Cleanups /\ cleanup'.step = "visit" /\ cleanup'.id = NoId
      /\ cleanup'.todo = cleanup.todo \ {u} /\ cleanup'.depth = cleanup.depth
      /\ DOMAIN cleanup'.rows = {}
  BY <1>2, <1>3 DEF Cleanups
<1>5. Open = cleanup.todo /\ Open' = cleanup.todo \ {u} /\ NoId \notin OrgUnitIds
  BY <1>3, <1>4, OrgUnitsAssumption DEF Open
<1>6. units[u].childIds # {}
  <2>1. units[u].seeded
    BY <1>3 DEF QInv, Sound, SeededUnitsMarked
  <2> QED BY <2>1 DEF PreserveUnit
<1>7. \A c \in cleanup.todo : DepthOf(c) <= DepthOf(u)
  BY <1>2, <1>3 DEF Deepest, Busy, DepthsRead
<1>8. DepthsRead' /\ Visiting'
  BY <1>1, <1>2, <1>4 DEF Busy, DepthsRead, Visiting, DepthOf, vars
<1>9. PassedOver'
  <2> SUFFICES ASSUME NEW v \in markers \ Open'
               PROVE  /\ \A c \in Open' : DepthOf(c) <= DepthOf(v)
                      /\ units[v].childIds # {} \/ ~KeysHeldBy(v, KeysOf(units[v]))
    BY <1>1 DEF PassedOver, DepthOf, KeysHeldBy, vars
  <2>1. CASE v = u
    BY <1>5, <1>6, <1>7, <2>1
  <2>2. CASE v # u
    BY <1>2, <1>5, <2>2 DEF Busy, PassedOver
  <2> QED BY <2>1, <2>2
<1>10. Busy'
  BY <1>1, <1>2, <1>3, <1>4, <1>5, <1>8, <1>9 DEF Busy, Cleanups, vars
<1> QED BY <1>1, <1>4, <1>10 DEF QInv

\* The row of the Org Unit to be deleted.
LEMMA VisitUnitKeeps ==
  ASSUME QInv, NEW u \in OrgUnitIds, VisitUnit(u)
  PROVE  QInv'
<1> DEFINE step == IF units[u].parentId = NoId THEN "delete" ELSE "parent"
           row == [i \in {u} |-> units[i]]
<1>1. UNCHANGED vars /\ UNCHANGED tenantMarkers /\ Sound'
  BY TableKeepsSound DEF VisitUnit, QInv
<1>2. Busy /\ cleanup \in Cleanups /\ cleanup.step = "visit" /\ Deepest(u)
      /\ units[u].childIds = {}
  BY DEF VisitUnit, QInv
<1>3. /\ u \in cleanup.todo /\ cleanup.id = NoId /\ DOMAIN cleanup.rows = {}
      /\ cleanup.todo \subseteq markers /\ u \in DOMAIN units /\ units[u] \in Row
  <2>1. /\ u \in cleanup.todo /\ cleanup.id = NoId /\ DOMAIN cleanup.rows = {}
        /\ cleanup.todo \subseteq markers
    BY <1>2 DEF Deepest, Busy, Visiting, Open
  <2>2. u \in DOMAIN units
    BY <2>1 DEF QInv, Sound, SeededUnitsMarked
  <2> QED BY <2>1, <2>2 DEF QInv, Sound, IInv, TypeOK, IsRowMap
<1>4. row \in RowMaps
  <2>1. {u} \in SUBSET OrgUnitIds /\ row \in [{u} -> Row]
    BY <1>3
  <2> HIDE DEF row
  <2> QED BY <2>1 DEF RowMaps
<1>5. WithRow(cleanup, u) = [cleanup EXCEPT !.rows = row]
  <2>1. [i \in DOMAIN cleanup.rows \cup {u} |->
           IF i = u THEN units[u] ELSE cleanup.rows[i]] = row
    BY <1>3
  <2> QED BY <2>1 DEF WithRow
<1>6. DOMAIN row = {u} /\ row[u] = units[u]
  OBVIOUS
<1> HIDE DEF row
<1>7. cleanup' = [cleanup EXCEPT !.rows = row, !.todo = cleanup.todo \ {u}, !.id = u,
                                 !.step = step]
  BY <1>2, <1>5 DEF VisitUnit, Cleanups
<1>8. /\ cleanup' \in Cleanups /\ cleanup'.step = step /\ cleanup'.id = u
      /\ cleanup'.todo = cleanup.todo \ {u} /\ cleanup'.depth = cleanup.depth
      /\ cleanup'.rows = row
  BY <1>2, <1>4, <1>7 DEF Cleanups, CleanupSteps
<1>9. Open' = Open /\ cleanup'.id \notin cleanup'.todo
  BY <1>3, <1>8, OrgUnitsAssumption DEF Open
<1>10. \A c \in cleanup.todo : DepthOf(c) <= DepthOf(u)
  BY <1>2, <1>3 DEF Deepest, Busy, DepthsRead
<1>11. DepthsRead'
  BY <1>1, <1>2, <1>8 DEF Busy, DepthsRead, DepthOf, vars
<1>12. Visiting'
  <2>1. u # NoId /\ units' = units
    BY <1>1, OrgUnitsAssumption DEF vars
  <2>2. step \in {"delete", "parent"} /\ (step = "parent" <=> units[u].parentId # NoId)
    OBVIOUS
  <2>3. {u} = IF step = "parent" THEN {u} ELSE {u, units[u].parentId} \ {NoId}
    BY <2>1, <2>2
  <2> HIDE DEF step
  <2> QED BY <1>2, <1>6, <1>8, <1>10, <2>1, <2>2, <2>3 DEF Visiting, DepthOf
<1>13. PassedOver'
  BY <1>1, <1>2, <1>9 DEF Busy, PassedOver, DepthOf, KeysHeldBy, vars
<1>14. Busy'
  BY <1>1, <1>2, <1>9, <1>11, <1>12, <1>13 DEF Busy, vars
<1>15. cleanup'.step # "idle"
  BY <1>8
<1> QED BY <1>1, <1>8, <1>14, <1>15 DEF QInv

\* The parent of the visited Org Unit lists it, and is read.
LEMMA ReadParentKeeps ==
  ASSUME QInv, ReadParentOfVisited
  PROVE  QInv'
<1> DEFINE u == cleanup.id
           p == units[u].parentId
           rows == [i \in {u, p} |-> units[i]]
<1>1. UNCHANGED vars /\ UNCHANGED tenantMarkers /\ Sound'
  BY TableKeepsSound DEF ReadParentOfVisited, QInv
<1>2. Busy /\ cleanup \in Cleanups /\ cleanup.step = "parent"
  BY DEF ReadParentOfVisited, QInv
<1>3. /\ u # NoId /\ u \in markers /\ DOMAIN cleanup.rows = {u}
      /\ cleanup.rows[u] = units[u] /\ p # NoId
  BY <1>2 DEF Busy, Visiting, Open
<1>4. u \in DOMAIN units /\ units[u] \in Row
  <2>1. u \in DOMAIN units
    BY <1>3 DEF QInv, Sound, SeededUnitsMarked
  <2> QED BY <2>1 DEF QInv, Sound, IInv, TypeOK, IsRowMap
<1>5. p \in DOMAIN units /\ u \in units[p].childIds /\ units[p] \in Row
      /\ p \in OrgUnitIds /\ u \in OrgUnitIds
  <2>1. p \in DOMAIN units /\ u \in units[p].childIds
    BY <1>3, <1>4 DEF QInv, Sound, IInv, Forest, DerivesFromParent
  <2> QED BY <1>4, <2>1 DEF QInv, Sound, IInv, TypeOK, IsRowMap
<1>6. ListedBy(cleanup.rows[u].parentId)
  BY <1>3, <1>5 DEF ListedBy
<1>7. rows \in RowMaps
  <2>1. {u, p} \in SUBSET OrgUnitIds /\ rows \in [{u, p} -> Row]
    BY <1>4, <1>5
  <2> HIDE DEF rows
  <2> QED BY <2>1 DEF RowMaps
<1>8. WithRow(cleanup, p) = [cleanup EXCEPT !.rows = rows]
  <2>1. [i \in DOMAIN cleanup.rows \cup {p} |->
           IF i = p THEN units[p] ELSE cleanup.rows[i]] = rows
    BY <1>3
  <2> QED BY <2>1 DEF WithRow
<1>9. DOMAIN rows = {u, p} /\ \A i \in {u, p} : rows[i] = units[i]
  OBVIOUS
<1> HIDE DEF rows
<1>10. cleanup' = [cleanup EXCEPT !.rows = rows, !.step = "delete"]
  BY <1>2, <1>3, <1>6, <1>8 DEF ReadParentOfVisited, Cleanups
<1>11. /\ cleanup' \in Cleanups /\ cleanup'.step = "delete" /\ cleanup'.id = u
       /\ cleanup'.todo = cleanup.todo /\ cleanup'.depth = cleanup.depth
       /\ cleanup'.rows = rows
  BY <1>2, <1>7, <1>10 DEF Cleanups, CleanupSteps
<1>12. Open' = Open /\ cleanup'.id \notin cleanup'.todo
  BY <1>2, <1>11 DEF Open, Busy
<1>13. DepthsRead'
  BY <1>1, <1>2, <1>11 DEF Busy, DepthsRead, DepthOf, vars
<1>14. Visiting'
  <2>1. /\ units' = units /\ {u, p} = {u, p} \ {NoId}
        /\ units[u].childIds = {} /\ \A c \in cleanup.todo : DepthOf(c) <= DepthOf(u)
    BY <1>1, <1>2, <1>3 DEF Busy, Visiting, vars
  <2> QED BY <1>3, <1>9, <1>11, <2>1 DEF Visiting, DepthOf
<1>15. PassedOver'
  BY <1>1, <1>2, <1>12 DEF Busy, PassedOver, DepthOf, KeysHeldBy, vars
<1>16. Busy'
  BY <1>1, <1>2, <1>12, <1>13, <1>14, <1>15 DEF Busy, vars
<1> QED BY <1>1, <1>11, <1>16 DEF QInv

-----------------------------------------------------------------------------
(* Deleting.                                                               *)

\* What the cleanup knows when it is about to delete: a seeded leaf, whose parent row
\* is the one that was read.
LEMMA AboutToDelete ==
  ASSUME QInv, cleanup.step = "delete"
  PROVE  LET u == cleanup.id IN
         /\ Busy /\ cleanup \in Cleanups /\ u # NoId
         /\ u \in markers /\ u \notin cleanup.todo
         /\ u \in DOMAIN units /\ units[u] \in Row /\ units[u].seeded
         /\ units[u].childIds = {} /\ cleanup.rows[u] = units[u]
         /\ ListingParents = {units[u].parentId} \ {NoId, u}
         /\ \A i \in ListingParents : i \in DOMAIN cleanup.rows /\ cleanup.rows[i] = units[i]
         /\ \A c \in cleanup.todo : DepthOf(c) <= DepthOf(u)
<1> DEFINE u == cleanup.id
<1>1. Busy /\ cleanup \in Cleanups
  BY DEF QInv
<1>2. /\ u # NoId /\ u \in markers /\ u \notin cleanup.todo
      /\ units[u].childIds = {} /\ \A c \in cleanup.todo : DepthOf(c) <= DepthOf(u)
      /\ DOMAIN cleanup.rows = {u, units[u].parentId} \ {NoId}
      /\ \A i \in DOMAIN cleanup.rows : cleanup.rows[i] = units[i]
  BY <1>1 DEF Busy, Visiting, Open
<1>3. u \in DOMAIN units /\ units[u].seeded
  BY <1>2 DEF QInv, Sound, SeededUnitsMarked
<1>4. units[u] \in Row
  BY <1>3 DEF QInv, Sound, IInv, TypeOK, IsRowMap
<1> QED BY <1>1, <1>2, <1>3, <1>4 DEF ListingParents

\* A refused transaction: the row and its parent's are as they were read, so a route
\* is another Org Unit's.
LEMMA DeleteCancelledKeeps ==
  ASSUME QInv, DeleteUnitCancelled, ~DeleteConditions
  PROVE  QInv'
<1> DEFINE u == cleanup.id
<1>1. UNCHANGED vars /\ UNCHANGED tenantMarkers /\ Sound' /\ cleanup.step = "delete"
  BY TableKeepsSound DEF DeleteUnitCancelled, QInv
<1>2. Busy /\ cleanup \in Cleanups /\ u # NoId /\ u \notin cleanup.todo
      /\ \A c \in cleanup.todo : DepthOf(c) <= DepthOf(u)
  BY <1>1, AboutToDelete
<1>3. ~KeysHeldBy(u, KeysOf(units[u]))
  <2>1. \A i \in ListingParents : Unchanged(cleanup, i)
    <3> SUFFICES ASSUME NEW i \in ListingParents PROVE Unchanged(cleanup, i)
      OBVIOUS
    <3>1. i = units[u].parentId /\ i # NoId /\ cleanup.rows[i] = units[i]
      BY <1>1, AboutToDelete
    <3>2. i \in DOMAIN units
      BY <1>1, <3>1, AboutToDelete DEF QInv, Sound, IInv, Forest, DerivesFromParent
    <3> QED BY <3>1, <3>2 DEF Unchanged
  <2> QED BY <1>1, <2>1, AboutToDelete DEF DeleteConditions
<1>4. cleanup' = [cleanup EXCEPT !.step = "visit", !.id = NoId, !.rows = NoRows]
  BY DEF DeleteUnitCancelled, NextVisit
<1>5. NoRows \in RowMaps /\ DOMAIN NoRows = {}
  BY NoCleanupOK DEF NoCleanup, Cleanups
<1>6. /\ cleanup' \in Cleanups /\ cleanup'.step = "visit" /\ cleanup'.id = NoId
      /\ cleanup'.todo = cleanup.todo /\ cleanup'.depth = cleanup.depth
      /\ DOMAIN cleanup'.rows = {}
  BY <1>2, <1>4, <1>5 DEF Cleanups, CleanupSteps
<1>7. Open = cleanup.todo \cup {u} /\ Open' = cleanup.todo
  BY <1>2, <1>6 DEF Open
<1>8. cleanup'.id \notin cleanup'.todo
  BY <1>2, <1>6, OrgUnitsAssumption DEF Cleanups
<1>9. DepthsRead' /\ Visiting'
  BY <1>1, <1>2, <1>6 DEF Busy, DepthsRead, Visiting, DepthOf, vars
<1>10. PassedOver'
  <2> SUFFICES ASSUME NEW v \in markers \ Open'
               PROVE  /\ \A c \in Open' : DepthOf(c) <= DepthOf(v)
                      /\ units[v].childIds # {} \/ ~KeysHeldBy(v, KeysOf(units[v]))
    BY <1>1 DEF PassedOver, DepthOf, KeysHeldBy, vars
  <2>1. CASE v = u
    BY <1>2, <1>3, <1>7, <2>1
  <2>2. CASE v # u
    BY <1>2, <1>7, <2>2 DEF Busy, PassedOver
  <2> QED BY <2>1, <2>2
<1>11. Busy'
  BY <1>1, <1>2, <1>7, <1>8, <1>9, <1>10 DEF Busy, vars
<1> QED BY <1>1, <1>6, <1>11 DEF QInv

\* The rows that a delete leaves are those of before, but for the child list and the
\* version of the parent.
LEMMA RowsLeft ==
  ASSUME QInv, DeleteUnit
  PROVE  LET u == cleanup.id IN
         /\ DOMAIN units' = DOMAIN units \ {u} /\ IsRowMap(units')
         /\ \A i \in DOMAIN units' :
              /\ units'[i].path = units[i].path /\ units'[i].slug = units[i].slug
              /\ units'[i].parentId = units[i].parentId
              /\ units'[i].ancestorOrgUnitIds = units[i].ancestorOrgUnitIds
              /\ units'[i].tenantIds = units[i].tenantIds
              /\ units'[i].status = units[i].status
              /\ units'[i].seeded = units[i].seeded
              /\ units'[i].childIds = units[i].childIds \ {u}
<1> DEFINE u == cleanup.id
<1>1. /\ cleanup.step = "delete"
      /\ units' = [i \in DOMAIN units \ {u} |->
                     IF i \in ListingParents
                     THEN [units[i] EXCEPT !.childIds = @ \ {u}, !.version = @ + 1]
                     ELSE units[i]]
  BY DEF DeleteUnit
<1>2. IsRowMap(units) /\ Forest
  BY DEF QInv, Sound, IInv, TypeOK
<1>3. ASSUME NEW i \in DOMAIN units \ {u}
      PROVE  /\ units'[i] \in Row
             /\ units'[i].path = units[i].path /\ units'[i].slug = units[i].slug
             /\ units'[i].parentId = units[i].parentId
             /\ units'[i].ancestorOrgUnitIds = units[i].ancestorOrgUnitIds
             /\ units'[i].tenantIds = units[i].tenantIds
             /\ units'[i].status = units[i].status
             /\ units'[i].seeded = units[i].seeded
             /\ units'[i].childIds = units[i].childIds \ {u}
  <2>1. units[i] \in Row
    BY <1>2 DEF IsRowMap
  <2>2. CASE i \in ListingParents
    <3>1. units'[i] = [units[i] EXCEPT !.childIds = @ \ {u}, !.version = @ + 1]
      BY <1>1, <2>2
    <3>2. PICK row \in Row : row = units[i]
      BY <2>1
    <3>3. row.childIds \ {u} \in SUBSET OrgUnitIds /\ row.version + 1 \in Nat
      BY DEF Row
    <3>4. PICK children \in SUBSET OrgUnitIds, version \in Nat :
            /\ children = row.childIds \ {u}
            /\ units'[i] = [row EXCEPT !.childIds = children, !.version = version]
      BY <3>1, <3>2, <3>3
    <3>5. /\ units'[i] \in Row /\ units'[i].childIds = children
          /\ units'[i].path = row.path /\ units'[i].slug = row.slug
          /\ units'[i].parentId = row.parentId
          /\ units'[i].ancestorOrgUnitIds = row.ancestorOrgUnitIds
          /\ units'[i].tenantIds = row.tenantIds
          /\ units'[i].status = row.status /\ units'[i].seeded = row.seeded
      BY <3>4 DEF Row
    <3> QED BY <3>2, <3>4, <3>5
  <2>3. CASE i \notin ListingParents
    <3>1. units'[i] = units[i]
      BY <1>1, <2>3
    <3>2. u \notin units[i].childIds
      <4>1. u \in units[i].childIds => units[u].parentId = i
        BY <1>2 DEF Forest, ListsItsChildren
      <4>2. ListingParents = {units[u].parentId} \ {NoId, u}
        BY <1>1, AboutToDelete
      <4>3. i # NoId
        BY <1>2, OrgUnitsAssumption DEF IsRowMap
      <4> QED BY <2>3, <4>1, <4>2, <4>3
    <3> QED BY <2>1, <3>1, <3>2
  <2> QED BY <2>2, <2>3
<1>4. DOMAIN units' = DOMAIN units \ {u}
  BY <1>1
<1>5. units' \in [DOMAIN units' -> Row]
  <2>1. units' = [i \in DOMAIN units' |-> units'[i]]
    BY <1>1
  <2> QED BY <1>3, <1>4, <2>1
<1>6. IsRowMap(units')
  BY <1>2, <1>4, <1>5 DEF IsRowMap
<1> QED BY <1>3, <1>4, <1>6

\* A leaf can be taken out of the forest: nobody is below it.
LEMMA DeleteKeepsForest ==
  ASSUME QInv, DeleteUnit
  PROVE  Forest' /\ Predecessors' /\ GenuinePredecessors'
<1> DEFINE u == cleanup.id
<1>1. /\ u \in DOMAIN units /\ units[u].childIds = {}
      /\ Forest /\ Predecessors /\ GenuinePredecessors
  BY AboutToDelete DEF DeleteUnit, QInv, Sound, IInv
<1>2. /\ DOMAIN units' = DOMAIN units \ {u}
      /\ \A i \in DOMAIN units' :
           /\ units'[i].path = units[i].path /\ units'[i].slug = units[i].slug
           /\ units'[i].parentId = units[i].parentId
           /\ units'[i].ancestorOrgUnitIds = units[i].ancestorOrgUnitIds
           /\ units'[i].childIds = units[i].childIds \ {u}
  BY RowsLeft
<1>3. u # NoId
  BY AboutToDelete DEF DeleteUnit
<1>4. \A x \in DOMAIN units : units[x].parentId # u
  BY <1>1, <1>3 DEF Forest, DerivesFromParent
<1>5. ASSUME NEW x \in DOMAIN units, NEW k \in 1..Len(units[x].ancestorOrgUnitIds), x # u
      PROVE  units[x].ancestorOrgUnitIds[k] # u
  <2>1. {u} \in SUBSET DOMAIN units /\ ClosedUnderChildren({u})
    BY <1>1, <1>4 DEF ClosedUnderChildren
  <2> QED BY <1>1, <1>5, <2>1 DEF GenuinePredecessors
<1> HIDE DEF u
<1>6. Forest'
  <2> SUFFICES ASSUME NEW x \in DOMAIN units'
               PROVE  (DerivesFromParent(x))' /\ (ListsItsChildren(x))'
    BY DEF Forest
  <2>1. x \in DOMAIN units /\ x # u /\ DerivesFromParent(x) /\ ListsItsChildren(x)
    BY <1>1, <1>2 DEF Forest
  <2>2. (ListsItsChildren(x))'
    <3> SUFFICES ASSUME NEW c \in units'[x].childIds
                 PROVE  c \in DOMAIN units' /\ units'[c].parentId = x
      BY DEF ListsItsChildren
    <3>1. c \in units[x].childIds /\ c # u
      BY <1>2
    <3>2. c \in DOMAIN units /\ units[c].parentId = x
      BY <2>1, <3>1 DEF ListsItsChildren
    <3> QED BY <1>2, <3>1, <3>2
  <2>3. CASE units[x].parentId = NoId
    <3>1. units[x].path = <<units[x].slug>> /\ units[x].ancestorOrgUnitIds = <<>>
      BY <2>1, <2>3 DEF DerivesFromParent
    <3>2. /\ units'[x].parentId = NoId /\ units'[x].path = <<units'[x].slug>>
          /\ units'[x].ancestorOrgUnitIds = <<>>
      BY <1>2, <2>3, <3>1
    <3> QED BY <2>2, <3>2 DEF DerivesFromParent
  <2>4. CASE units[x].parentId # NoId
    <3> DEFINE p == units[x].parentId
    <3>1. /\ p \in DOMAIN units /\ x \in units[p].childIds
          /\ units[x].path = Append(units[p].path, units[x].slug)
          /\ units[x].ancestorOrgUnitIds = Append(units[p].ancestorOrgUnitIds, p)
      BY <2>1, <2>4 DEF DerivesFromParent
    <3>2. p \in DOMAIN units' /\ x \in units'[p].childIds /\ units'[x].parentId = p
      BY <1>2, <1>4, <2>1, <3>1
    <3>3. /\ units'[p].path = units[p].path
          /\ units'[p].ancestorOrgUnitIds = units[p].ancestorOrgUnitIds
          /\ units'[x].path = units[x].path /\ units'[x].slug = units[x].slug
          /\ units'[x].ancestorOrgUnitIds = units[x].ancestorOrgUnitIds
      BY <1>2, <3>2
    <3> HIDE DEF p
    <3>4. (DerivesFromParent(x))'
      BY <2>4, <3>1, <3>2, <3>3 DEF DerivesFromParent, p
    <3> QED BY <2>2, <3>4
  <2> QED BY <2>2, <2>3, <2>4
<1>7. Predecessors'
  <2> SUFFICES ASSUME NEW x \in DOMAIN units' PROVE (NamesPredecessors(x))'
    BY DEF Predecessors
  <2> DEFINE ids == units[x].ancestorOrgUnitIds
  <2>1. x \in DOMAIN units /\ x # u
    BY <1>2
  <2>2. /\ Len(units[x].path) = Len(ids) + 1
        /\ \A k \in 1..Len(ids) :
             /\ ids[k] \in DOMAIN units
             /\ Len(units[ids[k]].ancestorOrgUnitIds) = k - 1
             /\ \A j \in 1..(k - 1) : units[ids[k]].ancestorOrgUnitIds[j] = ids[j]
    BY <1>1, <2>1 DEF Predecessors, NamesPredecessors
  <2>3. \A k \in 1..Len(ids) :
          /\ ids[k] \in DOMAIN units'
          /\ units'[ids[k]].ancestorOrgUnitIds = units[ids[k]].ancestorOrgUnitIds
    BY <1>2, <1>5, <2>1, <2>2
  <2>4. units'[x].path = units[x].path /\ units'[x].ancestorOrgUnitIds = ids
    BY <1>2
  <2> HIDE DEF ids
  <2>5. \A k \in 1..Len(ids) :
          /\ ids[k] \in DOMAIN units'
          /\ Len(units'[ids[k]].ancestorOrgUnitIds) = k - 1
          /\ \A j \in 1..(k - 1) : units'[ids[k]].ancestorOrgUnitIds[j] = ids[j]
    BY <2>2, <2>3
  <2> QED BY <2>2, <2>4, <2>5 DEF NamesPredecessors
<1>8. GenuinePredecessors'
  <2> SUFFICES ASSUME NEW S \in SUBSET DOMAIN units', (ClosedUnderChildren(S))',
                      NEW x \in DOMAIN units',
                      NEW k \in 1..Len(units'[x].ancestorOrgUnitIds),
                      units'[x].ancestorOrgUnitIds[k] \in S
               PROVE  x \in S
    BY DEF GenuinePredecessors
  <2>1. S \cup {u} \in SUBSET DOMAIN units
    BY <1>1, <1>2
  <2>2. ClosedUnderChildren(S \cup {u})
    <3>1. ASSUME NEW y \in DOMAIN units, units[y].parentId \in S \cup {u}
          PROVE  y \in S \cup {u}
      <4>1. units[y].parentId \in S
        BY <1>4, <3>1
      <4>2. CASE y # u
        <5>1. y \in DOMAIN units' /\ units'[y].parentId \in S
          BY <1>2, <4>1, <4>2
        <5> QED BY <5>1 DEF ClosedUnderChildren
      <4> QED BY <4>2
    <3> QED BY <3>1 DEF ClosedUnderChildren
  <2>3. x \in DOMAIN units /\ x # u
        /\ units'[x].ancestorOrgUnitIds = units[x].ancestorOrgUnitIds
    BY <1>2
  <2>4. x \in S \cup {u}
    BY <1>1, <2>1, <2>2, <2>3 DEF GenuinePredecessors
  <2> QED BY <2>3, <2>4
<1> QED BY <1>6, <1>7, <1>8

\* The routes of a deleted Org Unit go with it, and no other does.
LEMMA DeleteKeepsRoutes ==
  ASSUME QInv, DeleteUnit
  PROVE  /\ attachments' \subseteq attachments /\ AttachmentsSound'
         /\ \A att \in attachments \ attachments' : att.orgUnitId = cleanup.id
<1> DEFINE u == cleanup.id
<1>1. /\ attachments' = {att \in attachments : KeyOf(att) \notin KeysOf(units[u])}
      /\ KeysHeldBy(u, KeysOf(units[u])) /\ AttachmentsSound
  BY AboutToDelete DEF DeleteUnit, DeleteConditions, QInv, Sound
<1>2. /\ DOMAIN units' = DOMAIN units \ {u}
      /\ \A i \in DOMAIN units' :
           /\ units'[i].path = units[i].path
           /\ units'[i].parentId = units[i].parentId
           /\ units'[i].ancestorOrgUnitIds = units[i].ancestorOrgUnitIds
           /\ units'[i].tenantIds = units[i].tenantIds
           /\ units'[i].status = units[i].status
  BY RowsLeft
<1> HIDE DEF u
<1>3. ASSUME NEW att \in attachments \ attachments' PROVE att.orgUnitId = u
  <2>1. KeyOf(att) \in KeysOf(units[u])
    BY <1>1
  <2>2. PICK own \in attachments : KeyOf(own) = KeyOf(att) /\ own.orgUnitId = u
    BY <1>1, <2>1 DEF KeysHeldBy
  <2>3. own = att
    BY <1>1, <2>2 DEF AttachmentsSound
  <2> QED BY <2>2, <2>3
<1>4. ASSUME NEW att \in attachments'
      PROVE  /\ att.orgUnitId \in DOMAIN units'
             /\ att.tenantId \in units'[att.orgUnitId].tenantIds
             /\ att = AttachmentOf(att.orgUnitId, units'[att.orgUnitId], att.tenantId)
  <2>1. att \in attachments /\ KeyOf(att) \notin KeysOf(units[u])
    BY <1>1
  <2>2. /\ att.orgUnitId \in DOMAIN units
        /\ att.tenantId \in units[att.orgUnitId].tenantIds
        /\ att = AttachmentOf(att.orgUnitId, units[att.orgUnitId], att.tenantId)
        /\ KeyOf(att) \in KeysOf(units[att.orgUnitId])
    BY <1>1, <2>1, SoundKey
  <2>3. att.orgUnitId \in DOMAIN units'
    BY <1>2, <2>1, <2>2
  <2>4. AttachmentOf(att.orgUnitId, units'[att.orgUnitId], att.tenantId)
          = AttachmentOf(att.orgUnitId, units[att.orgUnitId], att.tenantId)
    BY <1>2, <2>3 DEF AttachmentOf
  <2> QED BY <1>2, <2>2, <2>3, <2>4
<1>5. \A x, y \in attachments' : KeyOf(x) = KeyOf(y) => x = y
  BY <1>1 DEF AttachmentsSound
<1>6. AttachmentsSound'
  BY <1>4, <1>5 DEF AttachmentsSound, KeyOf
<1> QED BY <1>1, <1>3, <1>6 DEF u

LEMMA DeleteKeepsSound ==
  ASSUME QInv, DeleteUnit
  PROVE  Sound'
<1> DEFINE u == cleanup.id
<1>1. /\ IInv /\ SeededUnitsMarked /\ markers' = markers \ {u}
      /\ UNCHANGED <<tenants, pending>> /\ \A a \in Actors : pending[a] = Idle
  BY AboutToDelete DEF DeleteUnit, QInv, Sound, Busy
<1>2. /\ DOMAIN units' = DOMAIN units \ {u} /\ IsRowMap(units')
      /\ \A i \in DOMAIN units' : units'[i].seeded = units[i].seeded
  BY RowsLeft
<1>3. TypeOK'
  BY <1>1, <1>2, DeleteKeepsRoutes DEF IInv, TypeOK
<1>4. (\A a \in Actors : OperationOK(pending[a]))' /\ VersionIdentifiesRow'
  BY <1>1, IdleOK DEF VersionIdentifiesRow
<1>5. SeededUnitsMarked'
  BY <1>1, <1>2 DEF SeededUnitsMarked
<1> QED BY <1>3, <1>4, <1>5, DeleteKeepsForest, DeleteKeepsRoutes DEF Sound, IInv

\* A delete takes the last child away from no Org Unit that was passed over: a parent
\* is less deep than its child, and those passed over are not.
LEMMA DeleteUnitKeeps ==
  ASSUME QInv, DeleteUnit
  PROVE  QInv'
<1> DEFINE u == cleanup.id
<1>1. /\ Sound' /\ UNCHANGED <<pending, tenantMarkers>> /\ markers' = markers \ {u}
      /\ cleanup' = NextVisit(cleanup) /\ cleanup.step = "delete"
  BY DeleteKeepsSound DEF DeleteUnit
<1>2. /\ Busy /\ cleanup \in Cleanups /\ u # NoId /\ u \notin cleanup.todo
      /\ u \in DOMAIN units /\ units[u] \in Row
  BY <1>1, AboutToDelete
<1>3. /\ DOMAIN units' = DOMAIN units \ {u}
      /\ \A i \in DOMAIN units' :
           /\ units'[i].path = units[i].path
           /\ units'[i].ancestorOrgUnitIds = units[i].ancestorOrgUnitIds
           /\ units'[i].tenantIds = units[i].tenantIds
           /\ units'[i].childIds = units[i].childIds \ {u}
  BY RowsLeft
<1>4. cleanup' = [cleanup EXCEPT !.step = "visit", !.id = NoId, !.rows = NoRows]
  BY <1>1 DEF NextVisit
<1>5. NoRows \in RowMaps /\ DOMAIN NoRows = {}
  BY NoCleanupOK DEF NoCleanup, Cleanups
<1>6. /\ cleanup' \in Cleanups /\ cleanup'.step = "visit" /\ cleanup'.id = NoId
      /\ cleanup'.todo = cleanup.todo /\ cleanup'.depth = cleanup.depth
      /\ DOMAIN cleanup'.rows = {}
  BY <1>2, <1>4, <1>5 DEF Cleanups, CleanupSteps
<1>7. Open = cleanup.todo \cup {u} /\ Open' = cleanup.todo
  BY <1>2, <1>6 DEF Open
<1>8. cleanup'.id \notin cleanup'.todo /\ Open' \subseteq markers'
  BY <1>1, <1>2, <1>6, <1>7, OrgUnitsAssumption DEF Cleanups, Busy
<1>9. markers' \subseteq DOMAIN units'
  BY <1>1 DEF Sound, SeededUnitsMarked
<1>10. \A i \in DOMAIN units' : (DepthOf(i))' = DepthOf(i)
  BY <1>3 DEF DepthOf
<1>11. DepthsRead'
  <2>1. \A i \in cleanup.todo : i \in DOMAIN units'
    BY <1>7, <1>8, <1>9
  <2> QED BY <1>1, <1>2, <1>6, <1>10, <2>1 DEF Busy, DepthsRead
<1>12. Visiting'
  BY <1>6 DEF Visiting
<1>13. ASSUME NEW v \in markers' \ Open'
       PROVE  /\ \A c \in Open' : (DepthOf(c))' <= (DepthOf(v))'
              /\ units'[v].childIds # {} \/ ~(KeysHeldBy(v, KeysOf(units[v])))'
  <2>1. v \in markers \ Open /\ v # u /\ v \in DOMAIN units' /\ v \in DOMAIN units
    BY <1>1, <1>3, <1>7, <1>9
  <2>2. /\ \A c \in Open : DepthOf(c) <= DepthOf(v)
        /\ units[v].childIds # {} \/ ~KeysHeldBy(v, KeysOf(units[v]))
    BY <1>2, <2>1 DEF Busy, PassedOver
  <2>3. \A c \in Open' : (DepthOf(c))' <= (DepthOf(v))'
    BY <1>7, <1>8, <1>9, <1>10, <2>1, <2>2
  <2>4. CASE u \in units[v].childIds
    <3>1. units[u].parentId = v /\ v # NoId
      BY <1>2, <2>1, <2>4, OrgUnitsAssumption
      DEF QInv, Sound, IInv, TypeOK, IsRowMap, Forest, ListsItsChildren
    <3>2. units[u].ancestorOrgUnitIds = Append(units[v].ancestorOrgUnitIds, v)
      BY <1>2, <3>1 DEF QInv, Sound, IInv, Forest, DerivesFromParent
    <3>3. units[v].ancestorOrgUnitIds \in Seq(OrgUnitIds)
      BY <2>1 DEF QInv, Sound, IInv, TypeOK, IsRowMap, Row
    <3>4. DepthOf(u) = DepthOf(v) + 1 /\ DepthOf(v) \in Nat
      BY <3>2, <3>3 DEF DepthOf
    <3>5. DepthOf(u) <= DepthOf(v)
      BY <1>7, <2>2
    <3> QED BY <3>4, <3>5
  <2>5. CASE u \notin units[v].childIds
    <3>1. units'[v].childIds = units[v].childIds
      <4>1. units'[v].childIds = units[v].childIds \ {u}
        BY <1>3, <2>1
      <4>2. PICK children : children = units[v].childIds
        OBVIOUS
      <4>3. children \ {u} = children
        BY <2>5, <4>2
      <4> QED BY <4>1, <4>2, <4>3
    <3>2. (KeysHeldBy(v, KeysOf(units[v])))' => KeysHeldBy(v, KeysOf(units[v]))
      <4>1. (KeysOf(units[v]))' = KeysOf(units[v])
        BY <1>3, <2>1 DEF KeysOf
      <4>2. attachments' \subseteq attachments
        BY DeleteKeepsRoutes
      <4>3. PICK keys : keys = KeysOf(units[v])
        OBVIOUS
      <4>4. (KeysHeldBy(v, KeysOf(units[v])))' <=>
              \A k \in keys : \E att \in attachments' : KeyOf(att) = k /\ att.orgUnitId = v
        BY <4>1, <4>3 DEF KeysHeldBy
      <4>5. KeysHeldBy(v, KeysOf(units[v])) <=>
              \A k \in keys : \E att \in attachments : KeyOf(att) = k /\ att.orgUnitId = v
        BY <4>3 DEF KeysHeldBy
      <4> QED BY <4>2, <4>4, <4>5
    <3> QED BY <2>2, <2>3, <3>1, <3>2
  <2> QED BY <2>4, <2>5
<1>14. PassedOver'
  BY <1>13 DEF PassedOver
<1>15. Busy'
  BY <1>1, <1>2, <1>8, <1>11, <1>12, <1>14 DEF Busy
<1> QED BY <1>1, <1>6, <1>15 DEF QInv

LEMMA CleanupTenantKeeps ==
  ASSUME QInv, NEW t \in TenantIds, CleanupTenant(t) \/ CleanupTenantFails(t)
  PROVE  QInv'
<1>1. /\ UNCHANGED <<units, attachments, markers, pending>>
      /\ tenants' \in {tenants, [tenants EXCEPT ![t] = "absent"]}
      /\ tenantMarkers' \subseteq tenantMarkers
      /\ cleanup' = [cleanup EXCEPT !.tenantTodo = @ \ {t}]
      /\ cleanup.step = "visit"
  BY DEF CleanupTenant, CleanupTenantFails, vars
<1>2. tenants' \in [TenantIds -> TenantStates]
  BY <1>1 DEF QInv, Sound, IInv, TypeOK, TenantStates
<1>3. Sound'
  BY <1>1, <1>2, TenantsKeepSound DEF QInv
<1>4. cleanup \in Cleanups /\ Busy
  BY <1>1 DEF QInv
<1>5. /\ cleanup' \in Cleanups /\ cleanup'.step = "visit" /\ cleanup'.id = cleanup.id
      /\ cleanup'.todo = cleanup.todo /\ cleanup'.depth = cleanup.depth
      /\ cleanup'.rows = cleanup.rows
  BY <1>1, <1>4 DEF Cleanups
<1>6. Open' = Open
  BY <1>5 DEF Open
<1>7. DepthsRead' /\ Visiting'
  BY <1>1, <1>4, <1>5 DEF Busy, DepthsRead, Visiting, DepthOf
<1>8. PassedOver'
  BY <1>1, <1>4, <1>6 DEF Busy, PassedOver, DepthOf, KeysHeldBy
<1>9. Busy'
  BY <1>1, <1>4, <1>5, <1>6, <1>7, <1>8 DEF Busy
<1> QED BY <1>1, <1>3, <1>5, <1>9 DEF QInv

-----------------------------------------------------------------------------
(* Theorems.                                                               *)

LEMMA CleanupInitOK == SeederInit => QInv
<1> SUFFICES ASSUME SeederInit PROVE QInv
  OBVIOUS
<1>1. IInv /\ DOMAIN units = {} /\ attachments = {} /\ markers = {}
  BY InitOK DEF SeederInit, Init, NoRows
<1>2. Sound
  BY <1>1 DEF Sound, AttachmentsSound, SeededUnitsMarked
<1>3. cleanup = NoCleanup /\ tenantMarkers = {}
  BY DEF SeederInit
<1> QED BY <1>2, <1>3, NoCleanupOK DEF QInv

LEMMA CleanupStepOK == QInv /\ [QuietNext]_allVars => QInv'
<1> SUFFICES ASSUME QInv, [QuietNext]_allVars PROVE QInv'
  OBVIOUS
<1>1. ASSUME Sound', UNCHANGED cleanup, cleanup = NoCleanup,
             tenantMarkers' \subseteq TenantIds
      PROVE  QInv'
  BY <1>1, NoCleanupOK DEF QInv
<1>2. CASE cleanup = NoCleanup /\ Next /\ UNCHANGED cleanupVars
  <2>1. Sound'
    BY <1>2, HandlersKeepSound DEF QInv
  <2> QED BY <1>1, <1>2, <2>1 DEF cleanupVars, QInv
<1>3. CASE cleanup = NoCleanup /\ \E t \in TenantIds : SeedTenant(t)
  <2>1. tenants' \in [TenantIds -> TenantStates]
    BY <1>3 DEF SeedTenant, TenantStates, QInv, Sound, IInv, TypeOK
  <2>2. Sound'
    BY <1>3, <2>1, TenantsKeepSound DEF SeedTenant, QInv
  <2> QED BY <1>1, <1>3, <2>2 DEF SeedTenant, QInv
<1>4. CASE cleanup = NoCleanup /\ \E t \in TenantIds : TenantStep(t)
  <2>1. tenants' \in [TenantIds -> TenantStates]
    BY <1>4 DEF TenantStep, DeleteTenant, RestoreTenant, PurgeTenant, MoveTenant,
       TenantStates, QInv, Sound, IInv, TypeOK
  <2>2. UNCHANGED <<units, attachments, markers, pending, cleanupVars>>
    BY <1>4 DEF TenantStep, DeleteTenant, RestoreTenant, PurgeTenant, MoveTenant
  <2>3. Sound'
    BY <2>1, <2>2, TenantsKeepSound DEF QInv
  <2> QED BY <1>1, <1>4, <2>2, <2>3 DEF cleanupVars, QInv
<1>5. CASE BeginCleanup /\ \A a \in Actors : pending[a] = Idle
  BY <1>5, BeginCleanupKeeps
<1>6. CASE \E u \in OrgUnitIds : ReadDepth(u) \/ PreserveUnit(u) \/ VisitUnit(u)
  BY <1>6, ReadDepthKeeps, PreserveUnitKeeps, VisitUnitKeeps
<1>7. CASE ReadParentOfVisited \/ DeleteUnit \/ (DeleteUnitCancelled /\ ~DeleteConditions)
  BY <1>7, ReadParentKeeps, DeleteUnitKeeps, DeleteCancelledKeeps
<1>8. CASE \E t \in TenantIds : CleanupTenant(t) \/ CleanupTenantFails(t)
  BY <1>8, CleanupTenantKeeps
<1>9. CASE EndCleanup
  <2>1. Sound' /\ UNCHANGED tenantMarkers /\ cleanup' = NoCleanup
    BY <1>9, TableKeepsSound DEF EndCleanup, QInv
  <2> QED BY <2>1, NoCleanupOK DEF QInv
<1>10. CASE UNCHANGED allVars
  <2>1. UNCHANGED vars /\ UNCHANGED <<tenantMarkers, cleanup>>
    BY <1>10 DEF allVars, cleanupVars
  <2>2. Sound' /\ units' = units /\ attachments' = attachments /\ markers' = markers
        /\ pending' = pending
    BY <2>1, TableKeepsSound DEF QInv, vars
  <2>3. Busy => Busy'
    BY <2>1, <2>2 DEF Busy, DepthsRead, Visiting, PassedOver, Open, DepthOf, KeysHeldBy
  <2> QED BY <2>1, <2>2, <2>3 DEF QInv
<1> QED BY <1>2, <1>3, <1>4, <1>5, <1>6, <1>7, <1>8, <1>9, <1>10 DEF QuietNext

LEMMA CleanupInvariant == QuietSpec => []QInv
BY CleanupInitOK, CleanupStepOK, PTL DEF QuietSpec

\* The cleanup and the table keep their shape.
THEOREM CleanupTypeCorrect == QuietSpec => []CleanupTypeOK
<1>1. QInv => CleanupTypeOK
  <2> SUFFICES ASSUME QInv PROVE CleanupTypeOK
    OBVIOUS
  <2>1. TypeOK /\ tenantMarkers \subseteq TenantIds
        /\ cleanup.step \in CleanupSteps /\ cleanup.todo \subseteq OrgUnitIds
        /\ cleanup.tenantTodo \subseteq TenantIds
        /\ cleanup.id \in OrgUnitIds \cup {NoId}
        /\ cleanup.rows \in RowMaps /\ cleanup.depth \in Depths
    BY DEF QInv, Sound, IInv, Cleanups
  <2>2. IsRowMap(cleanup.rows)
    BY <2>1 DEF RowMaps, IsRowMap
  <2>3. \A u \in DOMAIN cleanup.depth : cleanup.depth[u] \in Nat
    BY <2>1 DEF Depths
  <2> QED BY <2>1, <2>2, <2>3 DEF CleanupTypeOK
<1> QED BY <1>1, CleanupInvariant, PTL

\* The markers name exactly the seeded Org Units, whatever handlers and cleanups did.
THEOREM MarkersExact == QuietSpec => []SeededUnitsMarked
<1>1. QInv => SeededUnitsMarked
  BY DEF QInv, Sound
<1> QED BY <1>1, CleanupInvariant, PTL

\* A cleanup leaves the directory a forest: it takes leaves out of it, and nobody
\* names a leaf as a predecessor.
THEOREM CleanupKeepsForest == QuietSpec => []Forest
<1>1. QInv => Forest
  BY DEF QInv, Sound, IInv
<1> QED BY <1>1, CleanupInvariant, PTL

\* A cleanup leaves the routes sound: those of a deleted Org Unit go with it.
THEOREM CleanupKeepsRoutes == QuietSpec => []AttachmentsSound
<1>1. QInv => AttachmentsSound
  BY DEF QInv, Sound
<1> QED BY <1>1, CleanupInvariant, PTL

\* When the cleanup is done, a seeded Org Unit that remains has children or has lost a
\* route to another Org Unit: the order of the depths that were read at the start is
\* still the order of the forest at the end.
THEOREM NothingForgotten == QuietSpec => []CleanupComplete
<1>1. QInv => CleanupComplete
  <2> SUFFICES ASSUME QInv, Finished, NEW u \in DOMAIN units,
                      units[u].seeded, KeysHeldBy(u, KeysOf(units[u]))
               PROVE  units[u].childIds # {}
    BY DEF CleanupComplete
  <2>1. Busy /\ cleanup.todo = {} /\ cleanup.id = NoId
    BY DEF QInv, Finished, Busy, Visiting
  <2>2. Open = {} /\ u \in markers
    BY <2>1 DEF Open, QInv, Sound, SeededUnitsMarked
  <2> QED BY <2>1, <2>2 DEF Busy, PassedOver
<1> QED BY <1>1, CleanupInvariant, PTL

\* A step of the cleanup removes no route but those of the Org Unit it deletes, also
\* where the deleted row still claims a key that another Org Unit has taken over.
THEOREM ForeignRoutesKept == QuietSpec => CleanupKeepsForeignRoutes
<1>1. ASSUME QInv, [QuietNext]_allVars
      PROVE  [cleanup' # cleanup =>
                \A att \in attachments \ attachments' :
                  att.orgUnitId \notin DOMAIN units']_allVars
  <2> SUFFICES ASSUME cleanup' # cleanup, NEW att \in attachments \ attachments'
               PROVE  att.orgUnitId \notin DOMAIN units'
    OBVIOUS
  <2>1. ~ UNCHANGED allVars /\ ~ UNCHANGED cleanupVars /\ attachments' # attachments
    BY DEF allVars, cleanupVars
  <2>2. DeleteUnit
    BY <1>1, <2>1 DEF QuietNext, SeedTenant, TenantStep, DeleteTenant, RestoreTenant,
         PurgeTenant, MoveTenant, BeginCleanup, ReadDepth, PreserveUnit, VisitUnit,
         ReadParentOfVisited, DeleteUnitCancelled, CleanupTenant, CleanupTenantFails,
         EndCleanup, vars
  <2>3. att.orgUnitId = cleanup.id /\ DOMAIN units' = DOMAIN units \ {cleanup.id}
    BY <1>1, <2>2, DeleteKeepsRoutes, RowsLeft
  <2> QED BY <2>3
<1> QED BY <1>1, CleanupInvariant, PTL DEF QuietSpec, CleanupKeepsForeignRoutes
=============================================================================
