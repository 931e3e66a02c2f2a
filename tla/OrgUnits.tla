------------------------------ MODULE OrgUnits ------------------------------
(***************************************************************************)
(* The Org Unit directory of @cloudigniter/aws: the hierarchy of           *)
(* organisational units kept as denormalised items of one DynamoDB table,  *)
(* and the create, edit and move handlers that maintain it.                *)
(*                                                                         *)
(* A handler runs in a Lambda invocation (an actor here).  It reads items  *)
(* one at a time with strongly consistent reads, checks what it read, and  *)
(* ends with one TransactWriteItems whose conditions are evaluated against *)
(* the table as it is then.  Every read is a step, so any other handler    *)
(* may commit between two reads or between the last read and the write.    *)
(***************************************************************************)
EXTENDS Integers, Sequences, FiniteSets

CONSTANTS
  OrgUnitIds,          \* ids of Org Units
  TenantIds,           \* ids of tenants
  Slugs,               \* immutable path segments
  Statuses,            \* "active", "suspended", "archived"
  Actors,              \* concurrent handler invocations
  NoId,                \* the null parentId of a root
  Seeding,             \* whether creates carry seed provenance: a subset of BOOLEAN
  MaxMoveSubtreeNodes, \* MAX_MOVE_SUBTREE_NODES
  MaxTransactItems,    \* DynamoDB's limit on the items of a transaction
  MaxVersion           \* bound of the model: no row is written past this version

ASSUME OrgUnitsAssumption ==
  /\ NoId \notin OrgUnitIds
  /\ Seeding \subseteq BOOLEAN
  /\ MaxMoveSubtreeNodes \in Nat
  /\ MaxTransactItems \in Nat
  /\ MaxVersion \in Nat

VARIABLES
  units,       \* the ORG_UNIT items: a function from the ids that exist to rows
  attachments, \* the ORG_UNIT_ATTACHMENT items, keyed by tenant and path
  markers,     \* ids with an ORG_UNIT seed marker
  tenants,     \* deletion state of every tenant item, "absent" without one; only
               \* read here, written by the tenant handlers (SeederCleanup)
  pending      \* what each actor has read so far

vars == <<units, attachments, markers, tenants, pending>>

-----------------------------------------------------------------------------
(* The items of the table.                                                 *)

Row ==
  [slug : Slugs, path : Seq(Slugs), parentId : OrgUnitIds \cup {NoId},
   ancestorOrgUnitIds : Seq(OrgUnitIds), tenantIds : SUBSET TenantIds,
   childIds : SUBSET OrgUnitIds, status : Statuses, seeded : BOOLEAN,
   version : Nat]

AttachmentItem ==
  [tenantId : TenantIds, path : Seq(Slugs), orgUnitId : OrgUnitIds,
   parentId : OrgUnitIds \cup {NoId},
   ancestorOrgUnitIds : Seq(OrgUnitIds), status : Statuses]

IsRowMap(f) == DOMAIN f \subseteq OrgUnitIds /\ f \in [DOMAIN f -> Row]

TenantStates == {"absent", "active", "deleted"}

\* ciRequireOrgUnitTenantIds: a non-empty set (the 30 tenant limit is far above the bounds).
TenantSets == (SUBSET TenantIds) \ {{}}

\* ciBuildStoredOrgUnitAttachment: the routing copy of a row for one tenant.
AttachmentOf(id, row, t) ==
  [tenantId |-> t, path |-> row.path, orgUnitId |-> id,
   parentId |-> row.parentId, ancestorOrgUnitIds |-> row.ancestorOrgUnitIds,
   status |-> row.status]

\* The primary keys of a row's attachments: ciBuildOrgUnitTenantAttachmentKeys.
KeyOf(att) == <<att.tenantId, att.path>>
KeysOf(row) == row.tenantIds \X {row.path}
AttachmentsOf(id, row) == {AttachmentOf(id, row, t) : t \in row.tenantIds}

-----------------------------------------------------------------------------
(* The conditions of a TransactWriteItems.                                 *)

\* tenantChecks: every tenant exists and is not soft-deleted.
TenantsLive(ids) == \A t \in ids : tenants[t] = "active"

\* Faulty variant of KeysFree: attachments are put without a condition.
KeysAlwaysFree(keys) == TRUE

\* attribute_not_exists on attachment keys.
KeysFree(keys) == \A att \in attachments : KeyOf(att) \notin keys

\* data.orgUnitId = :orgUnitId on attachment keys.
KeysHeldBy(id, keys) ==
  \A k \in keys : \E att \in attachments : KeyOf(att) = k /\ att.orgUnitId = id

\* Faulty variant of Unchanged: only the row that is edited is compared.
OnlyRootUnchanged(o, id) ==
  id \in DOMAIN units /\ (id = o.id => units[id].version = o.rows[id].version)

\* version = :expectedVersion on a row the operation has read.
Unchanged(o, id) == id \in DOMAIN units /\ units[id].version = o.rows[id].version

-----------------------------------------------------------------------------
(* A handler in progress: its input and what it has read.                  *)

Operation(rows) ==
  [op : {"idle", "create", "update"},
   step : {"oldParent", "newParent", "children", "subtree", "write"},
   id : OrgUnitIds \cup {NoId},
   slug : Slugs \cup {NoId}, parentId : OrgUnitIds \cup {NoId},
   tenantIds : SUBSET TenantIds, status : Statuses \cup {NoId}, seeded : BOOLEAN,
   rows : {rows},             \* parents, current and subtree rows, as read
   todo : SUBSET OrgUnitIds,  \* ids the current batch read has still to return
   subtree : SUBSET OrgUnitIds] \* ids loadSubtree has accepted

IsOperation(o) == o \in Operation(o.rows) /\ IsRowMap(o.rows)

NoRows == [id \in {} |-> NoId]

Idle ==
  [op |-> "idle", step |-> "write", id |-> NoId,
   slug |-> NoId, parentId |-> NoId, tenantIds |-> {}, status |-> NoId,
   seeded |-> FALSE, rows |-> NoRows, todo |-> {}, subtree |-> {}]

WithRow(o, id) ==
  [o EXCEPT !.rows = [i \in DOMAIN o.rows \cup {id} |->
                        IF i = id THEN units[id] ELSE o.rows[i]]]

CurrentOf(o) == o.rows[o.id]
Moving(o) == o.parentId # CurrentOf(o).parentId

\* Faulty variant of NextLevel: only the direct children of the root are loaded.
FirstLevelOnly(o) ==
  IF o.subtree = {o.id} THEN CurrentOf(o).childIds ELSE {}

\* The ids on the next level of loadSubtree: listed by a row, not accepted yet.
NextLevel(o) ==
  (UNION {o.rows[u].childIds : u \in o.subtree}) \ (o.subtree \ {o.id})

\* No id of the subtree is listed twice, and none of its rows lists the root.
NoRepeatedChild(o) ==
  /\ \A u \in o.subtree : o.id \notin o.rows[u].childIds
  /\ \A u, v \in o.subtree :
       u # v => o.rows[u].childIds \cap o.rows[v].childIds = {}

\* What follows a finished batch: the next level of the subtree, or the write.
AfterLevel(o) ==
  LET next == NextLevel(o) IN
  [o EXCEPT !.todo = next, !.step = IF next = {} THEN "write" ELSE "subtree"]

\* What follows the children check: a move loads the subtree, an edit writes.
AfterChildren(o) ==
  IF Moving(o) THEN AfterLevel([o EXCEPT !.subtree = {o.id}])
               ELSE [o EXCEPT !.step = "write"]

\* What follows the parent reads: the children check, if there are children.
AfterParents(o) ==
  LET ids == CurrentOf(o).childIds IN
  IF ids = {} THEN AfterChildren(o)
              ELSE [o EXCEPT !.step = "children", !.todo = ids]

Become(a, o) == pending' = [pending EXCEPT ![a] = o]

TableUnchanged == UNCHANGED <<units, attachments, markers, tenants>>

-----------------------------------------------------------------------------
(* ciCreateOrgUnit.                                                        *)

\* The input, and the read of the parent: it exists and is attached to every
\* requested tenant.
BeginCreate(a) ==
  /\ pending[a].op = "idle"
  /\ \E id \in OrgUnitIds, slug \in Slugs, parentId \in DOMAIN units \cup {NoId},
        tenantIds \in TenantSets, status \in Statuses, seeded \in Seeding :
       LET o == [Idle EXCEPT !.op = "create", !.id = id, !.slug = slug,
                             !.parentId = parentId, !.tenantIds = tenantIds,
                             !.status = status, !.seeded = seeded]
       IN IF parentId = NoId THEN Become(a, o)
          ELSE /\ tenantIds \subseteq units[parentId].tenantIds
               /\ Become(a, WithRow(o, parentId))
  /\ TableUnchanged

\* Faulty variant of CreatedRow: the null parent of a root counts as a predecessor.
CreatedRowBelowNull(o) ==
  [slug |-> o.slug,
   path |-> IF o.parentId = NoId THEN <<o.slug>>
            ELSE Append(o.rows[o.parentId].path, o.slug),
   parentId |-> o.parentId,
   ancestorOrgUnitIds |->
     IF o.parentId = NoId THEN <<NoId>>
     ELSE Append(o.rows[o.parentId].ancestorOrgUnitIds, o.parentId),
   tenantIds |-> o.tenantIds, childIds |-> {}, status |-> o.status,
   seeded |-> o.seeded, version |-> 1]

CreatedRow(o) ==
  LET parent == o.rows[o.parentId]
      root == o.parentId = NoId
  IN [slug |-> o.slug,
      path |-> IF root THEN <<o.slug>> ELSE Append(parent.path, o.slug),
      parentId |-> o.parentId,
      ancestorOrgUnitIds |-> IF root THEN <<>>
                             ELSE Append(parent.ancestorOrgUnitIds, o.parentId),
      tenantIds |-> o.tenantIds, childIds |-> {}, status |-> o.status,
      seeded |-> o.seeded, version |-> 1]

\* The items of the create transaction, one tuple per item.
CreateItems(o) ==
  {<<"tenant", t>> : t \in o.tenantIds} \cup {<<"attach", t>> : t \in o.tenantIds}
    \cup {<<"unit", o.id>>} \cup {<<"unit", p>> : p \in {o.parentId} \ {NoId}}
    \cup {<<"marker", i>> : i \in {i \in {o.id} : o.seeded}}

CommitCreate(a) ==
  LET o == pending[a]
      row == CreatedRow(o)
  IN
  /\ o.op = "create" /\ o.step = "write"
  /\ Cardinality(CreateItems(o)) <= MaxTransactItems
  /\ TenantsLive(o.tenantIds)
  /\ o.id \notin DOMAIN units
  /\ KeysFree(KeysOf(row))
  /\ o.parentId # NoId => /\ Unchanged(o, o.parentId)
                          /\ units[o.parentId].version < MaxVersion
  /\ o.seeded => o.id \notin markers
  /\ units' = [i \in DOMAIN units \cup {o.id} |->
                 IF i = o.id THEN row
                 ELSE IF i = o.parentId
                      THEN [units[i] EXCEPT !.childIds = @ \cup {o.id},
                                            !.version = @ + 1]
                      ELSE units[i]]
  /\ attachments' = attachments \cup AttachmentsOf(o.id, row)
  /\ markers' = IF o.seeded THEN markers \cup {o.id} ELSE markers
  /\ Become(a, Idle)
  /\ UNCHANGED tenants

-----------------------------------------------------------------------------
(* ciUpdateOrgUnit: reading.                                               *)

\* The row must still have the version the administrator edited.  A request for
\* another version ends in FailOperation; parentId is the resolved
\* requestedParentId, which an omitted input makes the current one.
BeginUpdate(a) ==
  /\ pending[a].op = "idle"
  /\ \E id \in DOMAIN units, parentId \in OrgUnitIds \cup {NoId},
        tenantIds \in TenantSets, status \in Statuses :
       LET o == WithRow([Idle EXCEPT !.op = "update", !.id = id,
                           !.parentId = parentId, !.tenantIds = tenantIds,
                           !.status = status], id)
       IN Become(a, IF units[id].parentId # NoId
                    THEN [o EXCEPT !.step = "oldParent"]
                    ELSE IF parentId # NoId THEN [o EXCEPT !.step = "newParent"]
                    ELSE AfterParents(o))
  /\ TableUnchanged

\* newParent is the row just read when the parent does not change.
ReadOldParent(a) ==
  LET o == pending[a]
      parentId == CurrentOf(o).parentId
      read == WithRow(o, parentId)
  IN
  /\ o.op = "update" /\ o.step = "oldParent"
  /\ parentId \in DOMAIN units
  /\ \/ /\ o.parentId = parentId
        /\ o.tenantIds \subseteq units[parentId].tenantIds
        /\ Become(a, AfterParents(read))
     \/ /\ o.parentId \notin {parentId, NoId}
        /\ Become(a, [read EXCEPT !.step = "newParent"])
     \/ /\ o.parentId = NoId /\ parentId # NoId
        /\ Become(a, AfterParents(read))
  /\ TableUnchanged

\* A request to become one's own child is refused, by moveSubtree at the latest.
ReadNewParent(a) ==
  LET o == pending[a] IN
  /\ o.op = "update" /\ o.step = "newParent"
  /\ o.parentId \in DOMAIN units \ {o.id}
  /\ o.tenantIds \subseteq units[o.parentId].tenantIds
  /\ Become(a, AfterParents(WithRow(o, o.parentId)))
  /\ TableUnchanged

\* One item of the children batch: a child that still uses a detached tenant
\* refuses the update, a child that is gone is not returned and not checked.
ReadChild(a, c) ==
  LET o == pending[a]
      rest == [o EXCEPT !.todo = @ \ {c}]
  IN
  /\ o.op = "update" /\ o.step = "children" /\ c \in o.todo
  /\ c \in DOMAIN units => units[c].tenantIds \subseteq o.tenantIds
  /\ Become(a, IF rest.todo = {} THEN AfterChildren(rest) ELSE rest)
  /\ TableUnchanged

\* One item of a level of loadSubtree: present, below the row that listed it,
\* and not reached before.
ReadDescendant(a, c) ==
  LET o == pending[a]
      read == [WithRow(o, c) EXCEPT !.todo = @ \ {c}, !.subtree = @ \cup {c}]
  IN
  /\ o.op = "update" /\ o.step = "subtree" /\ c \in o.todo
  /\ Cardinality(o.subtree) + Cardinality(o.todo) <= MaxMoveSubtreeNodes
  /\ c \in DOMAIN units /\ c \notin o.subtree
  /\ units[c].parentId \in o.subtree
  /\ c \in o.rows[units[c].parentId].childIds
  /\ NoRepeatedChild(read)
  /\ Become(a, IF read.todo = {} THEN AfterLevel(read) ELSE read)
  /\ TableUnchanged

-----------------------------------------------------------------------------
(* ciUpdateOrgUnit: the edit transaction, when the parent stays.           *)

\* Faulty variant of EditedRow: the data map is rebuilt without its provenance.
EditedRowWithoutSeed(o) ==
  [CurrentOf(o) EXCEPT !.tenantIds = o.tenantIds, !.status = o.status,
                       !.seeded = FALSE, !.version = @ + 1]

EditedRow(o) ==
  [CurrentOf(o) EXCEPT !.tenantIds = o.tenantIds, !.status = o.status,
                       !.version = @ + 1]

EditItems(o) ==
  {<<"tenant", t>> : t \in o.tenantIds} \cup {<<"unit", o.id>>}
    \cup {<<"attach", t>> : t \in o.tenantIds \cup CurrentOf(o).tenantIds}

\* The attachments are put without a condition; only those of detached tenants
\* are deleted under one.  The parent's version is not part of the conditions.
CommitEdit(a) ==
  LET o == pending[a]
      row == EditedRow(o)
      dropped == KeysOf(CurrentOf(o)) \ KeysOf(row)
  IN
  /\ o.op = "update" /\ o.step = "write" /\ ~Moving(o)
  /\ Cardinality(EditItems(o)) <= MaxTransactItems
  /\ TenantsLive(o.tenantIds)
  /\ Unchanged(o, o.id) /\ row.version <= MaxVersion
  /\ KeysHeldBy(o.id, dropped)
  /\ units' = [units EXCEPT ![o.id] = row]
  /\ attachments' =
       {att \in attachments : KeyOf(att) \notin dropped \cup KeysOf(row)}
         \cup AttachmentsOf(o.id, row)
  /\ Become(a, Idle)
  /\ UNCHANGED <<markers, tenants>>

-----------------------------------------------------------------------------
(* ciUpdateOrgUnit: the move transaction.                                  *)

IndexOf(s, x) ==
  CHOOSE k \in 1..Len(s) : s[k] = x /\ \A j \in 1..(k - 1) : s[j] # x

RootAncestors(o) ==
  IF o.parentId = NoId THEN <<>>
  ELSE Append(o.rows[o.parentId].ancestorOrgUnitIds, o.parentId)

RootPath(o) ==
  IF o.parentId = NoId THEN <<CurrentOf(o).slug>>
  ELSE Append(o.rows[o.parentId].path, CurrentOf(o).slug)

\* Faulty variant of MovedRow: the slice of the predecessors starts at the moved root.
MovedRowSlicedAtRoot(o, u) ==
  LET row == o.rows[u]
      ids == row.ancestorOrgUnitIds
      suffix == SubSeq(row.path, Len(CurrentOf(o).path) + 1, Len(row.path))
  IN IF u = o.id
     THEN [row EXCEPT !.path = RootPath(o), !.parentId = o.parentId,
                      !.ancestorOrgUnitIds = RootAncestors(o),
                      !.tenantIds = o.tenantIds, !.status = o.status,
                      !.version = @ + 1]
     ELSE [row EXCEPT !.path = RootPath(o) \o suffix,
                      !.ancestorOrgUnitIds =
                         Append(RootAncestors(o), o.id)
                           \o SubSeq(ids, IndexOf(ids, o.id), Len(ids)),
                      !.version = @ + 1]

\* ciBuildMovedOrgUnitSubtree, one row: the part of path and ancestors below
\* the moved root is sliced off the row and put below the root's new place.
MovedRow(o, u) ==
  LET row == o.rows[u]
      suffix == SubSeq(row.path, Len(CurrentOf(o).path) + 1, Len(row.path))
      below == SubSeq(row.ancestorOrgUnitIds,
                      IndexOf(row.ancestorOrgUnitIds, o.id) + 1,
                      Len(row.ancestorOrgUnitIds))
  IN IF u = o.id
     THEN [row EXCEPT !.path = RootPath(o), !.parentId = o.parentId,
                      !.ancestorOrgUnitIds = RootAncestors(o),
                      !.tenantIds = o.tenantIds, !.status = o.status,
                      !.version = @ + 1]
     ELSE [row EXCEPT !.path = RootPath(o) \o suffix,
                      !.ancestorOrgUnitIds =
                         Append(RootAncestors(o), o.id) \o below,
                      !.version = @ + 1]

\* Faulty variant of WithChildIds: the parent keeps its version.
WithChildIdsSameVersion(id, childIds) == [units[id] EXCEPT !.childIds = childIds]

\* parentUpdate: the child list is computed from the row that was read.
WithChildIds(id, childIds) ==
  [units[id] EXCEPT !.childIds = childIds, !.version = @ + 1]

ParentsOf(o) == {CurrentOf(o).parentId, o.parentId} \ {NoId}

\* Faulty variant of OldKeys: only the moved root's attachments are deleted.
OldKeysOfRoot(o) == KeysOf(CurrentOf(o))

\* The attachments a move deletes.
OldKeys(o) == UNION {KeysOf(o.rows[u]) : u \in o.subtree}

MoveItems(o) ==
  {<<"tenant", t>> : t \in o.tenantIds}
    \cup {<<"unit", u>> : u \in o.subtree \cup ParentsOf(o)}
    \cup (UNION {{<<"detach", u, t>> : t \in o.rows[u].tenantIds} : u \in o.subtree})
    \cup (UNION {{<<"attach", u, t>> : t \in MovedRow(o, u).tenantIds} : u \in o.subtree})

CommitMove(a) ==
  LET o == pending[a]
      moved == [u \in o.subtree |-> MovedRow(o, u)]
  IN
  /\ o.op = "update" /\ o.step = "write" /\ Moving(o)
  /\ ParentsOf(o) \cap o.subtree = {}
  /\ \A u \in o.subtree \ {o.id} :
       \E k \in 1..Len(o.rows[u].ancestorOrgUnitIds) :
          o.rows[u].ancestorOrgUnitIds[k] = o.id
  /\ Cardinality(MoveItems(o)) <= MaxTransactItems
  /\ TenantsLive(o.tenantIds)
  /\ \A u \in o.subtree \cup ParentsOf(o) :
       Unchanged(o, u) /\ units[u].version < MaxVersion
  /\ \A u \in o.subtree : /\ KeysHeldBy(u, KeysOf(o.rows[u]))
                          /\ KeysFree(KeysOf(moved[u]))
  /\ units' = [i \in DOMAIN units |->
                 IF i \in o.subtree THEN moved[i]
                 ELSE IF i = o.parentId
                      THEN WithChildIds(i, o.rows[i].childIds \cup {o.id})
                 ELSE IF i = CurrentOf(o).parentId
                      THEN WithChildIds(i, o.rows[i].childIds \ {o.id})
                 ELSE units[i]]
  /\ attachments' =
       {att \in attachments : KeyOf(att) \notin OldKeys(o)}
         \cup (UNION {AttachmentsOf(u, moved[u]) : u \in o.subtree})
  /\ Become(a, Idle)
  /\ UNCHANGED <<markers, tenants>>

-----------------------------------------------------------------------------
(* A handler may end without writing at any point: a check refuses, the    *)
(* transaction is cancelled, a read fails or the invocation times out.     *)

FailOperation(a) ==
  /\ pending[a].op # "idle"
  /\ Become(a, Idle)
  /\ TableUnchanged

Init ==
  /\ units = NoRows
  /\ attachments = {}
  /\ markers = {}
  /\ tenants \in [TenantIds -> TenantStates]
  /\ pending = [a \in Actors |-> Idle]

CreateNext(a) == BeginCreate(a) \/ CommitCreate(a)

UpdateNext(a) ==
  \/ BeginUpdate(a) \/ ReadOldParent(a) \/ ReadNewParent(a)
  \/ \E c \in OrgUnitIds : ReadChild(a, c) \/ ReadDescendant(a, c)
  \/ CommitEdit(a) \/ CommitMove(a)

Next == \E a \in Actors : CreateNext(a) \/ UpdateNext(a) \/ FailOperation(a)

Spec == Init /\ [][Next]_vars

-----------------------------------------------------------------------------
(* Properties.                                                             *)

\* Every item and every handler has the shape the code gives it.
TypeOK ==
  /\ IsRowMap(units)
  /\ attachments \subseteq AttachmentItem
  /\ markers \subseteq OrgUnitIds
  /\ tenants \in [TenantIds -> TenantStates]
  /\ pending = [a \in Actors |-> pending[a]]
  /\ \A a \in Actors : IsOperation(pending[a])

\* A row derives its path and predecessors from its parent's row, and the two
\* sides of the parent/child link agree.
DerivesFromParent(u) ==
  LET row == units[u] IN
  IF row.parentId = NoId
  THEN /\ row.path = <<row.slug>>
       /\ row.ancestorOrgUnitIds = <<>>
  ELSE /\ row.parentId \in DOMAIN units
       /\ u \in units[row.parentId].childIds
       /\ row.path = Append(units[row.parentId].path, row.slug)
       /\ row.ancestorOrgUnitIds =
            Append(units[row.parentId].ancestorOrgUnitIds, row.parentId)

ListsItsChildren(u) ==
  \A c \in units[u].childIds : c \in DOMAIN units /\ units[c].parentId = u

\* The stored rows always form a forest whose four materialised views (parentId,
\* childIds, ancestorOrgUnitIds, path) agree, whatever creates, edits and moves
\* interleave.  It is what the version conditions of the transactions are for: a
\* move written from a stale child list or a stale subtree would break it.
Forest == \A u \in DOMAIN units : DerivesFromParent(u) /\ ListsItsChildren(u)

\* Every predecessor a row names exists, names the same predecessors above itself,
\* and sits at that depth.
NamesPredecessors(u) ==
  LET ids == units[u].ancestorOrgUnitIds IN
  /\ Len(units[u].path) = Len(ids) + 1
  /\ \A k \in 1..Len(ids) :
       /\ ids[k] \in DOMAIN units
       /\ Len(units[ids[k]].ancestorOrgUnitIds) = k - 1
       /\ \A j \in 1..(k - 1) : units[ids[k]].ancestorOrgUnitIds[j] = ids[j]

\* Predecessors agree with each other along every path, so no row is its own
\* predecessor and no interleaving of two moves closes a cycle.
Predecessors == \A u \in DOMAIN units : NamesPredecessors(u)

\* A row a handler has read is never newer than the stored one, and a row with the
\* version that was read is the row that was read: every write moves the version,
\* so "version = :expectedVersion" compares whole rows.
VersionIdentifiesRow ==
  \A a \in Actors : \A i \in DOMAIN pending[a].rows :
    /\ i \in DOMAIN units
    /\ pending[a].rows[i].version <= units[i].version
    /\ pending[a].rows[i].version = units[i].version => pending[a].rows[i] = units[i]

\* What routing resolves is true: an attachment copies an existing Org Unit that is
\* attached to the tenant and has that path, and one (tenant, path) key resolves to
\* one Org Unit, although an edit replaces attachments without a condition.
AttachmentsSound ==
  /\ \A att \in attachments :
       /\ att.orgUnitId \in DOMAIN units
       /\ att.tenantId \in units[att.orgUnitId].tenantIds
       /\ att = AttachmentOf(att.orgUnitId, units[att.orgUnitId], att.tenantId)
  /\ \A x, y \in attachments : KeyOf(x) = KeyOf(y) => x = y

\* The table is a forest in which every create, edit and move happens in one step:
\* denormalisation, versions and interleaved reads are hidden, whatever commits.
Nodes ==
  [u \in DOMAIN units |->
     [parentId |-> units[u].parentId, slug |-> units[u].slug,
      tenantIds |-> units[u].tenantIds, status |-> units[u].status]]

Hierarchy == INSTANCE OrgForest WITH nodes <- Nodes

ImplementsOrgForest == Hierarchy!Spec

-----------------------------------------------------------------------------
(* What the documentation promises and the handlers do not keep.           *)

\* org-unit-management.mdx: the child tenant set is a subset of its parent's.
ChildTenantsContained ==
  \A u \in DOMAIN units :
    units[u].parentId \in DOMAIN units =>
      units[u].tenantIds \subseteq units[units[u].parentId].tenantIds
=============================================================================
