--------------------------- MODULE SeederCleanup ---------------------------
(***************************************************************************)
(* The development seeder of tenants and Org Units, running beside the     *)
(* Org Unit handlers: ciSeedTenants puts seeded tenants and then creates   *)
(* seeded Org Units, ciCleanupSeededTenants removes what its markers name. *)
(*                                                                         *)
(* The cleanup is one long invocation.  It reads the depth of every marked *)
(* Org Unit first, then visits the markers, deepest Org Unit first and     *)
(* tenants last, with a read, a second read for the parent, and one        *)
(* transaction each.                                                       *)
(***************************************************************************)
EXTENDS OrgUnits

VARIABLES
  tenantMarkers, \* tenants with a TENANT seed marker of the seeder
  cleanup        \* the cleanup invocation in progress

cleanupVars == <<tenantMarkers, cleanup>>
allVars == <<vars, cleanupVars>>

\* What the invocation knows: the markers of its query that are still to visit,
\* the depth read for each Org Unit, and the rows read for the one it is visiting.
NoCleanup ==
  [step |-> "idle", todo |-> {}, tenantTodo |-> {}, depth |-> NoRows,
   id |-> NoId, rows |-> NoRows]

CleanupSteps == {"idle", "depths", "visit", "parent", "delete"}

-----------------------------------------------------------------------------
(* ciSeedTenants: one transaction for each tenant, item and marker together. *)

SeedTenant(t) ==
  /\ tenants[t] = "absent" /\ t \notin tenantMarkers
  /\ tenants' = [tenants EXCEPT ![t] = "active"]
  /\ tenantMarkers' = tenantMarkers \cup {t}
  /\ UNCHANGED <<units, attachments, markers, pending, cleanup>>

-----------------------------------------------------------------------------
(* The tenant handlers as the directory sees them: one conditional write   *)
(* of the deletion state each.  The item is all a purge removes.           *)

MoveTenant(t, from, to) ==
  /\ tenants[t] = from
  /\ tenants' = [tenants EXCEPT ![t] = to]
  /\ UNCHANGED <<units, attachments, markers, pending, cleanupVars>>

DeleteTenant(t)  == MoveTenant(t, "active", "deleted")
RestoreTenant(t) == MoveTenant(t, "deleted", "active")
PurgeTenant(t)   == MoveTenant(t, "deleted", "absent")

TenantStep(t) == DeleteTenant(t) \/ RestoreTenant(t) \/ PurgeTenant(t)

-----------------------------------------------------------------------------
(* ciCleanupSeededTenants.                                                 *)

NextVisit(c) == [c EXCEPT !.step = "visit", !.id = NoId, !.rows = NoRows]

BeginCleanup ==
  /\ cleanup.step = "idle"
  /\ markers \cup tenantMarkers # {}
  /\ cleanup' = [NoCleanup EXCEPT !.step = IF markers = {} THEN "visit" ELSE "depths",
                                  !.todo = markers, !.tenantTodo = tenantMarkers]
  /\ UNCHANGED <<vars, tenantMarkers>>

\* Faulty variant of ReadDepth: the depth counts the separators of the path, less one.
ReadDepthFromPath(u) ==
  LET depth == [i \in DOMAIN cleanup.depth \cup {u} |->
                  IF i = u THEN Len(units[u].path) - 2 ELSE cleanup.depth[i]]
  IN
  /\ cleanup.step = "depths" /\ u \in cleanup.todo \ DOMAIN cleanup.depth
  /\ cleanup' = [cleanup EXCEPT
                   !.depth = depth,
                   !.step = IF DOMAIN depth = cleanup.todo THEN "visit" ELSE "depths"]
  /\ UNCHANGED <<vars, tenantMarkers>>

\* The depth of a marked Org Unit.
ReadDepth(u) ==
  LET depth == [i \in DOMAIN cleanup.depth \cup {u} |->
                  IF i = u THEN Len(units[u].ancestorOrgUnitIds)
                           ELSE cleanup.depth[i]]
  IN
  /\ cleanup.step = "depths" /\ u \in cleanup.todo \ DOMAIN cleanup.depth
  /\ cleanup' = [cleanup EXCEPT
                   !.depth = depth,
                   !.step = IF DOMAIN depth = cleanup.todo THEN "visit" ELSE "depths"]
  /\ UNCHANGED <<vars, tenantMarkers>>

\* Faulty variant of Deepest: the markers are visited in query order.
AnyMarked(u) == u \in cleanup.todo

\* The sort of the markers.
Deepest(u) ==
  /\ u \in cleanup.todo
  /\ \A v \in cleanup.todo : cleanup.depth[v] <= cleanup.depth[u]

\* An Org Unit that lost its provenance is skipped, one with children is reported
\* as failed: both are preserved.
PreserveUnit(u) ==
  /\ cleanup.step = "visit" /\ Deepest(u)
  /\ ~units[u].seeded \/ units[u].childIds # {}
  /\ cleanup' = [cleanup EXCEPT !.todo = @ \ {u}]
  /\ UNCHANGED <<vars, tenantMarkers>>

VisitUnit(u) ==
  /\ cleanup.step = "visit" /\ Deepest(u)
  /\ units[u].seeded /\ units[u].childIds = {}
  /\ cleanup' = [WithRow(cleanup, u) EXCEPT
                   !.todo = @ \ {u}, !.id = u,
                   !.step = IF units[u].parentId = NoId THEN "delete" ELSE "parent"]
  /\ UNCHANGED <<vars, tenantMarkers>>

\* Faulty variant of ListedBy: the child is not pruned from its predecessor.
NeverListedBy(p) == FALSE

ListedBy(p) == p \in DOMAIN units /\ cleanup.id \in units[p].childIds

\* The parent is updated only when it still lists the child.
ReadParentOfVisited ==
  LET p == cleanup.rows[cleanup.id].parentId IN
  /\ cleanup.step = "parent"
  /\ cleanup' = [(IF ListedBy(p) THEN WithRow(cleanup, p) ELSE cleanup)
                   EXCEPT !.step = "delete"]
  /\ UNCHANGED <<vars, tenantMarkers>>

ListingParents == DOMAIN cleanup.rows \ {cleanup.id}

\* Faulty variant of DeleteConditions: attachments are deleted by key alone.
DeleteConditionsByKey ==
  /\ \A p \in ListingParents : Unchanged(cleanup, p)
  /\ cleanup.id \in DOMAIN units /\ units[cleanup.id].seeded
  /\ cleanup.id \in markers

\* The delete is conditional on the provenance of the Org Unit and on the keys of
\* the attachments that were read; the version of its row is not compared.
\* No bound is needed: a parent has at most one delete for each create below it.
DeleteConditions ==
  LET u == cleanup.id IN
  /\ KeysHeldBy(u, KeysOf(cleanup.rows[u]))
  /\ \A p \in ListingParents : Unchanged(cleanup, p)
  /\ u \in DOMAIN units /\ units[u].seeded
  /\ u \in markers

DeleteUnit ==
  LET u == cleanup.id IN
  /\ cleanup.step = "delete"
  /\ DeleteConditions
  /\ units' = [i \in DOMAIN units \ {u} |->
                 IF i \in ListingParents
                 THEN [units[i] EXCEPT !.childIds = @ \ {u}, !.version = @ + 1]
                 ELSE units[i]]
  /\ attachments' =
       {att \in attachments : KeyOf(att) \notin KeysOf(cleanup.rows[u])}
  /\ markers' = markers \ {u}
  /\ cleanup' = NextVisit(cleanup)
  /\ UNCHANGED <<tenants, pending, tenantMarkers>>

\* A cancelled transaction is reported and the loop goes on.
DeleteUnitCancelled ==
  /\ cleanup.step = "delete"
  /\ cleanup' = NextVisit(cleanup)
  /\ UNCHANGED <<vars, tenantMarkers>>

\* A tenant marker: read and transaction are one step here, for the delete is
\* conditional on all that was read.  Only the seeder puts tenants, with their markers
\* and never as system tenants, so a tenant that a marker names is the seeded one or
\* absent: the look at its provenance and the branch that preserves a foreign one add
\* nothing.  A tenant in Trash is deleted as well, the marker of a purged one is
\* removed on its own, and whether Org Units are still attached is not looked at.
CleanupTenant(t) ==
  /\ cleanup.step = "visit" /\ cleanup.todo = {} /\ t \in cleanup.tenantTodo
  /\ t \in tenantMarkers
  /\ tenants' = [tenants EXCEPT ![t] = "absent"]
  /\ tenantMarkers' = tenantMarkers \ {t}
  /\ cleanup' = [cleanup EXCEPT !.tenantTodo = @ \ {t}]
  /\ UNCHANGED <<units, attachments, markers, pending>>

\* The transaction fails: tenant and marker stay for a later cleanup.
CleanupTenantFails(t) ==
  /\ cleanup.step = "visit" /\ cleanup.todo = {} /\ t \in cleanup.tenantTodo
  /\ tenants[t] # "absent"
  /\ cleanup' = [cleanup EXCEPT !.tenantTodo = @ \ {t}]
  /\ UNCHANGED <<vars, tenantMarkers>>

\* The invocation returns after the last marker, or dies at any step.
EndCleanup ==
  /\ cleanup.step # "idle"
  /\ cleanup' = NoCleanup
  /\ UNCHANGED <<vars, tenantMarkers>>

-----------------------------------------------------------------------------

SeederInit == Init /\ tenantMarkers = {} /\ cleanup = NoCleanup

CleanupNext ==
  \/ BeginCleanup
  \/ \E u \in OrgUnitIds : ReadDepth(u) \/ PreserveUnit(u) \/ VisitUnit(u)
  \/ ReadParentOfVisited \/ DeleteUnit \/ DeleteUnitCancelled
  \/ \E t \in TenantIds : CleanupTenant(t) \/ CleanupTenantFails(t)
  \/ EndCleanup

SeederNext ==
  \/ Next /\ UNCHANGED cleanupVars
  \/ \E t \in TenantIds : SeedTenant(t) \/ TenantStep(t)
  \/ CleanupNext

SeederSpec == SeederInit /\ [][SeederNext]_allVars

\* The cleanup with the table to itself: nothing else runs from its query to its
\* last marker, and it is not cut short.
Finished == cleanup.step = "visit" /\ cleanup.todo = {} /\ cleanup.tenantTodo = {}

QuietNext ==
  \/ /\ cleanup = NoCleanup
     /\ \/ Next /\ UNCHANGED cleanupVars
        \/ \E t \in TenantIds : SeedTenant(t) \/ TenantStep(t)
        \/ BeginCleanup /\ \A a \in Actors : pending[a] = Idle
  \/ \E u \in OrgUnitIds : ReadDepth(u) \/ PreserveUnit(u) \/ VisitUnit(u)
  \/ ReadParentOfVisited
  \/ DeleteUnit
  \/ DeleteUnitCancelled /\ ~DeleteConditions
  \/ \E t \in TenantIds : CleanupTenant(t) \/ CleanupTenantFails(t)
  \/ Finished /\ EndCleanup

QuietSpec == SeederInit /\ [][QuietNext]_allVars

-----------------------------------------------------------------------------
(* Properties.                                                             *)

\* The cleanup's own state has the shape the code gives it.
CleanupTypeOK ==
  /\ TypeOK
  /\ tenantMarkers \subseteq TenantIds
  /\ cleanup.step \in CleanupSteps
  /\ cleanup.todo \subseteq OrgUnitIds /\ cleanup.tenantTodo \subseteq TenantIds
  /\ cleanup.id \in OrgUnitIds \cup {NoId}
  /\ IsRowMap(cleanup.rows)
  /\ \A u \in DOMAIN cleanup.depth : cleanup.depth[u] \in Nat

\* Everything seeded can be found again, and nothing else: the markers name exactly
\* the seeded Org Units.  The branch of the cleanup for a marker without its Org Unit
\* is therefore never taken and is not modelled.
SeededUnitsMarked == markers = {u \in DOMAIN units : units[u].seeded}

\* Descendants before predecessors: when the cleanup is done, a seeded Org Unit that
\* remains is held by a child that is not seeded, or by a routing attachment another
\* Org Unit has taken over, in its own subtree.
CleanupComplete ==
  Finished => \A u \in DOMAIN units :
                units[u].seeded /\ KeysHeldBy(u, KeysOf(units[u]))
                  => units[u].childIds # {}

\* A cleanup removes no route but those of the Org Unit it deletes, also where another
\* Org Unit has taken over the (tenant, path) key the deleted row still claims.
CleanupKeepsForeignRoutes ==
  [][cleanup' # cleanup =>
       \A att \in attachments \ attachments' : att.orgUnitId \notin DOMAIN units']_allVars
=============================================================================
