# Formal model of CloudIgniter

TLA+ modules that model parts of this repository, TLC configurations that check
them on small instances, and theorems about them that TLAPS checks for every
value of the constants.  `PROJECT.json` lists, in machine-readable form, the
components, the runs, a mutant for every checked property, the source lines each
definition models, the findings, the hazards and the theorems.

    tlc -workers 2 -config MCOrgUnits_forest.cfg MCOrgUnits     # one run
    tlapm OrgUnitsProofs.tla                                    # all its proofs

## 1. The system

CloudIgniter is a monorepo of packages for multi-tenant Next.js applications on
AWS: `packages/core` (types, settings, module graph), `packages/aws` (Lambda
handlers over one DynamoDB table, Cognito, AppSync), `packages/next` and
`packages/ui` (request-scoped resolution, presentation), `packages/emberguard`
(access policies), `packages/cli` (local tooling, among it the Resource Studio
and its journalled file transactions), `packages/dev` (the maintainers' release
toolkit) and `apps/templates` (the application template with its user
management).

| component | state it keeps | operations | what is hard | what makes it correct |
|---|---|---|---|---|
| **Org Unit directory** `packages/aws/src/lib/org-unit` | `ORG_UNIT` items (path, parentId, childIds, ancestorOrgUnitIds, tenantIds, version), `ORG_UNIT_ATTACHMENT` routing items | create, edit, move of a subtree; list, lookup by path | every operation is many reads followed by one transaction; any other invocation commits in between | the rows form a forest, four materialised views agree, routing resolves to the truth |
| **Tenant seeder and cleanup** `packages/aws/src/lib/tenant/ci-seed-tenants.ts`, `ci-cleanup-seeded-tenants.ts` | seed markers, provenance on items | seed, cleanup | a long loop of reads and transactions beside the handlers | nothing seeded is lost track of, nothing else is removed, children before parents |
| **Tenant lifecycle** `packages/aws/src/lib/tenant` | tenant items: deletion state, status, version, slug index keys | delete (Trash), restore, purge, set status, list | read, check, conditional update | lifecycle order, unique slugs |
| **Resource file transaction** `packages/cli/src/runtime/ci-resource-file-transaction.mjs` | journal, blobs, target files | create, apply, rollback | crash at any step, concurrent edits of the files | all or nothing, or a conflict that is reported and overwrites nothing |
| **Resource Studio** `packages/cli/src/runtime/resource-studio` | journals, deployment intents, local store | create, update and drop an entity; undo; verify, deploy | edits, torn transactions, sessions that change between verification and deployment | undo restores what was there; what is deployed is what was verified |
| **EmberGuard** `packages/emberguard`, its AWS handlers | one item with definition, counters, revision; role assignments under two keys | save, suspend, delete a role; put, delete an assignment; evaluate | definition computed from an older load, two reads of which one is compared | stored definitions compile, every grant is listed, counters are exact |
| **Settings** `packages/core/src/lib/settings`, the store in `packages/aws` | a System record with enforcement rules, one copy per target | read, save, overwrite | pages open for long, two records read one after the other, copies made by the first read | no lost edit, no enforced field changed |
| **User management** the template's user service and actions, the Cognito handlers and their guard | Cognito identities, `UserProfile` items, role assignments | create, suspend, activate, delete, restore, purge | two stores without a transaction; each call may fail and is repeated | the stores agree, Root stays out of reach |
| **Root user bootstrap** `packages/aws/src/server/backend/root-user` | the same identities and profiles | one idempotent command of seven calls | interrupted runs, a changed configuration | one Root User, complete in the end |
| **Module graph, extensions** `packages/core/src/lib/module` | none (pure) | resolve, order | cycles, missing and conflicting modules | dependencies first |
| **Handler wrappers, DynamoDB library, Next and UI packages** | none | plumbing and presentation | - | - |
| **Release toolkit** `packages/dev` | git, npm, GitHub | release, stage, publish, mirror | external effects, restarts | no half release |

Interaction: every directory handler runs in a Lambda invocation of its own; the
invocations share nothing but the table.  The Org Unit transactions read the
tenant items (`ConditionCheck` that a tenant exists and is not in Trash); the
tenant handlers do not look at Org Units.  The seeder calls `ciCreateOrgUnit`,
so seeded Org Units differ from others in their provenance and marker only.  The
Resource Studio changes files only through file transactions.  User management and
the bootstrap share the user pool and the profiles; the bootstrap asks nobody, and
the server actions ask the guard, which reads the marker group the bootstrap writes.
Settings read the status of a tenant before they show or save its page.

Hazards are listed in `PROJECT.json`, each at the line where it bites, with the
properties that cover it, or the reason why none does yet.

## 2. What is modelled

### `OrgUnits`: the directory

The table is the state: `units` (the `ORG_UNIT` items, a function from the ids
that exist), `attachments`, `markers` (ids with a seed marker) and `tenants`
(deletion state, read only here).  `pending[a]` is what invocation `a` knows: its
input, the rows it has read, the ids its current batch read still owes, and the
part of the subtree it has accepted.

| code | actions |
|---|---|
| `ciCreateOrgUnit` | `BeginCreate` (input, read of the parent, its checks), `CommitCreate` (the transaction) |
| `ciUpdateOrgUnit` | `BeginUpdate` (read and version check), `ReadOldParent`, `ReadNewParent`, `ReadChild` (one item of the children batch) |
| `loadSubtree` | `ReadDescendant` (one item of a level), `AfterLevel` |
| edit transaction | `CommitEdit` |
| `moveSubtree`, `ciBuildMovedOrgUnitSubtree` | `CommitMove`, `MovedRow` |
| any error or timeout | `FailOperation` |

A read is one step and a `TransactWriteItems` is one step, as DynamoDB promises
for strongly consistent reads and for transactions; between any two steps of one
invocation any other may take any step.  The conditions of a transaction are the
guards of its action, its puts and updates the primed variables.  A condition
that fails disables the action, and the invocation ends in `FailOperation`.

Abstracted: names, descriptions, timestamps; ids and slugs are model values, so
validation of their text is left out (invalid input ends in `FailOperation`).
`childIds` is a set: the code checks that an id is listed once and no property
depends on the order.  The subtree is accepted row by row: a level is a batch read
the code checks when it is complete; accepting an item when it is read refuses the
same subtrees.  `MaxVersion` bounds versions in the guards of the transactions.

### `OrgForest`: what the directory promises

A map from ids to `(parentId, slug, tenants, status)`; add, edit and move are each
one step, and a move is allowed only outside the moved node's own subtree.
`OrgUnits!ImplementsOrgForest` is `OrgForest!Spec` under the mapping `Nodes`,
which forgets paths, predecessors, child lists, versions, attachments and
everything in progress.

### `SeederCleanup`: the seeder and the cleanup beside the directory

EXTENDS `OrgUnits` with `tenantMarkers` and one `cleanup` invocation: its query
(`BeginCleanup`), the depth reads (`ReadDepth`), the visits deepest first
(`PreserveUnit`, `VisitUnit`, `ReadParentOfVisited`, `DeleteUnit` or
`DeleteUnitCancelled`), the tenants (`CleanupTenant`, or `CleanupTenantFails`), the end or
death of the invocation (`EndCleanup`); `SeedTenant`; and the tenant handlers as the
directory sees them (`DeleteTenant`, `RestoreTenant`, `PurgeTenant`).  The provenance of a
tenant is not state: only the seeder puts tenants here, so one that a marker names is the
seeded one or gone, and the branch for a foreign tenant is left out.  `SeederSpec` lets everything
interleave.  `QuietSpec` gives the cleanup the table to itself, as a developer
running it on an idle stack would, after any history of the handlers.  The
pages of the marker query are one step; one seeder id is modelled.

### `ResourceFileTransaction`: journalled changes of several files

`files` and `dirs` are the application on disk, `journals` the `transaction.json` of
every transaction, `call` the one call in progress: its step, what its loop still
owes, and its journal in memory, which a crash loses.  The Studio's server runs its
mutations one after the other (`ci-resource-studio-server.mjs:155`), so there is one
call; a developer edits the same files beside it (`Edit`).

| code | actions |
|---|---|
| `ciCreateResourceFileTransaction` | `BeginCreate`, `Snapshot` (one target), `MakeTransactionDirectory`, `Prepare`, `AbandonCreate` |
| `ciApplyResourceFileTransaction` | `BeginApply`, `Inspect`, `MarkApplying`, `MakeDirectory` and `RecordDirectory`, `Compare` and `Replace` (one target), `Verify`, `MarkApplied` |
| `ciRollbackResourceFileTransaction`, `ciRollbackJournal` | `BeginRollback`, `SurveyTarget`, `MarkRollingBack`, `Recompare` and `Restore`, `RemoveDirectory`, `VerifyBefore`, `MarkRolledBack`, `MarkConflicted` |
| the `catch` of apply | `AfterError` |
| a failing call, a dying process | `Fail`, `Crash` |

Every access to the file system is a step of its own, so errors, crashes and edits
fall between any two.  A journal write replaces the file by rename: it happened or
not, and may report an error after it happened (`WriteJournal`).  A file's content
and mode are one model value.  Blobs are written before the journal that names them
and never changed, so they are not state.  Loops visit their targets in any order, of
which the code's sorted order is one.  `touched` and `disturbed` are history: who
else changed a file, which only the properties read.  Left out: symbolic links and
paths outside the application (refused before anything is changed), temporary files
a crash leaves behind, and file systems without hard links, where a new file is
written in place.

### `ResourceStudio`: entities, undo, deployment

Above the file transactions, each of which is one step here that ends in one of the
statuses `ResourceFileTransaction` shows to be true.  `files` are the generated files
(a descriptor and a generated file for each entity, and the registry), `transactions`
the journals, `call` the request that holds the queue, `intents` what the server keeps
of verified targets.

| code | actions |
|---|---|
| `createEntity`, `updateEntity`, `dropEntity` | `PlanChange`, `CompareWorkspace`, `Prepare`, `Apply` |
| `undo` | `BeginUndo` (by id, or the latest applied), `Rollback` |
| verification of a target | `BeginVerify`, `LoginEnds`, `IssueIntent` |
| `deploy` | `BeginDeploy` (the intent is consumed and compared), `ConfirmIdentity`, `DeployEnds` |
| everything else | `CommandFails`, `ExpireIntent`, `Edit`, `Interrupt`, `Restart` |

The content of a descriptor is its plural name, of a generated file the name it was
generated from, of the registry the set of its entities: what the planners compare.

### `EmberguardAccess`: roles and their assignments

`state` is the single item (definition, counters, revision), `records` and `collection`
the two stored forms of the assignments.  A request is one administrator's: `SaveRole`,
`SetRoleStatus`, `DeleteRole`, `PutRoleAssignment`, `DeleteRoleAssignment` load the
definition, check it and compute the next one; the handler then takes `Check`,
`ReadState` and `ListAssignments` in either order (the code starts both at once), and
`Commit` or `Conflict`; a save of a role is repeated once (`Retry`).  A definition is a
map from roles to a status and the roles they inherit.  Validation is translated from the
registry compiler, counters from the projection.  Simplified: of the default catalog the
two core roles are kept (the role `user`, which the administrator inherits, has no
privilege over the administration); the assignment-only role of a system super
administrator's manager, with its two checks in the handler, is left out; and a deletion
is refused for a core role because the page sends the record with the origin it was
listed with, which is all the code looks at.

### `TenantSettings` and `SettingsLedger`: one group of settings

`system` and `copies` are the stored records, `session[u]` the page an administrator
has open and the request it runs.  `Open`, `Save`, `SaveSystem` and `Overwrite` begin a
request; `Validate`, `ReadSource`, `ReadCopy`, `Initialize` (the first use of a target
creates its copy), `ReadWinner` and `PrepareSystem` are its reads; `CommitSave`,
`CommitOverwrite`, `CommitSystem` its transactions with the conditions of the store.  A
page keeps what it was shown until it is saved, so any number of other saves fall
between.  `SettingsLedger` says what is promised without requests: four atomic
changes of the stored records, on the records as they then are.

### `UserAccounts`: accounts and the Root User

`identity` is the user pool (enabled, the reserved marker group, the core groups),
`profile` the items, `assigned` who has role assignments.  A server action goes through
`Start` (the record loaded, the ranks compared), `DropAssignments` (purge),
`ReadProfile`, `Guard` (the Cognito handler looks at the groups of the actor and of the
target again), `WriteIdentity`, `WriteProfile`, `Assign`, and `GuardUndo` and `UndoCreate`
(a create whose profile failed), each of which may `Fail`; the administrator repeats
(`Retry`).  The bootstrap
is `StartRun`, `LookUpRoot`, `CreateRoot`, `ClaimMarker`, `AddMarker`, `SetPassword`,
`AddCoreGroups`, `WriteRootProfile`, with `StopRun` between any two and `Configure` to
change the Root email.  Nothing keeps the server actions away from the configured email:
an administrator may have created the account, or be suspending, deleting or purging it
while the bootstrap adopts it, and the bootstrap may create anew an account whose former
identity was purged (operations on the former one then reach an id that is gone).  Its
owner chooses a password (`ChoosePassword`) and the pool may ask for a new one
(`ResetPassword`), which a rerun then overwrites.  Administrator rank is a constant.
`overtaken` is history: accounts on which, when the marker came, an operation had passed
its last look (`PastLook`), or whose password was chosen while a run was about to set it.  `unsettled` is history: the
accounts two requests have worked on at once, that a stale page has worked on, or that
an administrator gave up; the properties that speak of finished operations leave them
out, since the code promises nothing there.  Assumed: one operator runs the bootstrap at
a time.

## 3. What the runs check

| run | instance | shows |
|---|---|---|
| `forest` | 3 Org Units, 1 tenant, 2 slugs, 2 handlers, versions to 3 | `TypeOK`; `Forest`: parentId, childIds, path and predecessors agree in every reachable table; `Predecessors`: predecessors agree along paths; `VersionIdentifiesRow`: equal versions mean equal rows; `AttachmentsSound`: an attachment copies the row of an existing Org Unit attached to the tenant, and a (tenant, path) key resolves to one Org Unit; `ImplementsOrgForest`: every create, edit and move is one atomic step of the abstract forest |
| `quiet` | 3 Org Units, 1 tenant, 2 slugs, seeded and unseeded, 1 handler | `CleanupTypeOK`, `Forest`, `SeededUnitsMarked` (markers name exactly the seeded Org Units, so the branch for a marker without its Org Unit is never taken), `CleanupComplete` (what remains seeded has a child that could not be removed, or lost its route to another) |
| `shared` | 2 Org Units, 2 tenants, 2 slugs, seeded and unseeded, 1 handler, transactions of 6 items | `AttachmentsSound` where an edit takes over the route of another Org Unit; `CleanupKeepsForeignRoutes`: a cleanup deletes no attachment of an Org Unit that stays |
| `files` | 2 files, one below 2 nested directories, 3 images, 1 transaction, 2 edits | `TypeOK`; `StatusTellsTheTruth`: whatever failed or crashed, a file nobody else changed is what the journal's status says, and in a resumable status one of its two images; `DriftStopsTheCall`: no call writes a file when a target had drifted before it began; `DirectoriesRemoved`: a rollback that ends well leaves none of the directories it journalled, but those in use |
| `studio` | 2 entities, 2 names, 2 profiles, 2 identities, 2 transactions, 1 edit, 2 intents of which 1 is kept | `TypeOK`; `FilesAgree`: without edits and torn transactions the files are what the descriptors generate, also after an undo out of turn; `LastInFirstOut`: the applied transactions are a stack of changes; `DeploysAsVerified`: a deployment starts for what was verified, once for each intent |
| `access` | a system and a super administrator, the 2 core roles and 1 other, 2 users, 1 assignment id, 1 tenant, 2 commits | `TypeOK`; `DefinitionSound`: the stored definition compiles and only the super role reaches itself; `GrantsListed`: every grant has its copy for administration; `AssignmentsKeepDefinition`: a change of an assignment does not undo one of the definition; `CountersExactWhenListedLast` |
| `settings` | 2 administrators, of which 1 may enforce, 1 tenant, 2 fields of 2 values, System revision to 1, copies to 2 | `TypeOK`; `ImplementsLedger`; `UneditedFieldsKept` (no lost update); `LockedFieldsKept`: the local value of an enforced field survives; `SystemEditsKept` |
| `users` | an existing administrator and an account that is created by an administrator or by the bootstrap, 2 requests, 1 failure | `TypeOK`; `StoresAgree`: finished operations leave identity and profile in agreement; `PurgeLeavesNothing`: no assignment survives a purge |
| `root_user` | 2 Root emails, one of an existing administrator, 1 request, 2 turns (interruptions, changes of the configured email, runs for a complete Root User) | `OneRoot`; `RootProtected`: from the marker on no server action touches the account, whatever it was admitted to before; `PasswordKept`; `BootstrapConverges` |
| `containment` | violation | finding 1 |
| `projection` | violation | finding 2 |
| `purge` | violation | finding 3 |

**Bounds.**  Two handlers are enough for a read of one and a commit of the other
in any order; three Org Units give a chain of three (a descendant whose path and
predecessors are spliced on both sides of the moved root), two siblings, and two
moves that would close a cycle; two tenants give an edit that attaches one and
detaches another, and equal paths in different tenants.  Versions up to 3 allow
two writes of a row after its creation, enough for one read to become stale and
for two operations to commit; the theorems of section 5 hold without the bound
being small.  Symmetry permutes values the modules never compare but for equality,
and is used in no run with a liveness property.  For the file transaction, two files
give one written and one not yet written when a step fails, two nested directories an
order of creation and removal, a third image a developer's content that is neither of
the transaction's, and two edits (`MaxEdits`) one that drifts and one that undoes it.

Two Studio transactions can be undone in and out of turn, and one kept intent of two
issued makes the older one give way; `HistoryLimit` is above the number of
transactions, so the run says nothing of a history that is cut (observation 5 below).
Two commits on the access-control item (`MaxRevision`) give a request that read before
the first and commits after it; the three roles give an inheritance cycle through any
role.  In the settings two saves of a copy and one of the System record suffice for a
page older than either record; a System record that changes three times during one
request is above the bound, so `ReadWinner` repeats its snapshot there but never gives up.
A second save of the System record would release the lock that the first one set: the run
does not reach that (`MaxSystem`), the theorem `HiddenValuesSurvive` does.  For the
accounts, one failure (`MaxFailures`) splits one operation at any step, its repetition
runs to the end, and two requests let a second operation fall anywhere into the first; an
administrator and another account give an actor, a target and oneself.  Two turns
(`MaxTurns`) stop the bootstrap twice, or once with a change of configuration before or
after, or run it again for a Root User who has chosen a password; in the run `users` the
bootstrap runs uninterrupted beside the requests.

**Deadlock** is checked in every run of the directory, the cleanup, the Studio and the
settings: a handler can always start or fail, the cleanup always goes on, a tenant can
always be suspended.  A file transaction that is rolled back is done for good, an
access-control item at `MaxRevision` takes no further commit, and in the accounts' runs
every administrator may be suspended or purged with failures and turns spent: those runs
may stop.

**Fairness.**  None is assumed for the Lambda handlers, the Studio and the file
transactions, and no liveness is claimed there: an invocation may time out at any step, a
process die, and nothing retries on its own.  `UserAccounts!BootstrapSpec` asks of the
operator only: weak fairness for a run of the bootstrap, which the documentation asks to
repeat ("rerunning it repairs ...").  Under it the bootstrap converges, once
administrators leave the account alone, which is the premise of `BootstrapConverges`.
`FairSpec` adds weak fairness for the steps of a running request (a server action is served
to its end, or fails, which is bounded) and for the administrator's repetition of what
failed and of a purge that is still offered; under it a purge still may never complete.

## 4. Findings

1. *Tenant containment* (`containment`).  The documentation says that the child's
   tenants are always a subset of the parent's
   (`docs/docs/core-system/multi-Tenancy/org-unit-management.mdx:39`).  The
   edit's transaction conditions on the version of the edited row only
   (`ci-update-org-unit.ts:464`): while one handler detaches a tenant from a
   parent, having read its children, another attaches it to a child, having read
   the parent.
2. *Projection* (`projection`).  State and assignments are read in parallel
   (`emberguard.ts:119`) and the transaction conditions on the revision of the state.  A
   list from before another administrator's commit with a state from after it passes,
   and the counters miss an assignment, against
   `docs/docs/core-system/authorization/dynamodb-persistence.mdx:82`.  A list that is not
   older than the state gives exact counters (`CountersExactWhenListedLast`).
3. *Purge* (`purge`).  A purge whose last call fails has deleted the identity.
   `purgeUserAction` (`actions.ts:752`) loads the record with its identity first and throws
   from then on, so Trash offers a profile it cannot remove, against
   `docs/docs/users-management/intro.mdx:126`.

Observations met while modelling, which no run states (those with a line are hazards in
`PROJECT.json`):

1. An edit puts attachments without a condition (`ci-update-org-unit.ts:478`) where create
   and move require a free key: attaching an Org Unit to a tenant in which another has
   the same path replaces the other's attachment.  `AttachmentsSound` bounds the damage:
   what remains stored is true.
2. The cleanup checks `childIds` on a row it read and deletes on the provenance alone
   (`ci-cleanup-seeded-tenants.ts:245`); a child created in between survives without its
   parent.
3. A rollback compares a file and then renames over or unlinks whatever is there
   (`ci-resource-file-transaction.mjs:823`): what an editor saves in between is lost.
4. A process that dies between creating a transaction's directory and its journal leaves
   a directory that makes every later reading of the history fail
   (`ci-resource-studio-service.mjs:571`), and with it undo.
5. The history is cut to the latest 50 journals whatever their status before the latest
   applied one is looked for, so an applied transaction older than 50 others cannot be
   undone.
6. An undo by id may bring back a list query that a later change has given to another entity;
   planning then refuses until the descriptor is edited by hand.
7. Deleting a role assignment of a tenant leaves its copy in the collection
   (`provider.ts:465`): the delete is given no tenant.  `GrantsListed` holds, the converse
   does not, and the counters count the copy.
8. A definition is computed from a load that the handler's revision does not cover
   (`ci-emberguard-access-handlers.ts:223`): of two saves that overlap, the later one wins whole.
9. A stale page may activate a user in Trash (`app-user-management-service.ts:550`).
10. The bootstrap adopts an account that exists.  An operation that has passed the guard
   when the marker is added (`ci-bootstrap-root-user.ts:126`) still disables or deletes the
   new Root User, and a purge drops assignments before any guard, although
   `docs/docs/users-management/intro.mdx:109-110` calls status and deletion state of Root
   immutable.  A password the owner chooses after the run has looked at the account
   (line 203) is replaced by the configured one.  `RootProtected` and `PasswordKept` hold of
   all other accounts (`overtaken`).

## 5. What is proved

Every invariant and every action property of the passing runs is a theorem, and so are
both refinements.  Eight modules hold the proofs, each about one module above.  They
assume nothing but that module's ASSUMEs: sets of ids, tenants, users, files, entities
and handlers are any sets, finite or not (but for the roles, of which a stored
definition holds finitely many), and every bound is any number.

| Proofs | About | Properties proved for all constants |
|---|---|---|
| `OrgUnitsProofs` | `OrgUnits`, `OrgForest` | `TypeOK`, `Forest`, `Predecessors`, `VersionIdentifiesRow`, `AttachmentsSound`, `ImplementsOrgForest`, and the invariants behind them, among them that predecessors are those the parent links lead to (`GenuinePredecessors`) |
| `OrgForestProofs` | `OrgForest` | no cycles, parents exist |
| `SeederCleanupProofs` | `SeederCleanup`, on top of `OrgUnitsProofs` | under `QuietSpec`: `CleanupTypeOK`, `SeededUnitsMarked`, `Forest`, `AttachmentsSound`, `CleanupComplete`, `CleanupKeepsForeignRoutes` |
| `ResourceFileTransactionProofs` | `ResourceFileTransaction` | `TypeOK`, `StatusTellsTheTruth`, `DriftStopsTheCall`, `DirectoriesRemoved` |
| `ResourceStudioProofs` | `ResourceStudio` | `TypeOK`, `FilesAgree`, `LastInFirstOut`, `DeploysAsVerified` |
| `TenantSettingsProofs` | `TenantSettings`, `SettingsLedger` | `TypeOK`, `ImplementsLedger`, `UneditedFieldsKept`, `LockedFieldsKept`, `SystemEditsKept` |
| `UserAccountsProofs` | `UserAccounts` | `TypeOK`, `RootProtected`, `OneRoot`, `PasswordKept`, `StoresAgree`, `PurgeLeavesNothing` |
| `EmberguardAccessProofs` | `EmberguardAccess` | `TypeOK`, `DefinitionSound`, `GrantsListed`, `AssignmentsKeepDefinition`, `CountersExactWhenListedLast` |

What the ASSUMEs say: special values (`NoId`, `Absent`, `Nothing`, `Foreign`) are none of
the ordinary ones; limits are natural numbers (`MaxCopy` is positive: a tenant's copy exists
once it has a revision); the System page is no target of a tenant's page
(`PageAssumption`); directories form a finite tree (`TreeAssumption`, used for
`DirectoriesRemoved` only); the two core roles are distinct and no application's roles, of which
there are finitely many (`AccessAssumption`: a definition and its counters are one stored
item); the Studio keeps at least one journal and one intent (`StudioAssumption`).  Of the
accounts nothing is assumed but types (`AccountsAssumption`): a Root email may belong to
an account that exists from the start.

### The directory

**Why an inductive invariant.**  `Forest` alone is not inductive.  A move writes rows
computed from what was read long ago; to know that they agree with the table one
needs that a row whose version is unchanged *is* the row that was read
(`VersionIdentifiesRow`), what an operation has read by each of its steps, and
that a subtree about to be moved is connected to its root and closed under its
rows' child lists (`OperationOK`).  To know that the new parent is not below the
moved root, one needs that predecessors are genuine: the move is refused when a
row of the subtree is one of the two parents, and the loaded subtree is, by
`Forest` and closure, all the Org Units below the root.  Splicing a descendant's
predecessors after the root's position needs that positions are depths
(`Predecessors`).  `IInv` is the conjunction of these.

**Argument.**  Reads keep `IInv` because they change the invocation only
(`ReadKeepsInvariant`, one lemma per read).  Writes keep what other invocations
have read, because every write moves the version of every row it changes
(`WriteKeepsReads`).  `CommitCreateStep`, `CommitEditStep` and `CommitMoveStep`
then show the table's part, conjunct by conjunct; the move splits rows into those
of the subtree, its two parents and the others, and uses `SplicedPath` and
`SplicedIds`, facts about sequences, for the rows below the root.

**Refinement.**  The abstract forest asks that an Org Unit's tenants be among its
parent's *as the operation saw them*, and that the new parent lie outside the moved
subtree.  The first needs one more invariant (`Admitted`: a committing operation's
tenants are within those of the parent it read); the second is witnessed by the
loaded subtree, a set closed under children by `OperationOK` that holds the root and
not the new parent.
Every other step of the directory is a stutter of the forest.

**Routing.**  `AttachmentsSound` is inductive together with `IInv`.  A commit replaces the
attachments of the rows it rewrites (`RoutesRewritten`); a moved row's new path is the new
root path and the old remainder (`PathsExtend`, `ReplacedPrefix`), so distinct rows of one
subtree never get the same key (`MovedKeysApart`), and a key taken over from another Org
Unit names the row that took it.

### The cleanup

Quiet means that the handlers are idle when the cleanup begins and start again when it
has ended (`QuietNext`); before and after, anything the directory's own specification
allows may happen, any number of times.  `QInv` is therefore the directory's `IInv`
and `AttachmentsSound`, the markers (`SeededUnitsMarked`, which is needed for the rows a
marker names to be there), and what the invocation knows: every marker to visit has a
depth that was read and is still right (`DepthsRead`), the Org Unit being visited has no
children and rows as they were read (`Visiting`), and `PassedOver`: a marker the loop has
left behind belongs to an Org Unit that has children or has lost a route, and that is at
least as deep as any to come.  The last part is what `CleanupComplete` needs: a later
delete removes no child of an Org Unit that was passed over, for a child would be
deeper.  Deleting a childless row keeps the forest because nobody names it
(`DeleteKeepsForest` and what it cites).  With handlers beside the cleanup
(`SeederSpec`) the invariant is lost, see observation 2 of section 4 and the hazards.

### The file transaction

The status on disk is only as true as what the call in progress knows, so the invariant
ties three things together, step by step: the status (`DiskAgrees`: from `mkdir` to
`finish` the disk says "applying"; during a restore it says "rolling-back"; a failed write
of the journal may leave either), the images in memory, which are those on disk, and
how far the loop has come (`Progress`: of the targets still to do every file is as
before, of the others as after).  `Progress` is stated for a set of files and holds for
two: those nobody else has changed since the transaction read them, which gives
`StatusTellsTheTruth`, and those no developer has edited since the call began, which gives
`DriftStopsTheCall`.  An error always leads to a state from which `Survey` may start
(`ErrorGood`), and a journal write is shown once for all its three outcomes (`WriteStep`).
`DirectoriesRemoved` has its own invariant (`Removing`): directories visited are gone or
kept for a reason, and none left to visit is deeper, so removing one never empties
another that was kept (`DeeperBelow`, by cardinality of what is above).

### The Resource Studio

* **Types** (`TInv`) include that never more than `IntentLimit` intents are kept: issuing
  one evicts the earliest when there is no room (`RoomLeft`, by cardinality).
* **`DeploysAsVerified`.**  `IntentsInv`: the numbers that ran and those still kept are
  apart, and a call about to confirm carries an intent it has taken out of the store,
  that was compared with the profile and the plan of the call; without edits the files
  still match the plan, because the server does one thing at a time.
* **`LastInFirstOut`** speaks of the latest of a set of journals, `Max`, a CHOOSE; the
  proof first shows that finite sets of positions have one (`LeastNatural`, by a least
  counterexample in place of an induction).  The invariant is the property itself
  (`Stacked`), stated of any content and journals, so that one lemma says what applying
  the latest transaction does to it and another what undoing it does.
* **`FilesAgree`** is not inductive: an undo out of turn restores some files' images from
  a time when other entities were different.  `AgreeInv` adds why that is harmless: every
  transaction changes one entity, its images are those of two plans that differ in that
  entity, on the files in which the two plans differ (`OneChange`).  `ChangeTaken` is the
  heart: if the files of *any* plan show one end of such a change, then with the other
  end in its place they are again the files of a plan.

### Settings, accounts, access control

* **Settings.**  What a page or a request has read is a record of the past, and *is* the stored
  one while the revision is the same (`IInv`).  The conditional write compares the revision, so
  what is merged is the record as it stands: the commit is a step of the ledger on the current
  record, and a field left as the page showed it, or one that is locked, gets back the value it has.
* **Accounts.**  `RootInv` says how far a run of the bootstrap has come with its account
  (`Bootstrapped`) and that an operation on a marked account still has its look at the groups before
  it (`RootGuarded`): the marker itself puts an account with an operation past that look among those
  `overtaken`, no later operation is admitted or passes the guard, and creating the account anew
  takes the old one's operations with it.  No assumption keeps operations off Root emails.  `Settled` says, for every
  request, which of its writes are done; a user no request works on is then in one of the states in
  which the two stores agree.
* **Access control.**  A request's `read` is of the past, and is the stored definition while the
  revision is the stored one (`RequestOK`).  A put or delete of an assignment writes back the
  definition it read under a condition on that revision, which is why it cannot undo a change.
  `SoundInv` says that the stored definition and everything a request is about to save are
  sound; what is saved replaces the definition as a whole, so the one it overwrites does not
  matter (`ChangedSound`).  The ranking `DefinitionSound` asks for is the number of roles a
  role reaches (`ValidRanked`).  `ListedInv` says that a list made at the stored revision is the
  collection, since every transaction raises the revision; `WriteAsComputed` then compares what
  the handler computes with what its transaction does.

**Only model-checked:** `BootstrapConverges`, which is liveness and out of the prover's
reach.  The three properties of the runs that expect a violation are false.

## 6. Not modelled

See `components` of `PROJECT.json`.  Presentation (`packages/ui`, `packages/next`),
request plumbing and generated code keep no state whose interleavings could go wrong.
They are most of the repository's lines, so the map covers a small share of it and
will not cover much more.  The module graph is a pure function of its input, and the
release toolkit drives git, npm and GitHub, whose behaviour would have to be invented.

Of the modelled components: list and lookup handlers (they write nothing), the retry of
unprocessed keys of a batch read (its failure is a `FailOperation`), malformed seed
markers, several seeder ids, more than one cleanup at a time; status, version and slug
index of tenants; the Studio's settings and logs; domains, resources and privileges of
the access-control definition, which are saved along the path of a role, and the
evaluation of one decision; personal settings and several groups in one transaction;
edits of user profiles, roles and passwords, and the delegation of user management.

## 7. Plan

1. `TenantDirectory`: the lifecycle handlers read by read, with status, version and
   slug index; composed with the directory and a cleanup that is not alone, with what
   remains true of the table then.
2. Proofs: an abstract specification of the Studio's session (a stack of plans) with
   `ResourceStudio` as its implementation; the same for the access-control item.
3. The module graph as operators against a reference definition.
