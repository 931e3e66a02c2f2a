---------------------------- MODULE EmberguardAccess ----------------------------
(***************************************************************************)
(* The access-control state of EmberGuard on AWS: one DynamoDB item with   *)
(* the definition, counters for each role and a revision, beside the role  *)
(* assignments, which are stored twice.                                    *)
(*                                                                         *)
(* An administrator's request loads the definition, computes a change of   *)
(* it (security administration) and calls a Lambda handler, which reads    *)
(* the state and the assignments again, in parallel, and writes all in one *)
(* transaction conditional on the revision of the state.                   *)
(***************************************************************************)
EXTENDS Integers, FiniteSets, Functions

CONSTANTS
  Super,        \* role system-super-admin
  Admin,        \* role system-admin, which alone grants the administration
  AppRoles,     \* ids of roles of the application
  Subjects,     \* users
  Ids,          \* ids of role assignments
  Tenants,      \* tenants of scoped assignments
  Global,       \* the tenant of an assignment without one
  Admins,       \* administrators with a request
  Supers,       \* those with the role Super, the others have Admin
  MaxRevision   \* bound of the model: revisions

CoreRoles == {Super, Admin}
Roles == CoreRoles \cup AppRoles

\* Role ids are finitely many: a definition and its counters fit in one stored item.
ASSUME AccessAssumption ==
  /\ Super # Admin /\ CoreRoles \cap AppRoles = {} /\ IsFiniteSet(AppRoles)
  /\ Global \notin Tenants /\ Supers \subseteq Admins
  /\ MaxRevision \in Nat

VARIABLES
  state,       \* the access-control state: definition, counters and revision
  records,     \* role assignments in the partitions of their subjects
  collection,  \* their copies for administration
  pending      \* for each administrator, the request in progress

vars == <<state, records, collection, pending>>

-----------------------------------------------------------------------------
(* Definitions: the roles, each with its status and the roles it inherits. *)

Assignments ==
  [id : Ids, subject : Subjects, role : Roles, tenant : Tenants \cup {Global}]

Active(d, r) == r \in DOMAIN d /\ d[r].status = "active"

\* The roles reached from one by inheritance, through roles of some set.
Reached(d, r, through) ==
  LET closed == {S \in SUBSET DOMAIN d :
                   /\ d[r].inherits \cap DOMAIN d \subseteq S
                   /\ \A x \in S \cap through :
                        d[x].inherits \cap DOMAIN d \subseteq S}
  IN  {x \in DOMAIN d : \A S \in closed : x \in S}

ActiveRoles(d) == {r \in DOMAIN d : Active(d, r)}

\* The roles whose privileges an assignment of a role grants.
Effective(d, r) ==
  IF Active(d, r)
  THEN {r} \cup {x \in ActiveRoles(d) :
                   x \in Reached(Restrict(d, ActiveRoles(d)), r, ActiveRoles(d))}
  ELSE {}

\* Faulty variant of Valid: inheritance cycles are not looked for.
ValidIgnoringCycles(d) == \A r \in DOMAIN d : d[r].inherits \subseteq DOMAIN d

Valid(d) ==
  \A r \in DOMAIN d : d[r].inherits \subseteq DOMAIN d /\ r \notin Reached(d, r, DOMAIN d)

\* What a change of a core role has to preserve.
Bootstraps(d) ==
  /\ Active(d, Super) /\ Admin \in d[Super].inherits
  /\ \A r \in DOMAIN d \ {Super} : Super \notin Reached(d, r, DOMAIN d)

\* Counters: for each role the number of its direct and of its inherited users.
Holders(S, r) == {x.subject : x \in {y \in S : y.role = r}}

InheritingSubjects(d, S, r) ==
  IF ~Active(d, r) THEN {}
  ELSE UNION {Holders(S, x) : x \in {y \in DOMAIN d \ {r} : r \in Effective(d, y)}}
         \ Holders(S, r)

Counters(d, S) ==
  [r \in DOMAIN d |-> [direct |-> Cardinality(Holders(S, r)),
                       inherited |-> Cardinality(InheritingSubjects(d, S, r))]]

-----------------------------------------------------------------------------
(* Requests.                                                               *)

NoState == [definition |-> [r \in {} |-> {}], revision |-> -1]

\* listedAt, the revision when the assignments were listed, is history.
Idle == [step |-> "idle", operation |-> <<"none">>, next |-> NoState.definition,
         read |-> NoState, listed |-> {}, listedAt |-> -1, retried |-> FALSE]

RoleOf(a) == IF a \in Supers THEN Super ELSE Admin
CanManage(d, a) == Admin \in Effective(d, RoleOf(a))
CanManageCore(d, a) == Super \in Effective(d, RoleOf(a))

Kind(a) == pending[a].operation[1]
ChangesDefinition(a) == Kind(a) \in {"saveRole", "setRoleStatus", "deleteRole"}

\* The definition an operation makes of the one that was loaded.
Changed(d, op) ==
  CASE op[1] = "saveRole" ->
         [r \in DOMAIN d \cup {op[2]} |-> IF r = op[2] THEN op[3] ELSE d[r]]
    [] op[1] = "setRoleStatus" -> [d EXCEPT ![op[2]].status = op[3]]
    [] op[1] = "deleteRole" -> Restrict(d, DOMAIN d \ {op[2]})
    [] OTHER -> d

\* A core role is changed by an override, which preserves the bootstrap access.
OverridePermitted(d, a, op) ==
  op[2] \in CoreRoles => CanManageCore(d, a) /\ Bootstraps(Changed(d, op))

\* The checks of the security administration against the definition it loaded.
\* A deletion is refused by the origin of the record it is sent: here a page sends
\* the record as it was listed, where the origin of a core role is "core".
Permitted(d, a, op) ==
  /\ CanManage(d, a)
  /\ CASE op[1] = "saveRole" ->
            /\ Super \notin {op[2]} \cup Reached(Changed(d, op), op[2], Roles)
            /\ OverridePermitted(d, a, op)
       [] op[1] = "setRoleStatus" ->
            /\ op[2] \in DOMAIN d /\ d[op[2]].status # op[3]
            /\ op[2] = Super => op[3] # "suspended"
            /\ OverridePermitted(d, a, op)
       [] op[1] = "deleteRole" -> op[2] \in DOMAIN d \ CoreRoles
       [] op[1] = "put" -> op[2].role = Super => a \in Supers
       [] op[1] = "delete" -> TRUE
  /\ Valid(Changed(d, op))

\* A request loads the definition and calls the handler of its operation.
Load(a, op, retried) ==
  /\ Permitted(state.definition, a, op)
  /\ pending' = [pending EXCEPT ![a] =
       [Idle EXCEPT !.operation = op, !.next = Changed(state.definition, op),
                    !.retried = retried,
                    !.step = IF op[1] = "put" THEN "read" ELSE "check"]]
  /\ UNCHANGED <<state, records, collection>>

Request(a, op) ==
  /\ pending[a] = Idle /\ state.revision < MaxRevision
  /\ Load(a, op, FALSE)

SaveRole(a, r, status, inherits) ==
  Request(a, <<"saveRole", r, [status |-> status, inherits |-> inherits]>>)
SetRoleStatus(a, r, status) == Request(a, <<"setRoleStatus", r, status>>)
DeleteRole(a, r) == Request(a, <<"deleteRole", r>>)

\* An assignment of the collection is edited, or a new one gets an id of its own.
PutRoleAssignment(a, x) ==
  /\ \/ \E y \in collection : y.id = x.id
     \/ \A b \in Admins : Kind(b) = "put" => pending[b].operation[2].id # x.id
  /\ Request(a, <<"put", x>>)

DeleteRoleAssignment(a, i, s) == Request(a, <<"delete", i, s>>)

-----------------------------------------------------------------------------
(* The handlers.                                                           *)

\* Nobody but a super administrator changes the core roles of a definition, ...
CoreUnchanged(d, next) ==
  \A r \in CoreRoles : r \in DOMAIN next /\ next[r] = d[r]

\* ... or deletes an assignment of the role Super.
Unprotected(a) ==
  IF Kind(a) = "delete"
  THEN \A x \in records :
         x.id = pending[a].operation[2] /\ x.subject = pending[a].operation[3]
           => x.role # Super
  ELSE CoreUnchanged(state.definition, pending[a].next)

Check(a) ==
  /\ pending[a].step = "check"
  /\ pending' = [pending EXCEPT ![a] =
       IF a \in Supers \/ Unprotected(a) THEN [@ EXCEPT !.step = "read"] ELSE Idle]
  /\ UNCHANGED <<state, records, collection>>

\* The state and the assignments are read in parallel.
ReadState(a) ==
  /\ pending[a].step = "read" /\ pending[a].read = NoState
  /\ pending' = [pending EXCEPT ![a].read =
       [definition |-> state.definition, revision |-> state.revision]]
  /\ UNCHANGED <<state, records, collection>>

ListAssignments(a) ==
  /\ pending[a].step = "read" /\ pending[a].listedAt = -1
  /\ pending' = [pending EXCEPT ![a].listed = collection,
                                ![a].listedAt = state.revision]
  /\ UNCHANGED <<state, records, collection>>

AllRead(a) ==
  /\ pending[a].step = "read"
  /\ pending[a].read # NoState /\ pending[a].listedAt # -1

\* Faulty variant of NextAssignments: a put does not replace what it edits.
NextAssignmentsAppended(S, op) ==
  CASE op[1] = "put" -> S \cup {op[2]}
    [] op[1] = "delete" -> {x \in S : x.id # op[2] \/ x.subject # op[3]}
    [] OTHER -> S

\* The assignments a put or a delete makes of those that were listed.
NextAssignments(S, op) ==
  CASE op[1] = "put" -> {x \in S : x.id # op[2].id} \cup {op[2]}
    [] op[1] = "delete" -> {x \in S : x.id # op[2] \/ x.subject # op[3]}
    [] OTHER -> S

NextDefinition(a) ==
  IF ChangesDefinition(a) THEN pending[a].next ELSE pending[a].read.definition

\* Faulty variant of NextState: the counters are those of the definition it replaces.
NextStateCountingOld(a) ==
  [definition |-> NextDefinition(a),
   counters |-> Counters(pending[a].read.definition,
                         NextAssignments(pending[a].listed, pending[a].operation)),
   revision |-> pending[a].read.revision + 1]

NextState(a) ==
  [definition |-> NextDefinition(a),
   counters |-> Counters(NextDefinition(a),
                         NextAssignments(pending[a].listed, pending[a].operation)),
   revision |-> pending[a].read.revision + 1]

SameRecord(x, y) == x.id = y.id /\ x.subject = y.subject
SameCopy(x, y) == SameRecord(x, y) /\ x.tenant = y.tenant

\* Faulty variant of Put: the copy it replaces is removed also when it has the same key.
PutComparingNoKeys(x, replaced) ==
  /\ records' = {y \in records : ~SameRecord(y, x)
                    /\ \A z \in replaced : ~SameRecord(y, z)} \cup {x}
  /\ collection' = {y \in collection \cup {x} :
                       \A z \in replaced : ~SameCopy(y, z)}

\* A put removes the record and the copy of the assignment it replaces, when they
\* have other keys, ...
Put(x, replaced) ==
  /\ records' = {y \in records : ~SameRecord(y, x)
                    /\ \A z \in replaced : ~SameRecord(y, z)} \cup {x}
  /\ collection' = {y \in collection : ~SameCopy(y, x)
                       /\ \A z \in replaced : ~SameCopy(y, z)} \cup {x}

\* ... and a delete, which is given no tenant, the copy of an assignment without one.
Delete(i, s) ==
  /\ records' = {y \in records : ~(y.id = i /\ y.subject = s)}
  /\ collection' =
       {y \in collection : ~(y.id = i /\ y.subject = s /\ y.tenant = Global)}

\* What a put replaces: one of the listed assignments with its id.
Replaced(a) ==
  LET same == {x \in pending[a].listed : x.id = pending[a].operation[2].id}
  IN  IF same = {} THEN {{}} ELSE {{x} : x \in same}

WriteAssignments(a) ==
  LET op == pending[a].operation IN
  \/ op[1] = "put" /\ \E replaced \in Replaced(a) : Put(op[2], replaced)
  \/ op[1] = "delete" /\ Delete(op[2], op[3])
  \/ ChangesDefinition(a) /\ UNCHANGED <<records, collection>>

\* Faulty variant of RevisionHolds: the write is not conditional.
RevisionNotCompared(a) == TRUE

RevisionHolds(a) == state.revision = pending[a].read.revision

Commit(a) ==
  /\ AllRead(a) /\ RevisionHolds(a)
  /\ state' = NextState(a)
  /\ WriteAssignments(a)
  /\ pending' = [pending EXCEPT ![a] = Idle]

\* Refused, unless the definition to save is stored meanwhile.  The save of a role
\* is tried once more, from a new load.
Conflict(a) ==
  /\ AllRead(a) /\ ~RevisionHolds(a)
  /\ LET again == /\ Kind(a) = "saveRole" /\ ~pending[a].retried
                  /\ state.definition # pending[a].next
     IN  pending' = [pending EXCEPT ![a] =
           IF again THEN [Idle EXCEPT !.step = "again", !.operation = pending[a].operation]
                    ELSE Idle]
  /\ UNCHANGED <<state, records, collection>>

Retry(a) == pending[a].step = "again" /\ Load(a, pending[a].operation, TRUE)

\* A call that fails or is cut off changes nothing.
Fail(a) ==
  /\ pending[a].step # "idle"
  /\ pending' = [pending EXCEPT ![a] = Idle]
  /\ UNCHANGED <<state, records, collection>>

-----------------------------------------------------------------------------
Default ==
  [r \in Roles \ AppRoles |->
     [status |-> "active", inherits |-> IF r = Super THEN {Admin} ELSE {}]]

Init ==
  /\ state = [definition |-> Default, counters |-> Counters(Default, {}),
              revision |-> 0]
  /\ records = {} /\ collection = {}
  /\ pending = [a \in Admins |-> Idle]

Statuses == {"active", "suspended"}

RequestStep(a) ==
  \/ \E r \in Roles, s \in Statuses, i \in SUBSET Roles : SaveRole(a, r, s, i)
  \/ \E r \in Roles, s \in Statuses : SetRoleStatus(a, r, s)
  \/ \E r \in Roles : DeleteRole(a, r)
  \/ \E x \in Assignments : PutRoleAssignment(a, x)
  \/ \E i \in Ids, s \in Subjects : DeleteRoleAssignment(a, i, s)

HandlerStep(a) ==
  Check(a) \/ ReadState(a) \/ ListAssignments(a) \/ Commit(a) \/ Conflict(a)

Next == \E a \in Admins : RequestStep(a) \/ Retry(a) \/ HandlerStep(a) \/ Fail(a)

Spec == Init /\ [][Next]_vars
-----------------------------------------------------------------------------
(* Properties.                                                             *)

IsDefinition(d) ==
  /\ CoreRoles \subseteq DOMAIN d /\ DOMAIN d \subseteq Roles
  /\ \A r \in DOMAIN d : d[r].status \in Statuses /\ d[r].inherits \subseteq Roles

\* The type invariant.
TypeOK ==
  /\ IsDefinition(state.definition)
  /\ DOMAIN state.counters = DOMAIN state.definition
  /\ state.revision \in Nat
  /\ records \subseteq Assignments /\ collection \subseteq Assignments
  /\ \A a \in Admins :
       /\ pending[a].step \in {"idle", "check", "read", "again"}
       /\ pending[a].step \in {"check", "read"} => IsDefinition(pending[a].next)
       /\ pending[a].read # NoState => pending[a].read.revision <= state.revision
       /\ pending[a].listed \subseteq Assignments

\* Safety.  Whatever requests overlap, the authorizer can compile the stored definition:
\* it inherits no unknown role and has no cycle, although every request validates only
\* what it makes of the definition it loaded; and only Super reaches Super.
DefinitionSound ==
  LET d == state.definition IN
  /\ \E rank \in [DOMAIN d -> 1 .. Cardinality(Roles)] :
       \A r \in DOMAIN d : \A x \in d[r].inherits : x \in DOMAIN d /\ rank[x] < rank[r]
  /\ Active(d, Super) /\ Admin \in d[Super].inherits
  /\ \A r \in DOMAIN d : Super \notin d[r].inherits

\* Safety.  Every assignment that grants a role is seen by administrators: its copy is
\* in the collection, also when an id moves between users and tenants, or two handlers
\* move it at once.  The converse does not hold, see CopiesAgree.
GrantsListed == records \subseteq collection

\* Action property.  An assignment is put or deleted without undoing a change of the
\* definition that was saved between the handler's read and its transaction.
AssignmentsKeepDefinition ==
  [][records' # records => state'.definition = state.definition]_vars

\* Claimed by the documentation: an assignment has two transactionally maintained
\* addresses.
CopiesAgree == records = collection

IdsOnce(S) == \A x, y \in S : x.id = y.id => x = y

\* Action property.  A handler that listed the assignments at the revision its write is
\* conditional on, and found every id once, stores exact counters, unless it leaves a
\* copy behind: they are computed before the transaction, from what it assumes the
\* transaction does.
CountersExactWhenListedLast ==
  [][\A a \in Admins :
       state'.revision > state.revision /\ pending'[a] # pending[a]
         /\ pending[a].listedAt = state.revision /\ IdsOnce(pending[a].listed)
         /\ CopiesAgree'
         => state'.counters = Counters(state'.definition, collection')]_vars

\* Claimed by the documentation: no stale projection is ever committed.
CountersExact == state.counters = Counters(state.definition, collection)
=============================================================================
