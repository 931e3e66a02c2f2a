------------------------ MODULE EmberguardAccessProofs ------------------------
(***************************************************************************)
(* Proofs about EmberguardAccess, for any roles, users, assignment ids,    *)
(* tenants and administrators: the stored definition stays sound, no       *)
(* assignment undoes a change of it, every assignment that grants a role   *)
(* is listed, and counters are exact in the cases the property states.     *)
(***************************************************************************)
EXTENDS EmberguardAccess, FiniteSetTheorems, TLAPS

-----------------------------------------------------------------------------
(* Types.  The definitions, operations and requests there are.             *)

RoleRecords == [status : Statuses, inherits : SUBSET Roles]
Definitions == UNION {[S -> RoleRecords] : S \in SUBSET Roles}
SavedDefinitions == {d \in Definitions : CoreRoles \subseteq DOMAIN d}

Operations ==
  {<<"saveRole", r, record>> : r \in Roles, record \in RoleRecords} \cup
  {<<"setRoleStatus", r, s>> : r \in Roles, s \in Statuses} \cup
  {<<"deleteRole", r>> : r \in Roles} \cup
  {<<"put", x>> : x \in Assignments} \cup
  {<<"delete", i, s>> : i \in Ids, s \in Subjects}

ReadStates == [definition : Definitions, revision : Int]

RequestRecords ==
  [step : {"idle", "check", "read", "again"},
   operation : Operations \cup {<<"none">>}, next : Definitions, read : ReadStates,
   listed : SUBSET Assignments, listedAt : Int, retried : BOOLEAN]

StateOK ==
  /\ state = [definition |-> state.definition, counters |-> state.counters,
              revision |-> state.revision]
  /\ state.definition \in SavedDefinitions
  /\ DOMAIN state.counters = DOMAIN state.definition
  /\ state.revision \in Nat

-----------------------------------------------------------------------------
(* The invariant.  A request has read a state of the past: the definition  *)
(* is the stored one while the revision is.  What it saves is a definition *)
(* with the core roles.                                                    *)

RequestOK(p) ==
  /\ p \in RequestRecords
  /\ p.step # "idle" => p.operation \in Operations
  /\ p.step \in {"check", "read"} => p.next \in SavedDefinitions
  /\ p.read # NoState =>
       /\ p.read.definition \in SavedDefinitions
       /\ p.read.revision <= state.revision
       /\ p.read.revision = state.revision => p.read.definition = state.definition

IInv ==
  /\ StateOK
  /\ records \subseteq Assignments /\ collection \subseteq Assignments
  /\ GrantsListed
  /\ pending \in [Admins -> RequestRecords]
  /\ \A a \in Admins : RequestOK(pending[a])

-----------------------------------------------------------------------------
LEMMA IdleOK == Idle \in RequestRecords /\ Idle.step = "idle" /\ Idle.read = NoState
<1>1. NoState.definition \in Definitions
  <2>1. [r \in {} |-> {}] \in [{} -> RoleRecords]
    OBVIOUS
  <2> QED BY <2>1 DEF NoState, Definitions
<1>2. NoState \in ReadStates
  BY <1>1 DEF NoState, ReadStates
<1> QED BY <1>1, <1>2 DEF Idle, RequestRecords

LEMMA DefaultOK == Default \in SavedDefinitions
<1>1. Default \in [Roles \ AppRoles -> RoleRecords]
  BY AccessAssumption DEF Default, RoleRecords, Statuses, Roles, CoreRoles
<1>2. DOMAIN Default = CoreRoles
  BY AccessAssumption DEF Default, Roles
<1> QED BY <1>1, <1>2 DEF SavedDefinitions, Definitions

LEMMA InitOK == Init => IInv
<1> SUFFICES ASSUME Init PROVE IInv
  OBVIOUS
<1>1. StateOK
  <2>1. DOMAIN Counters(Default, {}) = DOMAIN Default
    BY DEF Counters
  <2> QED BY <2>1, DefaultOK DEF Init, StateOK
<1>2. \A a \in Admins : RequestOK(pending[a])
  BY IdleOK DEF Init, RequestOK
<1> QED BY <1>1, <1>2, IdleOK DEF Init, IInv, GrantsListed

\* A definition an operation makes, once it is valid, is one that may be saved.
LEMMA ChangedOK ==
  ASSUME NEW d \in SavedDefinitions, NEW op \in Operations, NEW a, Permitted(d, a, op)
  PROVE  Changed(d, op) \in SavedDefinitions
<1>1. PICK S \in SUBSET Roles : d \in [S -> RoleRecords] /\ CoreRoles \subseteq S
  BY DEF SavedDefinitions, Definitions
<1>2. CASE \E r \in Roles, record \in RoleRecords : op = <<"saveRole", r, record>>
  <2>1. PICK r \in Roles, record \in RoleRecords : op = <<"saveRole", r, record>>
    BY <1>2
  <2>2. Changed(d, op) = [x \in S \cup {r} |-> IF x = r THEN record ELSE d[x]]
    BY <1>1, <2>1 DEF Changed
  <2>3. Changed(d, op) \in [S \cup {r} -> RoleRecords]
    BY <1>1, <2>2
  <2> QED BY <1>1, <2>3 DEF SavedDefinitions, Definitions
<1>3. CASE \E r \in Roles, s \in Statuses : op = <<"setRoleStatus", r, s>>
  <2>1. PICK r \in Roles, s \in Statuses : op = <<"setRoleStatus", r, s>>
    BY <1>3
  <2>2. Changed(d, op) = [d EXCEPT ![r].status = s]
    BY <2>1 DEF Changed
  <2>3. r \in S
    BY <1>1, <2>1 DEF Permitted
  <2>4. Changed(d, op) \in [S -> RoleRecords]
    BY <1>1, <2>2, <2>3 DEF RoleRecords
  <2> QED BY <1>1, <2>4 DEF SavedDefinitions, Definitions
<1>4. CASE \E r \in Roles : op = <<"deleteRole", r>>
  <2>1. PICK r \in Roles : op = <<"deleteRole", r>>
    BY <1>4
  <2>2. Changed(d, op) = [x \in S \ {r} |-> d[x]]
    BY <1>1, <2>1 DEF Changed, Restrict
  <2>3. r \notin CoreRoles
    BY <2>1 DEF Permitted
  <2>4. Changed(d, op) \in [S \ {r} -> RoleRecords] /\ CoreRoles \subseteq S \ {r}
    BY <1>1, <2>2, <2>3
  <2> QED BY <2>4, <1>1 DEF SavedDefinitions, Definitions
<1>5. CASE (\E x \in Assignments : op = <<"put", x>>)
             \/ \E i \in Ids, s \in Subjects : op = <<"delete", i, s>>
  BY <1>5 DEF Changed
<1> QED BY <1>2, <1>3, <1>4, <1>5 DEF Operations

-----------------------------------------------------------------------------
(* Steps that change a request only.                                       *)

LEMMA RequestChanges ==
  ASSUME IInv, UNCHANGED <<state, records, collection>>,
         NEW a \in Admins, NEW p, RequestOK(p), pending' = [pending EXCEPT ![a] = p]
  PROVE  IInv'
<1>1. \A b \in Admins : pending'[b] = IF b = a THEN p ELSE pending[b]
  BY DEF IInv
<1>2. pending' \in [Admins -> RequestRecords]
  BY DEF IInv, RequestOK
<1>3. \A b \in Admins : RequestOK(pending[b])'
  <2> SUFFICES ASSUME NEW b \in Admins PROVE RequestOK(pending[b])'
    OBVIOUS
  <2>1. RequestOK(pending[b])
    BY DEF IInv
  <2> QED BY <1>1, <2>1 DEF RequestOK
<1>4. StateOK'
  BY DEF IInv, StateOK
<1> QED BY <1>2, <1>3, <1>4 DEF IInv, GrantsListed

LEMMA LoadKeeps ==
  ASSUME IInv, NEW a \in Admins, NEW op \in Operations, NEW retried \in BOOLEAN,
         Load(a, op, retried)
  PROVE  IInv'
<1> DEFINE p == [Idle EXCEPT !.operation = op, !.next = Changed(state.definition, op),
                    !.retried = retried,
                    !.step = IF op[1] = "put" THEN "read" ELSE "check"]
<1>1. Changed(state.definition, op) \in SavedDefinitions
  BY ChangedOK DEF IInv, StateOK, Load
<1>2. /\ p \in RequestRecords /\ p.operation = op /\ p.read = NoState
      /\ p.next = Changed(state.definition, op)
  BY <1>1, IdleOK DEF RequestRecords, SavedDefinitions
<1>3. RequestOK(p)
  BY <1>1, <1>2 DEF RequestOK
<1>4. pending' = [pending EXCEPT ![a] = p]
  BY DEF Load
<1> HIDE DEF p
<1> QED BY <1>3, <1>4, RequestChanges DEF Load

LEMMA IdleKeeps ==
  ASSUME IInv, UNCHANGED <<state, records, collection>>, NEW a \in Admins,
         pending' = [pending EXCEPT ![a] = Idle]
  PROVE  IInv'
<1>1. RequestOK(Idle)
  BY IdleOK DEF RequestOK
<1> QED BY <1>1, RequestChanges

\* A request loads the definition for the operation it is made for.
LEMMA RequestLoads ==
  ASSUME NEW a \in Admins, RequestStep(a)
  PROVE  \E op \in Operations : Load(a, op, FALSE)
<1>1. ASSUME NEW r \in Roles, NEW s \in Statuses, NEW i \in SUBSET Roles,
             SaveRole(a, r, s, i)
      PROVE  \E op \in Operations : Load(a, op, FALSE)
  <2>1. [status |-> s, inherits |-> i] \in RoleRecords
    BY DEF RoleRecords
  <2>2. <<"saveRole", r, [status |-> s, inherits |-> i]>> \in Operations
    BY <2>1 DEF Operations
  <2> QED BY <1>1, <2>2 DEF SaveRole, Request
<1>2. ASSUME NEW r \in Roles, NEW s \in Statuses, SetRoleStatus(a, r, s)
      PROVE  \E op \in Operations : Load(a, op, FALSE)
  <2>1. <<"setRoleStatus", r, s>> \in Operations
    BY DEF Operations
  <2> QED BY <1>2, <2>1 DEF SetRoleStatus, Request
<1>3. ASSUME NEW r \in Roles, DeleteRole(a, r)
      PROVE  \E op \in Operations : Load(a, op, FALSE)
  <2>1. <<"deleteRole", r>> \in Operations
    BY DEF Operations
  <2> QED BY <1>3, <2>1 DEF DeleteRole, Request
<1>4. ASSUME NEW x \in Assignments, PutRoleAssignment(a, x)
      PROVE  \E op \in Operations : Load(a, op, FALSE)
  <2>1. <<"put", x>> \in Operations
    BY DEF Operations
  <2> QED BY <1>4, <2>1 DEF PutRoleAssignment, Request
<1>5. ASSUME NEW i \in Ids, NEW s \in Subjects, DeleteRoleAssignment(a, i, s)
      PROVE  \E op \in Operations : Load(a, op, FALSE)
  <2>1. <<"delete", i, s>> \in Operations
    BY DEF Operations
  <2> QED BY <1>5, <2>1 DEF DeleteRoleAssignment, Request
<1> QED BY <1>1, <1>2, <1>3, <1>4, <1>5 DEF RequestStep

LEMMA RequestKeeps ==
  ASSUME IInv, NEW a \in Admins, RequestStep(a)
  PROVE  IInv'
BY RequestLoads, LoadKeeps

LEMMA RetryKeeps ==
  ASSUME IInv, NEW a \in Admins, Retry(a)
  PROVE  IInv'
<1>1. pending[a].operation \in Operations
  BY DEF IInv, RequestOK, Retry
<1> QED BY <1>1, LoadKeeps DEF Retry

LEMMA CheckKeeps ==
  ASSUME IInv, NEW a \in Admins, Check(a)
  PROVE  IInv'
<1>1. CASE pending' = [pending EXCEPT ![a] = Idle]
  BY <1>1, IdleKeeps DEF Check
<1>2. CASE pending' = [pending EXCEPT ![a] = [@ EXCEPT !.step = "read"]]
  <2> DEFINE p == [pending[a] EXCEPT !.step = "read"]
  <2>1. RequestOK(pending[a]) /\ pending[a].step = "check"
    BY DEF IInv, Check
  <2>2. RequestOK(p)
    BY <2>1 DEF RequestOK, RequestRecords
  <2>3. pending' = [pending EXCEPT ![a] = p]
    BY <1>2
  <2> HIDE DEF p
  <2> QED BY <2>2, <2>3, RequestChanges DEF Check
<1> QED BY <1>1, <1>2 DEF Check

LEMMA ReadStateKeeps ==
  ASSUME IInv, NEW a \in Admins, ReadState(a)
  PROVE  IInv'
<1> DEFINE s == [definition |-> state.definition, revision |-> state.revision]
           p == [pending[a] EXCEPT !.read = s]
<1>1. RequestOK(pending[a]) /\ pending[a].step = "read"
  BY DEF IInv, ReadState
<1>2. s \in ReadStates /\ s.definition \in SavedDefinitions
  BY DEF IInv, StateOK, ReadStates, SavedDefinitions
<1>3. RequestOK(p)
  <2> HIDE DEF s
  <2>1. p \in RequestRecords /\ p.read = s /\ p.step = "read"
        /\ p.operation = pending[a].operation /\ p.next = pending[a].next
    BY <1>1, <1>2 DEF RequestOK, RequestRecords
  <2>2. s.definition = state.definition /\ s.revision = state.revision
    BY DEF s
  <2>3. state.revision \in Nat
    BY DEF IInv, StateOK
  <2> HIDE DEF p
  <2> QED BY <1>1, <1>2, <2>1, <2>2, <2>3 DEF RequestOK
<1>4. pending' = [pending EXCEPT ![a] = p]
  BY DEF ReadState, IInv
<1> HIDE DEF p
<1> QED BY <1>3, <1>4, RequestChanges DEF ReadState

LEMMA ListKeeps ==
  ASSUME IInv, NEW a \in Admins, ListAssignments(a)
  PROVE  IInv'
<1> DEFINE p == [pending[a] EXCEPT !.listed = collection, !.listedAt = state.revision]
<1>1. RequestOK(pending[a]) /\ pending[a].step = "read"
  BY DEF IInv, ListAssignments
<1>2. RequestOK(p)
  <2>1. state.revision \in Nat /\ collection \in SUBSET Assignments
    BY DEF IInv, StateOK
  <2>2. PICK n \in Nat, S \in SUBSET Assignments : n = state.revision /\ S = collection
    BY <2>1
  <2>3. pending[a] \in RequestRecords
    BY <1>1 DEF RequestOK
  <2>4. p = [[pending[a] EXCEPT !.listed = S] EXCEPT !.listedAt = n]
    BY <2>2
  <2> HIDE DEF p
  <2>5. PICK q : q = [pending[a] EXCEPT !.listed = S]
    OBVIOUS
  <2>6. q \in RequestRecords /\ q.read = pending[a].read /\ q.step = pending[a].step
        /\ q.operation = pending[a].operation /\ q.next = pending[a].next
    BY <2>3, <2>5 DEF RequestRecords
  <2>7. p = [q EXCEPT !.listedAt = n]
    BY <2>4, <2>5
  <2>8. p \in RequestRecords /\ p.read = pending[a].read /\ p.step = "read"
        /\ p.operation = pending[a].operation /\ p.next = pending[a].next
    BY <1>1, <2>6, <2>7 DEF RequestRecords
  <2> QED BY <1>1, <2>8 DEF RequestOK
<1>3. pending' = [pending EXCEPT ![a] = p]
  BY DEF ListAssignments, IInv
<1> HIDE DEF p
<1> QED BY <1>2, <1>3, RequestChanges DEF ListAssignments

LEMMA ConflictKeeps ==
  ASSUME IInv, NEW a \in Admins, Conflict(a)
  PROVE  IInv'
<1> DEFINE p == [Idle EXCEPT !.step = "again", !.operation = pending[a].operation]
<1>1. CASE pending' = [pending EXCEPT ![a] = Idle]
  BY <1>1, IdleKeeps DEF Conflict
<1>2. CASE pending' = [pending EXCEPT ![a] = p]
  <2>1. pending[a].operation \in Operations
    BY DEF IInv, RequestOK, Conflict, AllRead
  <2>2. p \in RequestRecords /\ p.step = "again" /\ p.operation = pending[a].operation
        /\ p.read = NoState
    BY <2>1, IdleOK DEF RequestRecords
  <2>3. RequestOK(p)
    BY <2>1, <2>2 DEF RequestOK
  <2> HIDE DEF p
  <2> QED BY <1>2, <2>3, RequestChanges DEF Conflict
<1> QED BY <1>1, <1>2 DEF Conflict

-----------------------------------------------------------------------------
(* The transaction.                                                        *)

\* Assignments are put and deleted in both places; a copy goes with its record.
LEMMA WriteKeepsListed ==
  ASSUME IInv, NEW a \in Admins, AllRead(a), WriteAssignments(a)
  PROVE  /\ records' \subseteq Assignments /\ collection' \subseteq Assignments
         /\ GrantsListed'
<1>1. pending[a].operation \in Operations
  BY DEF IInv, RequestOK, AllRead
<1>2. records \subseteq collection /\ collection \subseteq Assignments
  BY DEF IInv, GrantsListed
<1>3. ASSUME NEW replaced, pending[a].operation[1] = "put",
             Put(pending[a].operation[2], replaced)
      PROVE  records' \subseteq collection' /\ collection' \subseteq Assignments
  <2>1. PICK x \in Assignments : pending[a].operation = <<"put", x>>
    BY <1>1, <1>3 DEF Operations
  <2>2. Put(x, replaced)
    BY <1>3, <2>1
  <2> QED BY <1>2, <2>2 DEF Put, SameCopy
<1>4. ASSUME Delete(pending[a].operation[2], pending[a].operation[3])
      PROVE  records' \subseteq collection' /\ collection' \subseteq Assignments
  BY <1>2, <1>4 DEF Delete
<1>5. records' \subseteq collection' /\ collection' \subseteq Assignments
  BY <1>2, <1>3, <1>4 DEF WriteAssignments
<1> QED BY <1>5 DEF GrantsListed

\* What is stored is the definition of a request that changes it, or the one it read.
LEMMA CommitDefinition ==
  ASSUME IInv, NEW a \in Admins, Commit(a)
  PROVE  /\ StateOK' /\ state'.revision = state.revision + 1
         /\ ~ChangesDefinition(a) => state'.definition = state.definition
<1>1. RequestOK(pending[a]) /\ pending[a].step = "read" /\ pending[a].read # NoState
      /\ pending[a].read.revision = state.revision
  BY DEF IInv, Commit, AllRead, RevisionHolds
<1>2. pending[a].read.definition = state.definition
      /\ pending[a].next \in SavedDefinitions
      /\ pending[a].read.definition \in SavedDefinitions
  BY <1>1 DEF RequestOK
<1>3. NextDefinition(a) \in SavedDefinitions
      /\ (~ChangesDefinition(a) => NextDefinition(a) = state.definition)
  BY <1>2 DEF NextDefinition
<1>4. PICK S : S = NextAssignments(pending[a].listed, pending[a].operation)
  OBVIOUS
<1>5. PICK d : d = NextDefinition(a)
  OBVIOUS
<1>6. PICK c : c = Counters(d, S)
  OBVIOUS
<1>7. DOMAIN c = DOMAIN d
  BY <1>6 DEF Counters
<1>8. state' = [definition |-> d, counters |-> c, revision |-> state.revision + 1]
  BY <1>1, <1>4, <1>5, <1>6 DEF Commit, NextState
<1> QED BY <1>3, <1>5, <1>7, <1>8 DEF StateOK, IInv

LEMMA CommitKeeps ==
  ASSUME IInv, NEW a \in Admins, Commit(a)
  PROVE  IInv'
<1>1. StateOK' /\ state'.revision = state.revision + 1
  BY CommitDefinition
<1>2. records' \subseteq Assignments /\ collection' \subseteq Assignments /\ GrantsListed'
  BY WriteKeepsListed DEF Commit
<1>3. pending' = [pending EXCEPT ![a] = Idle]
  BY DEF Commit
<1>4. pending' \in [Admins -> RequestRecords]
  BY <1>3, IdleOK DEF IInv
<1>5. \A b \in Admins : RequestOK(pending[b])'
  <2> SUFFICES ASSUME NEW b \in Admins PROVE RequestOK(pending[b])'
    OBVIOUS
  <2>1. RequestOK(pending[b]) /\ state.revision \in Nat
    BY DEF IInv, StateOK
  <2>2. CASE b = a
    <3>1. pending'[b] = Idle
      BY <1>3, <2>2 DEF IInv
    <3> QED BY <3>1, IdleOK DEF RequestOK
  <2>3. CASE b # a
    <3>1. pending'[b] = pending[b]
      BY <1>3, <2>3 DEF IInv
    <3>2. pending[b].read.revision \in Int
      BY <2>1 DEF RequestOK, RequestRecords, ReadStates
    <3> QED BY <1>1, <2>1, <3>1, <3>2 DEF RequestOK
  <2> QED BY <2>2, <2>3
<1> QED BY <1>1, <1>2, <1>4, <1>5 DEF IInv

\* Whatever is stored changes in the transaction of a handler only.
LEMMA OnlyCommits ==
  ASSUME [Next]_vars, ~UNCHANGED <<state, records, collection>>
  PROVE  \E a \in Admins : Commit(a)
BY DEF vars, Next, RequestStep, SaveRole, SetRoleStatus, DeleteRole,
   PutRoleAssignment, DeleteRoleAssignment, Request, Load, Retry, HandlerStep,
   Check, ReadState, ListAssignments, Conflict, Fail

LEMMA StepKeepsInvariant == IInv /\ [Next]_vars => IInv'
<1> SUFFICES ASSUME IInv, [Next]_vars PROVE IInv'
  OBVIOUS
<1>1. CASE UNCHANGED vars
  BY <1>1 DEF vars, IInv, StateOK, GrantsListed, RequestOK
<1>2. CASE Next
  <2>1. PICK a \in Admins : RequestStep(a) \/ Retry(a) \/ HandlerStep(a) \/ Fail(a)
    BY <1>2 DEF Next
  <2>2. CASE Fail(a)
    BY <2>2, IdleKeeps DEF Fail
  <2>3. CASE HandlerStep(a)
    BY <2>3, CheckKeeps, ReadStateKeeps, ListKeeps, CommitKeeps, ConflictKeeps
    DEF HandlerStep
  <2> QED BY <2>1, <2>2, <2>3, RequestKeeps, RetryKeeps
<1> QED BY <1>1, <1>2

-----------------------------------------------------------------------------
(* Soundness of the definition.  A definition a request is about to save   *)
(* is sound when the definition it was made of was, and the one it is      *)
(* stored over does not matter: it is replaced as a whole.                 *)

\* Valid, with the role Super active, above Admin and inherited by nobody.
Sound(d) ==
  /\ Valid(d) /\ Active(d, Super) /\ Admin \in d[Super].inherits
  /\ \A r \in DOMAIN d : Super \notin d[r].inherits

SoundInv ==
  /\ Sound(state.definition)
  /\ \A a \in Admins : pending[a].step \in {"check", "read"} => Sound(pending[a].next)

\* What a role inherits is reached from it, and what is reached from that.
LEMMA ReachedStep ==
  ASSUME NEW d, NEW r \in DOMAIN d, NEW x \in d[r].inherits, x \in DOMAIN d
  PROVE  /\ \A through : x \in Reached(d, r, through)
         /\ Reached(d, x, DOMAIN d) \subseteq Reached(d, r, DOMAIN d)
  BY DEF Reached

\* A valid definition has a ranking of its roles, by the number of roles they reach,
\* which every inheritance lowers.
LEMMA ValidRanked ==
  ASSUME NEW d \in SavedDefinitions, Valid(d)
  PROVE  \E rank \in [DOMAIN d -> 1 .. Cardinality(Roles)] :
           \A r \in DOMAIN d : \A x \in d[r].inherits : x \in DOMAIN d /\ rank[x] < rank[r]
<1> DEFINE below(r) == Reached(d, r, DOMAIN d)
           rank == [r \in DOMAIN d |-> Cardinality(below(r)) + 1]
<1>1. IsFiniteSet(Roles) /\ DOMAIN d \subseteq Roles
  <2>1. DOMAIN d \subseteq Roles
    BY DEF SavedDefinitions, Definitions
  <2>2. IsFiniteSet(AppRoles \cup {Super})
    BY AccessAssumption, FS_AddElement
  <2>3. IsFiniteSet((AppRoles \cup {Super}) \cup {Admin})
    BY <2>2, FS_AddElement
  <2>4. Roles = (AppRoles \cup {Super}) \cup {Admin}
    BY DEF Roles, CoreRoles
  <2> QED BY <2>1, <2>3, <2>4
<1>2. ASSUME NEW r \in DOMAIN d
      PROVE  IsFiniteSet(below(r)) /\ rank[r] \in 1 .. Cardinality(Roles)
  <2>1. below(r) \subseteq Roles \ {r}
    BY <1>1 DEF Valid, Reached
  <2>2. IsFiniteSet(Roles \ {r}) /\ Cardinality(Roles \ {r}) = Cardinality(Roles) - 1
    BY <1>1, FS_RemoveElement
  <2>3. IsFiniteSet(below(r)) /\ Cardinality(below(r)) <= Cardinality(Roles \ {r})
    BY <2>1, <2>2, FS_Subset
  <2>4. Cardinality(below(r)) \in Nat /\ Cardinality(Roles) \in Nat
    BY <1>1, <2>3, FS_CardinalityType
  <2>5. rank[r] = Cardinality(below(r)) + 1
    OBVIOUS
  <2> HIDE DEF below, rank
  <2> QED BY <2>2, <2>3, <2>4, <2>5
<1>3. ASSUME NEW r \in DOMAIN d, NEW x \in d[r].inherits
      PROVE  x \in DOMAIN d /\ rank[x] < rank[r]
  <2>1. x \in DOMAIN d
    BY DEF Valid
  <2>2. x \in below(r) /\ below(x) \subseteq below(r)
    BY <2>1, ReachedStep
  <2>3. x \notin below(x)
    BY <2>1 DEF Valid
  <2>4. Cardinality(below(x)) <= Cardinality(below(r))
        /\ Cardinality(below(x)) # Cardinality(below(r))
    <3>1. below(x) \in SUBSET below(r) /\ below(x) # below(r)
      BY <2>2, <2>3
    <3>2. IsFiniteSet(below(r))
      BY <1>2
    <3> HIDE DEF below
    <3> QED BY <3>1, <3>2, FS_Subset
  <2>5. Cardinality(below(x)) \in Nat /\ Cardinality(below(r)) \in Nat
    BY <1>2, <2>1, FS_CardinalityType
  <2>6. rank[x] = Cardinality(below(x)) + 1 /\ rank[r] = Cardinality(below(r)) + 1
    BY <2>1
  <2> HIDE DEF below, rank
  <2> QED BY <2>1, <2>4, <2>5, <2>6
<1>4. rank \in [DOMAIN d -> 1 .. Cardinality(Roles)]
  BY <1>2
<1> HIDE DEF rank
<1> QED BY <1>3, <1>4

LEMMA DefaultSound == Sound(Default)
<1>1. /\ DOMAIN Default = {Super, Admin}
      /\ Default[Super] = [status |-> "active", inherits |-> {Admin}]
      /\ Default[Admin] = [status |-> "active", inherits |-> {}]
  BY AccessAssumption DEF Default, Roles, CoreRoles
<1>2. Super \notin Reached(Default, Super, DOMAIN Default)
  <2>1. {Admin} \in SUBSET DOMAIN Default
    BY <1>1
  <2>2. \A x \in {Admin} \cap DOMAIN Default :
          Default[x].inherits \cap DOMAIN Default \subseteq {Admin}
    BY <1>1
  <2> QED BY <1>1, <2>1, <2>2, AccessAssumption DEF Reached
<1>3. Admin \notin Reached(Default, Admin, DOMAIN Default)
  BY <1>1 DEF Reached
<1>4. Valid(Default)
  BY <1>1, <1>2, <1>3 DEF Valid
<1> QED BY <1>1, <1>4, AccessAssumption DEF Sound, Active

\* What an operation makes of a sound definition, when it is permitted, is sound: a
\* role that would reach Super is refused, and a core role is changed by an override
\* that keeps it active.
LEMMA ChangedSound ==
  ASSUME NEW d \in SavedDefinitions, Sound(d), NEW op \in Operations, NEW a,
         Permitted(d, a, op)
  PROVE  Sound(Changed(d, op))
<1> DEFINE e == Changed(d, op)
<1>1. PICK S \in SUBSET Roles : d \in [S -> RoleRecords] /\ CoreRoles \subseteq S
  BY DEF SavedDefinitions, Definitions
<1>2. Valid(e)
  BY DEF Permitted
<1>3. Super \in S /\ d[Super].status = "active" /\ Admin \in d[Super].inherits
      /\ \A r \in S : Super \notin d[r].inherits
  BY <1>1 DEF Sound, Active
<1>4. CASE \E r \in Roles, record \in RoleRecords : op = <<"saveRole", r, record>>
  <2>1. PICK r \in Roles, record \in RoleRecords : op = <<"saveRole", r, record>>
    BY <1>4
  <2>2. e = [x \in S \cup {r} |-> IF x = r THEN record ELSE d[x]]
    BY <1>1, <2>1 DEF Changed
  <2>3. Super # r /\ Super \notin Reached(e, r, Roles)
    BY <2>1 DEF Permitted
  <2>4. DOMAIN e = S \cup {r} /\ e[r] = record /\ \A x \in S \ {r} : e[x] = d[x]
    BY <2>2
  <2> HIDE DEF e
  <2>5. Super \notin record.inherits
    BY <1>3, <2>3, <2>4, ReachedStep
  <2> QED BY <1>2, <1>3, <2>3, <2>4, <2>5 DEF Sound, Active, e
<1>5. CASE \E r \in Roles, s \in Statuses : op = <<"setRoleStatus", r, s>>
  <2>1. PICK r \in Roles, s \in Statuses : op = <<"setRoleStatus", r, s>>
    BY <1>5
  <2>2. e = [d EXCEPT ![r].status = s] /\ (r = Super => s # "suspended")
    BY <2>1 DEF Changed, Permitted
  <2>3. DOMAIN e = S /\ e[Super].status = "active"
        /\ \A x \in S : e[x].inherits = d[x].inherits
    BY <1>1, <1>3, <2>2 DEF Statuses, RoleRecords
  <2> HIDE DEF e
  <2> QED BY <1>2, <1>3, <2>3 DEF Sound, Active, e
<1>6. CASE \E r \in Roles : op = <<"deleteRole", r>>
  <2>1. PICK r \in Roles : op = <<"deleteRole", r>>
    BY <1>6
  <2>2. e = [x \in S \ {r} |-> d[x]] /\ r \notin CoreRoles
    BY <1>1, <2>1 DEF Changed, Restrict, Permitted
  <2>3. r # Super /\ DOMAIN e = S \ {r} /\ \A x \in S \ {r} : e[x] = d[x]
    BY <2>2 DEF CoreRoles
  <2> HIDE DEF e
  <2> QED BY <1>2, <1>3, <2>3 DEF Sound, Active, e
<1>7. CASE (\E x \in Assignments : op = <<"put", x>>)
             \/ \E i \in Ids, s \in Subjects : op = <<"delete", i, s>>
  BY <1>7 DEF Changed
<1> QED BY <1>4, <1>5, <1>6, <1>7 DEF Operations

\* A step leaves every request, or leaves all but one.  That one loads the definition
\* for some operation, goes on to read with what it is about to save, or has nothing
\* to save.
LEMMA OthersUntouched ==
  ASSUME IInv, Next
  PROVE  \E a \in Admins :
           /\ \A b \in Admins \ {a} : pending'[b] = pending[b]
           /\ \/ \E op \in Operations :
                   /\ Permitted(state.definition, a, op)
                   /\ pending'[a].next = Changed(state.definition, op)
              \/ /\ pending[a].step \in {"check", "read"}
                 /\ pending'[a].next = pending[a].next
              \/ pending'[a].step \notin {"check", "read"}
<1>1. PICK a \in Admins : RequestStep(a) \/ Retry(a) \/ HandlerStep(a) \/ Fail(a)
  BY DEF Next
<1>2. pending \in [Admins -> RequestRecords] /\ RequestOK(pending[a])
  BY DEF IInv
<1>3. ASSUME NEW op \in Operations, NEW retried \in BOOLEAN, Load(a, op, retried)
      PROVE  /\ \A b \in Admins \ {a} : pending'[b] = pending[b]
             /\ Permitted(state.definition, a, op)
             /\ pending'[a].next = Changed(state.definition, op)
  BY <1>2, <1>3 DEF Load, Idle
<1>4. CASE RequestStep(a)
  BY <1>3, <1>4, RequestLoads
<1>5. CASE Retry(a)
  <2>1. pending[a].operation \in Operations
    BY <1>2, <1>5 DEF RequestOK, Retry
  <2> QED BY <1>3, <1>5, <2>1 DEF Retry
<1>6. CASE Check(a)
  BY <1>2, <1>6, IdleOK DEF Check, RequestRecords
<1>7. CASE ReadState(a)
  BY <1>2, <1>7 DEF ReadState, RequestRecords
<1>8. CASE ListAssignments(a)
  BY <1>2, <1>8 DEF ListAssignments, RequestRecords
<1>9. CASE Commit(a) \/ Fail(a)
  BY <1>2, <1>9, IdleOK DEF Commit, Fail
<1>10. CASE Conflict(a)
  BY <1>2, <1>10, IdleOK DEF Conflict, RequestRecords
<1> QED BY <1>1, <1>4, <1>5, <1>6, <1>7, <1>8, <1>9, <1>10 DEF HandlerStep

\* The stored definition is changed to one a request is about to save, or not at all.
LEMMA DefinitionReplaced ==
  ASSUME IInv, Next
  PROVE  \/ state'.definition = state.definition
         \/ \E a \in Admins : /\ pending[a].step = "read"
                              /\ state'.definition = pending[a].next
<1> SUFFICES ASSUME state'.definition # state.definition
             PROVE  \E a \in Admins : /\ pending[a].step = "read"
                                      /\ state'.definition = pending[a].next
  OBVIOUS
<1>1. PICK a \in Admins : Commit(a)
  BY OnlyCommits
<1>2. ChangesDefinition(a)
  BY <1>1, CommitDefinition
<1> QED BY <1>1, <1>2 DEF Commit, AllRead, NextState, NextDefinition

LEMMA StepKeepsSound == IInv /\ SoundInv /\ [Next]_vars => SoundInv'
<1> SUFFICES ASSUME IInv, SoundInv, [Next]_vars PROVE SoundInv'
  OBVIOUS
<1>1. CASE UNCHANGED vars
  BY <1>1 DEF vars, SoundInv
<1>2. CASE Next
  <2>1. Sound(state.definition)'
    BY <1>2, DefinitionReplaced DEF SoundInv
  <2>2. PICK a \in Admins :
          /\ \A b \in Admins \ {a} : pending'[b] = pending[b]
          /\ \/ \E op \in Operations :
                  /\ Permitted(state.definition, a, op)
                  /\ pending'[a].next = Changed(state.definition, op)
             \/ /\ pending[a].step \in {"check", "read"}
                /\ pending'[a].next = pending[a].next
             \/ pending'[a].step \notin {"check", "read"}
    BY <1>2, OthersUntouched
  <2>3. ASSUME NEW b \in Admins, pending'[b].step \in {"check", "read"}
        PROVE  Sound(pending'[b].next)
    <3>1. CASE b # a
      BY <2>2, <2>3, <3>1 DEF SoundInv
    <3>2. CASE b = a
      <4>1. state.definition \in SavedDefinitions
        BY DEF IInv, StateOK
      <4> QED BY <2>2, <2>3, <3>2, <4>1, ChangedSound DEF SoundInv
    <3> QED BY <3>1, <3>2
  <2> QED BY <2>1, <2>3 DEF SoundInv
<1> QED BY <1>1, <1>2

-----------------------------------------------------------------------------
(* Counters.  A list of assignments is current while the revision is the   *)
(* one it was made at: every transaction raises the revision.              *)

ListedInv ==
  \A a \in Admins : pending[a].listedAt # -1 =>
    /\ pending[a].listedAt <= state.revision
    /\ pending[a].listedAt = state.revision => pending[a].listed = collection

LEMMA StepKeepsListed == IInv /\ ListedInv /\ [Next]_vars => ListedInv'
<1> SUFFICES ASSUME IInv, ListedInv, [Next]_vars PROVE ListedInv'
  OBVIOUS
<1>1. CASE UNCHANGED vars
  BY <1>1 DEF vars, ListedInv
<1>2. CASE Next
  <2>1. PICK a \in Admins : RequestStep(a) \/ Retry(a) \/ HandlerStep(a) \/ Fail(a)
    BY <1>2 DEF Next
  <2>2. pending \in [Admins -> RequestRecords] /\ state.revision \in Nat
    BY DEF IInv, StateOK
  <2>3. \A b \in Admins : pending[b].listedAt \in Int
    BY <2>2 DEF RequestRecords
  <2>4. ASSUME NEW op, NEW retried, Load(a, op, retried)
        PROVE  ListedInv'
    BY <2>2, <2>4 DEF Load, Idle, ListedInv
  <2>5. CASE RequestStep(a) \/ Retry(a)
    BY <2>4, <2>5, RequestLoads DEF Retry
  <2>6. CASE Check(a) \/ ReadState(a) \/ Conflict(a) \/ Fail(a)
    <3>1. Idle.listedAt = -1
      BY DEF Idle
    <3>2. /\ UNCHANGED <<state, records, collection>>
          /\ \A b \in Admins \ {a} : pending'[b] = pending[b]
          /\ \/ pending'[a].listedAt = -1
             \/ /\ pending'[a].listedAt = pending[a].listedAt
                /\ pending'[a].listed = pending[a].listed
      <4>1. CASE Check(a)
        BY <2>2, <3>1, <4>1 DEF Check, RequestRecords
      <4>2. CASE ReadState(a)
        BY <2>2, <4>2 DEF ReadState, RequestRecords
      <4>3. CASE Conflict(a)
        BY <2>2, <3>1, <4>3 DEF Conflict, Idle
      <4>4. CASE Fail(a)
        BY <2>2, <3>1, <4>4 DEF Fail
      <4> QED BY <2>6, <4>1, <4>2, <4>3, <4>4
    <3> QED BY <3>2 DEF ListedInv
  <2>7. CASE ListAssignments(a)
    <3>1. /\ UNCHANGED <<state, records, collection>>
          /\ \A b \in Admins \ {a} : pending'[b] = pending[b]
          /\ pending'[a].listedAt = state.revision /\ pending'[a].listed = collection
      BY <2>2, <2>7 DEF ListAssignments, RequestRecords
    <3> QED BY <2>2, <3>1 DEF ListedInv
  <2>8. CASE Commit(a)
    <3>1. state'.revision = state.revision + 1
      BY <2>8, CommitDefinition
    <3>2. pending'[a].listedAt = -1 /\ \A b \in Admins \ {a} : pending'[b] = pending[b]
      BY <2>2, <2>8 DEF Commit, Idle
    <3> QED BY <2>2, <2>3, <3>1, <3>2 DEF ListedInv
  <2> QED BY <2>1, <2>5, <2>6, <2>7, <2>8 DEF HandlerStep
<1> QED BY <1>1, <1>2

\* What a handler takes its transaction to do to a collection it listed is what the
\* transaction does, when every id was there once and no copy is left behind.
LEMMA WriteAsComputed ==
  ASSUME IInv, NEW a \in Admins, AllRead(a), WriteAssignments(a),
         pending[a].listed = collection, IdsOnce(collection), CopiesAgree'
  PROVE  collection' = NextAssignments(collection, pending[a].operation)
<1>1. pending[a].operation \in Operations
  BY DEF IInv, RequestOK, AllRead
<1>2. CASE \E x \in Assignments : pending[a].operation = <<"put", x>>
  <2>1. PICK x \in Assignments : pending[a].operation = <<"put", x>>
    BY <1>2
  <2>2. PICK replaced \in Replaced(a) : Put(x, replaced)
    BY <2>1 DEF WriteAssignments, ChangesDefinition, Kind
  <2>3. replaced = {y \in collection : y.id = x.id}
    BY <2>1, <2>2 DEF Replaced, IdsOnce
  <2>4. collection' = {y \in collection : y.id # x.id} \cup {x}
    BY <2>2, <2>3 DEF Put, SameCopy, SameRecord
  <2> QED BY <2>1, <2>4 DEF NextAssignments
<1>3. CASE \E i \in Ids, s \in Subjects : pending[a].operation = <<"delete", i, s>>
  <2>1. PICK i \in Ids, s \in Subjects : pending[a].operation = <<"delete", i, s>>
    BY <1>3
  <2>2. Delete(i, s)
    BY <2>1 DEF WriteAssignments, ChangesDefinition, Kind
  <2>3. collection' = {y \in collection : y.id # i \/ y.subject # s}
    BY <2>2 DEF Delete, CopiesAgree
  <2> QED BY <2>1, <2>3 DEF NextAssignments
<1>4. CASE Kind(a) \in {"saveRole", "setRoleStatus", "deleteRole"}
  BY <1>4 DEF WriteAssignments, NextAssignments, Kind
<1> QED BY <1>1, <1>2, <1>3, <1>4 DEF Operations, Kind

-----------------------------------------------------------------------------
(* The theorems.                                                           *)

\* The invariant holds in every reachable state.
THEOREM InductiveInvariant == Spec => []IInv
BY InitOK, StepKeepsInvariant, PTL DEF Spec

\* The stored definition always has the core roles; it, assignments and requests keep
\* their shape.
THEOREM TypeCorrect == Spec => []TypeOK
<1>1. ASSUME NEW d \in SavedDefinitions PROVE IsDefinition(d)
  BY DEF SavedDefinitions, Definitions, RoleRecords, IsDefinition
<1>2. IInv => TypeOK
  BY <1>1 DEF IInv, StateOK, RequestOK, RequestRecords, TypeOK
<1> QED BY <1>2, InductiveInvariant, PTL

\* An assignment that grants a role never hides from administrators, whatever requests
\* move one id at once.
THEOREM NoHiddenGrant == Spec => []GrantsListed
<1>1. IInv => GrantsListed
  BY DEF IInv
<1> QED BY <1>1, InductiveInvariant, PTL

\* No put or delete of an assignment reverts a definition saved since the handler
\* read the state: its transaction is conditional on the revision of that read.
THEOREM DefinitionKept == Spec => AssignmentsKeepDefinition
<1>1. ASSUME IInv, [Next]_vars, records' # records
      PROVE  state'.definition = state.definition
  <2>1. PICK a \in Admins : Commit(a)
    BY <1>1, OnlyCommits
  <2>2. ~ChangesDefinition(a)
    BY <1>1, <2>1 DEF Commit, WriteAssignments, ChangesDefinition, Kind
  <2> QED BY <1>1, <2>1, <2>2, CommitDefinition
<1>2. IInv /\ [Next]_vars
        => [records' # records => state'.definition = state.definition]_vars
  BY <1>1
<1> QED BY <1>2, InductiveInvariant, PTL DEF Spec, AssignmentsKeepDefinition

\* Whatever requests overlap, and although each validates only what it makes of the
\* definition it loaded, the stored definition can be compiled: it has a ranking that
\* every inheritance lowers, so no cycle and no unknown role, and only Super reaches
\* Super.
THEOREM DefinitionStaysSound == Spec => []DefinitionSound
<1>1. Init => SoundInv
  BY DefaultSound, IdleOK DEF Init, SoundInv
<1>2. IInv /\ SoundInv => DefinitionSound
  BY ValidRanked DEF IInv, StateOK, SoundInv, Sound, DefinitionSound
<1> QED BY <1>1, <1>2, StepKeepsSound, InductiveInvariant, PTL DEF Spec

\* The counters a handler computed before its transaction are exact after it, when it
\* listed the assignments at the revision the transaction is conditional on, found
\* every id once and leaves no copy behind.
THEOREM CountersExactAfterCommit == Spec => CountersExactWhenListedLast
<1>1. Init => ListedInv
  BY DEF Init, ListedInv, Idle
<1>2. ASSUME IInv, ListedInv, [Next]_vars, NEW a \in Admins,
             state'.revision > state.revision, pending'[a] # pending[a],
             pending[a].listedAt = state.revision, IdsOnce(pending[a].listed), CopiesAgree'
      PROVE  state'.counters = Counters(state'.definition, collection')
  <2>1. state.revision \in Nat
    BY <1>2 DEF IInv, StateOK
  <2>2. pending[a].listed = collection
    BY <1>2, <2>1 DEF ListedInv
  <2>3. PICK b \in Admins : Commit(b)
    <3>1. state' # state
      BY <1>2, <2>1
    <3> QED BY <1>2, <3>1, OnlyCommits
  <2>4. a = b
    BY <1>2, <2>3 DEF Commit, IInv
  <2>5. collection' = NextAssignments(pending[a].listed, pending[a].operation)
    BY <1>2, <2>2, <2>3, <2>4, WriteAsComputed DEF Commit
  <2>6. state'.definition = NextDefinition(a)
        /\ state'.counters = Counters(NextDefinition(a),
             NextAssignments(pending[a].listed, pending[a].operation))
    BY <2>3, <2>4 DEF Commit, NextState
  <2> QED BY <2>5, <2>6
<1>3. IInv /\ ListedInv /\ [Next]_vars
        => [\A a \in Admins :
              state'.revision > state.revision /\ pending'[a] # pending[a]
                /\ pending[a].listedAt = state.revision /\ IdsOnce(pending[a].listed)
                /\ CopiesAgree'
                => state'.counters = Counters(state'.definition, collection')]_vars
  BY <1>2
<1> QED BY <1>1, <1>3, StepKeepsListed, InductiveInvariant, PTL
        DEF Spec, CountersExactWhenListedLast
=============================================================================
