------------------------- MODULE UserAccountsProofs -------------------------
(***************************************************************************)
(* Proofs about UserAccounts, for any accounts, Root emails, ranks,        *)
(* requests and bounds: the Root User stays unique and, from the marker    *)
(* on, out of reach of the server actions, also where the bootstrap adopts *)
(* an account on which they are at work; and the two stores of finished    *)
(* operations agree.                                                       *)
(***************************************************************************)
EXTENDS UserAccounts, TLAPS

-----------------------------------------------------------------------------
(* The first part of the invariant: the Root User.                         *)

\* Only an account that exists has a password.
PasswordsHeld ==
  \A u \in RootEmails : ~identity[u].exists => password[u] = "none"

\* How far a run of the bootstrap has come with its account.
Bootstrapped ==
  boot # NoRun =>
    LET u == boot.email IN
    /\ boot.step \in {"claim", "mark", "password", "groups"} => identity[u].exists
    /\ boot.step = "mark" => Owners(u) = {}
    /\ boot.step = "password" => boot.setPassword
    /\ boot.setPassword /\ u \notin overtaken => password[u] # "own"

\* An operation on a marked account still has a look at it before it writes.
RootGuarded ==
  \A r \in Requests :
    LET u == request[r].target IN
    Busy(r) /\ identity[u].marker /\ u \notin overtaken => ~PastLook(r)

RootInv ==
  /\ TypeOK
  /\ PasswordsHeld
  /\ Bootstrapped
  /\ RootGuarded
  /\ OneRoot

-----------------------------------------------------------------------------
(* Types.                                                                  *)

IdentityType == {NoIdentity} \union
                [exists: {TRUE}, enabled: BOOLEAN, marker: BOOLEAN, core: BOOLEAN]
ProfileType == {NoProfile} \union
               [exists: {TRUE}, suspended: BOOLEAN, deleted: BOOLEAN, root: BOOLEAN]
BudgetType == [failures: 0 .. MaxFailures, turns: 0 .. MaxTurns]

LEMMA InitialTypes ==
  /\ NoIdentity \in IdentityType /\ NewIdentity \in IdentityType
  /\ NoProfile \in ProfileType /\ NewProfile \in ProfileType
  /\ ~NoIdentity.exists /\ ~NoIdentity.enabled /\ ~NoIdentity.marker
  /\ NewIdentity.exists /\ NewIdentity.enabled /\ ~NewIdentity.marker
  /\ ~NoProfile.exists /\ ~NoProfile.root
  /\ ~NoProfile.suspended /\ ~NoProfile.deleted
  /\ NewProfile.exists /\ ~NewProfile.suspended /\ ~NewProfile.deleted
  /\ ~NewProfile.root
<1>1. NoIdentity \in [exists: BOOLEAN, enabled: BOOLEAN, marker: BOOLEAN, core: BOOLEAN]
  BY DEF NoIdentity
<1>2. NoProfile \in [exists: BOOLEAN, suspended: BOOLEAN, deleted: BOOLEAN, root: BOOLEAN]
  BY DEF NoProfile
<1>3. ~NoIdentity.exists /\ ~NoIdentity.enabled /\ ~NoIdentity.marker
  BY DEF NoIdentity
<1>4. /\ ~NoProfile.exists /\ ~NoProfile.root /\ ~NoProfile.suspended
      /\ ~NoProfile.deleted
  BY DEF NoProfile
<1>5. /\ NewIdentity \in IdentityType
      /\ NewIdentity.exists /\ NewIdentity.enabled /\ ~NewIdentity.marker
  BY <1>1, <1>3 DEF NewIdentity, IdentityType
<1>6. /\ NewProfile \in ProfileType /\ NewProfile.exists /\ ~NewProfile.root
      /\ ~NewProfile.suspended /\ ~NewProfile.deleted
  BY <1>2, <1>4 DEF NewProfile, ProfileType
<1> QED BY <1>3, <1>4, <1>5, <1>6 DEF IdentityType, ProfileType

\* Only an identity that exists is marked or enabled, and every field is a truth value.
LEMMA IdentityFields ==
  ASSUME NEW i \in IdentityType
  PROVE  /\ i.marker => i.exists
         /\ i.enabled => i.exists
         /\ i.exists => i \in [exists: {TRUE}, enabled: BOOLEAN, marker: BOOLEAN,
                               core: BOOLEAN]
         /\ i.enabled \in BOOLEAN /\ i.marker \in BOOLEAN /\ i.exists \in BOOLEAN
<1>1. CASE i = NoIdentity
  BY <1>1 DEF NoIdentity
<1>2. CASE i # NoIdentity
  BY <1>2 DEF IdentityType
<1> QED BY <1>1, <1>2

LEMMA ProfileFields ==
  ASSUME NEW p \in ProfileType
  PROVE  /\ p.exists => p \in [exists: {TRUE}, suspended: BOOLEAN, deleted: BOOLEAN,
                               root: BOOLEAN]
         /\ ~p.exists => p = NoProfile
         /\ p.suspended \in BOOLEAN /\ p.deleted \in BOOLEAN
<1>1. CASE p = NoProfile
  BY <1>1 DEF NoProfile
<1>2. CASE p # NoProfile
  BY <1>2 DEF ProfileType
<1> QED BY <1>1, <1>2

LEMMA StoreTypes ==
  ASSUME TypeOK
  PROVE  /\ identity \in [Users -> IdentityType] /\ profile \in [Users -> ProfileType]
         /\ password \in [RootEmails -> Passwords] /\ budget \in BudgetType
         /\ RootEmails \subseteq Users
BY AccountsAssumption DEF TypeOK, IdentityType, ProfileType, BudgetType

LEMMA InitRoot == Init => RootInv
<1> SUFFICES ASSUME Init PROVE RootInv
  OBVIOUS
<1>1. TypeOK
  <2>1. identity \in [Users -> IdentityType] /\ profile \in [Users -> ProfileType]
    BY InitialTypes DEF Init
  <2>2. budget \in BudgetType
    BY AccountsAssumption DEF Init, BudgetType
  <2>3. password \in [RootEmails -> Passwords]
    BY DEF Init, Passwords
  <2> QED BY <2>1, <2>2, <2>3, AccountsAssumption
      DEF Init, TypeOK, IdentityType, ProfileType, BudgetType, RequestStates, Runs
<1>2. \A u \in Users : ~identity[u].marker /\ (identity[u].exists <=> u \in Existing)
  BY InitialTypes DEF Init
<1>3. PasswordsHeld
  BY <1>2, AccountsAssumption DEF Init, PasswordsHeld
<1>4. RootGuarded
  BY DEF Init, RootGuarded, Busy, Idle
<1>5. Bootstrapped /\ OneRoot
  BY <1>2 DEF Init, Bootstrapped, OneRoot
<1> QED BY <1>1, <1>3, <1>4, <1>5 DEF RootInv

-----------------------------------------------------------------------------
(* Requests.                                                               *)

\* What nobody changes of an account with the marker.
Kept(u) ==
  /\ identity'[u].exists /\ identity'[u].marker
  /\ identity'[u].enabled = identity[u].enabled
  /\ profile'[u].suspended = profile[u].suspended
  /\ profile'[u].deleted = profile[u].deleted
  /\ u \in assigned' <=> u \in assigned

\* What a step of a request may change: its own account t.
Moves(r, t) ==
  /\ t \in Users
  /\ UNCHANGED <<configured, overtaken>>
  /\ \A u \in Users \ {t} :
       /\ identity'[u] = identity[u] /\ profile'[u] = profile[u]
       /\ u \in assigned' <=> u \in assigned
       /\ u \in unsettled' <=> u \in unsettled
  /\ unsettled \subseteq unsettled'
  /\ \A s \in Requests \ {r} : request'[s] = request[s]
  /\ Busy(r) => request[r].target = t
  /\ request'[r].step # "none" => request'[r].target = t
  /\ \A u \in RootEmails :
       IF u = t
       THEN /\ password'[u] \in {password[u], "none", "invited"}
            /\ ~identity'[u].exists => password'[u] = "none"
       ELSE password'[u] = password[u]
  /\ boot' \in {boot, NoRun}
  /\ boot' # NoRun /\ HoldsAccount(t) => identity'[t].exists
  /\ identity'[t].marker => identity[t].marker /\ (PastLook(r)' => PastLook(r))
  /\ identity[t].marker /\ ~PastLook(r) => Kept(t)

LEMMA MoveKeepsRoot ==
  ASSUME RootInv, TypeOK', NEW r \in Requests, NEW t, Moves(r, t)
  PROVE  RootInv'
<1>1. \A u \in Users : identity'[u].marker => identity[u].marker
  BY DEF Moves
<1>2. PasswordsHeld'
  <2> SUFFICES ASSUME NEW u \in RootEmails, ~identity'[u].exists
               PROVE  password'[u] = "none"
    BY DEF PasswordsHeld
  <2>1. CASE u = t
    BY <2>1 DEF Moves
  <2>2. CASE u # t
    <3>1. identity'[u] = identity[u] /\ password'[u] = password[u]
      BY <2>2, AccountsAssumption DEF Moves
    <3> QED BY <3>1 DEF RootInv, PasswordsHeld
  <2> QED BY <2>1, <2>2
<1>3. Bootstrapped'
  <2> SUFFICES ASSUME boot' # NoRun PROVE Bootstrapped'
    BY DEF Bootstrapped
  <2>1. boot' = boot /\ boot # NoRun /\ boot.email \in RootEmails /\ boot.email \in Users
    BY AccountsAssumption DEF Moves, RootInv, TypeOK, Runs
  <2>2. boot.step \in {"claim", "mark", "password", "groups"}
          => identity'[boot.email].exists
    <3>1. CASE boot.email = t
      BY <2>1, <3>1 DEF Moves, HoldsAccount
    <3>2. CASE boot.email # t
      BY <2>1, <3>2 DEF Moves, RootInv, Bootstrapped
    <3> QED BY <3>1, <3>2
  <2>3. Owners(boot.email)' \subseteq Owners(boot.email)
    BY <1>1, <2>1 DEF Owners
  <2>4. password'[boot.email] = "own" => password[boot.email] = "own"
    BY <2>1 DEF Moves
  <2> QED BY <2>1, <2>2, <2>3, <2>4 DEF RootInv, Bootstrapped, Moves
<1>4. RootGuarded'
  <2> SUFFICES ASSUME NEW s \in Requests, Busy(s)', identity'[request'[s].target].marker,
                      request'[s].target \notin overtaken
               PROVE  ~PastLook(s)'
    BY DEF RootGuarded, Moves
  <2>1. CASE s # r
    <3>1. request'[s] = request[s]
      BY <2>1 DEF Moves
    <3>2. request[s].target \in Users /\ Busy(s)
      BY <3>1 DEF RootInv, TypeOK, RequestStates, Busy, Idle
    <3> QED BY <1>1, <3>1, <3>2 DEF RootInv, RootGuarded, PastLook
  <2>2. CASE s = r
    <3>1. request'[r].target = t
      BY <2>2 DEF Moves, Busy
    <3>2. identity[t].marker /\ (PastLook(r)' => PastLook(r))
      BY <2>2, <3>1 DEF Moves
    <3>3. CASE Busy(r)
      BY <2>2, <3>1, <3>2, <3>3 DEF Moves, RootInv, RootGuarded
    <3>4. CASE ~Busy(r)
      BY <2>2, <3>2, <3>4 DEF PastLook, Busy
    <3> QED BY <3>3, <3>4
  <2> QED BY <2>1, <2>2
<1>5. OneRoot'
  BY <1>1 DEF RootInv, OneRoot
<1> QED BY <1>2, <1>3, <1>4, <1>5 DEF RootInv

\* The steps a busy request can be at.
Steps == {"drop", "read", "guard", "identity", "profile", "assign", "undo", "revoke",
          "failed"}

\* A request that is busy has an operation and accounts.
LEMMA BusyRequest ==
  ASSUME RootInv, NEW r \in Requests, Busy(r)
  PROVE  /\ request[r] \in [step: Steps, op: Operations, actor: Users, target: Users]
         /\ request[r].target \in Users /\ request[r].op \in Operations
         /\ identity[request[r].target] \in IdentityType
         /\ profile[request[r].target] \in ProfileType
<1>1. request[r] \in [step: Steps, op: Operations, actor: Users, target: Users]
  BY DEF RootInv, TypeOK, RequestStates, Busy, Idle, Steps
<1> QED BY <1>1, StoreTypes DEF RootInv

\* Nobody is admitted to an operation on an account with the marker.
LEMMA AdmittedUnmarked ==
  ASSUME RootInv, NEW actor \in Users, NEW target \in Users, NEW op \in Operations,
         Admitted(actor, op, target)
  PROVE  ~identity[target].marker
<1>1. identity[target] \in IdentityType
  BY StoreTypes DEF RootInv
<1>2. CASE op = "create"
  BY <1>1, <1>2, IdentityFields DEF Admitted
<1>3. CASE op # "create"
  BY <1>3 DEF Admitted, CanManage, IsRoot
<1> QED BY <1>2, <1>3

\* The guard passes no operation on such an account but a create, which Cognito
\* refuses.
LEMMA GuardedUnmarked ==
  ASSUME RootInv, NEW actor \in Users, NEW target \in Users, NEW op \in Operations,
         GuardPasses(op, actor, target)
  PROVE  op = "create" \/ ~identity[target].marker
<1>1. identity[target] \in IdentityType
  BY StoreTypes DEF RootInv
<1>2. CASE op = "purge" /\ ~identity[target].exists
  BY <1>1, <1>2, IdentityFields
<1>3. CASE op # "create" /\ ~(op = "purge" /\ ~identity[target].exists)
  BY <1>3 DEF GuardPasses, WithinReach
<1> QED BY <1>2, <1>3

LEMMA GoOK ==
  ASSUME RootInv, NEW r \in Requests, Busy(r), NEW step \in Steps, Go(r, step)
  PROVE  /\ request' \in [Requests -> RequestStates]
         /\ \A s \in Requests \ {r} : request'[s] = request[s]
         /\ request'[r].step = step /\ request'[r].op = request[r].op
         /\ request'[r].target = request[r].target
<1> DEFINE Record == [step: Steps, op: Operations, actor: Users, target: Users]
<1>1. request[r] \in Record
  BY BusyRequest
<1>2. PICK q : q = [request[r] EXCEPT !.step = step]
  OBVIOUS
<1>3. /\ q \in Record /\ q.step = step
      /\ q.op = request[r].op /\ q.target = request[r].target
  BY <1>1, <1>2
<1>4. q \in RequestStates
  BY <1>3 DEF RequestStates, Steps
<1>5. request \in [Requests -> RequestStates]
  BY DEF RootInv, TypeOK
<1>6. request' = [request EXCEPT ![r] = q]
  BY <1>2, <1>5 DEF Go
<1> QED BY <1>3, <1>4, <1>5, <1>6

LEMMA EndOK ==
  ASSUME RootInv, NEW r \in Requests, End(r)
  PROVE  /\ request' \in [Requests -> RequestStates]
         /\ \A s \in Requests \ {r} : request'[s] = request[s]
         /\ request'[r] = Idle /\ request'[r].step = "none"
<1>1. request \in [Requests -> RequestStates]
  BY DEF RootInv, TypeOK
<1> QED BY <1>1 DEF End, RequestStates, Idle

\* Go or End: the request has moved, and the account is the one it worked on.  It does
\* not get past its last look at an account that has the marker.
Proceeds(r) ==
  /\ request' \in [Requests -> RequestStates]
  /\ \A s \in Requests \ {r} : request'[s] = request[s]
  /\ request'[r].step # "none" => request'[r].target = request[r].target
  /\ identity[request[r].target].marker => (PastLook(r)' => PastLook(r))

LEMMA Proceeding ==
  ASSUME RootInv, NEW r \in Requests, Busy(r),
         \/ End(r)
         \/ \E step \in Steps :
              /\ Go(r, step)
              /\ \/ PastLook(r) \/ ~identity[request[r].target].marker
                 \/ step \in {"guard", "undo", "failed"}
                 \/ step = "identity" /\ request[r].op = "create"
  PROVE  Proceeds(r)
<1>1. CASE End(r)
  BY <1>1, EndOK DEF Proceeds, PastLook
<1>2. CASE ~End(r)
  BY <1>2, GoOK DEF Proceeds, PastLook
<1> QED BY <1>1, <1>2

\* A step that only moves the request, and may leave its account unsettled.
LEMMA OnlyMoves ==
  ASSUME RootInv, NEW r \in Requests, Busy(r), Proceeds(r),
         UNCHANGED <<Stores, Bootstrapping>>, budget' \in BudgetType,
         unsettled' \in {unsettled, unsettled \union {request[r].target}}
  PROVE  TypeOK' /\ Moves(r, request[r].target)
<1>1. request[r].target \in Users
  BY BusyRequest
<1>2. TypeOK'
  BY <1>1 DEF RootInv, TypeOK, Proceeds, Stores, Bootstrapping, BudgetType
<1>3. Kept(request[r].target) \/ ~identity[request[r].target].marker
  BY BusyRequest, IdentityFields DEF Kept, Stores
<1>4. boot' # NoRun /\ HoldsAccount(request[r].target)
        => identity'[request[r].target].exists
  BY DEF RootInv, Bootstrapped, HoldsAccount, Stores, Bootstrapping
<1>5. \A u \in RootEmails : password'[u] = password[u]
        /\ (~identity'[u].exists => password'[u] = "none")
  BY DEF RootInv, PasswordsHeld, Stores, Bootstrapping
<1>6. UNCHANGED <<identity, profile, assigned, boot, overtaken, configured>>
  BY DEF Stores, Bootstrapping
<1>7. Moves(r, request[r].target)
  BY <1>1, <1>3, <1>4, <1>5, <1>6 DEF Moves, Proceeds
<1> QED BY <1>2, <1>7

\* A step that writes the identity of its account without deleting it.
LEMMA IdentityMoves ==
  ASSUME RootInv, NEW r \in Requests, Busy(r), Proceeds(r), PastLook(r)
                    \/ ~identity[request[r].target].marker,
         NEW i \in IdentityType, i.exists,
         i.marker => identity[request[r].target].marker,
         identity' = [identity EXCEPT ![request[r].target] = i],
         NEW value \in {"invited", "kept"},
         IF value = "kept" THEN UNCHANGED password
                           ELSE SetPasswordOf(request[r].target, value),
         UNCHANGED <<profile, assigned, unsettled, boot, overtaken, configured, budget>>
  PROVE  /\ TypeOK' /\ Moves(r, request[r].target)
         /\ identity'[request[r].target] = i
<1> DEFINE t == request[r].target
<1>1. t \in Users
  BY BusyRequest
<1>2. /\ identity'[t] = i
      /\ \A u \in Users \ {t} : identity'[u] = identity[u]
      /\ identity' \in [Users -> IdentityType]
  BY <1>1, StoreTypes DEF RootInv
<1>3. /\ password' \in [RootEmails -> Passwords]
      /\ \A u \in RootEmails : u # t => password'[u] = password[u]
      /\ t \in RootEmails => password'[t] \in {password[t], "invited"}
  BY StoreTypes DEF RootInv, SetPasswordOf, Passwords
<1>4. TypeOK'
  BY <1>2, <1>3 DEF RootInv, TypeOK, IdentityType, Proceeds
<1>5. Moves(r, t)
  BY <1>1, <1>2, <1>3 DEF Moves, Proceeds
<1> QED BY <1>2, <1>4, <1>5

\* A step that deletes the identity of its account.
LEMMA DeletionMoves ==
  ASSUME RootInv, NEW r \in Requests, Busy(r), Proceeds(r), PastLook(r),
         DeleteIdentity(request[r].target),
         UNCHANGED <<profile, assigned, unsettled, overtaken, configured, budget>>
  PROVE  /\ TypeOK' /\ Moves(r, request[r].target)
         /\ identity'[request[r].target] = NoIdentity
<1> DEFINE t == request[r].target
<1>1. t \in Users
  BY BusyRequest
<1>2. /\ identity'[t] = NoIdentity
      /\ \A u \in Users \ {t} : identity'[u] = identity[u]
      /\ identity' \in [Users -> IdentityType]
  BY <1>1, StoreTypes, InitialTypes DEF RootInv, DeleteIdentity
<1>3. /\ password' \in [RootEmails -> Passwords]
      /\ \A u \in RootEmails : u # t => password'[u] = password[u]
      /\ t \in RootEmails => password'[t] = "none"
  BY StoreTypes DEF RootInv, DeleteIdentity, SetPasswordOf, Passwords
<1>4. boot' \in Runs /\ boot' \in {boot, NoRun} /\ (HoldsAccount(t) => boot' = NoRun)
  BY DEF DeleteIdentity, RootInv, TypeOK, Runs
<1>5. TypeOK'
  BY <1>2, <1>3, <1>4 DEF RootInv, TypeOK, IdentityType, Proceeds
<1>6. ~identity'[t].marker
  BY <1>2, InitialTypes
<1>7. Moves(r, t)
  BY <1>1, <1>2, <1>3, <1>4, <1>6 DEF Moves, Proceeds
<1> QED BY <1>2, <1>5, <1>7

\* A step that writes the profile of its account.
LEMMA ProfileMoves ==
  ASSUME RootInv, NEW r \in Requests, Busy(r), Proceeds(r), PastLook(r),
         NEW p \in ProfileType,
         profile' = [profile EXCEPT ![request[r].target] = p],
         UNCHANGED <<identity, assigned, unsettled, Bootstrapping, budget>>
  PROVE  /\ TypeOK' /\ Moves(r, request[r].target)
         /\ profile'[request[r].target] = p
<1> DEFINE t == request[r].target
<1>1. t \in Users
  BY BusyRequest
<1>2. /\ profile'[t] = p
      /\ \A u \in Users \ {t} : profile'[u] = profile[u]
      /\ profile' \in [Users -> ProfileType]
  BY <1>1, StoreTypes DEF RootInv
<1>3. TypeOK'
  BY <1>2 DEF RootInv, TypeOK, ProfileType, Proceeds, Bootstrapping
<1>4. /\ boot' # NoRun /\ HoldsAccount(t) => identity'[t].exists
      /\ \A u \in RootEmails : /\ password'[u] = password[u]
                               /\ ~identity'[u].exists => password'[u] = "none"
  BY DEF RootInv, Bootstrapped, HoldsAccount, PasswordsHeld, Bootstrapping
<1>5. Moves(r, t)
  BY <1>1, <1>2, <1>4 DEF Moves, Proceeds, Bootstrapping
<1> QED BY <1>2, <1>3, <1>5

\* A step that adds or removes the role assignments of its account.
LEMMA AssignmentMoves ==
  ASSUME RootInv, NEW r \in Requests, Busy(r), Proceeds(r), PastLook(r),
         assigned' \in {assigned \union {request[r].target},
                        assigned \ {request[r].target}},
         UNCHANGED <<identity, profile, unsettled, Bootstrapping, budget>>
  PROVE  TypeOK' /\ Moves(r, request[r].target)
<1> DEFINE t == request[r].target
<1>1. t \in Users
  BY BusyRequest
<1>2. TypeOK'
  BY <1>1 DEF RootInv, TypeOK, Proceeds, Bootstrapping
<1>3. /\ boot' # NoRun /\ HoldsAccount(t) => identity'[t].exists
      /\ \A u \in RootEmails : /\ password'[u] = password[u]
                               /\ ~identity'[u].exists => password'[u] = "none"
  BY DEF RootInv, Bootstrapped, HoldsAccount, PasswordsHeld, Bootstrapping
<1>4. Moves(r, t)
  BY <1>1, <1>3 DEF Moves, Proceeds, Bootstrapping
<1> QED BY <1>2, <1>4

LEMMA WrittenIdentity ==
  ASSUME NEW op \in Operations \ {"purge"}, NEW i \in IdentityType,
         op = "create" <=> ~i.exists
  PROVE  LET j == IdentityAfter(op, i) IN
         /\ j \in IdentityType /\ j.exists
         /\ j.marker => op # "create" /\ i.marker
         /\ j.enabled <=> op \in {"create", "activate", "restore"}
<1>1. CASE op = "create"
  BY <1>1, InitialTypes DEF IdentityAfter
<1>2. CASE op \in {"suspend", "delete"}
  <2>1. i \in [exists: {TRUE}, enabled: BOOLEAN, marker: BOOLEAN, core: BOOLEAN]
    BY <1>2, IdentityFields
  <2>2. PICK j : j = [i EXCEPT !.enabled = FALSE]
    OBVIOUS
  <2>3. j \in IdentityType /\ (j.marker => i.marker) /\ j.exists /\ ~j.enabled
    BY <2>1, <2>2 DEF IdentityType
  <2> QED BY <1>2, <2>2, <2>3 DEF IdentityAfter
<1>3. CASE op \in {"activate", "restore"}
  <2>1. i \in [exists: {TRUE}, enabled: BOOLEAN, marker: BOOLEAN, core: BOOLEAN]
    BY <1>3, IdentityFields
  <2>2. PICK j : j = [i EXCEPT !.enabled = TRUE]
    OBVIOUS
  <2>3. j \in IdentityType /\ (j.marker => i.marker) /\ j.exists /\ j.enabled
    BY <2>1, <2>2 DEF IdentityType
  <2> QED BY <1>3, <2>2, <2>3 DEF IdentityAfter
<1> QED BY <1>1, <1>2, <1>3 DEF Operations

LEMMA WrittenProfile ==
  ASSUME NEW op \in Operations, NEW p \in ProfileType, Writable(op, p)
  PROVE  LET n == ProfileAfter(op, p) IN
         /\ n \in ProfileType
         /\ op = "purge" <=> ~n.exists
         /\ op = "create" => ~n.suspended /\ ~n.deleted
         /\ op = "suspend" => n.suspended /\ (n.deleted <=> p.deleted)
         /\ op = "activate" => ~n.suspended /\ (n.deleted <=> p.deleted)
         /\ op = "delete" => n.deleted /\ (n.suspended <=> p.suspended)
         /\ op = "restore" => ~n.deleted /\ (n.suspended <=> p.suspended)
<1> DEFINE Written == [exists: {TRUE}, suspended: BOOLEAN, deleted: BOOLEAN,
                       root: BOOLEAN]
<1>1. CASE op \in {"create", "purge"}
  BY <1>1, InitialTypes DEF ProfileAfter
<1>2. op \notin {"create", "purge"} => p \in Written
  BY ProfileFields DEF Writable
<1>3. CASE op \in {"suspend", "activate"}
  <2>1. PICK n : n = IF op = "suspend" THEN [p EXCEPT !.suspended = TRUE]
                                       ELSE [p EXCEPT !.suspended = FALSE]
    OBVIOUS
  <2>2. /\ n \in Written /\ n.exists /\ (n.deleted <=> p.deleted)
        /\ n.suspended <=> op = "suspend"
    BY <1>2, <1>3, <2>1
  <2>3. n = ProfileAfter(op, p)
    BY <1>3, <2>1 DEF ProfileAfter
  <2> QED BY <1>3, <2>2, <2>3 DEF ProfileType
<1>4. CASE op \in {"delete", "restore"}
  <2>1. PICK n : n = IF op = "delete" THEN [p EXCEPT !.deleted = TRUE]
                                      ELSE [p EXCEPT !.deleted = FALSE]
    OBVIOUS
  <2>2. /\ n \in Written /\ n.exists /\ (n.suspended <=> p.suspended)
        /\ n.deleted <=> op = "delete"
    BY <1>2, <1>4, <2>1
  <2>3. n = ProfileAfter(op, p)
    BY <1>4, <2>1 DEF ProfileAfter
  <2> QED BY <1>4, <2>2, <2>3 DEF ProfileType
<1> QED BY <1>1, <1>3, <1>4 DEF Operations

LEMMA BudgetSpent ==
  ASSUME RootInv
  PROVE  /\ budget \in BudgetType
         /\ budget.failures > 0 => [budget EXCEPT !.failures = @ - 1] \in BudgetType
         /\ budget.turns > 0 => [budget EXCEPT !.turns = @ - 1] \in BudgetType
<1>1. budget \in BudgetType
  BY StoreTypes DEF RootInv
<1>2. \A n \in Nat : \A k \in 0 .. n : k > 0 => k - 1 \in 0 .. n
  OBVIOUS
<1> QED BY <1>1, <1>2, AccountsAssumption DEF BudgetType

\* Cognito accepts a change of the identity of r.
Accepted(r) == request[r].op = "create" <=> ~identity[request[r].target].exists

LEMMA IdentityWritten ==
  ASSUME RootInv, NEW r \in Requests, Busy(r), WriteIdentity(r)
  PROVE  /\ Proceeds(r)
         /\ UNCHANGED <<profile, assigned, unsettled, overtaken, configured, budget>>
         /\ \/ /\ request[r].op = "purge" /\ PastLook(r)
               /\ DeleteIdentity(request[r].target) /\ Go(r, "profile")
            \/ /\ request[r].op # "purge" /\ Accepted(r) /\ Go(r, "profile")
               /\ PastLook(r) \/ ~identity[request[r].target].marker
               /\ identity' = [identity EXCEPT ![request[r].target] =
                                 IdentityAfter(request[r].op, identity[request[r].target])]
               /\ IF request[r].op = "create"
                  THEN SetPasswordOf(request[r].target, "invited")
                  ELSE UNCHANGED password
               /\ UNCHANGED boot
            \/ /\ request[r].op # "purge" /\ ~Accepted(r) /\ Go(r, "failed")
               /\ UNCHANGED <<identity, password, boot>>
<1>1. \/ /\ request[r].op = "purge"
         /\ DeleteIdentity(request[r].target) /\ Go(r, "profile")
      \/ /\ request[r].op # "purge" /\ Accepted(r) /\ Go(r, "profile")
         /\ identity' = [identity EXCEPT ![request[r].target] =
                           IdentityAfter(request[r].op, identity[request[r].target])]
         /\ IF request[r].op = "create"
            THEN SetPasswordOf(request[r].target, "invited")
            ELSE UNCHANGED password
         /\ UNCHANGED boot
      \/ /\ request[r].op # "purge" /\ ~Accepted(r) /\ Go(r, "failed")
         /\ UNCHANGED <<identity, password, boot>>
  BY DEF WriteIdentity, Accepted
<1>2. request[r].step = "identity"
  BY DEF WriteIdentity
<1>3. request[r].op # "create" => PastLook(r)
  BY <1>2 DEF PastLook
<1>4. Accepted(r) => PastLook(r) \/ ~identity[request[r].target].marker
  BY <1>3, BusyRequest, IdentityFields DEF Accepted
<1>5. Proceeds(r)
  BY <1>1, <1>3, <1>4, Proceeding DEF Steps
<1> QED BY <1>1, <1>3, <1>4, <1>5 DEF WriteIdentity

\* Every step of a busy request moves it, on its own account.
LEMMA RequestMoves ==
  ASSUME RootInv, NEW r \in Requests, RequestStep(r) \/ Retry(r) \/ Fail(r)
  PROVE  Busy(r) /\ TypeOK' /\ Moves(r, request[r].target)
<1>1. Busy(r)
  BY DEF RequestStep, DropAssignments, ReadProfile, Guard, WriteIdentity,
     WriteProfile, Assign, GuardUndo, UndoCreate, Retry, Fail, Busy
<1>2. /\ request[r].op \in Operations /\ request[r].actor \in Users
      /\ request[r].target \in Users
      /\ identity[request[r].target] \in IdentityType
      /\ profile[request[r].target] \in ProfileType
  BY <1>1, BusyRequest
<1>3. CASE DropAssignments(r)
  <2>1. PastLook(r)
    BY <1>3 DEF DropAssignments, PastLook
  <2>2. Proceeds(r)
    BY <1>1, <1>3, <2>1, Proceeding DEF DropAssignments, Steps
  <2> QED BY <1>1, <1>3, <2>1, <2>2, AssignmentMoves DEF DropAssignments
<1>4. CASE ReadProfile(r)
  <2>1. CASE End(r)
    BY <1>1, <1>4, <2>1, Proceeding, OnlyMoves, BudgetSpent
    DEF ReadProfile, Stores, Bootstrapping
  <2>2. CASE ~End(r)
    <3>1. PICK step : step = AfterRead(request[r].op, profile[request[r].target])
      OBVIOUS
    <3>2. Go(r, step)
      BY <1>4, <2>2, <3>1 DEF ReadProfile
    <3>3. step \in Steps /\ (step = "guard" \/ PastLook(r))
      BY <1>4, <3>1 DEF AfterRead, ReadProfile, PastLook, Steps
    <3>4. Proceeds(r)
      BY <1>1, <3>2, <3>3, Proceeding
    <3> QED BY <1>1, <1>4, <3>4, OnlyMoves, BudgetSpent
        DEF ReadProfile, Stores, Bootstrapping
  <2> QED BY <2>1, <2>2
<1>5. CASE Guard(r)
  <2>1. \/ /\ GuardPasses(request[r].op, request[r].actor, request[r].target)
           /\ Go(r, "identity")
        \/ Go(r, "failed")
    BY <1>5 DEF Guard
  <2>2. Proceeds(r)
    BY <1>1, <1>2, <2>1, Proceeding, GuardedUnmarked DEF Steps
  <2> QED BY <1>1, <1>5, <2>2, OnlyMoves, BudgetSpent DEF Guard
<1>6. CASE WriteIdentity(r)
  <2>1. /\ Proceeds(r)
        /\ UNCHANGED <<profile, assigned, unsettled, overtaken, configured, budget>>
    BY <1>1, <1>6, IdentityWritten
  <2>2. CASE request[r].op = "purge"
    <3>1. PastLook(r) /\ DeleteIdentity(request[r].target)
      BY <1>1, <1>6, <2>2, IdentityWritten
    <3> QED BY <1>1, <2>1, <3>1, DeletionMoves
  <2>3. CASE request[r].op # "purge" /\ Accepted(r)
    <3>1. PICK i : i = IdentityAfter(request[r].op, identity[request[r].target])
      OBVIOUS
    <3>2. /\ i \in IdentityType /\ i.exists
          /\ i.marker => identity[request[r].target].marker
      BY <1>2, <2>3, <3>1, WrittenIdentity DEF Accepted
    <3>3. /\ identity' = [identity EXCEPT ![request[r].target] = i]
          /\ PastLook(r) \/ ~identity[request[r].target].marker
          /\ IF request[r].op = "create"
             THEN SetPasswordOf(request[r].target, "invited")
             ELSE UNCHANGED password
          /\ UNCHANGED boot
      BY <1>1, <1>6, <2>3, <3>1, IdentityWritten
    <3>4. PICK value \in {"invited", "kept"} :
            value = IF request[r].op = "create" THEN "invited" ELSE "kept"
      OBVIOUS
    <3>5. IF value = "kept" THEN UNCHANGED password
                            ELSE SetPasswordOf(request[r].target, value)
      BY <3>3, <3>4
    <3> QED BY <1>1, <2>1, <3>2, <3>3, <3>5, IdentityMoves
  <2>4. CASE request[r].op # "purge" /\ ~Accepted(r)
    <3>1. UNCHANGED <<identity, password, boot>>
      BY <1>1, <1>6, <2>4, IdentityWritten
    <3> QED BY <1>1, <2>1, <3>1, OnlyMoves, BudgetSpent DEF Stores, Bootstrapping
  <2> QED BY <2>2, <2>3, <2>4
<1>7. CASE WriteProfile(r)
  <2>1. PastLook(r)
    BY <1>7 DEF WriteProfile, PastLook
  <2>2. Proceeds(r)
    BY <1>1, <1>7, <2>1, Proceeding DEF WriteProfile, Steps
  <2>3. CASE UNCHANGED profile
    BY <1>1, <1>7, <2>2, <2>3, OnlyMoves, BudgetSpent
    DEF WriteProfile, Stores, Bootstrapping
  <2>4. CASE Writable(request[r].op, profile[request[r].target])
    <3>1. PICK p : p = ProfileAfter(request[r].op, profile[request[r].target])
      OBVIOUS
    <3>2. p \in ProfileType
      BY <1>2, <2>4, <3>1, WrittenProfile
    <3>3. profile' = [profile EXCEPT ![request[r].target] = p]
      BY <1>7, <2>4, <3>1 DEF WriteProfile
    <3> QED BY <1>1, <1>7, <2>1, <2>2, <3>2, <3>3, ProfileMoves DEF WriteProfile
  <2> QED BY <1>7, <2>3, <2>4 DEF WriteProfile
<1>8. CASE Assign(r)
  <2>1. PastLook(r) /\ Proceeds(r)
    BY <1>1, <1>8, Proceeding DEF Assign, PastLook
  <2> QED BY <1>1, <1>8, <2>1, AssignmentMoves DEF Assign
<1>9. CASE GuardUndo(r)
  <2>1. \/ /\ GuardPasses("purge", request[r].actor, request[r].target)
           /\ Go(r, "revoke")
        \/ Go(r, "failed")
    BY <1>9 DEF GuardUndo
  <2>2. Proceeds(r)
    BY <1>1, <1>2, <2>1, Proceeding, GuardedUnmarked DEF Steps, Operations
  <2> QED BY <1>1, <1>9, <2>2, OnlyMoves, BudgetSpent DEF GuardUndo
<1>10. CASE UndoCreate(r)
  <2>1. PastLook(r)
    BY <1>10 DEF UndoCreate, PastLook
  <2>2. Proceeds(r)
    BY <1>1, <1>10, <2>1, Proceeding DEF UndoCreate, Steps
  <2> QED BY <1>1, <1>10, <2>1, <2>2, DeletionMoves DEF UndoCreate
<1>11. CASE Retry(r)
  <2>1. \/ /\ Admitted(request[r].actor, request[r].op, request[r].target)
           /\ Go(r, FirstStep(request[r].op))
        \/ End(r)
    BY <1>11 DEF Retry
  <2>2. Proceeds(r)
    BY <1>1, <1>2, <2>1, Proceeding, AdmittedUnmarked DEF FirstStep, Steps
  <2> QED BY <1>1, <1>11, <2>2, OnlyMoves, BudgetSpent DEF Retry
<1>12. CASE Fail(r)
  <2> DEFINE Record == [step: Steps, op: Operations, actor: Users, target: Users]
  <2>1. request[r] \in Record
    BY <1>1, BusyRequest
  <2>2. PICK q : q =
          CASE request[r].op = "create" /\ request[r].step = "profile" ->
                 [request[r] EXCEPT !.step = "undo"]
            [] request[r].step = "assign" ->
                 [request[r] EXCEPT !.step = "read", !.op = "delete"]
            [] OTHER -> [request[r] EXCEPT !.step = "failed"]
    OBVIOUS
  <2>3. /\ q \in Record /\ q.target = request[r].target
        /\ q.step \in {"undo", "failed"} \/ (q.step = "read" /\ q.op = "delete")
    <3>1. CASE request[r].op = "create" /\ request[r].step = "profile"
      BY <2>1, <2>2, <3>1 DEF Steps
    <3>2. CASE request[r].step = "assign"
      BY <2>1, <2>2, <3>2 DEF Steps, Operations
    <3>3. CASE /\ ~(request[r].op = "create" /\ request[r].step = "profile")
               /\ request[r].step # "assign"
      BY <2>1, <2>2, <3>3 DEF Steps
    <3> QED BY <3>1, <3>2, <3>3
  <2>4. q \in RequestStates
    BY <2>3 DEF RequestStates, Steps
  <2>5. request' = [request EXCEPT ![r] = q]
    BY <1>12, <2>2 DEF Fail
  <2>6. request'[r] = q
    BY <2>5 DEF RootInv, TypeOK
  <2>7. Proceeds(r)
    BY <2>3, <2>4, <2>5, <2>6 DEF Proceeds, RootInv, TypeOK, PastLook
  <2>8. budget' \in BudgetType
    BY <1>12, BudgetSpent DEF Fail
  <2> QED BY <1>1, <1>12, <2>7, <2>8, OnlyMoves DEF Fail
<1> QED BY <1>1, <1>3, <1>4, <1>5, <1>6, <1>7, <1>8, <1>9, <1>10, <1>11, <1>12
    DEF RequestStep

LEMMA StartMoves ==
  ASSUME RootInv, NEW r \in Requests, NEW actor \in Users, NEW target \in Users,
         NEW op \in Operations, Start(r, actor, op, target)
  PROVE  /\ TypeOK' /\ Moves(r, target)
         /\ request'[r].step = FirstStep(op) /\ request'[r].op = op
<1>1. ~identity[target].marker
  BY AdmittedUnmarked DEF Start
<1>2. PICK q : q = [step |-> FirstStep(op), op |-> op, actor |-> actor,
                    target |-> target]
  OBVIOUS
<1>3. /\ q \in RequestStates
      /\ q.step = FirstStep(op) /\ q.op = op /\ q.target = target
  BY <1>2 DEF RequestStates, FirstStep
<1>4. request' = [request EXCEPT ![r] = q]
  BY <1>2 DEF Start
<1>5. UNCHANGED <<identity, password, profile, assigned, boot, overtaken, configured,
                  budget>>
  BY DEF Start, Stores, Bootstrapping
<1>6. unsettled' \in {unsettled, unsettled \union {target}} /\ ~Busy(r)
  BY DEF Start
<1>7. TypeOK'
  BY <1>3, <1>4, <1>5, <1>6 DEF RootInv, TypeOK
<1>8. /\ boot' # NoRun /\ HoldsAccount(target) => identity'[target].exists
      /\ \A u \in RootEmails : /\ password'[u] = password[u]
                               /\ ~identity'[u].exists => password'[u] = "none"
  BY <1>5 DEF RootInv, Bootstrapped, HoldsAccount, PasswordsHeld
<1>9. Moves(r, target)
  BY <1>1, <1>3, <1>4, <1>5, <1>6, <1>8 DEF Moves, RootInv, TypeOK
<1> QED BY <1>3, <1>4, <1>7, <1>9 DEF RootInv, TypeOK

-----------------------------------------------------------------------------
(* The bootstrap.                                                          *)

RunRecords == [step: {"look", "create", "claim", "mark", "password", "groups", "profile"},
               email: RootEmails, setPassword: BOOLEAN]

LEMMA RunOK ==
  ASSUME RootInv, boot # NoRun
  PROVE  /\ boot \in RunRecords /\ boot.email \in RootEmails /\ boot.email \in Users
         /\ identity[boot.email] \in IdentityType
         /\ profile[boot.email] \in ProfileType
         /\ boot.step # "none"
<1>1. boot \in RunRecords
  BY DEF RootInv, TypeOK, Runs, RunRecords
<1> QED BY <1>1, StoreTypes DEF RunRecords, RootInv

\* What a step of the bootstrap leaves alone, unless it creates the account or writes
\* the profile.
Quiet ==
  /\ UNCHANGED <<profile, assigned, request, unsettled>>
  /\ \A u \in Users : /\ identity'[u].exists <=> identity[u].exists
                      /\ identity'[u].enabled = identity[u].enabled
                      /\ identity[u].marker => identity'[u].marker

LEMMA QuietKeeps ==
  ASSUME RootInv, Quiet, NEW u \in Users, identity[u].marker
  PROVE  Kept(u)
BY StoreTypes, IdentityFields DEF RootInv, Quiet, Kept

\* A quiet step that marks nobody.
LEMMA QuietRoot ==
  ASSUME RootInv, TypeOK', PasswordsHeld', Bootstrapped', Quiet,
         \A u \in Users : identity'[u].marker => identity[u].marker,
         overtaken \subseteq overtaken'
  PROVE  RootInv'
<1>1. RootGuarded'
  <2> SUFFICES ASSUME NEW r \in Requests, Busy(r), identity'[request[r].target].marker,
                      request[r].target \notin overtaken'
               PROVE  ~PastLook(r)
    BY DEF RootGuarded, Quiet, Busy, PastLook
  <2> QED BY BusyRequest DEF RootInv, RootGuarded
<1>2. OneRoot'
  BY DEF RootInv, OneRoot
<1> QED BY <1>1, <1>2 DEF RootInv

\* A step that only moves the run.
LEMMA RunOnlyMoves ==
  ASSUME RootInv, boot' \in Runs, Bootstrapped', configured' \in RootEmails,
         budget' \in BudgetType,
         UNCHANGED <<identity, password, profile, Managing, overtaken>>
  PROVE  RootInv' /\ Quiet
<1>1. TypeOK'
  BY DEF RootInv, TypeOK, Managing, BudgetType
<1>2. PasswordsHeld' /\ Quiet
  BY DEF RootInv, PasswordsHeld, Quiet, Managing
<1> QED BY <1>1, <1>2, QuietRoot

LEMMA LookUpRootOK ==
  ASSUME RootInv, LookUpRoot
  PROVE  RootInv' /\ Quiet
<1> DEFINE e == boot.email
<1>1. boot # NoRun /\ boot \in RunRecords /\ e \in RootEmails
  BY RunOK DEF LookUpRoot, NoRun
<1>2. PICK b : b = AfterLook(boot)
  OBVIOUS
<1>3. /\ b \in RunRecords /\ b.email = e
      /\ \/ ~identity[e].exists /\ b.step = "create"
         \/ /\ identity[e].exists /\ b.step = "claim"
            /\ b.setPassword => password[e] # "own"
  <2>1. CASE ~identity[e].exists
    BY <1>1, <1>2, <2>1 DEF AfterLook, RunRecords
  <2>2. CASE identity[e].exists /\ PasswordWanted(e) = TRUE
    <3>1. b = [boot EXCEPT !.step = "claim", !.setPassword = TRUE]
      BY <1>2, <2>2 DEF AfterLook
    <3> QED BY <1>1, <2>2, <3>1 DEF RunRecords, PasswordWanted
  <2>3. CASE identity[e].exists /\ PasswordWanted(e) = FALSE
    <3>1. b = [boot EXCEPT !.step = "claim", !.setPassword = FALSE]
      BY <1>2, <2>3 DEF AfterLook
    <3> QED BY <1>1, <2>3, <3>1 DEF RunRecords
  <2>4. PasswordWanted(e) \in BOOLEAN
    BY DEF PasswordWanted
  <2> QED BY <2>1, <2>2, <2>3, <2>4
<1>4. boot' = b /\ UNCHANGED <<identity, password, overtaken>>
  BY <1>2 DEF LookUpRoot
<1>5. Bootstrapped'
  BY <1>1, <1>3, <1>4 DEF Bootstrapped, RootInv, PasswordsHeld
<1>6. boot' \in Runs
  BY <1>3, <1>4 DEF Runs, RunRecords
<1> QED BY <1>5, <1>6, RunOnlyMoves, BudgetSpent DEF LookUpRoot, RootInv, TypeOK

\* The record of a run that goes on after the marker.
LEMMA AfterClaimOK ==
  ASSUME RootInv, boot # NoRun
  PROVE  LET a == AfterClaim(boot) IN
         /\ a \in RunRecords /\ a.email = boot.email
         /\ a.setPassword = boot.setPassword
         /\ a.step \in {"password", "groups"}
         /\ a.step = "password" => boot.setPassword
<1>1. boot \in RunRecords
  BY RunOK
<1>2. PICK step \in {"password", "groups"} :
        step = IF boot.setPassword THEN "password" ELSE "groups"
  OBVIOUS
<1>3. PICK a : a = [boot EXCEPT !.step = step]
  OBVIOUS
<1>4. /\ a \in RunRecords /\ a.email = boot.email /\ a.setPassword = boot.setPassword
      /\ a.step = step
  BY <1>1, <1>2, <1>3 DEF RunRecords
<1>5. a = AfterClaim(boot)
  BY <1>2, <1>3 DEF AfterClaim
<1> QED BY <1>2, <1>4, <1>5

LEMMA ClaimMarkerOK ==
  ASSUME RootInv, ClaimMarker
  PROVE  RootInv' /\ Quiet
<1> DEFINE e == boot.email
<1>1. boot # NoRun /\ boot \in RunRecords
  BY RunOK DEF ClaimMarker, NoRun
<1>2. PICK b : b = [boot EXCEPT !.step = "mark"]
  OBVIOUS
<1>3. PICK a : a = AfterClaim(boot)
  OBVIOUS
<1>4. /\ b \in RunRecords /\ b.email = e /\ b.step = "mark"
      /\ b.setPassword = boot.setPassword
  BY <1>1, <1>2 DEF RunRecords
<1>5. /\ a \in RunRecords /\ a.email = e /\ a.step \in {"password", "groups"}
      /\ a.setPassword = boot.setPassword
      /\ a.step = "password" => boot.setPassword
  BY <1>1, <1>3, AfterClaimOK
<1>6. UNCHANGED <<identity, password, overtaken>>
  BY DEF ClaimMarker
<1>7. \/ boot' = NoRun
      \/ boot' = a
      \/ boot' = b /\ Owners(e) = {}
  BY <1>2, <1>3 DEF ClaimMarker
<1>8. /\ identity[e].exists
      /\ boot.setPassword /\ e \notin overtaken => password[e] # "own"
  BY <1>1 DEF ClaimMarker, RootInv, Bootstrapped
<1>9. Bootstrapped'
  <2>1. CASE boot' = NoRun
    BY <2>1 DEF Bootstrapped
  <2>2. CASE boot' = a
    BY <1>5, <1>6, <1>8, <2>2 DEF Bootstrapped
  <2>3. CASE boot' = b /\ Owners(e) = {}
    BY <1>4, <1>6, <1>8, <2>3 DEF Bootstrapped, Owners
  <2> QED BY <1>7, <2>1, <2>2, <2>3
<1>10. boot' \in Runs
  BY <1>4, <1>5, <1>7 DEF Runs, RunRecords
<1> QED BY <1>9, <1>10, RunOnlyMoves, BudgetSpent DEF ClaimMarker, RootInv, TypeOK

LEMMA AddMarkerOK ==
  ASSUME RootInv, AddMarker
  PROVE  RootInv' /\ Quiet
<1> DEFINE e == boot.email
<1>1. /\ boot # NoRun /\ boot \in RunRecords /\ e \in RootEmails /\ e \in Users
      /\ identity[e] \in IdentityType
  BY RunOK DEF AddMarker, NoRun
<1>2. /\ identity[e].exists /\ Owners(e) = {}
      /\ boot.setPassword /\ e \notin overtaken => password[e] # "own"
  BY <1>1 DEF AddMarker, RootInv, Bootstrapped
<1>3. PICK a : a = AfterClaim(boot)
  OBVIOUS
<1>4. /\ a \in RunRecords /\ a.email = e /\ boot' = a
      /\ a.step \in {"password", "groups"} /\ a.setPassword = boot.setPassword
      /\ a.step = "password" => boot.setPassword
  BY <1>1, <1>3, AfterClaimOK DEF AddMarker
<1>5. PICK i : i = [identity[e] EXCEPT !.marker = TRUE]
  OBVIOUS
<1>6. i \in IdentityType /\ i.exists /\ i.marker /\ i.enabled = identity[e].enabled
  BY <1>1, <1>2, <1>5, IdentityFields DEF IdentityType
<1>7. /\ identity' \in [Users -> IdentityType] /\ identity'[e] = i
      /\ \A v \in Users \ {e} : identity'[v] = identity[v]
  BY <1>1, <1>5, <1>6, StoreTypes DEF AddMarker, RootInv
<1>8. overtaken \subseteq overtaken' /\ overtaken' \subseteq RootEmails
  BY <1>1 DEF AddMarker, RootInv, TypeOK
<1>9. TypeOK'
  BY <1>4, <1>7, <1>8
  DEF AddMarker, RootInv, TypeOK, IdentityType, Managing, Runs, RunRecords
<1>10. Quiet
  BY <1>2, <1>6, <1>7 DEF Quiet, AddMarker, Managing
<1>11. PasswordsHeld'
  BY <1>10, StoreTypes DEF RootInv, PasswordsHeld, Quiet, AddMarker
<1>12. Bootstrapped'
  BY <1>2, <1>4, <1>6, <1>7, <1>8 DEF Bootstrapped, AddMarker
<1>13. RootGuarded'
  <2> SUFFICES ASSUME NEW r \in Requests, Busy(r), identity'[request[r].target].marker,
                      request[r].target \notin overtaken'
               PROVE  ~PastLook(r)
    BY DEF RootGuarded, AddMarker, Managing, Busy, PastLook
  <2>1. CASE request[r].target = e
    BY <2>1 DEF AddMarker, WorkingOn
  <2>2. CASE request[r].target # e
    BY <1>7, <1>8, <2>2, BusyRequest DEF RootInv, RootGuarded
  <2> QED BY <2>1, <2>2
<1>14. OneRoot'
  BY <1>2, <1>7 DEF RootInv, OneRoot, Owners
<1> QED BY <1>9, <1>10, <1>11, <1>12, <1>13, <1>14 DEF RootInv

LEMMA SetPasswordOK ==
  ASSUME RootInv, SetPassword
  PROVE  RootInv' /\ Quiet
<1> DEFINE e == boot.email
<1>1. boot # NoRun /\ boot \in RunRecords /\ e \in RootEmails
  BY RunOK DEF SetPassword, NoRun
<1>2. identity[e].exists
  BY <1>1 DEF SetPassword, RootInv, Bootstrapped
<1>3. PICK b : b = [boot EXCEPT !.step = "groups", !.setPassword = FALSE]
  OBVIOUS
<1>4. /\ b \in RunRecords /\ b.email = e /\ b.step = "groups" /\ ~b.setPassword
      /\ boot' = b
  BY <1>1, <1>3 DEF RunRecords, SetPassword
<1>5. /\ password' \in [RootEmails -> Passwords]
      /\ \A v \in RootEmails : v # e => password'[v] = password[v]
  BY StoreTypes DEF SetPassword, SetPasswordOf, RootInv, Passwords
<1>6. TypeOK'
  BY <1>4, <1>5 DEF SetPassword, RootInv, TypeOK, Managing, Runs, RunRecords
<1>7. Quiet
  BY DEF Quiet, SetPassword, Managing
<1>8. PasswordsHeld'
  BY <1>2, <1>5 DEF RootInv, PasswordsHeld, SetPassword
<1>9. Bootstrapped'
  BY <1>2, <1>4 DEF Bootstrapped, SetPassword
<1> QED BY <1>6, <1>7, <1>8, <1>9, QuietRoot DEF SetPassword

LEMMA AddCoreGroupsOK ==
  ASSUME RootInv, AddCoreGroups
  PROVE  RootInv' /\ Quiet
<1> DEFINE e == boot.email
<1>1. /\ boot # NoRun /\ boot \in RunRecords /\ e \in RootEmails /\ e \in Users
      /\ identity[e] \in IdentityType
  BY RunOK DEF AddCoreGroups, NoRun
<1>2. /\ identity[e].exists
      /\ boot.setPassword /\ e \notin overtaken => password[e] # "own"
  BY <1>1 DEF AddCoreGroups, RootInv, Bootstrapped
<1>3. PICK b : b = [boot EXCEPT !.step = "profile"]
  OBVIOUS
<1>4. /\ b \in RunRecords /\ b.email = e /\ b.step = "profile" /\ boot' = b
      /\ b.setPassword = boot.setPassword
  BY <1>1, <1>3 DEF RunRecords, AddCoreGroups
<1>5. PICK i : i = [identity[e] EXCEPT !.core = TRUE]
  OBVIOUS
<1>6. /\ i \in IdentityType /\ i.exists /\ i.enabled = identity[e].enabled
      /\ i.marker = identity[e].marker
  BY <1>1, <1>2, <1>5, IdentityFields DEF IdentityType
<1>7. /\ identity' \in [Users -> IdentityType] /\ identity'[e] = i
      /\ \A v \in Users \ {e} : identity'[v] = identity[v]
  BY <1>1, <1>5, <1>6, StoreTypes DEF AddCoreGroups, RootInv
<1>8. TypeOK'
  BY <1>4, <1>7
  DEF AddCoreGroups, RootInv, TypeOK, IdentityType, Managing, Runs, RunRecords
<1>9. /\ Quiet
      /\ \A u \in Users : identity'[u].marker => identity[u].marker
  BY <1>2, <1>6, <1>7 DEF Quiet, AddCoreGroups, Managing
<1>10. PasswordsHeld'
  BY <1>9, StoreTypes DEF RootInv, PasswordsHeld, Quiet, AddCoreGroups
<1>11. Bootstrapped'
  BY <1>2, <1>4 DEF Bootstrapped, AddCoreGroups
<1> QED BY <1>8, <1>9, <1>10, <1>11, QuietRoot DEF AddCoreGroups

\* The call that creates the account, when there is none yet.
Creates == boot.step = "create" /\ ~identity[boot.email].exists /\ CreateRoot

LEMMA CreateRootFails ==
  ASSUME RootInv, CreateRoot, ~Creates
  PROVE  RootInv' /\ Quiet
<1>1. boot' = NoRun /\ UNCHANGED <<identity, profile, assigned, request, unsettled,
                                   overtaken, password, configured, budget>>
  BY DEF CreateRoot, Creates, Stores
<1>2. Bootstrapped' /\ boot' \in Runs
  BY <1>1 DEF Bootstrapped, Runs
<1> QED BY <1>1, <1>2, RunOnlyMoves, BudgetSpent DEF Managing, RootInv, TypeOK

\* What is left of a former account under the email is another account.
LEMMA CreateRootOK ==
  ASSUME RootInv, Creates
  PROVE  LET e == boot.email IN
         /\ RootInv' /\ e \in Users
         /\ identity'[e] = NewIdentity /\ profile'[e] = NoProfile /\ e \notin assigned'
         /\ \A u \in Users \ {e} : /\ identity'[u] = identity[u]
                                   /\ profile'[u] = profile[u]
                                   /\ u \in assigned' <=> u \in assigned
                                   /\ u \in unsettled' <=> u \in unsettled
         /\ unsettled \subseteq unsettled'
         /\ \A r \in Requests : \/ request'[r] = request[r]
                                \/ /\ request'[r] = Idle /\ r \in WorkingOn(e)
                                   /\ e \in unsettled'
         /\ e \notin unsettled' => WorkingOn(e) = {}
<1> DEFINE e == boot.email
<1>1. boot # NoRun /\ boot \in RunRecords /\ e \in RootEmails /\ e \in Users
  BY RunOK DEF Creates, NoRun
<1>2. /\ ~identity[e].exists /\ password[e] = "none"
      /\ identity' = [identity EXCEPT ![e] = NewIdentity]
      /\ profile' = [profile EXCEPT ![e] = NoProfile]
      /\ assigned' = assigned \ {e}
      /\ request' = [r \in Requests |-> IF OnFormerAccount(r, e)
                                        THEN Idle ELSE request[r]]
      /\ unsettled' = IF WorkingOn(e) = {} THEN unsettled ELSE unsettled \union {e}
      /\ overtaken' = overtaken \ {e}
      /\ boot' = [boot EXCEPT !.step = "claim"]
      /\ UNCHANGED <<password, configured, budget>>
  BY <1>1 DEF Creates, CreateRoot, RootInv, PasswordsHeld
<1>3. PICK b : b = [boot EXCEPT !.step = "claim"]
  OBVIOUS
<1>4. b \in RunRecords /\ b.email = e /\ b.step = "claim" /\ boot' = b
  BY <1>1, <1>2, <1>3 DEF RunRecords
<1>5. /\ identity' \in [Users -> IdentityType] /\ identity'[e] = NewIdentity
      /\ profile' \in [Users -> ProfileType] /\ profile'[e] = NoProfile
      /\ \A u \in Users \ {e} : identity'[u] = identity[u] /\ profile'[u] = profile[u]
  BY <1>1, <1>2, StoreTypes, InitialTypes DEF RootInv
<1>6. /\ request' \in [Requests -> RequestStates]
      /\ \A r \in Requests : \/ request'[r] = request[r]
                             \/ request'[r] = Idle /\ r \in WorkingOn(e)
  BY <1>2 DEF RootInv, TypeOK, RequestStates, OnFormerAccount
<1>7. TypeOK'
  <2>1. boot' \in Runs
    BY <1>4 DEF Runs, RunRecords
  <2>2. /\ identity' \in [Users -> IdentityType] /\ profile' \in [Users -> ProfileType]
        /\ request' \in [Requests -> RequestStates]
    BY <1>5, <1>6
  <2>3. /\ assigned' \subseteq Users /\ unsettled' \subseteq Users
        /\ overtaken' \subseteq RootEmails
        /\ UNCHANGED <<password, configured, budget>>
    BY <1>1, <1>2 DEF RootInv, TypeOK
  <2> QED BY <2>1, <2>2, <2>3 DEF RootInv, TypeOK, IdentityType, ProfileType
<1>8. /\ ~identity'[e].marker /\ identity'[e].exists
      /\ \A u \in Users : identity'[u].marker => identity[u].marker
  BY <1>5, InitialTypes
<1>9. PasswordsHeld'
  <2> SUFFICES ASSUME NEW u \in RootEmails, ~identity'[u].exists
               PROVE  password[u] = "none"
    BY <1>2 DEF PasswordsHeld
  <2>1. u # e /\ u \in Users
    BY <1>8, StoreTypes DEF RootInv
  <2> QED BY <1>5, <2>1 DEF RootInv, PasswordsHeld
<1>10. Bootstrapped'
  BY <1>2, <1>4, <1>8 DEF Bootstrapped
<1>11. RootGuarded'
  <2> SUFFICES ASSUME NEW r \in Requests, Busy(r)',
                      identity'[request'[r].target].marker,
                      request'[r].target \notin overtaken'
               PROVE  ~PastLook(r)'
    BY DEF RootGuarded
  <2>1. request'[r] = request[r]
    BY <1>6 DEF Busy, Idle
  <2>2. request[r].target # e
    BY <1>8, <2>1
  <2>3. Busy(r) /\ identity[request[r].target].marker /\ request[r].target \notin overtaken
    BY <1>2, <1>8, <2>1, <2>2, BusyRequest DEF Busy
  <2> QED BY <2>1, <2>3 DEF RootInv, RootGuarded, PastLook
<1>12. OneRoot'
  BY <1>8 DEF RootInv, OneRoot
<1>13. RootInv'
  BY <1>7, <1>9, <1>10, <1>11, <1>12 DEF RootInv
<1>14. /\ unsettled \subseteq unsettled' /\ (e \notin unsettled' => WorkingOn(e) = {})
       /\ \A r \in WorkingOn(e) : e \in unsettled'
       /\ \A u \in Users \ {e} : /\ u \in assigned' <=> u \in assigned
                                 /\ u \in unsettled' <=> u \in unsettled
  BY <1>2
<1> QED BY <1>1, <1>2, <1>5, <1>6, <1>13, <1>14

\* The profile of the run's account, which keeps its status and deletion state.
LEMMA WriteRootProfileOK ==
  ASSUME RootInv, WriteRootProfile
  PROVE  LET e == boot.email IN
         /\ RootInv' /\ e \in Users
         /\ UNCHANGED <<identity, assigned, request>>
         /\ profile'[e].exists
         /\ profile'[e].suspended = profile[e].suspended
         /\ profile'[e].deleted = profile[e].deleted
         /\ \A u \in Users \ {e} : /\ profile'[u] = profile[u]
                                   /\ u \in unsettled' <=> u \in unsettled
         /\ unsettled \subseteq unsettled'
         /\ e \notin unsettled' => WorkingOn(e) = {} /\ identity[e].exists
<1> DEFINE e == boot.email
<1>1. /\ boot # NoRun /\ e \in RootEmails /\ e \in Users
      /\ profile[e] \in ProfileType
  BY RunOK DEF WriteRootProfile, NoRun
<1>2. PICK p : p = [profile[e] EXCEPT !.exists = TRUE, !.root = TRUE]
  OBVIOUS
<1>3. /\ p \in ProfileType /\ p.exists
      /\ p.suspended = profile[e].suspended /\ p.deleted = profile[e].deleted
  <2>1. profile[e] \in [exists: BOOLEAN, suspended: BOOLEAN, deleted: BOOLEAN,
                        root: BOOLEAN]
    <3>1. CASE profile[e] = NoProfile
      BY <3>1 DEF NoProfile
    <3>2. CASE profile[e] # NoProfile
      BY <1>1, <3>2 DEF ProfileType
    <3> QED BY <3>1, <3>2
  <2>2. PICK q : q = profile[e]
    OBVIOUS
  <2>3. /\ q \in [exists: BOOLEAN, suspended: BOOLEAN, deleted: BOOLEAN, root: BOOLEAN]
        /\ p = [q EXCEPT !.exists = TRUE, !.root = TRUE]
    BY <1>2, <2>1, <2>2
  <2>4. /\ p \in [exists: {TRUE}, suspended: BOOLEAN, deleted: BOOLEAN, root: BOOLEAN]
        /\ p.suspended = q.suspended /\ p.deleted = q.deleted
    BY <2>3
  <2> QED BY <2>2, <2>4 DEF ProfileType
<1>4. profile' = [profile EXCEPT ![e] = p]
  BY <1>1, <1>2, StoreTypes DEF WriteRootProfile, RootInv
<1>5. /\ profile' \in [Users -> ProfileType] /\ profile'[e] = p
      /\ \A u \in Users \ {e} : profile'[u] = profile[u]
  BY <1>1, <1>3, <1>4, StoreTypes DEF RootInv
<1>6. /\ unsettled \subseteq unsettled' /\ unsettled' \subseteq Users
      /\ \A u \in Users \ {e} : u \in unsettled' <=> u \in unsettled
      /\ e \notin unsettled' => WorkingOn(e) = {} /\ identity[e].exists
  BY <1>1 DEF WriteRootProfile, Disturbed, RootInv, TypeOK
<1>7. boot' = NoRun /\ UNCHANGED <<identity, password, assigned, request, overtaken,
                                   configured, budget>>
  BY DEF WriteRootProfile
<1>8. TypeOK'
  BY <1>5, <1>6, <1>7 DEF RootInv, TypeOK, ProfileType, Runs
<1>9. PasswordsHeld' /\ Bootstrapped' /\ OneRoot'
  BY <1>7 DEF RootInv, PasswordsHeld, Bootstrapped, OneRoot
<1>10. RootGuarded'
  BY <1>7 DEF RootInv, RootGuarded, Busy, PastLook
<1> QED BY <1>1, <1>3, <1>5, <1>6, <1>7, <1>8, <1>9, <1>10 DEF RootInv

\* The other steps are quiet.
QuietStep ==
  \/ StartRun \/ LookUpRoot \/ (CreateRoot /\ ~Creates) \/ ClaimMarker \/ AddMarker
  \/ SetPassword \/ AddCoreGroups \/ StopRun \/ Configure

LEMMA QuietStepOK ==
  ASSUME RootInv, QuietStep
  PROVE  RootInv' /\ Quiet
<1>1. CASE StartRun
  <2>1. PICK b : b = [step |-> "look", email |-> configured, setPassword |-> FALSE]
    OBVIOUS
  <2>2. b \in Runs /\ b.step = "look" /\ ~b.setPassword
    BY <2>1 DEF Runs, RootInv, TypeOK
  <2>3. boot' = b /\ budget' \in BudgetType
    BY <1>1, <2>1, BudgetSpent DEF StartRun
  <2>4. Bootstrapped'
    BY <2>2, <2>3 DEF Bootstrapped
  <2> QED BY <1>1, <2>2, <2>3, <2>4, RunOnlyMoves DEF StartRun, RootInv, TypeOK
<1>2. CASE StopRun
  <2>1. boot' = NoRun /\ budget' \in BudgetType
    BY <1>2, BudgetSpent DEF StopRun
  <2> QED BY <1>2, <2>1, RunOnlyMoves
      DEF StopRun, Bootstrapped, Runs, RootInv, TypeOK
<1>3. CASE Configure
  <2>1. budget' \in BudgetType
    BY <1>3, BudgetSpent DEF Configure
  <2>2. Bootstrapped'
    BY <1>3 DEF Configure, RootInv, Bootstrapped, Owners
  <2> QED BY <1>3, <2>1, <2>2, RunOnlyMoves DEF Configure, RootInv, TypeOK
<1> QED BY <1>1, <1>2, <1>3, LookUpRootOK, CreateRootFails, ClaimMarkerOK, AddMarkerOK,
    SetPasswordOK, AddCoreGroupsOK DEF QuietStep

LEMMA PasswordMoves ==
  ASSUME RootInv, NEW u \in RootEmails, ChoosePassword(u) \/ ResetPassword(u)
  PROVE  RootInv' /\ Quiet
<1>1. /\ password' \in [RootEmails -> Passwords]
      /\ \A v \in RootEmails : v # u => password'[v] = password[v]
      /\ password[u] # "none"
      /\ \/ ChoosePassword(u)
         \/ password'[u] = "reset" /\ UNCHANGED overtaken
  BY StoreTypes DEF ChoosePassword, ResetPassword, SetPasswordOf, RootInv, Passwords
<1>2. overtaken \subseteq overtaken' /\ overtaken' \subseteq RootEmails
  BY DEF ChoosePassword, ResetPassword, RootInv, TypeOK
<1>3. UNCHANGED <<identity, profile, Managing, boot, configured, budget>>
  BY DEF ChoosePassword, ResetPassword
<1>4. TypeOK' /\ Quiet
  BY <1>1, <1>2, <1>3 DEF RootInv, TypeOK, Managing, Quiet
<1>5. PasswordsHeld'
  BY <1>1, <1>3 DEF RootInv, PasswordsHeld
<1>6. Bootstrapped'
  <2> SUFFICES ASSUME boot # NoRun PROVE Bootstrapped'
    BY <1>3 DEF Bootstrapped
  <2>1. boot.email \in RootEmails
    BY RunOK
  <2>2. boot.setPassword /\ boot.email \notin overtaken' => password'[boot.email] # "own"
    <3>1. CASE boot.email # u
      BY <1>1, <1>2, <2>1, <3>1 DEF RootInv, Bootstrapped
    <3>2. CASE boot.email = u
      BY <1>1, <3>2 DEF ChoosePassword
    <3> QED BY <3>1, <3>2
  <2> QED BY <1>3, <2>2 DEF RootInv, Bootstrapped, Owners
<1> QED BY <1>2, <1>3, <1>4, <1>5, <1>6, QuietRoot

\* The first part of the invariant is kept by every step.
LEMMA StepKeepsRoot ==
  ASSUME RootInv, [Next]_vars
  PROVE  RootInv'
<1>1. CASE UNCHANGED vars
  BY <1>1 DEF vars, RootInv, TypeOK, PasswordsHeld, Bootstrapped, RootGuarded, PastLook,
     Owners, OneRoot, Busy
<1>2. ASSUME NEW r \in Requests, NEW actor \in Users, NEW target \in Users,
             NEW op \in Operations, Start(r, actor, op, target)
      PROVE  RootInv'
  BY <1>2, StartMoves, MoveKeepsRoot
<1>3. ASSUME NEW r \in Requests, RequestStep(r) \/ Retry(r) \/ Fail(r) PROVE RootInv'
  <2>1. PICK t : t = request[r].target
    OBVIOUS
  <2> QED BY <1>3, <2>1, RequestMoves, MoveKeepsRoot
<1>4. CASE RunStep \/ StopRun \/ Configure
  BY <1>4, QuietStepOK, CreateRootOK, WriteRootProfileOK DEF RunStep, QuietStep
<1>5. ASSUME NEW u \in RootEmails, ChoosePassword(u) \/ ResetPassword(u) PROVE RootInv'
  BY <1>5, PasswordMoves
<1> QED BY <1>1, <1>2, <1>3, <1>4, <1>5 DEF Next

-----------------------------------------------------------------------------
(* The second part of the invariant: an account that is not unsettled has  *)
(* one request at most, and the stores are as far as that request is, or   *)
(* agree when there is none.                                               *)

Works(r, u) == Busy(r) /\ request[r].target = u

Agreed(u) ==
  /\ profile[u].exists =>
       IF profile[u].deleted
       THEN ~identity[u].enabled
       ELSE identity[u].exists /\ (identity[u].enabled <=> ~profile[u].suspended)
  /\ ~profile[u].exists =>
       u \notin assigned /\ (identity[u].exists => identity[u].enabled)

\* The stores while a request on u is at a step of an operation.
Underway(op, step, u) ==
  /\ op = "create" =>
       /\ step = "assign" => /\ profile[u].exists /\ ~profile[u].suspended
                             /\ ~profile[u].deleted
       /\ step # "assign" => ~profile[u].exists /\ u \notin assigned
       /\ step \in {"profile", "assign"} => identity[u].exists /\ identity[u].enabled
       /\ step \in {"guard", "identity", "profile", "assign", "undo", "revoke",
                    "failed"}
  /\ op \in {"suspend", "activate", "delete", "restore"} =>
       /\ profile[u].exists /\ identity[u].exists
       /\ step \in {"read", "guard", "identity", "profile", "failed"}
       /\ profile[u].deleted <=> op = "restore"
  /\ op \in {"suspend", "delete"} =>
       /\ profile[u].suspended => ~identity[u].enabled
       /\ step = "profile" => ~identity[u].enabled
  /\ op = "activate" =>
       /\ ~profile[u].suspended => identity[u].enabled
       /\ step = "profile" => identity[u].enabled
  /\ op = "restore" =>
       /\ profile[u].suspended => ~identity[u].enabled
       /\ step = "profile" => (identity[u].enabled <=> ~profile[u].suspended)
       /\ step \in {"guard", "identity"} => ~profile[u].suspended
  /\ op = "purge" =>
       /\ profile[u].exists /\ profile[u].deleted /\ ~identity[u].enabled
       /\ step \in {"drop", "read", "guard", "identity", "profile", "failed"}
       /\ step \in {"read", "guard", "identity", "profile"} => u \notin assigned
       /\ step = "profile" => ~identity[u].exists

Settled(u) ==
  /\ \A r, s \in Requests : Works(r, u) /\ Works(s, u) => r = s
  /\ \A r \in Requests : Works(r, u) => Underway(request[r].op, request[r].step, u)
  /\ (\A r \in Requests : ~Works(r, u)) => Agreed(u)

IInv == RootInv /\ \A u \in Users : u \notin unsettled => Settled(u)

LEMMA InitOK == Init => IInv
<1> SUFFICES ASSUME Init PROVE IInv
  OBVIOUS
<1>1. \A r \in Requests, u \in Users : ~Works(r, u)
  BY DEF Init, Works, Busy, Idle
<1>2. ASSUME NEW u \in Users PROVE Agreed(u)
  BY InitialTypes, AccountsAssumption DEF Init, Agreed
<1> QED BY <1>1, <1>2, InitRoot DEF IInv, Settled

\* An account stays settled when its stores and the requests on it stay as they are.
LEMMA SettledKept ==
  ASSUME NEW u \in Users, Settled(u), profile'[u] = profile[u],
         identity'[u].exists <=> identity[u].exists,
         identity'[u].enabled = identity[u].enabled,
         u \in assigned' <=> u \in assigned,
         \A s \in Requests : Works(s, u)' <=> Works(s, u),
         \A s \in Requests : Works(s, u) => request'[s] = request[s]
  PROVE  Settled(u)'
<1>1. Agreed(u) => Agreed(u)'
  BY DEF Agreed
<1>2. \A s \in Requests : Works(s, u) /\ Underway(request[s].op, request[s].step, u)
        => Underway(request[s].op, request[s].step, u)'
  BY DEF Underway
<1> QED BY <1>1, <1>2 DEF Settled

\* A step of a request on t that leaves t unsettled or well keeps the invariant.
LEMMA MoveKeepsSettled ==
  ASSUME IInv, NEW r \in Requests, NEW t, TypeOK', Moves(r, t),
         Works(r, t),
         (t \notin unsettled /\ t \notin unsettled') =>
           IF request'[r].step = "none"
           THEN Agreed(t)'
           ELSE Underway(request[r].op, request[r].step, t)'
  PROVE  IInv'
<1>1. RootInv'
  BY MoveKeepsRoot DEF IInv
<1>2. t \in Users
  BY DEF Moves
<1>3. ASSUME NEW u \in Users, u \notin unsettled', u # t PROVE Settled(u)'
  <2>1. Settled(u)
    BY <1>3 DEF IInv, Moves
  <2>2. \A s \in Requests : Works(s, u)' <=> Works(s, u)
    BY <1>3 DEF Works, Busy, Moves
  <2>3. \A s \in Requests : Works(s, u) => request'[s] = request[s]
    BY <1>3 DEF Works, Busy, Moves
  <2>4. /\ identity'[u] = identity[u] /\ profile'[u] = profile[u]
        /\ u \in assigned' <=> u \in assigned
    BY <1>3 DEF Moves
  <2> QED BY <2>1, <2>2, <2>3, <2>4, SettledKept
<1>4. ASSUME t \notin unsettled' PROVE Settled(t)'
  <2>1. t \notin unsettled
    BY <1>4 DEF Moves
  <2>2. \A s \in Requests : Works(s, t) => s = r
    BY <1>2, <2>1 DEF IInv, Settled
  <2>3. \A s \in Requests : Works(s, t)' => s = r
    BY <2>2 DEF Works, Busy, Moves
  <2>4. CASE request'[r].step = "none"
    <3>1. \A s \in Requests : ~Works(s, t)'
      BY <2>3, <2>4 DEF Works, Busy
    <3> QED BY <1>4, <2>1, <2>4, <3>1 DEF Settled
  <2>5. CASE request'[r].step # "none"
    <3>1. Works(r, t)'
      BY <2>5 DEF Works, Busy, Moves
    <3>2. Underway(request[r].op, request[r].step, t)'
      BY <1>4, <2>1, <2>5
    <3> QED BY <2>3, <3>1, <3>2 DEF Settled
  <2> QED BY <2>4, <2>5
<1> QED BY <1>1, <1>3, <1>4 DEF IInv

\* What a step finds when its account is not unsettled.
LEMMA Found ==
  ASSUME IInv, NEW r \in Requests, NEW t \in Users, Works(r, t), t \notin unsettled
  PROVE  Underway(request[r].op, request[r].step, t)
BY DEF IInv, Settled

LEMMA StartSettled ==
  ASSUME IInv, NEW r \in Requests, NEW actor \in Users, NEW t \in Users,
         NEW op \in Operations, Start(r, actor, op, t)
  PROVE  IInv'
<1>1. /\ TypeOK' /\ Moves(r, t)
      /\ request'[r].step = FirstStep(op) /\ request'[r].op = op
  BY StartMoves DEF IInv
<1>2. RootInv'
  BY <1>1, MoveKeepsRoot DEF IInv
<1>3. ASSUME NEW u \in Users, u \notin unsettled', u # t PROVE Settled(u)'
  <2>1. Settled(u)
    BY <1>1, <1>3 DEF IInv, Moves
  <2>2. /\ \A s \in Requests : Works(s, u)' <=> Works(s, u)
        /\ \A s \in Requests : Works(s, u) => request'[s] = request[s]
    BY <1>1, <1>3 DEF Works, Busy, Moves, Start
  <2>3. /\ identity'[u] = identity[u] /\ profile'[u] = profile[u]
        /\ u \in assigned' <=> u \in assigned
    BY <1>1, <1>3 DEF Moves
  <2> QED BY <2>1, <2>2, <2>3, SettledKept
<1>4. ASSUME t \notin unsettled' PROVE Settled(t)'
  <2>1. /\ t \notin unsettled /\ WorkingOn(t) = {} /\ Offered(op, t)
        /\ Admitted(actor, op, t)
        /\ UNCHANGED <<identity, profile, assigned>>
    BY <1>4 DEF Start, Stores
  <2>2. \A s \in Requests : ~Works(s, t)
    BY <2>1 DEF WorkingOn, Works
  <2>3. Agreed(t)
    BY <2>1, <2>2 DEF IInv, Settled
  <2>4. \A s \in Requests : Works(s, t)' => s = r
    BY <1>1, <2>2 DEF Works, Busy, Moves
  <2>5. Underway(op, FirstStep(op), t)
    <3>1. CASE op = "create"
      BY <2>1, <2>3, <3>1 DEF Underway, FirstStep, Admitted, Agreed
    <3>2. CASE op \in {"suspend", "activate", "delete"}
      BY <2>1, <2>3, <3>2 DEF Underway, FirstStep, Admitted, Agreed, Offered
    <3>3. CASE op = "restore"
      BY <2>1, <2>3, <3>3 DEF Underway, FirstStep, Admitted, Agreed, Offered
    <3>4. CASE op = "purge"
      BY <2>1, <2>3, <3>4 DEF Underway, FirstStep, Admitted, Agreed, Offered
    <3> QED BY <3>1, <3>2, <3>3, <3>4 DEF Operations
  <2>6. Underway(op, FirstStep(op), t)'
    BY <2>1, <2>5 DEF Underway, FirstStep
  <2>7. Works(r, t)'
    BY <1>1 DEF Works, Busy, Moves, FirstStep
  <2> QED BY <1>1, <2>4, <2>6, <2>7 DEF Settled
<1> QED BY <1>2, <1>3, <1>4 DEF IInv

LEMMA RequestSettled ==
  ASSUME IInv, NEW r \in Requests, RequestStep(r) \/ Retry(r) \/ Fail(r)
  PROVE  IInv'
<1>1. PICK t : t = request[r].target
  OBVIOUS
<1>2. RootInv /\ Busy(r) /\ TypeOK' /\ Moves(r, t)
  BY <1>1, RequestMoves DEF IInv
<1>3. t \in Users /\ Works(r, t) /\ request[r].op \in Operations
  BY <1>1, <1>2, BusyRequest DEF Works
<1> SUFFICES ASSUME t \notin unsettled, t \notin unsettled'
             PROVE  IF request'[r].step = "none"
                    THEN Agreed(t)'
                    ELSE Underway(request[r].op, request[r].step, t)'
  BY <1>2, <1>3, MoveKeepsSettled
<1>4. Underway(request[r].op, request[r].step, t)
  BY <1>3, Found
<1>5. CASE DropAssignments(r)
  <2>1. /\ request'[r].step = "read" /\ request'[r].op = request[r].op
        /\ t \notin assigned'
    BY <1>1, <1>2, <1>5, GoOK DEF DropAssignments, Steps
  <2> QED BY <1>3, <1>4, <1>5, <2>1 DEF DropAssignments, Underway, Operations
<1>6. CASE ReadProfile(r)
  <2>1. UNCHANGED <<identity, profile, assigned>>
    BY <1>6 DEF ReadProfile, Stores
  <2>2. CASE ~profile[t].exists
              \/ (request[r].op \in {"restore", "purge"} /\ ~profile[t].deleted)
    BY <1>3, <1>4, <1>6, <2>2 DEF ReadProfile, Underway, Operations
  <2>3. CASE ~(~profile[t].exists
               \/ (request[r].op \in {"restore", "purge"} /\ ~profile[t].deleted))
    <3>1. PICK step : step = AfterRead(request[r].op, profile[t])
      OBVIOUS
    <3>2. step \in {"guard", "profile"} /\ Go(r, step)
      BY <1>1, <1>6, <2>3, <3>1 DEF ReadProfile, AfterRead
    <3>3. request'[r].step = step /\ request'[r].op = request[r].op
      BY <1>2, <3>2, GoOK DEF Steps
    <3> QED BY <1>3, <1>4, <1>6, <2>1, <2>3, <3>1, <3>2, <3>3
        DEF AfterRead, Underway, Operations, ReadProfile
  <2> QED BY <2>2, <2>3
<1>7. CASE Guard(r)
  <2>1. UNCHANGED <<identity, profile, assigned>>
    BY <1>7 DEF Guard, Stores
  <2>2. PICK step \in {"identity", "failed"} : Go(r, step)
    BY <1>7 DEF Guard
  <2>3. request'[r].step = step /\ request'[r].op = request[r].op
    BY <1>2, <2>2, GoOK DEF Steps
  <2> QED BY <1>3, <1>4, <1>7, <2>1, <2>2, <2>3 DEF Guard, Underway, Operations
<1>8. CASE WriteIdentity(r)
  <2>1. UNCHANGED <<profile, assigned>>
    BY <1>2, <1>8, IdentityWritten
  <2>2. request[r].step = "identity"
    BY <1>8 DEF WriteIdentity
  <2>3. CASE request[r].op = "purge"
    <3>1. identity'[t] = NoIdentity /\ Go(r, "profile")
      BY <1>1, <1>2, <1>8, <2>3, IdentityWritten, DeletionMoves
    <3>2. request'[r].step = "profile" /\ request'[r].op = request[r].op
      BY <1>2, <3>1, GoOK DEF Steps
    <3> QED BY <1>4, <2>1, <2>2, <2>3, <3>1, <3>2, InitialTypes DEF Underway
  <2>4. CASE request[r].op # "purge" /\ Accepted(r)
    <3>1. PICK i : i = IdentityAfter(request[r].op, identity[t])
      OBVIOUS
    <3>2. /\ i.exists
          /\ i.enabled <=> request[r].op \in {"create", "activate", "restore"}
      BY <1>1, <1>2, <1>3, <2>4, <3>1, BusyRequest, WrittenIdentity DEF Accepted
    <3>3. identity' = [identity EXCEPT ![t] = i] /\ Go(r, "profile")
      BY <1>1, <1>2, <1>8, <2>4, <3>1, IdentityWritten
    <3>4. identity'[t] = i
      BY <1>2, <1>3, <3>3 DEF RootInv, TypeOK
    <3>5. request'[r].step = "profile" /\ request'[r].op = request[r].op
      BY <1>2, <3>3, GoOK DEF Steps
    <3> QED BY <1>3, <1>4, <2>1, <2>2, <2>4, <3>2, <3>4, <3>5 DEF Underway, Operations
  <2>5. CASE request[r].op # "purge" /\ ~Accepted(r)
    <3>1. Go(r, "failed") /\ UNCHANGED identity
      BY <1>2, <1>8, <2>5, IdentityWritten
    <3>2. request'[r].step = "failed" /\ request'[r].op = request[r].op
      BY <1>2, <3>1, GoOK DEF Steps
    <3> QED BY <1>3, <1>4, <2>1, <2>2, <2>5, <3>1, <3>2 DEF Underway, Operations
  <2> QED BY <2>3, <2>4, <2>5
<1>9. CASE WriteProfile(r)
  <2>1. UNCHANGED <<identity, assigned>>
    BY <1>9 DEF WriteProfile
  <2>2. CASE Writable(request[r].op, profile[t])
    <3>1. PICK n : n = ProfileAfter(request[r].op, profile[t])
      OBVIOUS
    <3>2. /\ request[r].op = "purge" <=> ~n.exists
          /\ request[r].op = "create" => ~n.suspended /\ ~n.deleted
          /\ request[r].op = "suspend" => n.suspended /\ (n.deleted <=> profile[t].deleted)
          /\ request[r].op = "activate"
               => ~n.suspended /\ (n.deleted <=> profile[t].deleted)
          /\ request[r].op = "delete"
               => n.deleted /\ (n.suspended <=> profile[t].suspended)
          /\ request[r].op = "restore"
               => ~n.deleted /\ (n.suspended <=> profile[t].suspended)
      BY <1>1, <1>2, <1>3, <2>2, <3>1, BusyRequest, WrittenProfile
    <3>3. profile' = [profile EXCEPT ![t] = n]
      BY <1>1, <1>9, <2>2, <3>1 DEF WriteProfile
    <3>4. profile'[t] = n
      BY <1>2, <1>3, <3>3 DEF RootInv, TypeOK
    <3>5. CASE request[r].op = "create"
      <4>1. request'[r].step = "assign" /\ request'[r].op = "create"
        BY <1>1, <1>2, <1>9, <2>2, <3>5, GoOK DEF WriteProfile, Steps
      <4> QED BY <1>4, <1>9, <2>1, <3>2, <3>4, <3>5, <4>1 DEF WriteProfile, Underway
    <3>6. CASE request[r].op # "create"
      <4>1. request'[r].step = "none"
        BY <1>1, <1>2, <1>9, <2>2, <3>6, EndOK DEF WriteProfile
      <4>2. Agreed(t)'
        BY <1>3, <1>4, <1>9, <2>1, <3>2, <3>4, <3>6
        DEF WriteProfile, Underway, Agreed, Operations
      <4> QED BY <4>1, <4>2
    <3> QED BY <3>5, <3>6
  <2>3. CASE ~Writable(request[r].op, profile[t])
    <3>1. PICK step \in {"undo", "failed"} :
            /\ Go(r, step) /\ UNCHANGED profile
            /\ step = "undo" => request[r].op = "create"
      BY <1>1, <1>9, <2>3 DEF WriteProfile
    <3>2. request'[r].step = step /\ request'[r].op = request[r].op
      BY <1>2, <3>1, GoOK DEF Steps
    <3> QED BY <1>3, <1>4, <1>9, <2>1, <3>1, <3>2
        DEF WriteProfile, Underway, Operations
  <2> QED BY <2>2, <2>3
<1>10. CASE Assign(r)
  <2>1. request'[r].step = "none" /\ UNCHANGED <<identity, profile>>
    BY <1>2, <1>10, EndOK DEF Assign
  <2> QED BY <1>3, <1>4, <1>10, <2>1 DEF Assign, Underway, Agreed, Operations
<1>11. CASE UndoCreate(r)
  <2>1. request[r].step = "revoke" /\ UNCHANGED <<profile, assigned>>
    BY <1>11 DEF UndoCreate
  <2>2. request'[r].step = "failed" /\ request'[r].op = request[r].op
    BY <1>2, <1>11, GoOK DEF UndoCreate, Steps
  <2>3. request[r].op = "create"
    BY <1>3, <1>4, <2>1 DEF Underway, Operations
  <2> QED BY <1>4, <2>1, <2>2, <2>3 DEF Underway
<1>12. CASE Retry(r)
  <2>1. CASE Go(r, FirstStep(request[r].op))
    <3>1. request'[r].step = FirstStep(request[r].op) /\ request'[r].op = request[r].op
      BY <1>2, <2>1, GoOK DEF FirstStep, Steps
    <3>2. UNCHANGED <<identity, profile, assigned>> /\ request[r].step = "failed"
      BY <1>12 DEF Retry, Stores
    <3> QED BY <1>3, <1>4, <3>1, <3>2 DEF FirstStep, Underway, Operations
  <2>2. CASE unsettled' = unsettled \union {t}
    BY <2>2
  <2> QED BY <1>1, <1>12, <2>1, <2>2 DEF Retry
<1>13. CASE Fail(r)
  <2>1. UNCHANGED <<identity, profile, assigned>>
    BY <1>13 DEF Fail, Stores
  <2>2. request \in [Requests -> RequestStates]
    BY <1>2 DEF RootInv, TypeOK
  <2>3. CASE request[r].op = "create" /\ request[r].step = "profile"
    <3>1. PICK q : q = [request[r] EXCEPT !.step = "undo"]
      OBVIOUS
    <3>2. q.step = "undo" /\ q.op = request[r].op
      BY <1>2, <3>1, BusyRequest
    <3>3. request'[r] = q
      BY <1>13, <2>2, <2>3, <3>1 DEF Fail
    <3> QED BY <1>4, <2>1, <2>3, <3>2, <3>3 DEF Underway
  <2>4. CASE request[r].step = "assign"
    <3>1. PICK q : q = [request[r] EXCEPT !.step = "read", !.op = "delete"]
      OBVIOUS
    <3>2. q.step = "read" /\ q.op = "delete"
      BY <1>2, <3>1, BusyRequest
    <3>3. request'[r] = q
      BY <1>13, <2>2, <2>4, <3>1 DEF Fail
    <3> QED BY <1>3, <1>4, <2>1, <2>4, <3>2, <3>3 DEF Underway, Operations
  <2>5. CASE /\ ~(request[r].op = "create" /\ request[r].step = "profile")
             /\ request[r].step # "assign"
    <3>1. PICK q : q = [request[r] EXCEPT !.step = "failed"]
      OBVIOUS
    <3>2. q.step = "failed" /\ q.op = request[r].op
      BY <1>2, <3>1, BusyRequest
    <3>3. request'[r] = q
      BY <1>13, <2>2, <2>5, <3>1 DEF Fail
    <3> QED BY <1>3, <1>4, <1>13, <2>1, <2>5, <3>2, <3>3
        DEF Fail, Underway, Operations
  <2> QED BY <2>3, <2>4, <2>5
<1>14. CASE GuardUndo(r)
  <2>1. PICK step \in {"revoke", "failed"} : Go(r, step)
    BY <1>14 DEF GuardUndo
  <2>2. request'[r].step = step /\ request'[r].op = request[r].op
    BY <1>2, <2>1, GoOK DEF Steps
  <2>3. /\ UNCHANGED <<identity, profile, assigned>> /\ request[r].step = "undo"
    BY <1>14 DEF GuardUndo, Stores
  <2>4. request[r].op = "create"
    BY <1>3, <1>4, <2>3 DEF Underway, Operations
  <2> QED BY <1>4, <2>1, <2>2, <2>3, <2>4 DEF Underway
<1> QED BY <1>5, <1>6, <1>7, <1>8, <1>9, <1>10, <1>11, <1>12, <1>13, <1>14 DEF RequestStep

\* The bootstrap: quiet steps, the call that creates the account and the one that
\* writes its profile.
LEMMA QuietSettled ==
  ASSUME IInv, Quiet, NEW u \in Users, u \notin unsettled'
  PROVE  Settled(u)'
<1>1. Settled(u)
  BY DEF IInv, Quiet
<1> QED BY <1>1, SettledKept DEF Quiet, Works, Busy

LEMMA CreateRootSettled ==
  ASSUME IInv, Creates, NEW u \in Users, u \notin unsettled'
  PROVE  Settled(u)'
<1> DEFINE e == boot.email
<1>1. CASE u = e
  <2>1. /\ WorkingOn(u) = {}
        /\ \A r \in Requests : request'[r] = request[r] \/ request'[r] = Idle
        /\ identity'[u] = NewIdentity /\ profile'[u] = NoProfile /\ u \notin assigned'
    BY <1>1, CreateRootOK DEF IInv
  <2>2. \A r \in Requests : ~Works(r, u)'
    BY <2>1 DEF WorkingOn, Works, Busy, Idle
  <2>3. Agreed(u)'
    BY <2>1, InitialTypes DEF Agreed
  <2> QED BY <1>1, <2>2, <2>3 DEF Settled
<1>2. CASE u # e
  <2>1. /\ identity'[u] = identity[u] /\ profile'[u] = profile[u]
        /\ u \in assigned' <=> u \in assigned
        /\ u \notin unsettled
        /\ \A r \in Requests : \/ request'[r] = request[r]
                               \/ request'[r] = Idle /\ r \in WorkingOn(e)
    BY <1>2, CreateRootOK DEF IInv
  <2>2. \A r \in Requests : /\ Works(r, u)' <=> Works(r, u)
                            /\ Works(r, u) => request'[r] = request[r]
    BY <1>2, <2>1 DEF WorkingOn, Works, Busy, Idle
  <2>3. Settled(u)
    BY <2>1 DEF IInv
  <2> QED BY <2>1, <2>2, <2>3, SettledKept
<1> QED BY <1>1, <1>2

LEMMA WriteRootProfileSettled ==
  ASSUME IInv, WriteRootProfile, NEW u \in Users, u \notin unsettled'
  PROVE  Settled(u)'
<1> DEFINE e == boot.email
<1>1. Settled(u) /\ UNCHANGED <<identity, assigned, request>>
  BY WriteRootProfileOK DEF IInv
<1>2. CASE u = e
  <2>1. /\ profile'[u].exists /\ WorkingOn(u) = {} /\ identity[u].exists
        /\ profile'[u].suspended = profile[u].suspended
        /\ profile'[u].deleted = profile[u].deleted
        /\ profile[u] \in ProfileType
    BY <1>2, WriteRootProfileOK, StoreTypes DEF IInv, RootInv
  <2>2. \A r \in Requests : ~Works(r, u) /\ ~Works(r, u)'
    BY <1>1, <2>1 DEF WorkingOn, Works, Busy
  <2>3. Agreed(u)
    BY <1>1, <1>2, <2>2 DEF Settled
  <2>4. Agreed(u)'
    <3>1. CASE profile[u].exists
      BY <1>1, <2>1, <2>3, <3>1 DEF Agreed
    <3>2. CASE ~profile[u].exists
      <4>1. ~profile[u].suspended /\ ~profile[u].deleted
        BY <2>1, <3>2, ProfileFields, InitialTypes
      <4> QED BY <1>1, <2>1, <2>3, <3>2, <4>1 DEF Agreed
    <3> QED BY <3>1, <3>2
  <2> QED BY <1>2, <2>2, <2>4 DEF Settled
<1>3. CASE u # e
  <2>1. profile'[u] = profile[u]
    BY <1>3, WriteRootProfileOK DEF IInv
  <2> QED BY <1>1, <2>1, SettledKept DEF Works, Busy
<1> QED BY <1>2, <1>3

LEMMA StepKeepsInvariant ==
  ASSUME IInv, [Next]_vars
  PROVE  IInv'
<1>1. RootInv'
  BY StepKeepsRoot DEF IInv
<1>2. CASE UNCHANGED vars
  <2>1. ASSUME NEW u \in Users, u \notin unsettled' PROVE Settled(u)'
    BY <1>2, <2>1, QuietSettled DEF vars, Quiet
  <2> QED BY <1>1, <2>1 DEF IInv
<1>3. ASSUME NEW r \in Requests, NEW actor \in Users, NEW target \in Users,
             NEW op \in Operations, Start(r, actor, op, target)
      PROVE  IInv'
  BY <1>3, StartSettled
<1>4. ASSUME NEW r \in Requests, RequestStep(r) \/ Retry(r) \/ Fail(r) PROVE IInv'
  BY <1>4, RequestSettled
<1>5. CASE RunStep \/ StopRun \/ Configure
  <2>1. QuietStep \/ Creates \/ WriteRootProfile
    BY <1>5 DEF RunStep, QuietStep
  <2>2. ASSUME NEW u \in Users, u \notin unsettled' PROVE Settled(u)'
    BY <2>1, <2>2, QuietStepOK, QuietSettled, CreateRootSettled,
       WriteRootProfileSettled DEF IInv
  <2> QED BY <1>1, <2>2 DEF IInv
<1>6. ASSUME NEW u \in RootEmails, ChoosePassword(u) \/ ResetPassword(u) PROVE IInv'
  <2>1. ASSUME NEW v \in Users, v \notin unsettled' PROVE Settled(v)'
    BY <1>6, <2>1, PasswordMoves, QuietSettled DEF IInv
  <2> QED BY <1>1, <2>1 DEF IInv
<1> QED BY <1>2, <1>3, <1>4, <1>5, <1>6 DEF Next

\* An account that a step does not touch is kept.
LEMMA UntouchedKept ==
  ASSUME RootInv, NEW u \in Users, identity[u].marker, identity'[u] = identity[u],
         profile'[u] = profile[u], u \in assigned' <=> u \in assigned
  PROVE  Kept(u)
BY StoreTypes, IdentityFields DEF RootInv, Kept

\* No step of a server action writes to an account with the marker, unless it was past
\* its last look when the marker came: it is not admitted, or the guard stops it.
LEMMA RequestsKeepRoot ==
  ASSUME RootInv, NEW u \in Users \ overtaken, identity[u].marker,
         NEW r \in Requests,
         \/ RequestStep(r) \/ Retry(r) \/ Fail(r)
         \/ \E actor, target \in Users, op \in Operations : Start(r, actor, op, target)
  PROVE  Kept(u)
<1>1. CASE RequestStep(r) \/ Retry(r) \/ Fail(r)
  <2>1. PICK t : t = request[r].target
    OBVIOUS
  <2>2. Busy(r) /\ Moves(r, t)
    BY <1>1, <2>1, RequestMoves
  <2>3. CASE u = t
    BY <2>1, <2>2, <2>3 DEF RootInv, RootGuarded, Moves
  <2>4. CASE u # t
    BY <2>2, <2>4, UntouchedKept DEF Moves
  <2> QED BY <2>3, <2>4
<1>2. ASSUME NEW actor \in Users, NEW target \in Users, NEW op \in Operations,
             Start(r, actor, op, target)
      PROVE  Kept(u)
  <2>1. u # target
    BY <1>2, AdmittedUnmarked DEF Start
  <2> QED BY <1>2, <2>1, StartMoves, UntouchedKept DEF Moves
<1> QED BY <1>1, <1>2

\* Nor does the bootstrap, which may create an account, or write a profile, beside it.
LEMMA BootstrapKeepsRoot ==
  ASSUME RootInv, NEW u \in Users, identity[u].marker, RunStep \/ StopRun \/ Configure
  PROVE  Kept(u)
<1>1. QuietStep \/ Creates \/ WriteRootProfile
  BY DEF RunStep, QuietStep
<1>2. CASE QuietStep
  BY <1>2, QuietStepOK, QuietKeeps
<1>3. CASE Creates
  <2>1. u # boot.email
    BY <1>3, StoreTypes, IdentityFields DEF Creates, RootInv
  <2> QED BY <1>3, <2>1, CreateRootOK, UntouchedKept
<1>4. CASE WriteRootProfile
  <2>1. CASE u = boot.email
    BY <1>4, <2>1, WriteRootProfileOK, StoreTypes, IdentityFields DEF RootInv, Kept
  <2>2. CASE u # boot.email
    BY <1>4, <2>2, WriteRootProfileOK, UntouchedKept
  <2> QED BY <2>1, <2>2
<1> QED BY <1>1, <1>2, <1>3, <1>4

LEMMA StepKeepsMarked ==
  ASSUME RootInv, [Next]_vars, NEW u \in Users \ overtaken, identity[u].marker
  PROVE  Kept(u)
<1>1. CASE UNCHANGED vars
  BY <1>1, UntouchedKept DEF vars
<1>2. ASSUME NEW v \in RootEmails, ChoosePassword(v) \/ ResetPassword(v) PROVE Kept(u)
  BY <1>2, PasswordMoves, QuietKeeps
<1> QED BY <1>1, <1>2, RequestsKeepRoot, BootstrapKeepsRoot DEF Next

\* Requests only take a password away or give an invitation, and the bootstrap sets the
\* initial password of an account that had none of its own when the run looked.
LEMMA StepKeepsPassword ==
  ASSUME RootInv, [Next]_vars, NEW u \in RootEmails \ overtaken, password[u] = "own"
  PROVE  password'[u] # "initial"
<1>1. password \in [RootEmails -> Passwords]
  BY StoreTypes DEF RootInv
<1>2. CASE SetPassword
  <2>1. boot # NoRun /\ boot.setPassword
    BY <1>2 DEF SetPassword, NoRun, RootInv, Bootstrapped
  <2>2. u # boot.email
    BY <2>1 DEF RootInv, Bootstrapped
  <2> QED BY <1>1, <1>2, <2>2 DEF SetPassword, SetPasswordOf
<1>3. CASE UNCHANGED password
  BY <1>3
<1>4. ASSUME NEW v \in RootEmails, ChoosePassword(v) \/ ResetPassword(v)
      PROVE  password'[u] # "initial"
  BY <1>1, <1>4 DEF ChoosePassword, ResetPassword, SetPasswordOf
<1>5. ASSUME NEW r \in Requests, RequestStep(r) \/ Retry(r) \/ Fail(r)
      PROVE  password'[u] # "initial"
  <2>1. PICK t : t = request[r].target
    OBVIOUS
  <2> QED BY <1>5, <2>1, RequestMoves DEF Moves
<1>6. ASSUME NEW r \in Requests, NEW actor \in Users, NEW target \in Users,
             NEW op \in Operations, Start(r, actor, op, target)
      PROVE  UNCHANGED password
  BY <1>6 DEF Start, Bootstrapping
<1>7. StartRun \/ LookUpRoot \/ CreateRoot \/ ClaimMarker \/ AddMarker
        \/ AddCoreGroups \/ WriteRootProfile \/ StopRun \/ Configure
        => UNCHANGED password
  BY DEF StartRun, LookUpRoot, CreateRoot, ClaimMarker, AddMarker, AddCoreGroups,
     WriteRootProfile, StopRun, Configure
<1> QED BY <1>2, <1>3, <1>4, <1>5, <1>6, <1>7 DEF Next, RunStep, vars

-----------------------------------------------------------------------------
(* The theorems.                                                           *)

\* The invariant holds in every reachable state.
THEOREM InductiveInvariant == Spec => []IInv
BY InitOK, StepKeepsInvariant, PTL DEF Spec

\* Accounts, requests, the run of the bootstrap and the budget keep their shape: no
\* step changes an identity or a profile that is gone.
THEOREM TypeCorrect == Spec => []TypeOK
<1>1. IInv => TypeOK
  BY DEF IInv, RootInv
<1> QED BY <1>1, InductiveInvariant, PTL

\* From the moment the bootstrap has marked an account no step deletes, disables,
\* suspends or restores it or touches its assignments, whatever server actions were
\* admitted before, on an account the bootstrap created or on one it adopted; only
\* operations past their last look at that moment are left out (overtaken).
THEOREM RootOutOfReach == Spec => RootProtected
<1>1. IInv /\ [Next]_vars =>
        [\A u \in Users \ overtaken : identity[u].marker =>
           /\ identity'[u].exists /\ identity'[u].marker
           /\ identity'[u].enabled = identity[u].enabled
           /\ profile'[u].suspended = profile[u].suspended
           /\ profile'[u].deleted = profile[u].deleted
           /\ u \in assigned' <=> u \in assigned]_vars
  BY StepKeepsMarked DEF IInv, Kept
<1> QED BY <1>1, InductiveInvariant, PTL DEF Spec, RootProtected

\* The reserved marker has one holder at most, however many runs of the bootstrap are
\* interrupted and for whatever configured emails.
THEOREM MarkerUnique == Spec => []OneRoot
<1>1. IInv => OneRoot
  BY DEF IInv, RootInv
<1> QED BY <1>1, InductiveInvariant, PTL

\* The bootstrap never replaces a password that its owner had chosen before the run
\* looked at the account.
THEOREM ChosenPasswordKept == Spec => PasswordKept
<1>1. IInv /\ [Next]_vars =>
        [\A u \in RootEmails \ overtaken :
           password[u] = "own" => password'[u] # "initial"]_vars
  BY StepKeepsPassword DEF IInv
<1> QED BY <1>1, InductiveInvariant, PTL DEF Spec, PasswordKept

\* An account no request works on has an identity that its profile describes, although
\* every operation is several writes that may fail and be repeated.
THEOREM FinishedOperationsAgree == Spec => []StoresAgree
<1>1. ASSUME IInv, NEW u \in Users \ unsettled, WorkingOn(u) = {} PROVE Agreed(u)
  BY <1>1 DEF IInv, Settled, Works, WorkingOn
<1>2. IInv => StoresAgree
  BY <1>1 DEF StoresAgree, Agreed
<1> QED BY <1>2, InductiveInvariant, PTL

\* A purged account has no role assignment left.
THEOREM PurgedWithoutAssignments == Spec => []PurgeLeavesNothing
<1>1. ASSUME IInv, NEW u \in Users \ unsettled, WorkingOn(u) = {} PROVE Agreed(u)
  BY <1>1 DEF IInv, Settled, Works, WorkingOn
<1>2. IInv => PurgeLeavesNothing
  BY <1>1 DEF PurgeLeavesNothing, Agreed
<1> QED BY <1>2, InductiveInvariant, PTL
=============================================================================
