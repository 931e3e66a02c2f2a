---------------------------- MODULE UserAccounts ----------------------------
(***************************************************************************)
(* User accounts over two stores that share no transaction: the identity   *)
(* in the Cognito user pool and the UserProfile item, with the role        *)
(* assignments of the access-control table beside them.                    *)
(*                                                                         *)
(* Administrators create, suspend, activate, delete, restore and purge     *)
(* accounts (app-user-management-service.ts behind the actions of          *)
(* dashboard/users/actions.ts).  Every operation reads the profile, passes *)
(* the guard of the Cognito handler, writes the identity and then the      *)
(* profile; each step may fail, and the administrator repeats what failed. *)
(* An operator creates the Root User by a sequence of calls that may stop  *)
(* anywhere and is run again (ci-bootstrap-root-user.ts).  It adopts an    *)
(* account that exists, also one that administrators are working on.       *)
(***************************************************************************)
EXTENDS Integers, FiniteSets

CONSTANTS Users,        \* accounts; an id is never used a second time
          RootEmails,   \* those an operator may configure as the Root User
          Existing,     \* those that exist from the start
          Rank,         \* administrator authority, 0 for other users
          Requests,     \* server actions that may run at the same time
          MaxFailures,  \* bound: failing steps of requests
          MaxTurns      \* bound: interrupted runs of the bootstrap, changes of
                        \* the configured email, runs for a complete Root User

ASSUME AccountsAssumption ==
  /\ RootEmails \subseteq Users /\ Existing \subseteq Users
  /\ Rank \in [Users -> Nat]
  /\ MaxFailures \in Nat /\ MaxTurns \in Nat

VARIABLES identity,     \* the Cognito user of each account
          password,     \* whose password the account of a Root email has
          profile,      \* the UserProfile item of each account
          assigned,     \* the accounts with role assignments
          request,      \* the server actions
          unsettled,    \* accounts two requests have worked on at once, or
                        \* one that its administrator gave up
          boot,         \* the run of the bootstrap
          overtaken,    \* history: accounts on which something was under way
                        \* that no later look could stop
          configured,   \* the Root email of the deployment
          budget        \* failures and turns still to come

vars == <<identity, password, profile, assigned, request, unsettled, boot,
          overtaken, configured, budget>>

\* "invited": the temporary password of an account an administrator created;
\* "initial": the one the bootstrap set; "own": one chosen by its owner;
\* "reset": an own one that has to be chosen anew.
Passwords == {"none", "invited", "initial", "own", "reset"}

NoIdentity == [exists |-> FALSE, enabled |-> FALSE, marker |-> FALSE,
               core |-> FALSE]
NewIdentity == [NoIdentity EXCEPT !.exists = TRUE, !.enabled = TRUE]

NoProfile == [exists |-> FALSE, suspended |-> FALSE, deleted |-> FALSE,
              root |-> FALSE]
NewProfile == [NoProfile EXCEPT !.exists = TRUE]

Operations == {"create", "suspend", "activate", "delete", "restore", "purge"}

Idle == [step |-> "none"]
RequestStates ==
  {Idle} \union
  [step: {"drop", "read", "guard", "identity", "profile", "assign", "undo",
          "revoke", "failed"},
   op: Operations, actor: Users, target: Users]

NoRun == [step |-> "none"]
Runs == {NoRun} \union
        [step: {"look", "create", "claim", "mark", "password", "groups",
                "profile"},
         email: RootEmails, setPassword: BOOLEAN]

TypeOK ==
  /\ identity \in [Users -> {NoIdentity} \union
                             [exists: {TRUE}, enabled: BOOLEAN,
                              marker: BOOLEAN, core: BOOLEAN]]
  /\ password \in [RootEmails -> Passwords]
  /\ profile \in [Users -> {NoProfile} \union
                            [exists: {TRUE}, suspended: BOOLEAN,
                             deleted: BOOLEAN, root: BOOLEAN]]
  /\ assigned \subseteq Users
  /\ request \in [Requests -> RequestStates]
  /\ unsettled \subseteq Users
  /\ boot \in Runs
  /\ overtaken \subseteq RootEmails
  /\ configured \in RootEmails
  /\ budget \in [failures: 0 .. MaxFailures, turns: 0 .. MaxTurns]

Init ==
  /\ identity = [u \in Users |-> IF u \in Existing THEN NewIdentity
                                                   ELSE NoIdentity]
  /\ password = [u \in RootEmails |-> IF u \in Existing THEN "own" ELSE "none"]
  /\ profile = [u \in Users |-> IF u \in Existing THEN NewProfile
                                                  ELSE NoProfile]
  /\ assigned = Existing
  /\ request = [r \in Requests |-> Idle]
  /\ unsettled = {}
  /\ boot = NoRun
  /\ overtaken = {}
  /\ configured \in RootEmails
  /\ budget = [failures |-> MaxFailures, turns |-> MaxTurns]

-----------------------------------------------------------------------------
(* Authority.                                                              *)

IsRoot(u) == identity[u].marker \/ profile[u].root
IsAdministrator(u) == Rank[u] > 0 \/ IsRoot(u)

\* Root manages every other administrator, the others their peers and lower
\* ranks.
Outranks(actor, target) ==
  Rank[target] = 0 \/ IsRoot(actor) \/ Rank[actor] >= Rank[target]

\* What the server action asks of the record: Root is out of reach.
CanManage(actor, target) == ~IsRoot(target) /\ Outranks(actor, target)

\* Faulty variant of WithinReach: the guard compares ranks only.
WithinReachByRank(actor, target) == Outranks(actor, target)

\* What the guard asks of the identity: it sees the marker, not the profile.
WithinReach(actor, target) ==
  ~identity[target].marker /\ Outranks(actor, target)

\* Somebody who can sign in and is let into user management.
SignedIn(u) ==
  /\ identity[u].enabled /\ IsAdministrator(u)
  /\ u \in RootEmails => password[u] \in {"initial", "own"}

\* What the pages offer when they are fresh: Trash lists the deleted users,
\* the users page the others.  The server does not insist on it.
Offered(op, target) ==
  \/ op = "create"
  \/ profile[target].deleted <=> op \in {"restore", "purge"}

\* Nobody suspends or deletes their own account.
OwnAccount(actor, op, target) ==
  actor = target /\ op \in {"suspend", "delete"}

-----------------------------------------------------------------------------
(* The server actions.                                                     *)

Busy(r) == request[r].step # "none"
WorkingOn(u) == {r \in Requests : Busy(r) /\ request[r].target = u}

Go(r, step) == request' = [request EXCEPT ![r].step = step]
End(r)      == request' = [request EXCEPT ![r] = Idle]

Stores == <<identity, profile, assigned>>
Bootstrapping == <<password, boot, overtaken, configured>>

\* The record behind the page is loaded and the actor's rank compared; the
\* action throws when profile or identity is missing.  A create asks only for
\* the roles it grants (bound: no second account beside the rest of a former
\* one).
Admitted(actor, op, target) ==
  IF op = "create"
  THEN /\ ~identity[target].exists /\ ~profile[target].exists
       /\ Outranks(actor, target)
  ELSE /\ profile[target].exists /\ identity[target].exists
       /\ ~OwnAccount(actor, op, target)
       /\ CanManage(actor, target)

\* Faulty variant of FirstStep: a purge leaves the role assignments.
FirstStepKeepingAssignments(op) == IF op = "create" THEN "guard" ELSE "read"

FirstStep(op) == CASE op = "create" -> "guard"
                   [] op = "purge"  -> "drop"
                   [] OTHER         -> "read"

Start(r, actor, op, target) ==
  /\ ~Busy(r) /\ target \notin unsettled
  /\ SignedIn(actor) /\ Admitted(actor, op, target)
  /\ request' = [request EXCEPT ![r] = [step |-> FirstStep(op), op |-> op,
                                        actor |-> actor, target |-> target]]
  /\ unsettled' = IF WorkingOn(target) = {} /\ Offered(op, target)
                  THEN unsettled ELSE unsettled \union {target}
  /\ UNCHANGED <<Stores, Bootstrapping, budget>>

\* The administrator repeats an operation that failed, and gives it up when
\* it is not admitted any more.
Retry(r) ==
  /\ request[r].step = "failed"
  /\ LET q == request[r] IN
     IF SignedIn(q.actor) /\ Admitted(q.actor, q.op, q.target)
     THEN Go(r, FirstStep(q.op)) /\ UNCHANGED unsettled
     ELSE End(r) /\ unsettled' = unsettled \union {q.target}
  /\ UNCHANGED <<Stores, Bootstrapping, budget>>

\* A purge removes the role assignments before it looks at the deletion.
DropAssignments(r) ==
  /\ request[r].step = "drop"
  /\ assigned' = assigned \ {request[r].target}
  /\ Go(r, "read")
  /\ UNCHANGED <<identity, profile, unsettled, Bootstrapping, budget>>

\* Faulty variant of AfterRead: a restore enables every user.
AfterReadEnabling(op, p) == "guard"

\* The identity of a user suspended before the deletion is not touched by a
\* restore.
AfterRead(op, p) ==
  IF op = "restore" /\ p.suspended THEN "profile" ELSE "guard"

\* requireProfile and the checks on it.
ReadProfile(r) ==
  /\ request[r].step = "read"
  /\ LET q == request[r]
         p == profile[q.target]
     IN IF ~p.exists \/ (q.op \in {"restore", "purge"} /\ ~p.deleted)
        THEN End(r)
        ELSE Go(r, AfterRead(q.op, p))
  /\ UNCHANGED <<Stores, unsettled, Bootstrapping, budget>>

\* The guard of the Cognito handlers: the actor must still be an enabled
\* administrator, and the target in reach; a delete may find it gone.
GuardPasses(op, actor, target) ==
  /\ identity[actor].enabled
  /\ Rank[actor] > 0 \/ identity[actor].marker
  /\ CASE op = "create"                                 -> Outranks(actor, target)
       [] op = "purge" /\ ~identity[target].exists -> TRUE
       [] OTHER -> /\ identity[target].exists
                   /\ WithinReach(actor, target)
                   /\ ~(/\ actor = target
                        /\ op \in {"suspend", "delete", "purge"})

Guard(r) ==
  /\ request[r].step = "guard"
  /\ LET q == request[r] IN
     IF GuardPasses(q.op, q.actor, q.target)
     THEN Go(r, "identity")
     ELSE Go(r, "failed")
  /\ UNCHANGED <<Stores, unsettled, Bootstrapping, budget>>

IdentityAfter(op, i) ==
  CASE op = "create"                 -> NewIdentity
    [] op \in {"suspend", "delete"}  -> [i EXCEPT !.enabled = FALSE]
    [] op \in {"activate", "restore"}-> [i EXCEPT !.enabled = TRUE]

SetPasswordOf(u, value) ==
  password' = [v \in RootEmails |-> IF v = u THEN value ELSE password[v]]

\* The calls a run still has to make need the account it has found.
HoldsAccount(u) ==
  /\ boot.step \in {"claim", "mark", "password", "groups"}
  /\ boot.email = u

\* A deleted identity takes its password and its groups with it.
DeleteIdentity(u) ==
  /\ identity' = [identity EXCEPT ![u] = NoIdentity]
  /\ SetPasswordOf(u, "none")
  /\ boot' = IF HoldsAccount(u) THEN NoRun ELSE boot

\* Cognito refuses to create a user twice and to change one that is gone;
\* deleting one that is gone is no error.
WriteIdentity(r) ==
  /\ request[r].step = "identity"
  /\ LET q == request[r]
         i == identity[q.target]
     IN \/ /\ q.op = "purge"
           /\ DeleteIdentity(q.target)
           /\ Go(r, "profile")
        \/ /\ q.op # "purge" /\ (q.op = "create" <=> ~i.exists)
           /\ identity' = [identity EXCEPT
                             ![q.target] = IdentityAfter(q.op, i)]
           /\ IF q.op = "create" THEN SetPasswordOf(q.target, "invited")
                                 ELSE UNCHANGED password
           /\ Go(r, "profile")
           /\ UNCHANGED boot
        \/ /\ q.op # "purge" /\ ~(q.op = "create" <=> ~i.exists)
           /\ Go(r, "failed")
           /\ UNCHANGED <<identity, password, boot>>
  /\ UNCHANGED <<profile, assigned, unsettled, overtaken, configured, budget>>

ProfileAfter(op, p) ==
  CASE op = "create"   -> NewProfile
    [] op = "suspend"  -> [p EXCEPT !.suspended = TRUE]
    [] op = "activate" -> [p EXCEPT !.suspended = FALSE]
    [] op = "delete"   -> [p EXCEPT !.deleted = TRUE]
    [] op = "restore"  -> [p EXCEPT !.deleted = FALSE]
    [] op = "purge"    -> NoProfile

\* Faulty variant of Writable: an update creates the item that is missing.
AlwaysWritable(op, p) == TRUE

\* Updating a profile that is gone is an error, and creating it twice.
Writable(op, p) == op = "purge" \/ (op = "create" <=> ~p.exists)

WriteProfile(r) ==
  /\ request[r].step = "profile"
  /\ LET q == request[r]
         p == profile[q.target]
     IN IF Writable(q.op, p)
        THEN /\ profile' = [profile EXCEPT
                              ![q.target] = ProfileAfter(q.op, p)]
             /\ IF q.op = "create" THEN Go(r, "assign") ELSE End(r)
        ELSE /\ Go(r, IF q.op = "create" THEN "undo" ELSE "failed")
             /\ UNCHANGED profile
  /\ UNCHANGED <<identity, assigned, unsettled, Bootstrapping, budget>>

Assign(r) ==
  /\ request[r].step = "assign"
  /\ assigned' = assigned \union {request[r].target}
  /\ End(r)
  /\ UNCHANGED <<identity, profile, unsettled, Bootstrapping, budget>>

\* A create without its profile takes the identity back, through the guard
\* of the handler that deletes it.
GuardUndo(r) ==
  /\ request[r].step = "undo"
  /\ LET q == request[r] IN
     Go(r, IF GuardPasses("purge", q.actor, q.target) THEN "revoke"
                                                      ELSE "failed")
  /\ UNCHANGED <<Stores, unsettled, Bootstrapping, budget>>

UndoCreate(r) ==
  /\ request[r].step = "revoke"
  /\ DeleteIdentity(request[r].target)
  /\ Go(r, "failed")
  /\ UNCHANGED <<profile, assigned, unsettled, overtaken, configured, budget>>

\* A step fails.  A create whose assignments fail deletes the new account
\* the way an administrator would.
Fail(r) ==
  /\ Busy(r) /\ request[r].step # "failed"
  /\ budget.failures > 0
  /\ budget' = [budget EXCEPT !.failures = @ - 1]
  /\ request' = [request EXCEPT ![r] =
       CASE @.op = "create" /\ @.step = "profile" -> [@ EXCEPT !.step = "undo"]
         [] @.step = "assign" -> [@ EXCEPT !.step = "read", !.op = "delete"]
         [] OTHER             -> [@ EXCEPT !.step = "failed"]]
  /\ UNCHANGED <<Stores, unsettled, Bootstrapping>>

RequestStep(r) ==
  \/ DropAssignments(r) \/ ReadProfile(r) \/ Guard(r) \/ WriteIdentity(r)
  \/ WriteProfile(r) \/ Assign(r) \/ GuardUndo(r) \/ UndoCreate(r)

-----------------------------------------------------------------------------
(* The bootstrap of the Root User.                                         *)

Managing == <<assigned, request, unsettled>>

\* What the bootstrap promises: the account with both groups and a password,
\* and its profile.
RootComplete(u) ==
  /\ identity[u].exists /\ identity[u].marker /\ identity[u].core
  /\ profile[u].exists /\ profile[u].root
  /\ password[u] \notin {"none", "invited"}

StartRun ==
  /\ boot = NoRun
  /\ boot' = [step |-> "look", email |-> configured, setPassword |-> FALSE]
  /\ \/ ~RootComplete(configured) /\ UNCHANGED budget
     \/ /\ RootComplete(configured) /\ budget.turns > 0
        /\ budget' = [budget EXCEPT !.turns = @ - 1]
  /\ UNCHANGED <<identity, password, profile, Managing, overtaken, configured>>

\* Faulty variant of PasswordWanted: every run sets the password.
PasswordAlwaysWanted(u) == TRUE

\* An account that is not confirmed gets a password, also one whose own
\* password has been reset.
PasswordWanted(u) == password[u] \notin {"initial", "own"}

\* Faulty variant of AfterLook: only the run that creates the account sets
\* its password.
AfterLookNoRepair(b) ==
  IF identity[b.email].exists
  THEN [b EXCEPT !.step = "claim"]
  ELSE [b EXCEPT !.step = "create", !.setPassword = TRUE]

AfterLook(b) ==
  IF identity[b.email].exists
  THEN [b EXCEPT !.step = "claim", !.setPassword = PasswordWanted(b.email)]
  ELSE [b EXCEPT !.step = "create", !.setPassword = TRUE]

LookUpRoot ==
  /\ boot.step = "look"
  /\ boot' = AfterLook(boot)
  /\ UNCHANGED <<identity, password, profile, Managing, overtaken, configured,
                 budget>>

\* Operations on the former account of the email; what they still do reaches
\* the old id.
OnFormerAccount(r, email) ==
  /\ r \in WorkingOn(email)
  /\ ~(request[r].op = "create" /\ request[r].step \in {"guard", "identity",
                                                       "failed"})

\* Two hands on one account: the stores need not agree afterwards.
Disturbed(email) ==
  IF WorkingOn(email) = {} /\ identity[email].exists THEN unsettled
  ELSE unsettled \union {email}

\* The call fails if the account exists by now.
CreateRoot ==
  /\ boot.step = "create"
  /\ LET email == boot.email IN
     IF identity[email].exists
     THEN /\ boot' = NoRun
          /\ UNCHANGED <<Stores, request, unsettled, overtaken>>
     ELSE /\ identity' = [identity EXCEPT ![email] = NewIdentity]
          /\ profile' = [profile EXCEPT ![email] = NoProfile]
          /\ assigned' = assigned \ {email}
          /\ request' = [r \in Requests |-> IF OnFormerAccount(r, email)
                                            THEN Idle ELSE request[r]]
          /\ unsettled' = IF WorkingOn(email) = {} THEN unsettled
                                                   ELSE unsettled \union {email}
          /\ overtaken' = overtaken \ {email}
          /\ boot' = [boot EXCEPT !.step = "claim"]
  /\ UNCHANGED <<password, configured, budget>>

AfterClaim(b) == [b EXCEPT !.step = IF b.setPassword THEN "password"
                                                     ELSE "groups"]

\* Faulty variant of Owners: the marker group is not listed.
NoOwners(email) == {}

\* The other accounts in the reserved marker group.
Owners(email) == {u \in Users \ {email} : identity[u].marker}

\* The run ends when the marker belongs to somebody else.
ClaimMarker ==
  /\ boot.step = "claim"
  /\ boot' = CASE Owners(boot.email) # {}     -> NoRun
               [] identity[boot.email].marker -> AfterClaim(boot)
               [] OTHER                       -> [boot EXCEPT !.step = "mark"]
  /\ UNCHANGED <<identity, password, profile, Managing, overtaken, configured,
                 budget>>

\* Operations whose next writes no look at the account precedes: a purge drops
\* the assignments first, the restore of a suspended user writes the profile
\* only.
PastLook(r) ==
  \/ request[r].step \in {"drop", "profile", "assign", "revoke"}
  \/ request[r].step = "identity" /\ request[r].op # "create"
  \/ request[r].step = "read" /\ request[r].op = "restore"

AddMarker ==
  /\ boot.step = "mark"
  /\ identity' = [identity EXCEPT ![boot.email].marker = TRUE]
  /\ boot' = AfterClaim(boot)
  /\ overtaken' = IF \E r \in WorkingOn(boot.email) : PastLook(r)
                  THEN overtaken \union {boot.email} ELSE overtaken
  /\ UNCHANGED <<password, profile, Managing, configured, budget>>

SetPassword ==
  /\ boot.step = "password"
  /\ SetPasswordOf(boot.email, "initial")
  /\ boot' = [boot EXCEPT !.step = "groups", !.setPassword = FALSE]
  /\ UNCHANGED <<identity, profile, Managing, overtaken, configured, budget>>

\* The groups of the deployment, and the last look at the account.
AddCoreGroups ==
  /\ boot.step = "groups"
  /\ identity' = [identity EXCEPT ![boot.email].core = TRUE]
  /\ boot' = [boot EXCEPT !.step = "profile"]
  /\ UNCHANGED <<password, profile, Managing, overtaken, configured, budget>>

\* Status and deletion state are kept if the item has them.  Its condition on
\* the owner of the item holds: key and owner come from the same account.
WriteRootProfile ==
  /\ boot.step = "profile"
  /\ profile' = [profile EXCEPT ![boot.email].exists = TRUE,
                                ![boot.email].root = TRUE]
  /\ unsettled' = Disturbed(boot.email)
  /\ boot' = NoRun
  /\ UNCHANGED <<identity, password, assigned, request, overtaken, configured,
                 budget>>

RunStep ==
  \/ StartRun \/ LookUpRoot \/ CreateRoot \/ ClaimMarker \/ AddMarker
  \/ SetPassword \/ AddCoreGroups \/ WriteRootProfile

\* The command is interrupted between two calls, or one of them fails.
StopRun ==
  /\ boot # NoRun
  /\ budget.turns > 0
  /\ budget' = [budget EXCEPT !.turns = @ - 1]
  /\ boot' = NoRun
  /\ UNCHANGED <<identity, password, profile, Managing, overtaken, configured>>

\* The operator configures another Root email.
Configure ==
  /\ budget.turns > 0
  /\ \E email \in RootEmails \ {configured} : configured' = email
  /\ budget' = [budget EXCEPT !.turns = @ - 1]
  /\ UNCHANGED <<identity, password, profile, Managing, boot, overtaken>>

\* The owner of a Root email signs in and chooses a password; a run that has
\* looked already still sets the initial one.
ChoosePassword(u) ==
  /\ password[u] \in {"invited", "initial", "reset"} /\ identity[u].enabled
  /\ SetPasswordOf(u, "own")
  /\ overtaken' = IF boot # NoRun /\ boot.email = u /\ boot.setPassword
                  THEN overtaken \union {u} ELSE overtaken
  /\ UNCHANGED <<identity, profile, Managing, boot, configured, budget>>

\* The user pool asks for a new password (bound: while a run may still follow).
ResetPassword(u) ==
  /\ password[u] = "own" /\ budget.turns > 0
  /\ SetPasswordOf(u, "reset")
  /\ UNCHANGED <<identity, profile, Managing, boot, overtaken, configured,
                 budget>>

-----------------------------------------------------------------------------
Next ==
  \/ \E r \in Requests :
       \/ \E actor, target \in Users, op \in Operations :
            Start(r, actor, op, target)
       \/ RequestStep(r) \/ Retry(r) \/ Fail(r)
  \/ RunStep \/ StopRun \/ Configure
  \/ \E u \in RootEmails : ChoosePassword(u) \/ ResetPassword(u)

Spec == Init /\ [][Next]_vars

\* The operator runs the bootstrap again; nothing is asked of administrators.
BootstrapSpec == Spec /\ WF_vars(RunStep)

\* Requests are served to their end, and an administrator who sees a deleted
\* account with parts left of it purges it again.
FairSpec ==
  /\ BootstrapSpec
  /\ \A r \in Requests :
       /\ WF_vars(RequestStep(r)) /\ WF_vars(Retry(r))
       /\ WF_vars(\E actor, target \in Users :
                    Start(r, actor, "purge", target))

-----------------------------------------------------------------------------
(* Properties.                                                             *)

\* Once an account has the Root marker, no step of a server action deletes,
\* disables, enables, suspends or restores it or touches its assignments
\* ("Root roles, assignments, status, and deletion state are immutable through
\* administration"), although the bootstrap adopts accounts on which operations
\* are under way: what the action saw before the marker, the guard looks at
\* again.  Accounts where an operation was past its last look are left out.
RootProtected ==
  [][\A u \in Users \ overtaken : identity[u].marker =>
       /\ identity'[u].exists /\ identity'[u].marker
       /\ identity'[u].enabled = identity[u].enabled
       /\ profile'[u].suspended = profile[u].suspended
       /\ profile'[u].deleted = profile[u].deleted
       /\ u \in assigned' <=> u \in assigned]_vars

\* At most one account holds the reserved Root marker, whatever runs of the
\* bootstrap were interrupted and however the configured email was changed
\* in between (ciEnsureCognitoRootUserMarker).
OneRoot == \A u, v \in Users : identity[u].marker /\ identity[v].marker => u = v

\* Running the bootstrap again never replaces a password its owner has chosen
\* ("without resetting the password of an already confirmed user"), unless it
\* was chosen after the run had looked at the account.
PasswordKept ==
  [][\A u \in RootEmails \ overtaken :
       password[u] = "own" => password'[u] # "initial"]_vars

\* When an operation on an account is over, failed steps repeated, the two
\* stores tell the same: a deleted user cannot sign in, and any other can
\* unless suspended.  The order of the two writes and what a restore reads
\* between them make a repeated operation complete.
StoresAgree ==
  \A u \in Users \ unsettled :
    WorkingOn(u) = {} /\ profile[u].exists =>
      IF profile[u].deleted
      THEN ~identity[u].enabled
      ELSE identity[u].exists /\ (identity[u].enabled <=> ~profile[u].suspended)

\* A purge that has removed the profile has left no role assignment behind,
\* although assignments, identity and profile go one after the other.
PurgeLeavesNothing ==
  \A u \in Users \ unsettled :
    WorkingOn(u) = {} /\ ~profile[u].exists => u \notin assigned

\* Run again after every interruption, the bootstrap ends with a complete
\* Root User once administrators leave the account alone, unless the marker
\* belongs to an account of an earlier configuration ("rerunning it repairs
\* missing groups or a missing profile").
BootstrapConverges ==
  <>[](WorkingOn(configured) = {}) =>
    <>[](RootComplete(configured) \/ Owners(configured) # {})

\* docs/docs/users-management/intro.mdx:126 says a permanent delete "removes
\* assignments, provider identity, and profile": once the identity of a
\* deleted user is gone, repeated purges remove the profile too.  They do
\* not: purgeUserAction loads the record with its identity first.
PurgeCompletes ==
  \A u \in Users :
    (profile[u].deleted /\ ~identity[u].exists) ~> ~profile[u].exists
=============================================================================
