--------------------------- MODULE ResourceStudio ---------------------------
(***************************************************************************)
(* The Resource Studio of @cloudigniter/cli: a local server that generates *)
(* files from the descriptors of data entities, undoes its own changes,    *)
(* and deploys a plan to an AWS target that was verified before.           *)
(*                                                                         *)
(* Requests run one after the other on a queue.  A developer edits the     *)
(* same files, the AWS session changes under the server, commands fail or  *)
(* hang, and the process may die at any step.  A file transaction is one   *)
(* step here; ResourceFileTransaction has its steps.                       *)
(***************************************************************************)
EXTENDS Integers, Sequences, FiniteSetsExt, Functions

CONSTANTS
  Entities,         \* ids of data entities
  Names,            \* plural names, from which list queries are named
  Profiles,         \* AWS profile and sandbox identifier
  Identities,       \* account, caller and region an STS call returns
  Absent,           \* a file that does not exist, no profile or identity
  Foreign,          \* content no plan generates
  HistoryLimit,     \* 50 in the code
  IntentLimit,      \* 32 in the code
  MaxTransactions,  \* bound of the model: transactions
  MaxEdits,         \* bound of the model: edits by the developer
  MaxIssued         \* bound of the model: intents issued

ASSUME StudioAssumption ==
  /\ Absent \notin Names \cup Identities \cup Profiles /\ Foreign \notin Names
  /\ Absent # Foreign
  /\ HistoryLimit \in Nat \ {0} /\ IntentLimit \in Nat \ {0}
  /\ {MaxTransactions, MaxEdits, MaxIssued} \subseteq Nat

VARIABLES
  files,         \* content of the generated files of the application
  transactions,  \* the journals, in the order of their time stamps
  call,          \* the request that runs
  issued,        \* number of deployment intents issued
  intents,       \* what was verified for the intents that are alive
  ran,           \* the intents for which a deployment was started
  edits,         \* number of edits so far
  orderly        \* history: nothing was edited, torn, or undone out of turn

workspace == <<files, transactions, edits, orderly>>
deployment == <<issued, intents, ran>>
vars == <<workspace, deployment, call>>

-----------------------------------------------------------------------------
(* Generated files.                                                        *)

Descriptor(e) == <<"descriptor", e>>
Generated(e) == <<"generated", e>>
Registry == <<"registry">>
Files == {Descriptor(e) : e \in Entities} \cup {Generated(e) : e \in Entities}
           \cup {Registry}

\* The entities with a descriptor, with their plural names.
Descriptors ==
  [e \in {x \in Entities : files[Descriptor(x)] # Absent} |->
     files[Descriptor(e)]]

\* What the planners refuse: descriptors they cannot read, and two entities with
\* the same list query.  Other duplicates show in the registry.
Plannable(d) ==
  \A e, f \in DOMAIN d : d[e] \in Names /\ (d[e] = d[f] => e = f)

PlannedFiles(d) ==
  {Descriptor(e) : e \in DOMAIN d} \cup {Generated(e) : e \in DOMAIN d}
    \cup {Registry}

Planned(d) ==
  [f \in Files |->
     IF f \notin PlannedFiles(d) THEN Absent
     ELSE IF f = Registry THEN DOMAIN d ELSE d[f[2]]]

MatchesPlan(d) == \A f \in PlannedFiles(d) : files[f] = Planned(d)[f]

Collides(before, after) ==
  \E f \in PlannedFiles(after) \ PlannedFiles(before) : files[f] # Absent

\* Faulty variant of Changes: the files of a dropped entity are left alone.
ChangesOfNext(before, after) ==
  {f \in PlannedFiles(after) : files[f] # Planned(after)[f]}

\* Files whose content the new plan changes.
Changes(before, after) ==
  {f \in PlannedFiles(before) \cup PlannedFiles(after) :
     files[f] # Planned(after)[f]}

-----------------------------------------------------------------------------
(* Journals.                                                               *)

Torn == {"bare", "applying", "rolling-back", "failed-conflicted"}
Statuses == Torn \cup {"prepared", "applied", "rolled-back", "failed-rolled-back"}

Overlay(images) ==
  [f \in Files |-> IF f \in DOMAIN images THEN images[f] ELSE files[f]]

\* A transaction over two sets of images, interrupted: some files have the one,
\* some the other.
Mixed(from, to) ==
  {Overlay([f \in DOMAIN from |-> IF f \in done THEN to[f] ELSE from[f]]) :
     done \in SUBSET DOMAIN from}

Shows(images) == \A f \in DOMAIN images : files[f] = images[f]

WithStatus(t, status) == [transactions EXCEPT ![t].status = status]

\* The transactions of the history: the latest, whatever their status.
History == {t \in DOMAIN transactions : t > Len(transactions) - HistoryLimit}
HistoryReadable == \A t \in DOMAIN transactions : transactions[t].status # "bare"
Applied(S) == {t \in S : transactions[t].status = "applied"}

-----------------------------------------------------------------------------
(* The request that runs.  One that is refused when it begins changes nothing. *)

NoPlan == [e \in {} |-> Absent]
NoCall == [step |-> "none", plan |-> NoPlan, next |-> NoPlan, changed |-> {},
           transaction |-> 0, profile |-> Absent, identity |-> Absent,
           number |-> 0, intent |-> NoPlan]

At(step) == call.step = step
Goto(step) == call' = [call EXCEPT !.step = step]

\* The steps at which an AWS command runs, which nobody stops when it hangs.
CommandRuns == call.step \in {"login", "identity", "confirm", "deploy"}

Release == call' = NoCall

-----------------------------------------------------------------------------
(* Create, update and drop of an entity.                                   *)

NextDescriptors(e, name) ==
  LET rest == DOMAIN Descriptors \ {e}
      kept == IF name = Absent THEN rest ELSE rest \cup {e}
  IN  [x \in kept |-> IF x = e THEN name ELSE Descriptors[x]]

\* createEntity and updateEntity with a name, dropEntity with Absent.
PlanChange(e, name) ==
  /\ At("none")
  /\ Len(transactions) < MaxTransactions
  /\ Plannable(Descriptors)
  /\ name = Absent => e \in DOMAIN Descriptors
  /\ Plannable(NextDescriptors(e, name))
  /\ call' = [call EXCEPT !.step = "compare", !.plan = Descriptors,
                          !.next = NextDescriptors(e, name)]
  /\ UNCHANGED <<workspace, deployment>>

\* Refused on drift and on files Studio does not own; nothing to do without changes.
CompareWorkspace ==
  /\ At("compare")
  /\ IF MatchesPlan(call.plan) /\ ~Collides(call.plan, call.next)
          /\ Changes(call.plan, call.next) # {}
       THEN call' = [call EXCEPT !.step = "prepare",
                                 !.changed = Changes(call.plan, call.next)]
       ELSE Release
  /\ UNCHANGED <<workspace, deployment>>

\* Faulty variant of Snapshot: a file that did not exist has no before-image.
SnapshotOfExisting ==
  [f \in {g \in call.changed : files[g] # Absent} |-> files[f]]

\* The before-images are those of this moment, not of the comparison.
Snapshot == [f \in call.changed |-> files[f]]

Prepare ==
  /\ At("prepare")
  /\ \/ /\ transactions' = Append(transactions,
             [before |-> Snapshot, status |-> "prepared",
              after |-> [f \in call.changed |-> Planned(call.next)[f]]])
        /\ call' = [call EXCEPT !.step = "apply",
                                !.transaction = Len(transactions) + 1]
     \/ Release /\ UNCHANGED transactions
  /\ UNCHANGED <<files, edits, orderly, deployment>>

Apply ==
  LET t == call.transaction IN
  /\ At("apply")
  /\ \/ /\ Shows(transactions[t].before)
        /\ files' = Overlay(transactions[t].after)
        /\ transactions' = WithStatus(t, "applied")
        /\ UNCHANGED orderly
     \/ /\ ~Shows(transactions[t].before)
        /\ UNCHANGED <<files, transactions, orderly>>
     \/ /\ Shows(transactions[t].before)
        /\ transactions' = WithStatus(t, "failed-rolled-back")
        /\ UNCHANGED <<files, orderly>>
     \/ /\ Shows(transactions[t].before)
        /\ files' \in Mixed(transactions[t].before, transactions[t].after)
        /\ transactions' = WithStatus(t, "failed-conflicted")
        /\ orderly' = FALSE
  /\ Release
  /\ UNCHANGED <<edits, deployment>>

-----------------------------------------------------------------------------
(* Undo.                                                                   *)

\* Without an id the latest applied transaction of the history, with one that one.
UndoTargets(byId) ==
  IF byId THEN Applied(History)
  ELSE IF Applied(History) = {} THEN {} ELSE {Max(Applied(History))}

BeginUndo ==
  /\ At("none")
  /\ HistoryReadable
  /\ \E byId \in BOOLEAN : \E t \in UndoTargets(byId) :
       call' = [call EXCEPT !.step = "rollback", !.transaction = t]
  /\ UNCHANGED <<workspace, deployment>>

Rollback ==
  LET t == call.transaction IN
  /\ At("rollback")
  /\ \/ /\ Shows(transactions[t].after)
        /\ files' = Overlay(transactions[t].before)
        /\ transactions' = WithStatus(t, "rolled-back")
        /\ orderly' = (orderly /\ t = Max(Applied(DOMAIN transactions)))
     \/ /\ ~Shows(transactions[t].after)
        /\ UNCHANGED <<files, transactions, orderly>>
     \/ /\ Shows(transactions[t].after)
        /\ files' \in Mixed(transactions[t].after, transactions[t].before)
        /\ transactions' = WithStatus(t, "rolling-back")
        /\ orderly' = FALSE
  /\ Release
  /\ UNCHANGED <<edits, deployment>>

-----------------------------------------------------------------------------
(* Verification of an AWS target, and deployment.                          *)

\* getDeploymentPlanHash: the plan, if the files are what it generates.
Hashable == Plannable(Descriptors) /\ MatchesPlan(Descriptors)

\* The profile is that of the input, or the one saved by the last such request.
BeginVerify(profile, login) ==
  /\ At("none")
  /\ Hashable
  /\ call' = [call EXCEPT !.step = IF login THEN "login" ELSE "identity",
                          !.plan = Descriptors, !.profile = profile]
  /\ UNCHANGED <<workspace, deployment>>

LoginEnds ==
  /\ At("login")
  /\ Goto("identity")
  /\ UNCHANGED <<workspace, deployment>>

\* Faulty variant of WithRoom: one intent too many is kept.
WithRoomAfter ==
  {i \in DOMAIN intents :
     Cardinality({j \in DOMAIN intents : j >= i}) <= IntentLimit}

\* The oldest intents make room for a new one.
WithRoom ==
  {i \in DOMAIN intents :
     Cardinality({j \in DOMAIN intents : j >= i}) < IntentLimit}

\* STS answers with whoever the profile's session belongs to by now.
IssueIntent(who) ==
  /\ At("identity")
  /\ issued < MaxIssued
  /\ issued' = issued + 1
  /\ LET intent == [profile |-> call.profile, plan |-> call.plan, identity |-> who]
     IN  intents' = [i \in WithRoom \cup {issued + 1} |->
                       IF i = issued + 1 THEN intent ELSE intents[i]]
  /\ Release
  /\ UNCHANGED <<workspace, ran>>

\* Faulty variant of Without: an intent is looked up and not consumed.
StillWith(i) == intents

Without(i) == Restrict(intents, DOMAIN intents \ {i})

BoundTo(intent, profile, plan) == intent.profile = profile /\ intent.plan = plan

\* The intent is consumed before it is compared with the request.
BeginDeploy(profile, i) ==
  /\ At("none")
  /\ Hashable
  /\ intents' = Without(i)
  /\ IF i \in DOMAIN intents /\ BoundTo(intents[i], profile, Descriptors)
       THEN call' = [call EXCEPT !.step = "confirm", !.profile = profile,
                                 !.plan = Descriptors, !.number = i,
                                 !.intent = intents[i]]
       ELSE Release
  /\ UNCHANGED <<workspace, issued, ran>>

Verified(who) == call.intent.identity = who

ConfirmIdentity(who) ==
  /\ At("confirm")
  /\ IF Verified(who)
       THEN /\ call' = [call EXCEPT !.step = "deploy", !.identity = who]
            /\ ran' = ran \cup {call.number}
       ELSE Release /\ UNCHANGED ran
  /\ UNCHANGED <<workspace, issued, intents>>

DeployEnds ==
  /\ At("deploy")
  /\ Release
  /\ UNCHANGED <<workspace, deployment>>

CommandFails ==
  /\ CommandRuns
  /\ Release
  /\ UNCHANGED <<workspace, deployment>>

ExpireIntent ==
  /\ DOMAIN intents # {}
  /\ intents' = Without(Min(DOMAIN intents))
  /\ UNCHANGED <<workspace, issued, ran, call>>

-----------------------------------------------------------------------------
(* The surroundings.                                                       *)

\* A developer changes or removes a generated file.
Edit(f) ==
  /\ edits < MaxEdits
  /\ \E content \in {Absent, Foreign} \ {files[f]} :
       files' = [files EXCEPT ![f] = content]
  /\ edits' = edits + 1
  /\ orderly' = FALSE
  /\ UNCHANGED <<transactions, deployment, call>>

\* What the death of the process leaves of a transaction in progress.
Interrupt ==
  \/ /\ At("prepare")
     /\ transactions' = Append(transactions,
          [before |-> NoPlan, after |-> NoPlan, status |-> "bare"])
     /\ orderly' = FALSE
     /\ UNCHANGED files
  \/ LET t == call.transaction IN
     /\ At("apply") /\ Shows(transactions[t].before)
     /\ files' \in Mixed(transactions[t].before, transactions[t].after)
     /\ transactions' = WithStatus(t, "applying")
     /\ orderly' = FALSE
  \/ LET t == call.transaction IN
     /\ At("rollback") /\ Shows(transactions[t].after)
     /\ files' \in Mixed(transactions[t].after, transactions[t].before)
     /\ transactions' = WithStatus(t, "rolling-back")
     /\ orderly' = FALSE
  \/ UNCHANGED <<files, transactions, orderly>>

\* The server dies and is started again: the intents are gone.
Restart ==
  /\ Interrupt
  /\ intents' = NoPlan
  /\ Release
  /\ UNCHANGED <<edits, issued, ran>>

-----------------------------------------------------------------------------
Init ==
  /\ files = Planned(NoPlan)
  /\ transactions = <<>> /\ edits = 0 /\ orderly = TRUE
  /\ call = NoCall
  /\ issued = 0 /\ intents = NoPlan /\ ran = {}

ServerStep ==
  \/ \E e \in Entities, name \in Names \cup {Absent} : PlanChange(e, name)
  \/ CompareWorkspace \/ Prepare \/ Apply \/ BeginUndo \/ Rollback
  \/ \E p \in Profiles, login \in BOOLEAN : BeginVerify(p, login)
  \/ \E p \in Profiles, i \in 0 .. issued : BeginDeploy(p, i)

CommandStep ==
  \/ LoginEnds \/ DeployEnds \/ CommandFails
  \/ \E who \in Identities : IssueIntent(who) \/ ConfirmIdentity(who)

Surroundings ==
  \/ ExpireIntent \/ Restart
  \/ \E f \in Files : Edit(f)

Next == ServerStep \/ CommandStep \/ Surroundings

Spec == Init /\ [][Next]_vars

-----------------------------------------------------------------------------
(* Properties.                                                             *)

FileContents == Names \cup {Absent, Foreign} \cup SUBSET Entities

IsPlan(d) == DOMAIN d \subseteq Entities /\ \A e \in DOMAIN d : d[e] \in Names

IsImages(images) ==
  DOMAIN images \subseteq Files /\ \A f \in DOMAIN images : images[f] \in FileContents

\* The type invariant: what the server keeps in memory, in its journals and in
\* the application.
TypeOK ==
  /\ DOMAIN files = Files /\ IsImages(files)
  /\ \A t \in DOMAIN transactions :
       /\ IsImages(transactions[t].before) /\ IsImages(transactions[t].after)
       /\ DOMAIN transactions[t].before = DOMAIN transactions[t].after
       /\ transactions[t].status \in Statuses
  /\ IsPlan(call.plan) /\ IsPlan(call.next)
  /\ call.transaction \in 0 .. Len(transactions)
  /\ call.step \in {"apply", "rollback"} => call.transaction # 0
  /\ DOMAIN intents \subseteq 1 .. issued
  /\ Cardinality(DOMAIN intents) <= IntentLimit
  /\ \A i \in DOMAIN intents :
       /\ IsPlan(intents[i].plan)
       /\ intents[i].profile \in Profiles /\ intents[i].identity \in Identities
  /\ call.identity \in Identities \cup {Absent}

NothingTorn == \A t \in DOMAIN transactions : transactions[t].status \notin Torn

\* Safety.  Without edits and interrupted transactions the application has exactly
\* the files its descriptors generate, whatever is created, updated, dropped and
\* undone, also out of turn: an undo restores images of some files (file
\* transaction) without planning anything (ResourceStudioService.undo).
FilesAgree ==
  edits = 0 /\ NothingTorn => files = Planned(Descriptors)

\* The image of a file after the last of some transactions that wrote it.
LatestImage(f, S) ==
  LET writers == {t \in S : f \in DOMAIN transactions[t].after}
  IN  IF writers = {} THEN Planned(NoPlan)[f]
      ELSE transactions[Max(writers)].after[f]

\* Safety.  As long as nothing is edited, torn or undone out of turn, the session
\* is a stack of changes: the before-images of every applied transaction are what
\* the applied ones before it left, so that undoing the latest again and again
\* reconstructs every earlier state of the files.
LastInFirstOut ==
  LET applied == Applied(DOMAIN transactions)
  IN  orderly =>
        /\ \A f \in Files : files[f] = LatestImage(f, applied)
        /\ \A t \in applied : \A f \in DOMAIN transactions[t].before :
             transactions[t].before[f]
               = LatestImage(f, {u \in applied : u < t})

\* Action property.  A deployment starts for the profile, plan and identity that
\* were verified when its intent was issued, and for an intent that never started
\* one, although files, sessions and requests change between the two requests.
DeploysAsVerified ==
  [][At("confirm") /\ call'.step = "deploy" =>
       /\ call.number \notin ran
       /\ edits = 0 => MatchesPlan(call.intent.plan)
       /\ call.intent = [profile |-> call.profile, plan |-> call.plan,
                         identity |-> call'.identity]]_vars
=============================================================================
