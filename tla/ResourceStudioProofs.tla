------------------------- MODULE ResourceStudioProofs -------------------------
(***************************************************************************)
(* Proofs about ResourceStudio, for any entities, names, profiles and      *)
(* identities, and any number of transactions, edits and intents: files    *)
(* and descriptors agree, undoing in turn reconstructs every earlier state *)
(* of the files, and a deployment starts only for what was verified.       *)
(***************************************************************************)
EXTENDS ResourceStudio, FiniteSetTheorems, WellFoundedInduction, TLAPS

-----------------------------------------------------------------------------
(* Extremes of sets of positions.                                          *)

\* A set of naturals has a least element.
LEMMA LeastNatural ==
  ASSUME NEW T \in SUBSET Nat, T # {}
  PROVE  \E m \in T : \A k \in T : m <= k
<1> DEFINE R == {p \in Nat \X Nat : p[1] < p[2]}
<1>1. OpToRel(<, Nat) = R
  BY DEF OpToRel
<1>2. IsWellFoundedOn(R, Nat)
  BY <1>1, NatLessThanWellFounded
<1>3. PICK m \in T : \A k \in T : ~(<<k, m>> \in R)
  BY <1>2, WFMin
<1>4. ASSUME NEW k \in T PROVE m <= k
  <2>1. ~(<<k, m>> \in R)
    BY <1>3
  <2>2. <<k, m>> \in Nat \X Nat /\ <<k, m>>[1] = k /\ <<k, m>>[2] = m
    OBVIOUS
  <2>3. ~(k < m)
    BY <2>1, <2>2, Zenon
  <2> QED BY <2>3
<1> QED BY <1>4

\* Max finds the latest of some positions.
LEMMA MaxOfPositions ==
  ASSUME NEW n \in Nat, NEW S \in SUBSET (1 .. n), S # {}
  PROVE  Max(S) \in S /\ \A k \in S : k <= Max(S)
<1> DEFINE T == {m \in Nat : \A k \in S : k <= m}
<1>1. n \in T
  OBVIOUS
<1>2. PICK m \in T : \A k \in T : m <= k
  BY <1>1, LeastNatural
<1>3. m \in S
  <2> SUFFICES ASSUME m \notin S PROVE FALSE
    OBVIOUS
  <2>1. PICK x \in S : TRUE
    OBVIOUS
  <2>2. m - 1 \in Nat /\ \A k \in S : k <= m - 1
    BY <1>2, <2>1
  <2>3. m - 1 \in T
    BY <2>2
  <2> QED BY <1>2, <2>3
<1> QED BY <1>2, <1>3 DEF Max

\* Min finds the earliest.
LEMMA MinOfPositions ==
  ASSUME NEW S \in SUBSET Nat, S # {}
  PROVE  Min(S) \in S /\ \A k \in S : Min(S) <= k
BY LeastNatural DEF Min

\* A latest position is the only one.
LEMMA MaxIs ==
  ASSUME NEW S \in SUBSET Nat, NEW m \in S, \A k \in S : k <= m
  PROVE  Max(S) = m
<1>1. Max(S) \in S /\ \A k \in S : Max(S) >= k
  BY DEF Max
<1>2. Max(S) \in Nat /\ m \in Nat /\ Max(S) >= m /\ Max(S) <= m
  BY <1>1
<1> QED BY <1>2

-----------------------------------------------------------------------------
(* Files and plans.                                                        *)

\* The plans, images, journals, intents and requests there are.
Plans == UNION {[S -> Names] : S \in SUBSET Entities}
Images == UNION {[S -> FileContents] : S \in SUBSET Files}
Journals ==
  {j \in [before : Images, after : Images, status : Statuses] :
     DOMAIN j.before = DOMAIN j.after}
Intents == [profile : Profiles, plan : Plans, identity : Identities]
Steps == {"none", "compare", "prepare", "apply", "rollback", "login", "identity",
          "confirm", "deploy"}
Calls ==
  [step : Steps, plan : Plans, next : Plans, changed : SUBSET Files,
   transaction : Nat, profile : Profiles \cup {Absent},
   identity : Identities \cup {Absent}, number : Nat, intent : Intents \cup {NoPlan}]

LEMMA FilesDistinct ==
  /\ Registry \in Files
  /\ \A e \in Entities :
       /\ Descriptor(e) \in Files /\ Generated(e) \in Files
       /\ Descriptor(e) # Registry /\ Generated(e) # Registry
       /\ Descriptor(e)[2] = e /\ Generated(e)[2] = e
       /\ \A f \in Entities : Descriptor(e) # Generated(f)
       /\ \A f \in Entities : Descriptor(e) = Descriptor(f) => e = f
       /\ \A f \in Entities : Generated(e) = Generated(f) => e = f
<1>1. ASSUME NEW e, NEW f
      PROVE  /\ <<"descriptor", e>> # <<"generated", f>>
             /\ <<"descriptor", e>> # <<"registry">>
             /\ <<"generated", e>> # <<"registry">>
             /\ <<"descriptor", e>> = <<"descriptor", f>> => e = f
             /\ <<"generated", e>> = <<"generated", f>> => e = f
  OBVIOUS
<1> QED BY <1>1 DEF Files, Descriptor, Generated, Registry

LEMMA NoPlanOK == NoPlan \in Plans /\ NoPlan \in Images /\ DOMAIN NoPlan = {}
<1>1. NoPlan \in [{} -> Names] /\ NoPlan \in [{} -> FileContents]
  BY DEF NoPlan
<1> QED BY <1>1 DEF Plans, Images, NoPlan

\* What a plan generates, file by file.
LEMMA PlannedFile ==
  ASSUME NEW d \in Plans
  PROVE  /\ Planned(d) \in [Files -> FileContents]
         /\ Planned(d)[Registry] = DOMAIN d
         /\ \A e \in Entities :
              /\ Planned(d)[Descriptor(e)] = IF e \in DOMAIN d THEN d[e] ELSE Absent
              /\ Planned(d)[Generated(e)] = IF e \in DOMAIN d THEN d[e] ELSE Absent
<1>1. DOMAIN d \subseteq Entities /\ \A e \in DOMAIN d : d[e] \in Names
  BY DEF Plans
<1>2. Planned(d)[Registry] = DOMAIN d
  BY FilesDistinct DEF Planned, PlannedFiles
<1>3. ASSUME NEW e \in Entities
      PROVE  /\ Planned(d)[Descriptor(e)] = IF e \in DOMAIN d THEN d[e] ELSE Absent
             /\ Planned(d)[Generated(e)] = IF e \in DOMAIN d THEN d[e] ELSE Absent
  <2>1. /\ Descriptor(e) \in PlannedFiles(d) <=> e \in DOMAIN d
        /\ Generated(e) \in PlannedFiles(d) <=> e \in DOMAIN d
    BY <1>1, FilesDistinct DEF PlannedFiles
  <2> QED BY <2>1, FilesDistinct DEF Planned
<1>4. \A f \in Files : Planned(d)[f] \in FileContents
  <2>1. DOMAIN d \in FileContents
    BY <1>1 DEF FileContents
  <2>2. \A e \in Entities : (IF e \in DOMAIN d THEN d[e] ELSE Absent) \in FileContents
    BY <1>1 DEF FileContents
  <2>3. ASSUME NEW f \in Files
        PROVE  f = Registry \/ \E e \in Entities : f = Descriptor(e) \/ f = Generated(e)
    BY DEF Files
  <2> QED BY <1>2, <1>3, <2>1, <2>2, <2>3
<1>5. Planned(d) \in [Files -> FileContents]
  BY <1>4 DEF Planned
<1> QED BY <1>2, <1>3, <1>5

\* Readable descriptors are a plan.
LEMMA DescriptorsOK == Plannable(Descriptors) => Descriptors \in Plans
<1>1. DOMAIN Descriptors \subseteq Entities
      /\ Descriptors = [e \in DOMAIN Descriptors |-> Descriptors[e]]
  BY DEF Descriptors
<1> HIDE DEF Descriptors
<1>2. Plannable(Descriptors) => \A e \in DOMAIN Descriptors : Descriptors[e] \in Names
  BY DEF Plannable
<1>3. ASSUME NEW d, NEW S \in SUBSET Entities, d = [e \in S |-> d[e]],
             \A e \in S : d[e] \in Names
      PROVE  d \in Plans
  <2>1. d \in [S -> Names]
    BY <1>3
  <2> QED BY <2>1 DEF Plans
<1> QED BY <1>1, <1>2, <1>3

LEMMA NextDescriptorsOK ==
  ASSUME NEW e \in Entities, NEW name, Plannable(NextDescriptors(e, name))
  PROVE  NextDescriptors(e, name) \in Plans
<1> DEFINE d == NextDescriptors(e, name)
<1>1. DOMAIN d \subseteq Entities /\ d = [x \in DOMAIN d |-> d[x]]
  BY DEF NextDescriptors, Descriptors
<1> HIDE DEF d
<1>2. \A x \in DOMAIN d : d[x] \in Names
  BY DEF Plannable, d
<1>3. d \in [DOMAIN d -> Names]
  BY <1>1, <1>2
<1>4. d \in Plans
  BY <1>1, <1>3 DEF Plans
<1> QED BY <1>4 DEF d

\* Files with some of them replaced.
LEMMA OverlayOK ==
  ASSUME files \in [Files -> FileContents], NEW images \in Images
  PROVE  Overlay(images) \in [Files -> FileContents]
BY DEF Overlay, Images

LEMMA MixedOK ==
  ASSUME files \in [Files -> FileContents], NEW from \in Images, NEW to \in Images,
         DOMAIN from = DOMAIN to
  PROVE  Mixed(from, to) \subseteq [Files -> FileContents]
<1> SUFFICES ASSUME NEW done \in SUBSET DOMAIN from
             PROVE  Overlay([f \in DOMAIN from |-> IF f \in done THEN to[f] ELSE from[f]])
                      \in [Files -> FileContents]
  BY DEF Mixed
<1> DEFINE images == [f \in DOMAIN from |-> IF f \in done THEN to[f] ELSE from[f]]
<1>1. DOMAIN from \in SUBSET Files /\ images \in [DOMAIN from -> FileContents]
  BY DEF Images
<1>2. images \in Images
  BY <1>1 DEF Images
<1> HIDE DEF images
<1>3. Overlay(images) \in [Files -> FileContents]
  BY <1>2, OverlayOK
<1> QED BY <1>3 DEF images

-----------------------------------------------------------------------------
(* The invariant: types, and what the request knows of its transaction and *)
(* of its intent.                                                          *)

WorkspaceOK ==
  /\ files \in [Files -> FileContents]
  /\ transactions \in Seq(Journals)
  /\ edits \in Nat /\ orderly \in BOOLEAN

\* A transaction is applied while it is the latest and only prepared, and rolled back
\* while it is applied.
CallOK ==
  /\ call \in Calls
  /\ call.transaction \in 0 .. Len(transactions)
  /\ At("none") => call = NoCall
  /\ At("apply") =>
       /\ call.transaction = Len(transactions) /\ call.transaction # 0
       /\ transactions[call.transaction].status = "prepared"
  /\ At("rollback") =>
       /\ call.transaction # 0
       /\ transactions[call.transaction].status = "applied"
  /\ call.step \in {"login", "identity"} => call.profile \in Profiles

IntentsOK ==
  /\ issued \in Nat
  /\ DOMAIN intents \subseteq 1 .. issued
  /\ intents \in [DOMAIN intents -> Intents]
  /\ Cardinality(DOMAIN intents) <= IntentLimit

TInv == WorkspaceOK /\ CallOK /\ IntentsOK

\* Another journal.
LEMMA Appended ==
  ASSUME transactions \in Seq(Journals), NEW j \in Journals
  PROVE  LET s == Append(transactions, j) IN
         /\ s \in Seq(Journals) /\ Len(s) = Len(transactions) + 1
         /\ s[Len(transactions) + 1] = j
         /\ \A t \in 1 .. Len(transactions) : s[t] = transactions[t]
OBVIOUS

\* Another status of a journal.
LEMMA WithStatusOK ==
  ASSUME transactions \in Seq(Journals), NEW t \in 1 .. Len(transactions),
         NEW status \in Statuses
  PROVE  LET s == WithStatus(t, status) IN
         /\ s \in Seq(Journals) /\ Len(s) = Len(transactions)
         /\ s[t].status = status
         /\ \A u \in 1 .. Len(transactions) :
              /\ s[u].before = transactions[u].before
              /\ s[u].after = transactions[u].after
              /\ u # t => s[u] = transactions[u]
<1>1. PICK j : j = [transactions[t] EXCEPT !.status = status]
  OBVIOUS
<1>2. transactions[t] \in Journals
  OBVIOUS
<1>3. /\ j \in Journals /\ j.status = status
      /\ j.before = transactions[t].before /\ j.after = transactions[t].after
  BY <1>1, <1>2 DEF Journals
<1>4. WithStatus(t, status) = [transactions EXCEPT ![t] = j]
  BY <1>1 DEF WithStatus
<1>5. LET s == WithStatus(t, status) IN
      /\ s \in Seq(Journals) /\ Len(s) = Len(transactions)
      /\ s[t] = j
      /\ \A u \in 1 .. Len(transactions) : u # t => s[u] = transactions[u]
  BY <1>3, <1>4
<1> QED BY <1>3, <1>5

\* A request that ends leaves the idle one.
LEMMA ReleaseOK ==
  ASSUME Release, transactions' \in Seq(Journals)
  PROVE  CallOK'
<1>1. call' = NoCall
  BY DEF Release
<1>2. NoCall \in Calls /\ NoCall.step = "none" /\ NoCall.transaction = 0
  BY NoPlanOK DEF NoCall, Calls, Steps
<1>3. Len(transactions') \in Nat
  OBVIOUS
<1> QED BY <1>1, <1>2, <1>3 DEF CallOK, At

\* A request that goes on to another step, on the same journals.
LEMMA GoesOn ==
  ASSUME CallOK, transactions \in Seq(Journals), UNCHANGED transactions,
         call' \in Calls, call'.step \notin {"none", "apply", "rollback"},
         call'.transaction = call.transaction,
         call'.step \in {"login", "identity"} => call'.profile \in Profiles
  PROVE  CallOK'
BY DEF CallOK, At

\* A server that leaves files, journals and intents alone.
LEMMA DeploymentSame == IntentsOK /\ UNCHANGED <<issued, intents>> => IntentsOK'
BY DEF IntentsOK

LEMMA WorkspaceSame == WorkspaceOK /\ UNCHANGED workspace => WorkspaceOK'
BY DEF WorkspaceOK, workspace

LEMMA CallSame == CallOK /\ UNCHANGED <<call, transactions>> => CallOK'
BY DEF CallOK, At

-----------------------------------------------------------------------------
(* Every step keeps the types.                                             *)

LEMMA PlanChangeTyped ==
  ASSUME TInv, NEW e \in Entities, NEW name, PlanChange(e, name)
  PROVE  TInv'
<1>1. Descriptors \in Plans /\ NextDescriptors(e, name) \in Plans
  BY DescriptorsOK, NextDescriptorsOK DEF PlanChange
<1>2. PICK d \in Plans, n \in Plans :
        call' = [call EXCEPT !.step = "compare", !.plan = d, !.next = n]
  BY <1>1 DEF PlanChange
<1>3. call' \in Calls /\ call'.step = "compare" /\ call'.transaction = call.transaction
  BY <1>2 DEF TInv, CallOK, Calls, Steps
<1> QED BY <1>3, GoesOn, DeploymentSame, WorkspaceSame
        DEF PlanChange, TInv, WorkspaceOK, workspace, deployment

LEMMA CompareTyped ==
  ASSUME TInv, CompareWorkspace
  PROVE  TInv'
<1>1. CallOK'
  <2>1. CASE Release
    BY <2>1, ReleaseOK DEF CompareWorkspace, TInv, WorkspaceOK, workspace
  <2>2. CASE call' = [call EXCEPT !.step = "prepare",
                                  !.changed = Changes(call.plan, call.next)]
    <3>1. call \in Calls
      BY DEF TInv, CallOK
    <3>2. Changes(call.plan, call.next) \in SUBSET Files
      <4>1. \A d \in Plans : PlannedFiles(d) \subseteq Files
        BY FilesDistinct DEF Plans, PlannedFiles
      <4>2. call.plan \in Plans /\ call.next \in Plans
        BY <3>1 DEF Calls
      <4> QED BY <4>1, <4>2 DEF Changes
    <3>3. PICK S \in SUBSET Files : call' = [call EXCEPT !.step = "prepare", !.changed = S]
      BY <2>2, <3>2
    <3>4. call' \in Calls /\ call'.step = "prepare" /\ call'.transaction = call.transaction
      BY <3>1, <3>3 DEF Calls, Steps
    <3> QED BY <3>4, GoesOn DEF CompareWorkspace, TInv, WorkspaceOK, workspace
  <2> QED BY <2>1, <2>2 DEF CompareWorkspace
<1> QED BY <1>1, DeploymentSame, WorkspaceSame DEF CompareWorkspace, TInv, deployment

\* The images of a transaction that is prepared.
Prepared ==
  [before |-> Snapshot, status |-> "prepared",
   after |-> [f \in call.changed |-> Planned(call.next)[f]]]

LEMMA PreparedOK ==
  ASSUME TInv
  PROVE  /\ Prepared \in Journals /\ Prepared.status = "prepared"
         /\ DOMAIN Prepared.before = call.changed
<1>1. call.changed \in SUBSET Files /\ call.next \in Plans
  BY DEF TInv, CallOK, Calls
<1>2. Planned(call.next) \in [Files -> FileContents] /\ files \in [Files -> FileContents]
  BY <1>1, PlannedFile DEF TInv, WorkspaceOK
<1> DEFINE before == Snapshot
           after == [f \in call.changed |-> Planned(call.next)[f]]
<1>3. before \in [call.changed -> FileContents] /\ after \in [call.changed -> FileContents]
  BY <1>1, <1>2 DEF Snapshot
<1>4. before \in Images /\ after \in Images /\ DOMAIN before = DOMAIN after
      /\ DOMAIN before = call.changed
  BY <1>1, <1>3 DEF Images
<1>5. "prepared" \in Statuses
  BY DEF Statuses
<1> HIDE DEF before, after
<1>6. Prepared = [before |-> before, status |-> "prepared", after |-> after]
  BY DEF Prepared, before, after
<1> QED BY <1>4, <1>5, <1>6 DEF Journals

LEMMA PrepareTyped ==
  ASSUME TInv, Prepare
  PROVE  TInv'
<1>1. CASE Release /\ UNCHANGED transactions
  BY <1>1, ReleaseOK, DeploymentSame
  DEF Prepare, TInv, WorkspaceOK, deployment
<1>2. CASE /\ transactions' = Append(transactions, Prepared)
           /\ call' = [call EXCEPT !.step = "apply",
                                   !.transaction = Len(transactions) + 1]
  <2>1. call \in Calls /\ transactions \in Seq(Journals)
    BY DEF TInv, CallOK, WorkspaceOK
  <2>2. /\ transactions' \in Seq(Journals) /\ Len(transactions') = Len(transactions) + 1
        /\ transactions'[Len(transactions) + 1].status = "prepared"
        /\ Len(transactions) + 1 \in Nat \ {0}
    BY <1>2, <2>1, Appended, PreparedOK
  <2>3. call' \in Calls /\ call'.step = "apply"
        /\ call'.transaction = Len(transactions) + 1
    BY <1>2, <2>1, <2>2 DEF Calls, Steps
  <2>4. CallOK'
    BY <2>2, <2>3 DEF CallOK, At
  <2> QED BY <2>2, <2>4, DeploymentSame DEF Prepare, TInv, WorkspaceOK, deployment
<1> QED BY <1>1, <1>2 DEF Prepare, Prepared

\* The call's transaction, at a step that has one.
LEMMA TransactionOK ==
  ASSUME TInv, At("apply") \/ At("rollback")
  PROVE  /\ call.transaction \in 1 .. Len(transactions)
         /\ transactions[call.transaction].before \in Images
         /\ transactions[call.transaction].after \in Images
         /\ DOMAIN transactions[call.transaction].before
              = DOMAIN transactions[call.transaction].after
<1>1. call.transaction \in 1 .. Len(transactions)
  BY DEF TInv, CallOK, Calls
<1>2. transactions[call.transaction] \in Journals
  BY <1>1 DEF TInv, WorkspaceOK
<1> QED BY <1>1, <1>2 DEF Journals

\* What both ends of a transaction leave of the files.
LEMMA FilesRewritten ==
  ASSUME TInv, At("apply") \/ At("rollback"),
         LET j == transactions[call.transaction] IN
         \/ UNCHANGED files
         \/ files' \in {Overlay(j.after), Overlay(j.before)}
         \/ files' \in Mixed(j.before, j.after) \cup Mixed(j.after, j.before)
  PROVE  files' \in [Files -> FileContents]
<1>1. files \in [Files -> FileContents]
  BY DEF TInv, WorkspaceOK
<1> QED BY <1>1, TransactionOK, OverlayOK, MixedOK

LEMMA ApplyTyped ==
  ASSUME TInv, Apply
  PROVE  TInv'
<1> DEFINE t == call.transaction
<1>1. t \in 1 .. Len(transactions) /\ transactions \in Seq(Journals)
  BY TransactionOK DEF Apply, TInv, WorkspaceOK
<1>2. files' \in [Files -> FileContents]
  BY FilesRewritten DEF Apply
<1>3. {"applied", "failed-rolled-back", "failed-conflicted"} \subseteq Statuses
  BY DEF Statuses, Torn
<1>4. transactions' \in Seq(Journals)
  BY <1>1, <1>3, WithStatusOK DEF Apply
<1>5. orderly' \in BOOLEAN /\ UNCHANGED <<edits, issued, intents>> /\ Release
  BY DEF Apply, deployment, TInv, WorkspaceOK
<1> QED BY <1>2, <1>4, <1>5, ReleaseOK, DeploymentSame DEF TInv, WorkspaceOK

LEMMA BeginUndoTyped ==
  ASSUME TInv, BeginUndo
  PROVE  TInv'
<1>0. PICK byId \in BOOLEAN : \E t \in UndoTargets(byId) :
        call' = [call EXCEPT !.step = "rollback", !.transaction = t]
  BY DEF BeginUndo
<1>1. PICK t \in UndoTargets(byId) :
        call' = [call EXCEPT !.step = "rollback", !.transaction = t]
  BY <1>0
<1>2. t \in 1 .. Len(transactions) /\ transactions[t].status = "applied"
  <2>1. Applied(History) \subseteq 1 .. Len(transactions)
        /\ \A u \in Applied(History) : transactions[u].status = "applied"
    BY DEF Applied, History, TInv, WorkspaceOK
  <2>2. Applied(History) # {} => Max(Applied(History)) \in Applied(History)
    <3>1. Len(transactions) \in Nat
      BY DEF TInv, WorkspaceOK
    <3> QED BY <2>1, <3>1, MaxOfPositions
  <2> QED BY <2>1, <2>2 DEF UndoTargets
<1>3. call \in Calls /\ t \in Nat
  BY <1>2 DEF TInv, CallOK
<1>4. call' \in Calls /\ call'.step = "rollback" /\ call'.transaction = t
  BY <1>1, <1>3 DEF Calls, Steps
<1>5. transactions' = transactions
  BY DEF BeginUndo, workspace
<1>6. CallOK'
  BY <1>2, <1>4, <1>5 DEF CallOK, At
<1> QED BY <1>6, DeploymentSame, WorkspaceSame DEF BeginUndo, TInv, deployment

LEMMA RollbackTyped ==
  ASSUME TInv, Rollback
  PROVE  TInv'
<1> DEFINE t == call.transaction
<1>1. t \in 1 .. Len(transactions) /\ transactions \in Seq(Journals)
  BY TransactionOK DEF Rollback, TInv, WorkspaceOK
<1>2. files' \in [Files -> FileContents]
  BY FilesRewritten DEF Rollback
<1>3. {"rolled-back", "rolling-back"} \subseteq Statuses
  BY DEF Statuses, Torn
<1>4. transactions' \in Seq(Journals)
  BY <1>1, <1>3, WithStatusOK DEF Rollback
<1>5. orderly' \in BOOLEAN /\ UNCHANGED <<edits, issued, intents>> /\ Release
  BY DEF Rollback, deployment, TInv, WorkspaceOK
<1> QED BY <1>2, <1>4, <1>5, ReleaseOK, DeploymentSame DEF TInv, WorkspaceOK

\* Intents are a finite function; losing some leaves one.
LEMMA IntentsKept ==
  ASSUME IntentsOK, NEW S \in SUBSET DOMAIN intents
  PROVE  /\ Restrict(intents, S) \in [S -> Intents]
         /\ IsFiniteSet(S) /\ Cardinality(S) \in Nat
         /\ Cardinality(S) <= Cardinality(DOMAIN intents)
         /\ Cardinality(S) <= IntentLimit
<1>1. IsFiniteSet(DOMAIN intents)
  <2>1. IsFiniteSet(1 .. issued)
    BY FS_Interval DEF IntentsOK
  <2> QED BY <2>1, FS_Subset DEF IntentsOK
<1>2. IsFiniteSet(S) /\ Cardinality(S) <= Cardinality(DOMAIN intents)
  BY <1>1, FS_Subset
<1>3. Cardinality(S) \in Nat /\ Cardinality(DOMAIN intents) \in Nat
  BY <1>1, <1>2, FS_CardinalityType
<1>4. IntentLimit \in Nat /\ Cardinality(DOMAIN intents) <= IntentLimit
  BY StudioAssumption DEF IntentsOK
<1>5. Restrict(intents, S) \in [S -> Intents]
  BY DEF Restrict, IntentsOK
<1> QED BY <1>2, <1>3, <1>4, <1>5

\* The step that takes an intent away.
LEMMA WithoutOK ==
  ASSUME IntentsOK, NEW i, intents' = Without(i), UNCHANGED issued
  PROVE  /\ IntentsOK'
         /\ DOMAIN intents' = DOMAIN intents \ {i}
         /\ \A j \in DOMAIN intents' : intents'[j] = intents[j]
<1> DEFINE S == DOMAIN intents \ {i}
<1>1. intents' = Restrict(intents, S)
  BY DEF Without
<1>2. DOMAIN intents' = S /\ \A j \in S : intents'[j] = intents[j]
  BY <1>1 DEF Restrict
<1>3. S \in SUBSET DOMAIN intents
  OBVIOUS
<1> HIDE DEF S
<1>4. intents' \in [S -> Intents] /\ Cardinality(S) <= IntentLimit
  BY <1>1, <1>3, IntentsKept
<1>5. IntentsOK'
  BY <1>2, <1>3, <1>4 DEF IntentsOK
<1> QED BY <1>2, <1>5 DEF S

\* One fewer than the limit, at most, make room.
LEMMA RoomLeft ==
  ASSUME IntentsOK
  PROVE  /\ WithRoom \subseteq DOMAIN intents /\ IsFiniteSet(WithRoom)
         /\ Cardinality(WithRoom) < IntentLimit
<1>1. WithRoom \in SUBSET DOMAIN intents
  BY DEF WithRoom
<1>2. IsFiniteSet(WithRoom) /\ Cardinality(WithRoom) \in Nat
  BY <1>1, IntentsKept
<1>3. CASE WithRoom = {}
  <2>1. Cardinality(WithRoom) = 0
    BY <1>3, FS_EmptySet
  <2> QED BY <1>1, <1>2, <2>1, StudioAssumption
<1>4. CASE WithRoom # {}
  <2> DEFINE m == Min(WithRoom)
             later == {j \in DOMAIN intents : j >= m}
  <2>1. WithRoom \in SUBSET Nat
    BY <1>1 DEF IntentsOK
  <2>2. m \in WithRoom /\ \A k \in WithRoom : m <= k
    BY <1>4, <2>1, MinOfPositions
  <2>3. Cardinality(later) < IntentLimit
    BY <2>2 DEF WithRoom
  <2>4. WithRoom \subseteq later
    BY <1>1, <2>1, <2>2
  <2>5. IsFiniteSet(later) /\ Cardinality(later) \in Nat
    <3>1. later \in SUBSET DOMAIN intents
      OBVIOUS
    <3> HIDE DEF later
    <3> QED BY <3>1, IntentsKept
  <2>6. Cardinality(WithRoom) <= Cardinality(later)
    BY <2>4, <2>5, FS_Subset
  <2> HIDE DEF m, later
  <2> QED BY <1>1, <1>2, <2>3, <2>5, <2>6, StudioAssumption
<1> QED BY <1>3, <1>4

LEMMA IssueIntentTyped ==
  ASSUME TInv, NEW who \in Identities, IssueIntent(who)
  PROVE  TInv'
<1> DEFINE intent == [profile |-> call.profile, plan |-> call.plan, identity |-> who]
           S == WithRoom \cup {issued + 1}
<1>1. issued \in Nat /\ issued' = issued + 1 /\ IntentsOK
  BY DEF IssueIntent, TInv, IntentsOK
<1>2. intents' = [i \in S |-> IF i = issued + 1 THEN intent ELSE intents[i]]
  BY DEF IssueIntent
<1>3. intent \in Intents
  BY DEF TInv, CallOK, Calls, IssueIntent, At, Intents
<1>4. \A i \in WithRoom : i \in DOMAIN intents /\ intents[i] \in Intents
  BY <1>1, RoomLeft DEF IntentsOK
<1>5. S \subseteq 1 .. issued'
  BY <1>1, <1>4 DEF IntentsOK
<1>6. Cardinality(S) <= IntentLimit
  <2>1. issued + 1 \notin WithRoom
    BY <1>1, <1>4 DEF IntentsOK
  <2>2. Cardinality(S) = Cardinality(WithRoom) + 1
    BY <1>1, <2>1, RoomLeft, FS_AddElement
  <2>3. Cardinality(WithRoom) \in Nat
    BY <1>1, RoomLeft, FS_CardinalityType
  <2> HIDE DEF S
  <2> QED BY <1>1, <2>2, <2>3, RoomLeft, StudioAssumption
<1> HIDE DEF intent, S
<1>7. intents' \in [S -> Intents]
  BY <1>2, <1>3, <1>4 DEF S
<1>8. IntentsOK'
  BY <1>1, <1>5, <1>6, <1>7 DEF IntentsOK
<1>9. CallOK'
  BY ReleaseOK DEF IssueIntent, TInv, WorkspaceOK, workspace
<1> QED BY <1>8, <1>9, WorkspaceSame DEF IssueIntent, TInv

LEMMA BeginVerifyTyped ==
  ASSUME TInv, NEW profile \in Profiles, NEW login \in BOOLEAN,
         BeginVerify(profile, login)
  PROVE  TInv'
<1>1. Descriptors \in Plans
  BY DescriptorsOK DEF BeginVerify, Hashable
<1>2. PICK step \in {"login", "identity"}, d \in Plans :
        call' = [call EXCEPT !.step = step, !.plan = d, !.profile = profile]
  BY <1>1 DEF BeginVerify
<1>3. /\ call' \in Calls /\ call'.step \in {"login", "identity"}
      /\ call'.transaction = call.transaction /\ call'.profile = profile
  BY <1>2 DEF TInv, CallOK, Calls, Steps
<1> QED BY <1>3, GoesOn, DeploymentSame, WorkspaceSame
        DEF BeginVerify, TInv, WorkspaceOK, workspace, deployment

LEMMA BeginDeployTyped ==
  ASSUME TInv, NEW profile \in Profiles, NEW i \in 0 .. issued,
         BeginDeploy(profile, i)
  PROVE  TInv'
<1>1. IntentsOK'
  BY WithoutOK DEF BeginDeploy, TInv
<1>2. CallOK'
  <2>1. CASE Release
    BY <2>1, ReleaseOK DEF BeginDeploy, TInv, WorkspaceOK, workspace
  <2>2. CASE /\ i \in DOMAIN intents
             /\ call' = [call EXCEPT !.step = "confirm", !.profile = profile,
                                     !.plan = Descriptors, !.number = i,
                                     !.intent = intents[i]]
    <3>1. Descriptors \in Plans
      BY DescriptorsOK DEF BeginDeploy, Hashable
    <3>2. intents[i] \in Intents /\ i \in Nat
      BY <2>2 DEF TInv, IntentsOK
    <3>3. PICK d \in Plans, intent \in Intents :
            call' = [call EXCEPT !.step = "confirm", !.profile = profile,
                                 !.plan = d, !.number = i, !.intent = intent]
      BY <2>2, <3>1, <3>2
    <3>4. /\ call' \in Calls /\ call'.step = "confirm"
          /\ call'.transaction = call.transaction
      BY <3>2, <3>3 DEF TInv, CallOK, Calls, Steps
    <3> QED BY <3>4, GoesOn DEF BeginDeploy, TInv, WorkspaceOK, workspace
  <2> QED BY <2>1, <2>2 DEF BeginDeploy
<1> QED BY <1>1, <1>2, WorkspaceSame DEF BeginDeploy, TInv

LEMMA ConfirmTyped ==
  ASSUME TInv, NEW who \in Identities, ConfirmIdentity(who)
  PROVE  TInv'
<1>1. CallOK'
  <2>1. CASE Release
    BY <2>1, ReleaseOK DEF ConfirmIdentity, TInv, WorkspaceOK, workspace
  <2>2. CASE call' = [call EXCEPT !.step = "deploy", !.identity = who]
    <3>1. /\ call' \in Calls /\ call'.step = "deploy"
          /\ call'.transaction = call.transaction
      BY <2>2 DEF TInv, CallOK, Calls, Steps
    <3> QED BY <3>1, GoesOn DEF ConfirmIdentity, TInv, WorkspaceOK, workspace
  <2> QED BY <2>1, <2>2 DEF ConfirmIdentity
<1> QED BY <1>1, DeploymentSame, WorkspaceSame DEF ConfirmIdentity, TInv

\* The end or the failure of a command.
LEMMA CommandTyped ==
  ASSUME TInv, LoginEnds \/ DeployEnds \/ CommandFails
  PROVE  TInv'
<1>1. UNCHANGED <<workspace, deployment>> /\ transactions \in Seq(Journals)
  BY DEF LoginEnds, DeployEnds, CommandFails, TInv, WorkspaceOK
<1>2. CASE LoginEnds
  <2>1. call' \in Calls /\ call'.step = "identity" /\ UNCHANGED call.transaction
        /\ call'.profile \in Profiles
    BY <1>2 DEF LoginEnds, Goto, At, TInv, CallOK, Calls, Steps
  <2> QED BY <1>1, <2>1, GoesOn, DeploymentSame, WorkspaceSame
          DEF TInv, workspace, deployment
<1>3. CASE DeployEnds \/ CommandFails
  <2>1. CallOK'
    BY <1>1, <1>3, ReleaseOK DEF DeployEnds, CommandFails, workspace
  <2> QED BY <1>1, <2>1, DeploymentSame, WorkspaceSame DEF TInv, deployment
<1> QED BY <1>2, <1>3

LEMMA ExpireTyped ==
  ASSUME TInv, ExpireIntent
  PROVE  TInv'
BY WithoutOK, WorkspaceSame, CallSame DEF ExpireIntent, TInv, workspace

LEMMA EditTyped ==
  ASSUME TInv, NEW f \in Files, Edit(f)
  PROVE  TInv'
<1>1. Absent \in FileContents /\ Foreign \in FileContents
  BY DEF FileContents
<1>2. files' \in [Files -> FileContents]
  BY <1>1 DEF Edit, TInv, WorkspaceOK
<1>3. UNCHANGED <<transactions, issued, intents, call>> /\ orderly' = FALSE
  BY DEF Edit, deployment
<1>4. edits' \in Nat
  BY DEF Edit, TInv, WorkspaceOK
<1>5. WorkspaceOK'
  BY <1>2, <1>3, <1>4 DEF TInv, WorkspaceOK
<1> QED BY <1>3, <1>5, DeploymentSame, CallSame DEF TInv

LEMMA RestartTyped ==
  ASSUME TInv, Restart
  PROVE  TInv'
<1> USE DEF Restart
<1>1. {"bare", "applying", "rolling-back"} \subseteq Statuses
  BY DEF Statuses, Torn
<1>2. /\ transactions \in Seq(Journals) /\ files \in [Files -> FileContents]
      /\ orderly \in BOOLEAN /\ edits \in Nat
  BY DEF TInv, WorkspaceOK
<1>3. WorkspaceOK'
  <2>1. CASE /\ At("prepare") /\ UNCHANGED files /\ orderly' = FALSE
             /\ transactions' = Append(transactions,
                  [before |-> NoPlan, after |-> NoPlan, status |-> "bare"])
    <3>1. [before |-> NoPlan, after |-> NoPlan, status |-> "bare"] \in Journals
      <4>1. PICK images \in Images : images = NoPlan
        BY NoPlanOK
      <4> QED BY <1>1, <4>1 DEF Journals
    <3>2. PICK j \in Journals : transactions' = Append(transactions, j)
      BY <2>1, <3>1
    <3>3. transactions' \in Seq(Journals)
      BY <1>2, <3>2
    <3> QED BY <1>2, <2>1, <3>3 DEF WorkspaceOK
  <2>2. CASE /\ At("apply") /\ orderly' = FALSE
             /\ files' \in Mixed(transactions[call.transaction].before,
                                 transactions[call.transaction].after)
             /\ transactions' = WithStatus(call.transaction, "applying")
    <3>1. files' \in [Files -> FileContents]
      BY <2>2, FilesRewritten
    <3>2. transactions' \in Seq(Journals)
      BY <1>1, <1>2, <2>2, TransactionOK, WithStatusOK
    <3> QED BY <1>2, <2>2, <3>1, <3>2 DEF WorkspaceOK
  <2>3. CASE /\ At("rollback") /\ orderly' = FALSE
             /\ files' \in Mixed(transactions[call.transaction].after,
                                 transactions[call.transaction].before)
             /\ transactions' = WithStatus(call.transaction, "rolling-back")
    <3>1. files' \in [Files -> FileContents]
      BY <2>3, FilesRewritten
    <3>2. transactions' \in Seq(Journals)
      BY <1>1, <1>2, <2>3, TransactionOK, WithStatusOK
    <3> QED BY <1>2, <2>3, <3>1, <3>2 DEF WorkspaceOK
  <2>4. CASE UNCHANGED <<files, transactions, orderly>>
    BY <1>2, <2>4 DEF WorkspaceOK
  <2> QED BY <2>1, <2>2, <2>3, <2>4 DEF Interrupt
<1>4. CallOK'
  BY <1>3, ReleaseOK DEF WorkspaceOK
<1>5. IntentsOK'
  <2>1. intents' = NoPlan /\ issued' = issued /\ issued \in Nat
    BY DEF TInv, IntentsOK
  <2>2. DOMAIN NoPlan = {} /\ NoPlan \in [{} -> Intents]
    BY DEF NoPlan
  <2>3. Cardinality({}) = 0 /\ IntentLimit \in Nat
    BY FS_EmptySet, StudioAssumption
  <2> QED BY <2>1, <2>2, <2>3 DEF IntentsOK
<1> QED BY <1>3, <1>4, <1>5 DEF TInv

LEMMA TypedInit == Init => TInv
<1> SUFFICES ASSUME Init PROVE TInv
  OBVIOUS
<1>1. files \in [Files -> FileContents]
  BY NoPlanOK, PlannedFile DEF Init
<1>2. transactions \in Seq(Journals) /\ transactions = <<>> /\ Len(transactions) = 0
  BY DEF Init
<1>3. WorkspaceOK
  BY <1>1, <1>2 DEF Init, WorkspaceOK
<1>4. NoCall \in Calls /\ NoCall.step = "none" /\ NoCall.transaction = 0
  BY NoPlanOK DEF NoCall, Calls, Steps
<1>5. CallOK
  BY <1>2, <1>4 DEF Init, CallOK, At
<1>6. DOMAIN NoPlan = {} /\ NoPlan \in [{} -> Intents]
  BY DEF NoPlan
<1>7. Cardinality({}) = 0 /\ IntentLimit \in Nat
  BY FS_EmptySet, StudioAssumption
<1>8. IntentsOK
  BY <1>6, <1>7 DEF Init, IntentsOK
<1> QED BY <1>3, <1>5, <1>8 DEF TInv

LEMMA TypedStep == TInv /\ [Next]_vars => TInv'
<1> SUFFICES ASSUME TInv, [Next]_vars PROVE TInv'
  OBVIOUS
<1>1. CASE ServerStep
  BY <1>1, PlanChangeTyped, CompareTyped, PrepareTyped, ApplyTyped, BeginUndoTyped,
     RollbackTyped, BeginVerifyTyped, BeginDeployTyped DEF ServerStep
<1>2. CASE CommandStep
  BY <1>2, CommandTyped, IssueIntentTyped, ConfirmTyped DEF CommandStep
<1>3. CASE Surroundings
  BY <1>3, ExpireTyped, RestartTyped, EditTyped DEF Surroundings
<1>4. CASE UNCHANGED vars
  BY <1>4, WorkspaceSame, CallSame, DeploymentSame
  DEF TInv, vars, workspace, deployment
<1> QED BY <1>1, <1>2, <1>3, <1>4 DEF Next

\* What the server keeps in memory, in its journals and in the application has its
\* type at every step, and there are never more intents than the limit.
THEOREM TypeCorrect == Spec => []TypeOK
<1>1. TInv => TypeOK
  <2> SUFFICES ASSUME TInv PROVE TypeOK
    OBVIOUS
  <2>1. /\ files \in [Files -> FileContents] /\ transactions \in Seq(Journals)
        /\ call \in Calls /\ call.transaction \in 0 .. Len(transactions)
        /\ call.step \in {"apply", "rollback"} => call.transaction # 0
    BY DEF TInv, WorkspaceOK, CallOK, At
  <2>2. DOMAIN files = Files /\ IsImages(files)
    BY <2>1 DEF IsImages
  <2>3. \A images \in Images : IsImages(images)
    BY DEF Images, IsImages
  <2>4. \A d \in Plans : IsPlan(d)
    BY DEF Plans, IsPlan
  <2>5. ASSUME NEW t \in DOMAIN transactions
        PROVE  /\ IsImages(transactions[t].before) /\ IsImages(transactions[t].after)
               /\ DOMAIN transactions[t].before = DOMAIN transactions[t].after
               /\ transactions[t].status \in Statuses
    <3>1. transactions[t] \in Journals
      BY <2>1
    <3> QED BY <2>3, <3>1 DEF Journals
  <2>6. IsPlan(call.plan) /\ IsPlan(call.next) /\ call.identity \in Identities \cup {Absent}
    BY <2>1, <2>4 DEF Calls
  <2>7. ASSUME NEW i \in DOMAIN intents
        PROVE  /\ IsPlan(intents[i].plan)
               /\ intents[i].profile \in Profiles /\ intents[i].identity \in Identities
    <3>1. intents[i] \in Intents
      BY DEF TInv, IntentsOK
    <3> QED BY <2>4, <3>1 DEF Intents
  <2>8. DOMAIN intents \subseteq 1 .. issued /\ Cardinality(DOMAIN intents) <= IntentLimit
    BY DEF TInv, IntentsOK
  <2> QED BY <2>1, <2>2, <2>5, <2>6, <2>7, <2>8 DEF TypeOK
<1> QED BY <1>1, TypedInit, TypedStep, PTL DEF Spec

-----------------------------------------------------------------------------
(* Deployments.                                                            *)

\* An intent leaves the live ones before its deployment starts, and the request
\* that took it carries what it was compared with.
IntentsInv ==
  /\ ran \subseteq 1 .. issued
  /\ ran \cap DOMAIN intents = {}
  /\ At("confirm") =>
       /\ call.number \in (1 .. issued) \ (ran \cup DOMAIN intents)
       /\ call.intent \in Intents
       /\ BoundTo(call.intent, call.profile, call.plan)
       /\ edits = 0 => MatchesPlan(call.plan)

\* What the other requests, a developer and the death of the server do to it.
LEMMA IntentsElsewhere ==
  ASSUME TInv, IntentsInv, ran' = ran, issued' = issued,
         DOMAIN intents' \subseteq DOMAIN intents,
         \/ call'.step # "confirm"
         \/ call' = call /\ edits' \in {edits, edits + 1} /\ edits \in Nat
            /\ (edits' = edits => files' = files)
  PROVE  IntentsInv'
<1>1. CASE call'.step # "confirm"
  BY <1>1 DEF IntentsInv, At
<1>2. CASE call' = call /\ edits' \in {edits, edits + 1} /\ edits \in Nat
            /\ (edits' = edits => files' = files)
  <2>1. edits' = 0 => edits = 0 /\ files' = files
    BY <1>2
  <2>2. ASSUME At("confirm"), edits' = 0 PROVE MatchesPlan(call.plan)'
    <3>1. MatchesPlan(call.plan) /\ files' = files /\ call' = call
      BY <1>2, <2>1, <2>2 DEF IntentsInv
    <3> QED BY <3>1 DEF MatchesPlan
  <2> QED BY <1>2, <2>2 DEF IntentsInv, At, BoundTo
<1> QED BY <1>1, <1>2

LEMMA IntentsStep ==
  ASSUME TInv, IntentsInv, [Next]_vars
  PROVE  IntentsInv'
<1>0. edits \in Nat /\ issued \in Nat /\ DOMAIN intents \subseteq 1 .. issued
      /\ NoCall.step = "none"
  BY DEF TInv, WorkspaceOK, IntentsOK, NoCall
<1>1. CASE \E e \in Entities, name \in Names \cup {Absent} : PlanChange(e, name)
  <2>1. call'.step = "compare" /\ UNCHANGED deployment
    BY <1>1 DEF PlanChange, TInv, CallOK, Calls
  <2> QED BY <2>1, IntentsElsewhere DEF deployment
<1>2. CASE CompareWorkspace
  <2>1. call'.step # "confirm" /\ UNCHANGED deployment
    BY <1>0, <1>2 DEF CompareWorkspace, Release, TInv, CallOK, Calls
  <2> QED BY <2>1, IntentsElsewhere DEF deployment
<1>3. CASE Prepare
  <2>1. call'.step # "confirm" /\ UNCHANGED deployment
    BY <1>0, <1>3 DEF Prepare, Release, TInv, CallOK, Calls
  <2> QED BY <2>1, IntentsElsewhere DEF deployment
<1>4. CASE Apply \/ Rollback
  <2>1. call'.step # "confirm" /\ UNCHANGED deployment
    BY <1>0, <1>4 DEF Apply, Rollback, Release
  <2> QED BY <2>1, IntentsElsewhere DEF deployment
<1>5. CASE BeginUndo
  <2>1. call'.step # "confirm" /\ UNCHANGED deployment
    BY <1>5 DEF BeginUndo, TInv, CallOK, Calls
  <2> QED BY <2>1, IntentsElsewhere DEF deployment
<1>6. CASE \E p \in Profiles, login \in BOOLEAN : BeginVerify(p, login)
  <2>1. call'.step # "confirm" /\ UNCHANGED deployment
    BY <1>6 DEF BeginVerify, TInv, CallOK, Calls
  <2> QED BY <2>1, IntentsElsewhere DEF deployment
<1>7. ASSUME NEW p \in Profiles, NEW i \in 0 .. issued, BeginDeploy(p, i)
      PROVE  IntentsInv'
  <2>1. DOMAIN intents' = DOMAIN intents \ {i} /\ ran' = ran /\ issued' = issued
    BY <1>7, WithoutOK DEF BeginDeploy, TInv
  <2>2. CASE Release
    BY <1>0, <2>1, <2>2, IntentsElsewhere DEF Release
  <2>3. CASE /\ i \in DOMAIN intents /\ BoundTo(intents[i], p, Descriptors)
             /\ call' = [call EXCEPT !.step = "confirm", !.profile = p,
                                     !.plan = Descriptors, !.number = i,
                                     !.intent = intents[i]]
    <3>1. PICK d : d = Descriptors
      OBVIOUS
    <3>2. /\ call'.step = "confirm" /\ call'.profile = p /\ call'.plan = d
          /\ call'.number = i /\ call'.intent = intents[i]
      BY <2>3, <3>1 DEF TInv, CallOK, Calls
    <3>3. MatchesPlan(d) /\ files' = files
      BY <1>7, <3>1 DEF BeginDeploy, Hashable, workspace
    <3>4. MatchesPlan(call.plan)'
      BY <3>2, <3>3 DEF MatchesPlan
    <3>5. i \in 1 .. issued /\ i \notin ran /\ intents[i] \in Intents
      BY <2>3 DEF IntentsInv, TInv, IntentsOK
    <3>6. BoundTo(intents[i], p, d)
      BY <2>3, <3>1
    <3>7. (BoundTo(call.intent, call.profile, call.plan))'
      BY <3>2, <3>6 DEF BoundTo
    <3> QED BY <2>1, <3>2, <3>4, <3>5, <3>7 DEF IntentsInv, At
  <2> QED BY <1>7, <2>2, <2>3 DEF BeginDeploy
<1>8. CASE LoginEnds \/ DeployEnds \/ CommandFails
  <2>1. call'.step # "confirm" /\ UNCHANGED deployment
    BY <1>0, <1>8 DEF LoginEnds, DeployEnds, CommandFails, Goto, Release,
                      TInv, CallOK, Calls
  <2> QED BY <2>1, IntentsElsewhere DEF deployment
<1>9. ASSUME NEW who \in Identities, IssueIntent(who) PROVE IntentsInv'
  <2>1. /\ issued' = issued + 1 /\ ran' = ran /\ call'.step = "none"
        /\ DOMAIN intents' = WithRoom \cup {issued + 1}
    BY <1>0, <1>9 DEF IssueIntent, Release
  <2>2. WithRoom \subseteq DOMAIN intents
    BY DEF WithRoom
  <2> QED BY <1>0, <2>1, <2>2 DEF IntentsInv, At
<1>10. ASSUME NEW who \in Identities, ConfirmIdentity(who) PROVE IntentsInv'
  <2>1. call'.step # "confirm" /\ UNCHANGED <<issued, intents>>
    BY <1>0, <1>10 DEF ConfirmIdentity, Release, TInv, CallOK, Calls
  <2>2. ran' \subseteq ran \cup {call.number} /\ At("confirm")
    BY <1>10 DEF ConfirmIdentity
  <2> QED BY <2>1, <2>2 DEF IntentsInv, At
<1>11. CASE ExpireIntent
  <2>1. DOMAIN intents' \subseteq DOMAIN intents
        /\ UNCHANGED <<issued, ran, call, files, edits>>
    BY <1>11, WithoutOK DEF ExpireIntent, TInv, workspace
  <2> QED BY <1>0, <2>1, IntentsElsewhere
<1>12. CASE Restart
  <2>1. DOMAIN intents' = {} /\ UNCHANGED <<issued, ran>> /\ call'.step = "none"
    BY <1>0, <1>12 DEF Restart, NoPlan, Release
  <2> QED BY <2>1, IntentsElsewhere
<1>13. CASE \E f \in Files : Edit(f)
  <2>1. UNCHANGED <<issued, ran, intents, call>> /\ edits' = edits + 1
    BY <1>13 DEF Edit, deployment
  <2> QED BY <1>0, <2>1, IntentsElsewhere
<1>14. CASE UNCHANGED vars
  <2>1. UNCHANGED <<issued, ran, intents, call, edits, files>>
    BY <1>14 DEF vars, workspace, deployment
  <2> QED BY <1>0, <2>1, IntentsElsewhere
<1> QED BY <1>1, <1>2, <1>3, <1>4, <1>5, <1>6, <1>7, <1>8, <1>9, <1>10, <1>11, <1>12,
           <1>13, <1>14 DEF Next, ServerStep, CommandStep, Surroundings

\* A deployment starts for the profile, plan and identity that its intent was issued
\* for, at most once for an intent, and, if nobody edited a file, while the files are
\* those of the plan.
THEOREM DeploysOnlyAsVerified == Spec => DeploysAsVerified
<1>1. Init => IntentsInv
  <2>1. Init => ran = {} /\ call = NoCall /\ NoCall.step = "none"
    BY DEF Init, NoCall
  <2> QED BY <2>1 DEF IntentsInv, At
<1>2. ASSUME TInv, IntentsInv, [Next]_vars
      PROVE  [At("confirm") /\ call'.step = "deploy" =>
                /\ call.number \notin ran
                /\ edits = 0 => MatchesPlan(call.intent.plan)
                /\ call.intent = [profile |-> call.profile, plan |-> call.plan,
                                  identity |-> call'.identity]]_vars
  <2> SUFFICES ASSUME At("confirm"), call'.step = "deploy"
               PROVE  /\ call.number \notin ran
                      /\ edits = 0 => MatchesPlan(call.intent.plan)
                      /\ call.intent = [profile |-> call.profile, plan |-> call.plan,
                                        identity |-> call'.identity]
    OBVIOUS
  <2>1. /\ call.number \notin ran /\ call.intent \in Intents
        /\ call.intent.profile = call.profile /\ call.intent.plan = call.plan
        /\ edits = 0 => MatchesPlan(call.plan)
    BY <1>2 DEF IntentsInv, BoundTo
  <2>2. call.step = "confirm" /\ NoCall.step = "none" /\ call' # call
    BY DEF At, NoCall
  <2>3. \E who \in Identities : ConfirmIdentity(who)
    <3>1. ~ UNCHANGED vars
      BY <2>2 DEF vars
    <3>2. ~ ExpireIntent /\ ~ Restart /\ ~ \E f \in Files : Edit(f)
      BY <2>2 DEF ExpireIntent, Restart, Edit, Release
    <3>3. ~ LoginEnds /\ ~ DeployEnds /\ ~ CommandFails
          /\ ~ \E who \in Identities : IssueIntent(who)
      BY <2>2 DEF LoginEnds, DeployEnds, CommandFails, IssueIntent, Release, At
    <3>4. ~ ServerStep
      BY <2>2 DEF ServerStep, PlanChange, CompareWorkspace, Prepare, Apply, BeginUndo,
                  Rollback, BeginVerify, BeginDeploy, At
    <3> QED BY <1>2, <3>1, <3>2, <3>3, <3>4 DEF Next, CommandStep, Surroundings
  <2>4. call.intent.identity = call'.identity
    <3>1. PICK who \in Identities : ConfirmIdentity(who)
      BY <2>3
    <3>2. Verified(who) /\ call' = [call EXCEPT !.step = "deploy", !.identity = who]
      BY <2>2, <3>1 DEF ConfirmIdentity, Release
    <3> QED BY <1>2, <3>2 DEF Verified, TInv, CallOK, Calls
  <2>5. call.intent = [profile |-> call.profile, plan |-> call.plan,
                       identity |-> call'.identity]
    BY <2>1, <2>4 DEF Intents
  <2> QED BY <2>1, <2>5
<1> QED BY <1>1, <1>2, TypedInit, TypedStep, IntentsStep, PTL
        DEF Spec, DeploysAsVerified

-----------------------------------------------------------------------------
(* Undoing in turn.                                                        *)

\* LatestImage and Applied, of given journals: those of before or after a step.
LatestIn(journals, f, S) ==
  LET writers == {t \in S : f \in DOMAIN journals[t].after}
  IN  IF writers = {} THEN Planned(NoPlan)[f] ELSE journals[Max(writers)].after[f]

AppliedIn(journals) == {t \in DOMAIN journals : journals[t].status = "applied"}

\* The files are what the applied transactions left, and so are the before-images of
\* each of them, for the transactions before it.
Stacked(content, journals) ==
  /\ \A f \in Files : content[f] = LatestIn(journals, f, AppliedIn(journals))
  /\ \A t \in AppliedIn(journals) : \A f \in DOMAIN journals[t].before :
       journals[t].before[f]
         = LatestIn(journals, f, {u \in AppliedIn(journals) : u < t})

LEMMA StackedIs ==
  /\ LastInFirstOut <=> (orderly => Stacked(files, transactions))
  /\ LastInFirstOut' <=> (orderly' => Stacked(files', transactions'))
  /\ Applied(DOMAIN transactions) = AppliedIn(transactions)
<1>1. Applied(DOMAIN transactions) = AppliedIn(transactions)
  BY DEF Applied, AppliedIn
<1>2. LastInFirstOut <=> (orderly => Stacked(files, transactions))
  BY DEF LastInFirstOut, Stacked, LatestImage, LatestIn, Applied, AppliedIn
<1>3. LastInFirstOut' <=> (orderly' => Stacked(files', transactions'))
  BY DEF LastInFirstOut, Stacked, LatestImage, LatestIn, Applied, AppliedIn
<1> QED BY <1>1, <1>2, <1>3

\* The latest image depends on the after-images of the transactions it is taken from.
LEMMA SameLatest ==
  ASSUME NEW n \in Nat, NEW S \in SUBSET (1 .. n), NEW r, NEW s, NEW f,
         \A t \in S : s[t].after = r[t].after
  PROVE  LatestIn(s, f, S) = LatestIn(r, f, S)
<1> DEFINE W == {t \in S : f \in DOMAIN r[t].after}
<1>1. W = {t \in S : f \in DOMAIN s[t].after}
  OBVIOUS
<1>2. W # {} => Max(W) \in W
  <2>1. W \in SUBSET (1 .. n)
    OBVIOUS
  <2> HIDE DEF W
  <2> QED BY <2>1, MaxOfPositions
<1>3. W # {} => s[Max(W)].after = r[Max(W)].after
  BY <1>2
<1>4. LatestIn(s, f, S) = IF W = {} THEN Planned(NoPlan)[f] ELSE s[Max(W)].after[f]
  BY <1>1 DEF LatestIn
<1>5. LatestIn(r, f, S) = IF W = {} THEN Planned(NoPlan)[f] ELSE r[Max(W)].after[f]
  BY DEF LatestIn
<1> HIDE DEF W
<1> QED BY <1>3, <1>4, <1>5

\* A transaction later than the others decides about the files it wrote, and about no
\* other.
LEMMA LatestOne ==
  ASSUME NEW n \in Nat, NEW t \in 1 .. n, NEW S \in SUBSET (1 .. n),
         \A u \in S : u < t, NEW r, NEW f
  PROVE  LatestIn(r, f, S \cup {t}) =
           IF f \in DOMAIN r[t].after THEN r[t].after[f] ELSE LatestIn(r, f, S)
<1> DEFINE W == {u \in S \cup {t} : f \in DOMAIN r[u].after}
<1>1. CASE f \in DOMAIN r[t].after
  <2>1. t \in W /\ W \in SUBSET Nat /\ \A u \in W : u <= t
    <3>1. t \in W
      BY <1>1
    <3>2. \A u \in W : u \in Nat /\ u <= t
      OBVIOUS
    <3> QED BY <3>1, <3>2
  <2>2. LatestIn(r, f, S \cup {t}) = IF W = {} THEN Planned(NoPlan)[f] ELSE r[Max(W)].after[f]
    BY DEF LatestIn
  <2> HIDE DEF W
  <2>3. Max(W) = t
    BY <2>1, MaxIs
  <2> QED BY <1>1, <2>1, <2>2, <2>3
<1>2. CASE f \notin DOMAIN r[t].after
  <2>1. W = {u \in S : f \in DOMAIN r[u].after}
    BY <1>2
  <2> QED BY <1>2, <2>1 DEF LatestIn
<1> QED BY <1>1, <1>2

\* Nothing applied and nothing undone: other statuses and other journals do not count.
LEMMA StackedOn ==
  ASSUME NEW content, NEW r \in Seq(Journals), NEW s \in Seq(Journals),
         Stacked(content, r), AppliedIn(s) = AppliedIn(r),
         \A t \in AppliedIn(r) : s[t].before = r[t].before /\ s[t].after = r[t].after
  PROVE  Stacked(content, s)
<1> DEFINE A == AppliedIn(r)
<1>1. A \in SUBSET (1 .. Len(r)) /\ Len(r) \in Nat
  BY DEF AppliedIn
<1> HIDE DEF A
<1>2. ASSUME NEW f, NEW S \in SUBSET A PROVE LatestIn(s, f, S) = LatestIn(r, f, S)
  BY <1>1, SameLatest DEF A
<1>3. ASSUME NEW t \in A PROVE {u \in A : u < t} \in SUBSET A
  OBVIOUS
<1>4. /\ \A f \in Files : content[f] = LatestIn(r, f, A)
      /\ \A t \in A : \A f \in DOMAIN r[t].before :
           r[t].before[f] = LatestIn(r, f, {u \in A : u < t})
  BY DEF Stacked, A
<1>5. \A f \in Files : content[f] = LatestIn(s, f, A)
  BY <1>2, <1>4
<1>6. ASSUME NEW t \in A, NEW f \in DOMAIN s[t].before
      PROVE  s[t].before[f] = LatestIn(s, f, {u \in A : u < t})
  <2>1. s[t].before = r[t].before
    BY DEF A
  <2>2. r[t].before[f] = LatestIn(r, f, {u \in A : u < t})
    BY <1>4, <2>1
  <2> QED BY <1>2, <1>3, <2>1, <2>2
<1>7. AppliedIn(s) = A
  BY DEF A
<1> QED BY <1>5, <1>6, <1>7 DEF Stacked

\* The latest transaction is applied on the files its before-images show.
LEMMA StackedApplied ==
  ASSUME TInv, At("apply"), Stacked(files, transactions),
         Shows(transactions[call.transaction].before),
         files' = Overlay(transactions[call.transaction].after),
         transactions' = WithStatus(call.transaction, "applied")
  PROVE  Stacked(files', transactions')
<1> DEFINE t == call.transaction
           n == Len(transactions)
           A == AppliedIn(transactions)
<1>1. /\ transactions \in Seq(Journals) /\ n \in Nat /\ t = n /\ t \in 1 .. n
      /\ transactions[t].status = "prepared"
      /\ DOMAIN transactions[t].before = DOMAIN transactions[t].after
      /\ DOMAIN transactions[t].before \subseteq Files
  BY TransactionOK DEF TInv, WorkspaceOK, CallOK, Images
<1>2. A \in SUBSET (1 .. n) /\ t \notin A
  BY <1>1 DEF AppliedIn
<1>3. \A u \in A : u < t
  BY <1>1, <1>2
<1>4. /\ transactions' \in Seq(Journals) /\ Len(transactions') = n
      /\ transactions'[t].status = "applied"
      /\ \A u \in 1 .. n : /\ transactions'[u].before = transactions[u].before
                           /\ transactions'[u].after = transactions[u].after
                           /\ u # t => transactions'[u] = transactions[u]
  <2>1. "applied" \in Statuses
    BY DEF Statuses
  <2> QED BY <1>1, <2>1, WithStatusOK
<1>5. AppliedIn(transactions') = A \cup {t}
  BY <1>1, <1>4 DEF AppliedIn
<1>6. ASSUME NEW f, NEW S \in SUBSET (1 .. n)
      PROVE  LatestIn(transactions', f, S) = LatestIn(transactions, f, S)
  <2>1. n \in Nat /\ \A u \in S : transactions'[u].after = transactions[u].after
    BY <1>1, <1>4
  <2> HIDE DEF n
  <2> QED BY <2>1, SameLatest
<1>7. /\ \A f \in Files : files[f] = LatestIn(transactions, f, A)
      /\ \A u \in A : \A f \in DOMAIN transactions[u].before :
           transactions[u].before[f] = LatestIn(transactions, f, {v \in A : v < u})
  BY DEF Stacked
<1>8. ASSUME NEW f \in Files
      PROVE  files'[f] = LatestIn(transactions', f, A \cup {t})
  <2>1. files'[f] = IF f \in DOMAIN transactions[t].after
                      THEN transactions[t].after[f] ELSE files[f]
    BY DEF Overlay
  <2>2. LatestIn(transactions, f, A \cup {t}) =
          IF f \in DOMAIN transactions[t].after THEN transactions[t].after[f]
          ELSE LatestIn(transactions, f, A)
    <3>1. n \in Nat /\ t \in 1 .. n
      BY <1>1
    <3> HIDE DEF A, t, n
    <3> QED BY <1>2, <1>3, <3>1, LatestOne
  <2>3. LatestIn(transactions', f, A \cup {t}) = LatestIn(transactions, f, A \cup {t})
    <3> HIDE DEF A, t, n
    <3>1. A \cup {t} \in SUBSET (1 .. n)
      BY <1>1, <1>2
    <3> QED BY <1>6, <3>1
  <2>4. files[f] = LatestIn(transactions, f, A)
    BY <1>7
  <2> HIDE DEF A, t, n
  <2> QED BY <2>1, <2>2, <2>3, <2>4
<1>9. ASSUME NEW u \in A \cup {t}, NEW f \in DOMAIN transactions'[u].before
      PROVE  transactions'[u].before[f]
               = LatestIn(transactions', f, {v \in A \cup {t} : v < u})
  <2>1. {v \in A \cup {t} : v < u} = {v \in A : v < u}
    BY <1>1, <1>2, <1>3
  <2>2. {v \in A : v < u} \in SUBSET (1 .. n) /\ u \in 1 .. n
    BY <1>1, <1>2
  <2>3. transactions'[u].before = transactions[u].before
    BY <1>4, <2>2
  <2>4. CASE u \in A
    BY <1>6, <1>7, <2>1, <2>2, <2>3, <2>4
  <2>5. CASE u = t
    <3>1. {v \in A : v < u} = A
      BY <1>3, <2>5
    <3>2. transactions[t].before[f] = files[f] /\ f \in Files
      BY <1>1, <2>3, <2>5 DEF Shows
    <3>3. files[f] = LatestIn(transactions, f, A)
      BY <1>7, <3>2
    <3>4. LatestIn(transactions', f, A) = LatestIn(transactions, f, A)
      BY <1>2, <1>6
    <3>5. transactions'[u].before[f] = files[f]
      BY <2>3, <2>5, <3>2
    <3> HIDE DEF A, t
    <3> QED BY <2>1, <3>1, <3>3, <3>4, <3>5
  <2> QED BY <2>4, <2>5
<1> HIDE DEF A, t
<1> QED BY <1>5, <1>8, <1>9 DEF Stacked

\* The latest applied transaction is undone.
LEMMA StackedUndone ==
  ASSUME TInv, At("rollback"), Stacked(files, transactions),
         files' = Overlay(transactions[call.transaction].before),
         transactions' = WithStatus(call.transaction, "rolled-back"),
         call.transaction = Max(AppliedIn(transactions))
  PROVE  Stacked(files', transactions')
<1> DEFINE t == call.transaction
           n == Len(transactions)
           A == AppliedIn(transactions)
           B == A \ {t}
<1>1. /\ transactions \in Seq(Journals) /\ n \in Nat /\ t \in 1 .. n
      /\ transactions[t].status = "applied"
      /\ DOMAIN transactions[t].before = DOMAIN transactions[t].after
  BY TransactionOK DEF TInv, WorkspaceOK, CallOK
<1>2. A \in SUBSET (1 .. n) /\ t \in A
  BY <1>1 DEF AppliedIn
<1>3. \A u \in A : u <= t
  BY <1>1, <1>2, MaxOfPositions
<1>4. B \in SUBSET (1 .. n) /\ (\A u \in B : u < t) /\ A = B \cup {t}
  BY <1>2, <1>3
<1>5. /\ transactions' \in Seq(Journals) /\ Len(transactions') = n
      /\ transactions'[t].status = "rolled-back"
      /\ \A u \in 1 .. n : /\ transactions'[u].before = transactions[u].before
                           /\ transactions'[u].after = transactions[u].after
                           /\ u # t => transactions'[u] = transactions[u]
  <2>1. "rolled-back" \in Statuses
    BY DEF Statuses
  <2> QED BY <1>1, <2>1, WithStatusOK
<1>6. AppliedIn(transactions') = B
  <2>1. /\ DOMAIN transactions' = 1 .. n /\ DOMAIN transactions = 1 .. n
        /\ "rolled-back" # "applied"
    BY <1>1, <1>5
  <2>2. \A u \in 1 .. n : u # t => transactions'[u].status = transactions[u].status
    BY <1>5
  <2> QED BY <1>5, <2>1, <2>2 DEF AppliedIn
<1>7. ASSUME NEW f, NEW S \in SUBSET (1 .. n)
      PROVE  LatestIn(transactions', f, S) = LatestIn(transactions, f, S)
  <2>1. n \in Nat /\ \A u \in S : transactions'[u].after = transactions[u].after
    BY <1>1, <1>5
  <2> HIDE DEF n
  <2> QED BY <2>1, SameLatest
<1>8. /\ \A f \in Files : files[f] = LatestIn(transactions, f, A)
      /\ \A u \in A : \A f \in DOMAIN transactions[u].before :
           transactions[u].before[f] = LatestIn(transactions, f, {v \in A : v < u})
  BY DEF Stacked
<1>9. ASSUME NEW u \in A PROVE {v \in A : v < u} = {v \in B : v < u}
  BY <1>2, <1>3
<1>10. {v \in B : v < t} = B
  BY <1>4
<1>11. ASSUME NEW f \in Files PROVE files'[f] = LatestIn(transactions', f, B)
  <2>1. files'[f] = IF f \in DOMAIN transactions[t].before
                      THEN transactions[t].before[f] ELSE files[f]
    BY DEF Overlay
  <2>2. LatestIn(transactions', f, B) = LatestIn(transactions, f, B)
    BY <1>4, <1>7
  <2>3. CASE f \in DOMAIN transactions[t].before
    <3>1. transactions[t].before[f] = LatestIn(transactions, f, {v \in A : v < t})
      BY <1>2, <1>8, <2>3
    <3> HIDE DEF A, B, t, n
    <3> QED BY <1>2, <1>9, <1>10, <2>1, <2>2, <2>3, <3>1
  <2>4. CASE f \notin DOMAIN transactions[t].before
    <3>1. files[f] = LatestIn(transactions, f, A)
      BY <1>8
    <3> HIDE DEF A, B, t, n
    <3>2. LatestIn(transactions, f, B \cup {t}) = LatestIn(transactions, f, B)
      BY <1>1, <1>4, <2>4, LatestOne
    <3> QED BY <1>4, <2>1, <2>2, <2>4, <3>1, <3>2
  <2> QED BY <2>3, <2>4
<1>12. ASSUME NEW u \in B, NEW f \in DOMAIN transactions'[u].before
       PROVE  transactions'[u].before[f]
                = LatestIn(transactions', f, {v \in B : v < u})
  <2>1. u \in A /\ u \in 1 .. n /\ {v \in B : v < u} \in SUBSET (1 .. n)
    BY <1>4
  <2>2. transactions'[u].before = transactions[u].before
    BY <1>5, <2>1
  <2>3. transactions[u].before[f] = LatestIn(transactions, f, {v \in A : v < u})
    BY <1>8, <2>1, <2>2
  <2> HIDE DEF A, B, t, n
  <2> QED BY <1>7, <1>9, <2>1, <2>2, <2>3
<1> HIDE DEF B
<1> QED BY <1>6, <1>11, <1>12 DEF Stacked

LEMMA StackedStep ==
  ASSUME TInv, LastInFirstOut, [Next]_vars
  PROVE  LastInFirstOut'
<1> SUFFICES ASSUME orderly' PROVE Stacked(files', transactions')
  BY StackedIs
<1>0. TInv' /\ transactions \in Seq(Journals) /\ transactions' \in Seq(Journals)
      /\ orderly \in BOOLEAN
  <2>1. TInv'
    BY TypedStep
  <2> QED BY <2>1 DEF TInv, WorkspaceOK
<1>1. CASE UNCHANGED <<files, transactions, orderly>>
  BY <1>1, StackedIs
<1>2. CASE Prepare
  <2>1. UNCHANGED <<files, orderly>>
    BY <1>2 DEF Prepare
  <2>2. CASE UNCHANGED transactions
    BY <1>1, <2>1, <2>2
  <2>3. CASE transactions' = Append(transactions, Prepared)
    <3>1. /\ Len(transactions') = Len(transactions) + 1
          /\ transactions'[Len(transactions) + 1].status = "prepared"
          /\ \A t \in 1 .. Len(transactions) : transactions'[t] = transactions[t]
      BY <1>0, <2>3, PreparedOK, Appended
    <3>2. AppliedIn(transactions') = AppliedIn(transactions)
          /\ \A t \in AppliedIn(transactions) : transactions'[t] = transactions[t]
      BY <1>0, <3>1 DEF AppliedIn
    <3> QED BY <1>0, <2>1, <3>2, StackedIs, StackedOn
  <2> QED BY <1>2, <2>2, <2>3 DEF Prepare, Prepared
<1>3. CASE Apply
  <2> DEFINE t == call.transaction
  <2>1. At("apply") /\ t \in 1 .. Len(transactions) /\ transactions[t].status = "prepared"
    BY <1>3, TransactionOK DEF Apply, TInv, CallOK
  <2>2. CASE /\ Shows(transactions[t].before)
             /\ files' = Overlay(transactions[t].after)
             /\ transactions' = WithStatus(t, "applied")
             /\ UNCHANGED orderly
    BY <2>1, <2>2, StackedIs, StackedApplied
  <2>3. CASE UNCHANGED <<files, transactions, orderly>>
    BY <1>1, <2>3
  <2>4. CASE /\ transactions' = WithStatus(t, "failed-rolled-back")
             /\ UNCHANGED <<files, orderly>>
    <3>1. "failed-rolled-back" \in Statuses
      BY DEF Statuses
    <3>2. /\ Len(transactions') = Len(transactions)
          /\ transactions'[t].status = "failed-rolled-back"
          /\ \A u \in 1 .. Len(transactions) :
               u # t => transactions'[u] = transactions[u]
      BY <1>0, <2>1, <2>4, <3>1, WithStatusOK
    <3>3. AppliedIn(transactions') = AppliedIn(transactions)
          /\ \A u \in AppliedIn(transactions) : transactions'[u] = transactions[u]
      BY <1>0, <2>1, <3>2 DEF AppliedIn
    <3> QED BY <1>0, <2>4, <3>3, StackedIs, StackedOn
  <2> QED BY <1>3, <2>2, <2>3, <2>4 DEF Apply
<1>4. CASE Rollback
  <2> DEFINE t == call.transaction
  <2>1. CASE /\ files' = Overlay(transactions[t].before)
             /\ transactions' = WithStatus(t, "rolled-back")
             /\ orderly' = (orderly /\ t = Max(Applied(DOMAIN transactions)))
    BY <1>4, <2>1, StackedIs, StackedUndone DEF Rollback
  <2>2. CASE UNCHANGED <<files, transactions, orderly>>
    BY <1>1, <2>2
  <2> QED BY <1>4, <2>1, <2>2 DEF Rollback
<1>5. CASE Restart
  BY <1>1, <1>5 DEF Restart, Interrupt
<1>6. CASE \E f \in Files : Edit(f)
  BY <1>6 DEF Edit
<1>7. CASE ServerStep /\ ~ Prepare /\ ~ Apply /\ ~ Rollback
  <2>1. UNCHANGED workspace
    BY <1>7 DEF ServerStep, PlanChange, CompareWorkspace, BeginUndo, BeginVerify,
                BeginDeploy
  <2> QED BY <1>1, <2>1 DEF workspace
<1>8. CASE CommandStep \/ ExpireIntent \/ UNCHANGED vars
  <2>1. UNCHANGED workspace
    BY <1>8 DEF CommandStep, LoginEnds, DeployEnds, CommandFails, IssueIntent,
                ConfirmIdentity, ExpireIntent, vars
  <2> QED BY <1>1, <2>1 DEF workspace
<1> QED BY <1>2, <1>3, <1>4, <1>5, <1>6, <1>7, <1>8 DEF Next, ServerStep, Surroundings

\* As long as nothing is edited, torn or undone out of turn, the session is a stack of
\* changes: the images of every applied transaction are what the ones before it left.
THEOREM UndoReconstructs == Spec => []LastInFirstOut
<1>1. Init => LastInFirstOut
  <2> SUFFICES ASSUME Init PROVE Stacked(files, transactions)
    BY StackedIs
  <2>1. AppliedIn(transactions) = {} /\ files = Planned(NoPlan)
    BY DEF Init, AppliedIn
  <2>2. \A f \in Files : LatestIn(transactions, f, {}) = Planned(NoPlan)[f]
    BY DEF LatestIn
  <2> QED BY <2>1, <2>2 DEF Stacked
<1> QED BY <1>1, TypedInit, TypedStep, StackedStep, PTL DEF Spec

-----------------------------------------------------------------------------
(* Files and descriptors.                                                  *)

\* Two plans that are the same but for one entity, and the files they disagree about.
SameBut(e, d, g) ==
  \A x \in Entities \ {e} :
    /\ x \in DOMAIN d <=> x \in DOMAIN g
    /\ x \in DOMAIN d => d[x] = g[x]

Differ(d, g) == {f \in Files : Planned(d)[f] # Planned(g)[f]}

ImageOf(d, S) == [f \in S |-> Planned(d)[f]]

\* The images of a transaction are those of a change of one entity, in a plan that
\* may be long gone.
OneChange(from, to) ==
  \E d, g \in Plans, e \in Entities :
    /\ SameBut(e, d, g)
    /\ from = ImageOf(d, Differ(d, g)) /\ to = ImageOf(g, Differ(d, g))

Undisturbed == edits = 0 /\ NothingTorn

\* FilesAgree with what makes it inductive: the files are those of some plan, the
\* journals hold changes of one entity each, and so does the request before it
\* prepares one.
AgreeInv ==
  Undisturbed =>
    /\ \E d \in Plans : files = Planned(d)
    /\ \A t \in DOMAIN transactions :
         OneChange(transactions[t].before, transactions[t].after)
    /\ call.step \in {"compare", "prepare"} =>
         /\ files = Planned(call.plan)
         /\ \E e \in Entities : SameBut(e, call.plan, call.next)
    /\ At("prepare") => call.changed = Differ(call.plan, call.next)

\* The files of a plan show its descriptors.
LEMMA PlanShown ==
  ASSUME NEW d \in Plans, files = Planned(d)
  PROVE  Descriptors = d
<1>1. DOMAIN d \subseteq Entities /\ d = [e \in DOMAIN d |-> d[e]]
      /\ \A e \in DOMAIN d : d[e] \in Names
  BY DEF Plans
<1>2. \A e \in Entities :
        files[Descriptor(e)] = IF e \in DOMAIN d THEN d[e] ELSE Absent
  BY PlannedFile
<1>3. \A e \in Entities : files[Descriptor(e)] # Absent <=> e \in DOMAIN d
  BY <1>1, <1>2, StudioAssumption
<1>4. {x \in Entities : files[Descriptor(x)] # Absent} = DOMAIN d
  BY <1>1, <1>3
<1>5. Descriptors = [e \in DOMAIN d |-> files[Descriptor(e)]]
  BY <1>4 DEF Descriptors
<1>6. \A e \in DOMAIN d : files[Descriptor(e)] = d[e]
  BY <1>1, <1>2
<1> QED BY <1>1, <1>5, <1>6

\* A plan with one entity as in another plan.
LEMMA Spliced ==
  ASSUME NEW D \in Plans, NEW g \in Plans, NEW e \in Entities
  PROVE  \E h \in Plans :
           /\ SameBut(e, h, D)
           /\ e \in DOMAIN h <=> e \in DOMAIN g
           /\ e \in DOMAIN g => h[e] = g[e]
<1> DEFINE S == (DOMAIN D \ {e}) \cup (IF e \in DOMAIN g THEN {e} ELSE {})
           h == [x \in S |-> IF x = e THEN g[e] ELSE D[x]]
<1>1. /\ DOMAIN D \subseteq Entities /\ \A x \in DOMAIN D : D[x] \in Names
      /\ DOMAIN g \subseteq Entities /\ \A x \in DOMAIN g : g[x] \in Names
  BY DEF Plans
<1>2. S \in SUBSET Entities /\ h \in [S -> Names]
  BY <1>1
<1>3. h \in Plans
  <2> HIDE DEF h, S
  <2> QED BY <1>2 DEF Plans
<1>4. SameBut(e, h, D) /\ (e \in DOMAIN h <=> e \in DOMAIN g)
      /\ (e \in DOMAIN g => h[e] = g[e])
  BY DEF SameBut
<1> HIDE DEF h
<1> QED BY <1>3, <1>4

\* Files that show one end of a change of one entity take the other end of it: they
\* remain the files of a plan, whichever plan they were those of.
LEMMA ChangeTaken ==
  ASSUME NEW D \in Plans, files = Planned(D), NEW d \in Plans, NEW g \in Plans,
         NEW e \in Entities, SameBut(e, d, g),
         \A f \in Differ(d, g) : files[f] = Planned(d)[f]
  PROVE  \E h \in Plans : Overlay(ImageOf(g, Differ(d, g))) = Planned(h)
<1>1. PICK h \in Plans :
        /\ SameBut(e, h, D)
        /\ e \in DOMAIN h <=> e \in DOMAIN g
        /\ e \in DOMAIN g => h[e] = g[e]
  BY Spliced
<1> DEFINE Over == Overlay(ImageOf(g, Differ(d, g)))
<1>2. /\ DOMAIN Over = Files
      /\ \A f \in Files : Over[f] = IF f \in Differ(d, g) THEN Planned(g)[f]
                                    ELSE Planned(D)[f]
  BY DEF Overlay, ImageOf
<1> HIDE DEF Over
<1>3. /\ DOMAIN d \subseteq Entities /\ \A x \in DOMAIN d : d[x] \in Names
      /\ DOMAIN g \subseteq Entities /\ \A x \in DOMAIN g : g[x] \in Names
      /\ DOMAIN D \subseteq Entities /\ DOMAIN h \subseteq Entities
  BY DEF Plans
<1>4. \A f \in Differ(d, g) : Planned(D)[f] = Planned(d)[f]
  OBVIOUS
<1>5. CASE \/ e \in DOMAIN d /\ e \in DOMAIN g /\ d[e] = g[e]
           \/ e \notin DOMAIN d /\ e \notin DOMAIN g
  <2>1. \A x \in Entities : (x \in DOMAIN d <=> x \in DOMAIN g)
                            /\ (x \in DOMAIN d => d[x] = g[x])
    BY <1>5 DEF SameBut
  <2>2. DOMAIN d = DOMAIN g
    BY <1>3, <2>1
  <2>3. \A f \in Files : Planned(d)[f] = Planned(g)[f]
    <3>1. \A x \in Entities : /\ Planned(d)[Descriptor(x)] = Planned(g)[Descriptor(x)]
                              /\ Planned(d)[Generated(x)] = Planned(g)[Generated(x)]
      BY <2>1, PlannedFile
    <3>2. Planned(d)[Registry] = Planned(g)[Registry]
      BY <2>2, PlannedFile
    <3> QED BY <3>1, <3>2 DEF Files
  <2>4. Over = Planned(D)
    <3>1. \A f \in Files : Over[f] = Planned(D)[f]
      BY <1>2, <2>3 DEF Differ
    <3>2. DOMAIN Planned(D) = Files
      BY DEF Planned
    <3>3. Over = [f \in Files |-> Over[f]] /\ Planned(D) = [f \in Files |-> Planned(D)[f]]
      BY PlannedFile DEF Over, Overlay
    <3> QED BY <3>1, <3>3
  <2> QED BY <2>4 DEF Over
<1>6. CASE ~ (\/ e \in DOMAIN d /\ e \in DOMAIN g /\ d[e] = g[e]
              \/ e \notin DOMAIN d /\ e \notin DOMAIN g)
  <2>1. /\ Planned(d)[Descriptor(e)] # Planned(g)[Descriptor(e)]
        /\ Planned(d)[Generated(e)] # Planned(g)[Generated(e)]
    BY <1>3, <1>6, PlannedFile, StudioAssumption
  <2>2. Descriptor(e) \in Differ(d, g) /\ Generated(e) \in Differ(d, g)
    BY <2>1, FilesDistinct DEF Differ
  <2>3. /\ Over[Descriptor(e)] = Planned(h)[Descriptor(e)]
        /\ Over[Generated(e)] = Planned(h)[Generated(e)]
    BY <1>1, <1>2, <2>2, FilesDistinct, PlannedFile
  <2>4. ASSUME NEW x \in Entities \ {e}
        PROVE  /\ Over[Descriptor(x)] = Planned(h)[Descriptor(x)]
               /\ Over[Generated(x)] = Planned(h)[Generated(x)]
    <3>1. /\ Planned(d)[Descriptor(x)] = Planned(g)[Descriptor(x)]
          /\ Planned(d)[Generated(x)] = Planned(g)[Generated(x)]
      BY PlannedFile DEF SameBut
    <3>2. /\ Over[Descriptor(x)] = Planned(D)[Descriptor(x)]
          /\ Over[Generated(x)] = Planned(D)[Generated(x)]
      BY <1>2, <3>1, FilesDistinct DEF Differ
    <3>3. /\ Planned(D)[Descriptor(x)] = Planned(h)[Descriptor(x)]
          /\ Planned(D)[Generated(x)] = Planned(h)[Generated(x)]
      BY <1>1, PlannedFile DEF SameBut
    <3> QED BY <3>2, <3>3
  <2>5. Over[Registry] = Planned(h)[Registry]
    <3>1. /\ Planned(d)[Registry] = DOMAIN d /\ Planned(g)[Registry] = DOMAIN g
          /\ Planned(D)[Registry] = DOMAIN D /\ Planned(h)[Registry] = DOMAIN h
          /\ Registry \in Files
      BY PlannedFile, FilesDistinct
    <3>2. CASE DOMAIN d # DOMAIN g
      <4>1. Registry \in Differ(d, g) /\ DOMAIN D = DOMAIN d
        BY <1>4, <3>1, <3>2 DEF Differ
      <4>2. \A x \in Entities : x \in DOMAIN h <=> x \in DOMAIN g
        BY <1>1, <4>1 DEF SameBut
      <4> QED BY <1>2, <1>3, <3>1, <4>1, <4>2
    <3>3. CASE DOMAIN d = DOMAIN g
      <4>1. e \in DOMAIN d /\ e \in DOMAIN g
        BY <1>6, <3>3
      <4>2. Planned(D)[Descriptor(e)] = d[e] /\ d[e] # Absent
        BY <1>3, <1>4, <2>2, <4>1, PlannedFile, StudioAssumption
      <4>3. e \in DOMAIN D
        BY <4>2, PlannedFile
      <4>4. \A x \in Entities : x \in DOMAIN h <=> x \in DOMAIN D
        BY <1>1, <4>1, <4>3 DEF SameBut
      <4>5. Registry \notin Differ(d, g)
        BY <3>1, <3>3 DEF Differ
      <4> QED BY <1>2, <1>3, <3>1, <4>4, <4>5
    <3> QED BY <3>2, <3>3
  <2>6. \A f \in Files : Over[f] = Planned(h)[f]
    BY <2>3, <2>4, <2>5 DEF Files
  <2>7. Over = [f \in Files |-> Over[f]] /\ Planned(h) = [f \in Files |-> Planned(h)[f]]
    BY PlannedFile DEF Over, Overlay
  <2>8. Over = Planned(h)
    BY <2>6, <2>7
  <2> QED BY <2>8 DEF Over
<1> QED BY <1>5, <1>6

\* The same, for the images of a transaction, applied or undone.
LEMMA ImagesTaken ==
  ASSUME NEW D \in Plans, files = Planned(D), NEW from, NEW to,
         OneChange(from, to) \/ OneChange(to, from), Shows(from)
  PROVE  \E h \in Plans : Overlay(to) = Planned(h)
<1>1. PICK d \in Plans, g \in Plans, e \in Entities :
        /\ SameBut(e, d, g)
        /\ from = ImageOf(d, Differ(d, g)) /\ to = ImageOf(g, Differ(d, g))
  <2>1. \A d, g \in Plans, e \in Entities :
          /\ SameBut(e, d, g) => SameBut(e, g, d)
          /\ Differ(d, g) = Differ(g, d)
    BY DEF SameBut, Differ
  <2> QED BY <2>1 DEF OneChange
<1>2. \A f \in Differ(d, g) : files[f] = Planned(d)[f]
  BY <1>1 DEF Shows, ImageOf
<1> QED BY <1>1, <1>2, ChangeTaken

\* Without edits and torn transactions now, there were none before.
LEMMA UndisturbedBefore ==
  ASSUME TInv, [Next]_vars, Undisturbed'
  PROVE  Undisturbed /\ edits' = edits
<1>1. edits' \in {edits, edits + 1} /\ edits \in Nat
  BY DEF Next, ServerStep, CommandStep, Surroundings, PlanChange, CompareWorkspace,
         Prepare, Apply, BeginUndo, Rollback, BeginVerify, BeginDeploy, LoginEnds,
         DeployEnds, CommandFails, IssueIntent, ConfirmIdentity, ExpireIntent, Restart,
         Edit, vars, workspace, TInv, WorkspaceOK
<1>2. edits = 0 /\ edits' = edits
  BY <1>1 DEF Undisturbed
<1>3. transactions \in Seq(Journals)
  BY DEF TInv, WorkspaceOK
<1>4. CASE \E j \in Journals : transactions' = Append(transactions, j)
  <2>1. \A t \in DOMAIN transactions :
          t \in DOMAIN transactions' /\ transactions'[t] = transactions[t]
    BY <1>3, <1>4, Appended
  <2> QED BY <1>2, <2>1 DEF Undisturbed, NothingTorn
<1>5. ASSUME NEW status \in Statuses, At("apply") \/ At("rollback"),
             transactions' = WithStatus(call.transaction, status)
      PROVE  Undisturbed
  <2>1. /\ call.transaction \in 1 .. Len(transactions)
        /\ transactions[call.transaction].status \in {"prepared", "applied"}
    BY <1>5, TransactionOK DEF TInv, CallOK
  <2>2. /\ Len(transactions') = Len(transactions) /\ transactions' \in Seq(Journals)
        /\ \A u \in 1 .. Len(transactions) :
             u # call.transaction => transactions'[u] = transactions[u]
    BY <1>3, <1>5, <2>1, WithStatusOK
  <2>3. "prepared" \notin Torn /\ "applied" \notin Torn
    BY DEF Torn
  <2>4. ASSUME NEW u \in DOMAIN transactions PROVE transactions[u].status \notin Torn
    <3>1. u \in DOMAIN transactions' /\ u \in 1 .. Len(transactions)
      BY <1>3, <2>2
    <3> QED BY <2>1, <2>2, <2>3, <3>1 DEF Undisturbed, NothingTorn
  <2> QED BY <1>2, <2>4 DEF Undisturbed, NothingTorn
<1>6. CASE UNCHANGED transactions
  BY <1>2, <1>6 DEF Undisturbed, NothingTorn
<1>7. \/ UNCHANGED transactions
      \/ \E j \in Journals : transactions' = Append(transactions, j)
      \/ /\ At("apply") \/ At("rollback")
         /\ \E status \in Statuses : transactions' = WithStatus(call.transaction, status)
  <2>1. /\ {"applied", "failed-rolled-back", "failed-conflicted", "rolled-back",
            "rolling-back", "applying"} \subseteq Statuses
    BY DEF Statuses, Torn
  <2>2. CASE Prepare
    BY <2>2, PreparedOK DEF Prepare, Prepared
  <2>3. CASE Apply
    BY <2>1, <2>3 DEF Apply
  <2>4. CASE Rollback
    BY <2>1, <2>4 DEF Rollback
  <2>5. CASE Restart
    <3>1. [before |-> NoPlan, after |-> NoPlan, status |-> "bare"] \in Journals
      <4>1. PICK images \in Images : images = NoPlan
        BY NoPlanOK
      <4>2. "bare" \in Statuses
        BY DEF Statuses, Torn
      <4> QED BY <4>1, <4>2 DEF Journals
    <3> QED BY <2>1, <2>5, <3>1 DEF Restart, Interrupt
  <2>6. CASE ~ Prepare /\ ~ Apply /\ ~ Rollback /\ ~ Restart
    BY <2>6 DEF Next, ServerStep, CommandStep, Surroundings, PlanChange,
         CompareWorkspace, BeginUndo, BeginVerify, BeginDeploy, LoginEnds,
         DeployEnds, CommandFails, IssueIntent, ConfirmIdentity, ExpireIntent,
         Edit, vars, workspace
  <2> QED BY <2>2, <2>3, <2>4, <2>5, <2>6
<1> QED BY <1>2, <1>4, <1>5, <1>6, <1>7

\* Steps that leave the files and the journals alone.
LEMMA AgreeElsewhere ==
  ASSUME AgreeInv, Undisturbed => UNCHANGED <<files, transactions>>,
         Undisturbed' => Undisturbed,
         call' = call \/ call'.step \notin {"compare", "prepare"}
  PROVE  AgreeInv'
<1> SUFFICES ASSUME Undisturbed' PROVE
      /\ \E d \in Plans : files' = Planned(d)
      /\ \A t \in DOMAIN transactions' :
           OneChange(transactions'[t].before, transactions'[t].after)
      /\ call'.step \in {"compare", "prepare"} =>
           /\ files' = Planned(call'.plan)
           /\ \E e \in Entities : SameBut(e, call'.plan, call'.next)
      /\ call'.step = "prepare" => call'.changed = Differ(call'.plan, call'.next)
  BY DEF AgreeInv, At
<1>1. Undisturbed /\ UNCHANGED <<files, transactions>>
  OBVIOUS
<1> QED BY <1>1 DEF AgreeInv, At

\* A journal of another status keeps its images.
LEMMA ChangesKept ==
  ASSUME TInv, AgreeInv, Undisturbed, At("apply") \/ At("rollback"),
         NEW status \in Statuses, transactions' = WithStatus(call.transaction, status)
  PROVE  \A t \in DOMAIN transactions' :
           OneChange(transactions'[t].before, transactions'[t].after)
<1>1. call.transaction \in 1 .. Len(transactions) /\ transactions \in Seq(Journals)
  BY TransactionOK DEF TInv, WorkspaceOK
<1>2. /\ Len(transactions') = Len(transactions) /\ transactions' \in Seq(Journals)
      /\ \A u \in 1 .. Len(transactions) :
           /\ transactions'[u].before = transactions[u].before
           /\ transactions'[u].after = transactions[u].after
  BY <1>1, WithStatusOK
<1>3. \A t \in 1 .. Len(transactions) :
        OneChange(transactions[t].before, transactions[t].after)
  BY <1>1 DEF AgreeInv
<1>4. DOMAIN transactions' = 1 .. Len(transactions)
  BY <1>2
<1> HIDE DEF OneChange
<1> QED BY <1>2, <1>3, <1>4

LEMMA AgreePlanChange ==
  ASSUME TInv, AgreeInv, NEW e \in Entities, NEW name, PlanChange(e, name),
         Undisturbed' => Undisturbed
  PROVE  AgreeInv'
<1> SUFFICES ASSUME Undisturbed, Undisturbed' PROVE AgreeInv'
  BY DEF AgreeInv
<1>1. UNCHANGED <<files, transactions>>
  BY DEF PlanChange, workspace
<1>2. PICK d \in Plans : files = Planned(d)
  BY DEF AgreeInv
<1>3. Descriptors = d
  BY <1>2, PlanShown
<1>4. SameBut(e, d, NextDescriptors(e, name))
  BY <1>3 DEF SameBut, NextDescriptors
<1>5. PICK n : n = NextDescriptors(e, name)
  OBVIOUS
<1>6. call'.step = "compare" /\ call'.plan = d /\ call'.next = n
  BY <1>3, <1>5 DEF PlanChange, TInv, CallOK, Calls
<1>7. \A t \in DOMAIN transactions' :
        OneChange(transactions'[t].before, transactions'[t].after)
  BY <1>1 DEF AgreeInv
<1>8. files' = Planned(call'.plan) /\ SameBut(e, call'.plan, call'.next)
  BY <1>1, <1>2, <1>4, <1>5, <1>6
<1> QED BY <1>1, <1>2, <1>6, <1>7, <1>8 DEF AgreeInv, At

LEMMA AgreeCompare ==
  ASSUME TInv, AgreeInv, CompareWorkspace, Undisturbed' => Undisturbed
  PROVE  AgreeInv'
<1>1. UNCHANGED <<files, transactions>>
  BY DEF CompareWorkspace, workspace
<1>2. CASE Release
  BY <1>1, <1>2, AgreeElsewhere DEF Release, NoCall
<1>3. CASE call' = [call EXCEPT !.step = "prepare",
                                !.changed = Changes(call.plan, call.next)]
  <2> SUFFICES ASSUME Undisturbed, Undisturbed' PROVE AgreeInv'
    BY DEF AgreeInv
  <2>1. files = Planned(call.plan) /\ \E e \in Entities : SameBut(e, call.plan, call.next)
    BY DEF AgreeInv, CompareWorkspace, At
  <2>2. call.plan \in Plans /\ call.next \in Plans
    BY DEF TInv, CallOK, Calls
  <2>3. Changes(call.plan, call.next) = Differ(call.plan, call.next)
    <3>1. PlannedFiles(call.plan) \subseteq Files /\ PlannedFiles(call.next) \subseteq Files
      BY <2>2, FilesDistinct DEF Plans, PlannedFiles
    <3>2. \A f \in Files : f \notin PlannedFiles(call.plan) \cup PlannedFiles(call.next)
            => Planned(call.plan)[f] = Planned(call.next)[f]
      BY DEF Planned
    <3> QED BY <2>1, <3>1, <3>2 DEF Changes, Differ
  <2>4. PICK S : S = Changes(call.plan, call.next)
    OBVIOUS
  <2>5. /\ call'.step = "prepare" /\ call'.plan = call.plan /\ call'.next = call.next
        /\ call'.changed = S
    BY <1>3, <2>4 DEF TInv, CallOK, Calls
  <2>6. /\ \E d \in Plans : files' = Planned(d)
        /\ \A t \in DOMAIN transactions' :
             OneChange(transactions'[t].before, transactions'[t].after)
    BY <1>1 DEF AgreeInv
  <2>7. files' = Planned(call'.plan) /\ \E e \in Entities : SameBut(e, call'.plan, call'.next)
    BY <1>1, <2>1, <2>5
  <2>8. call'.changed = Differ(call'.plan, call'.next)
    BY <2>3, <2>4, <2>5
  <2> QED BY <2>6, <2>7, <2>8 DEF AgreeInv
<1> QED BY <1>2, <1>3 DEF CompareWorkspace

LEMMA AgreePrepare ==
  ASSUME TInv, AgreeInv, Prepare, Undisturbed' => Undisturbed
  PROVE  AgreeInv'
<1>1. CASE Release /\ UNCHANGED transactions
  BY <1>1, AgreeElsewhere DEF Prepare, Release, NoCall
<1>2. CASE /\ transactions' = Append(transactions, Prepared)
           /\ call' = [call EXCEPT !.step = "apply",
                                   !.transaction = Len(transactions) + 1]
  <2> SUFFICES ASSUME Undisturbed, Undisturbed' PROVE AgreeInv'
    BY DEF AgreeInv
  <2>1. /\ files = Planned(call.plan) /\ call.changed = Differ(call.plan, call.next)
        /\ \E e \in Entities : SameBut(e, call.plan, call.next)
    BY DEF AgreeInv, Prepare, At
  <2>2. call.plan \in Plans /\ call.next \in Plans
    BY DEF TInv, CallOK, Calls
  <2>3. Prepared.before = ImageOf(call.plan, call.changed)
        /\ Prepared.after = ImageOf(call.next, call.changed)
    BY <2>1 DEF Prepared, Snapshot, ImageOf
  <2>4. OneChange(Prepared.before, Prepared.after)
    BY <2>1, <2>2, <2>3 DEF OneChange
  <2>5. transactions \in Seq(Journals) /\ Prepared \in Journals
    BY PreparedOK DEF TInv, WorkspaceOK
  <2>6. /\ Len(transactions') = Len(transactions) + 1 /\ transactions' \in Seq(Journals)
        /\ transactions'[Len(transactions) + 1] = Prepared
        /\ \A t \in 1 .. Len(transactions) : transactions'[t] = transactions[t]
    BY <1>2, <2>5, Appended
  <2>7. \A t \in 1 .. Len(transactions) :
          OneChange(transactions[t].before, transactions[t].after)
    BY <2>5 DEF AgreeInv
  <2>8. ASSUME NEW t \in DOMAIN transactions'
        PROVE  OneChange(transactions'[t].before, transactions'[t].after)
    <3>1. t \in 1 .. Len(transactions) \/ t = Len(transactions) + 1
      BY <2>5, <2>6
    <3> QED BY <2>4, <2>6, <2>7, <3>1
  <2>9. call'.step = "apply" /\ files' = files
    BY <1>2 DEF Prepare, TInv, CallOK, Calls
  <2> QED BY <2>1, <2>2, <2>8, <2>9 DEF AgreeInv, At
<1> QED BY <1>1, <1>2 DEF Prepare, Prepared

\* Apply and rollback: the images of a transaction are written, whichever they are.
LEMMA AgreeWritten ==
  ASSUME TInv, AgreeInv, Undisturbed, At("apply") \/ At("rollback"),
         NEW from, NEW to, NEW status \in Statuses,
         LET j == transactions[call.transaction] IN
         \/ from = j.before /\ to = j.after
         \/ from = j.after /\ to = j.before,
         Shows(from), files' = Overlay(to),
         transactions' = WithStatus(call.transaction, status), Release
  PROVE  AgreeInv'
<1>1. PICK D \in Plans : files = Planned(D)
  BY DEF AgreeInv
<1>2. call.transaction \in DOMAIN transactions
  BY TransactionOK DEF TInv, WorkspaceOK
<1>3. OneChange(transactions[call.transaction].before, transactions[call.transaction].after)
  BY <1>2 DEF AgreeInv
<1>4. OneChange(from, to) \/ OneChange(to, from)
  BY <1>3
<1>5. \E h \in Plans : Overlay(to) = Planned(h)
  BY <1>1, <1>4, ImagesTaken
<1>6. call'.step = "none"
  BY DEF Release, NoCall
<1> QED BY <1>5, <1>6, ChangesKept DEF AgreeInv, At

LEMMA AgreeStep ==
  ASSUME TInv, AgreeInv, [Next]_vars
  PROVE  AgreeInv'
<1> SUFFICES ASSUME Undisturbed' PROVE AgreeInv'
  BY DEF AgreeInv
<1>0. Undisturbed /\ edits' = edits /\ edits = 0 /\ NothingTorn'
  BY UndisturbedBefore DEF Undisturbed
<1>1. ASSUME NEW e \in Entities, NEW name, PlanChange(e, name) PROVE AgreeInv'
  BY <1>0, <1>1, AgreePlanChange
<1>2. CASE CompareWorkspace
  BY <1>0, <1>2, AgreeCompare
<1>3. CASE Prepare
  BY <1>0, <1>3, AgreePrepare
<1>4. ASSUME NEW status \in Torn, At("apply") \/ At("rollback"),
             transactions' = WithStatus(call.transaction, status)
      PROVE  FALSE
  <2>1. call.transaction \in 1 .. Len(transactions) /\ transactions \in Seq(Journals)
        /\ status \in Statuses
    BY <1>4, TransactionOK DEF TInv, WorkspaceOK, Statuses
  <2>2. /\ transactions' \in Seq(Journals) /\ Len(transactions') = Len(transactions)
        /\ transactions'[call.transaction].status = status
    BY <1>4, <2>1, WithStatusOK
  <2>3. call.transaction \in DOMAIN transactions'
    BY <2>1, <2>2
  <2> QED BY <1>0, <1>4, <2>2, <2>3 DEF NothingTorn
<1>5. CASE Apply
  <2> DEFINE t == call.transaction
  <2>1. /\ At("apply") /\ Release
        /\ {"applied", "failed-rolled-back"} \subseteq Statuses
        /\ "failed-conflicted" \in Torn
    BY <1>5 DEF Apply, Statuses, Torn
  <2>2. CASE /\ Shows(transactions[t].before)
             /\ files' = Overlay(transactions[t].after)
             /\ transactions' = WithStatus(t, "applied")
    BY <1>0, <2>1, <2>2, AgreeWritten
  <2>3. CASE UNCHANGED <<files, transactions>>
    BY <1>0, <2>1, <2>3, AgreeElsewhere DEF Release, NoCall
  <2>4. CASE transactions' = WithStatus(t, "failed-rolled-back") /\ UNCHANGED files
    <3>1. \A u \in DOMAIN transactions' :
            OneChange(transactions'[u].before, transactions'[u].after)
      BY <1>0, <2>1, <2>4, ChangesKept
    <3>2. call'.step = "none"
      BY <2>1 DEF Release, NoCall
    <3>3. \E d \in Plans : files' = Planned(d)
      BY <1>0, <2>4 DEF AgreeInv
    <3> QED BY <3>1, <3>2, <3>3 DEF AgreeInv, At
  <2>5. CASE transactions' = WithStatus(t, "failed-conflicted")
    BY <1>4, <2>1, <2>5
  <2> QED BY <1>5, <2>2, <2>3, <2>4, <2>5 DEF Apply
<1>6. CASE Rollback
  <2> DEFINE t == call.transaction
  <2>1. /\ At("rollback") /\ Release
        /\ "rolled-back" \in Statuses /\ "rolling-back" \in Torn
    BY <1>6 DEF Rollback, Statuses, Torn
  <2>2. CASE /\ Shows(transactions[t].after)
             /\ files' = Overlay(transactions[t].before)
             /\ transactions' = WithStatus(t, "rolled-back")
    BY <1>0, <2>1, <2>2, AgreeWritten
  <2>3. CASE UNCHANGED <<files, transactions>>
    BY <1>0, <2>1, <2>3, AgreeElsewhere DEF Release, NoCall
  <2>4. CASE transactions' = WithStatus(t, "rolling-back")
    BY <1>4, <2>1, <2>4
  <2> QED BY <1>6, <2>2, <2>3, <2>4 DEF Rollback
<1>7. CASE Restart
  <2>1. CASE /\ At("apply") /\ transactions' = WithStatus(call.transaction, "applying")
    BY <1>4, <2>1 DEF Torn
  <2>2. CASE /\ At("rollback")
             /\ transactions' = WithStatus(call.transaction, "rolling-back")
    BY <1>4, <2>2 DEF Torn
  <2>3. CASE transactions' = Append(transactions,
               [before |-> NoPlan, after |-> NoPlan, status |-> "bare"])
    <3>1. transactions \in Seq(Journals) /\ "bare" \in Torn
      BY DEF TInv, WorkspaceOK, Torn
    <3>2. PICK j : j = [before |-> NoPlan, after |-> NoPlan, status |-> "bare"]
      OBVIOUS
    <3>3. Len(transactions) + 1 \in DOMAIN transactions'
          /\ transactions'[Len(transactions) + 1] = j
      BY <2>3, <3>1, <3>2
    <3> QED BY <1>0, <3>1, <3>2, <3>3 DEF NothingTorn
  <2>4. CASE UNCHANGED <<files, transactions>>
    BY <1>0, <1>7, <2>4, AgreeElsewhere DEF Restart, Release, NoCall
  <2> QED BY <1>7, <2>1, <2>2, <2>3, <2>4 DEF Restart, Interrupt
<1>8. CASE \E f \in Files : Edit(f)
  <2>1. edits' = edits + 1
    BY <1>8 DEF Edit
  <2> QED BY <1>0, <2>1
<1>9. CASE \/ BeginUndo
           \/ \E p \in Profiles, login \in BOOLEAN : BeginVerify(p, login)
  <2>1. call'.step \notin {"compare", "prepare"}
    BY <1>9 DEF BeginUndo, BeginVerify, TInv, CallOK, Calls
  <2>2. UNCHANGED <<files, transactions>>
    BY <1>9 DEF BeginUndo, BeginVerify, workspace
  <2> QED BY <1>0, <2>1, <2>2, AgreeElsewhere
<1>10. CASE \E p \in Profiles, i \in 0 .. issued : BeginDeploy(p, i)
  <2>1. call'.step \notin {"compare", "prepare"}
    <3>1. call \in Calls /\ NoCall.step = "none"
      BY DEF TInv, CallOK, NoCall
    <3>2. PICK p \in Profiles, i \in 0 .. issued : BeginDeploy(p, i)
      BY <1>10
    <3> QED BY <3>1, <3>2 DEF BeginDeploy, Release, Calls
  <2>2. UNCHANGED <<files, transactions>>
    BY <1>10 DEF BeginDeploy, workspace
  <2> QED BY <1>0, <2>1, <2>2, AgreeElsewhere
<1>11. CASE CommandStep
  <2>1. call \in Calls /\ NoCall.step = "none"
    BY DEF TInv, CallOK, NoCall
  <2>2. CASE LoginEnds \/ DeployEnds \/ CommandFails
    <3>1. call'.step \notin {"compare", "prepare"}
      BY <2>1, <2>2 DEF LoginEnds, DeployEnds, CommandFails, Goto, Release, Calls
    <3>2. UNCHANGED <<files, transactions>>
      BY <2>2 DEF LoginEnds, DeployEnds, CommandFails, workspace
    <3> QED BY <1>0, <3>1, <3>2, AgreeElsewhere
  <2>3. ASSUME NEW who \in Identities, IssueIntent(who) \/ ConfirmIdentity(who)
        PROVE  AgreeInv'
    <3>1. call'.step \notin {"compare", "prepare"}
      BY <2>1, <2>3 DEF IssueIntent, ConfirmIdentity, Release, Calls
    <3>2. UNCHANGED <<files, transactions>>
      BY <2>3 DEF IssueIntent, ConfirmIdentity, workspace
    <3> QED BY <1>0, <3>1, <3>2, AgreeElsewhere
  <2> QED BY <1>11, <2>2, <2>3 DEF CommandStep
<1>12. CASE ExpireIntent \/ UNCHANGED vars
  <2>1. UNCHANGED <<files, transactions, call>>
    BY <1>12 DEF ExpireIntent, vars, workspace
  <2> QED BY <1>0, <2>1, AgreeElsewhere
<1> QED BY <1>1, <1>2, <1>3, <1>5, <1>6, <1>7, <1>8, <1>9, <1>10, <1>11, <1>12
        DEF Next, ServerStep, Surroundings

\* Without edits and interrupted transactions the application has exactly the files
\* its descriptors generate, whatever is created, updated, dropped and undone, in any
\* order.
THEOREM FilesAlwaysAgree == Spec => []FilesAgree
<1>1. Init => AgreeInv
  <2>1. Init => /\ files = Planned(NoPlan) /\ DOMAIN transactions = {}
                /\ call = NoCall /\ NoCall.step = "none"
    BY DEF Init, NoCall
  <2> QED BY <2>1, NoPlanOK DEF AgreeInv, At
<1>2. AgreeInv => FilesAgree
  BY PlanShown DEF AgreeInv, Undisturbed, FilesAgree
<1> QED BY <1>1, <1>2, TypedInit, TypedStep, AgreeStep, PTL DEF Spec
=============================================================================
