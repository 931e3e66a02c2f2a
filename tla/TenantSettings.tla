--------------------------- MODULE TenantSettings ---------------------------
(***************************************************************************)
(* The settings manager over its AWS store, for one Public or Private      *)
(* group: packages/core/src/lib/settings/ci-create-settings-manager.ts and *)
(* packages/aws/.../settings-handlers/ci-settings-store.ts.                *)
(*                                                                         *)
(* Administrators open the System page or the page of a target, edit it,   *)
(* and save it some time later; the System page also overwrites targets.   *)
(* Every request reads the System record and the copy of its target one    *)
(* after the other, decides on what it read, and writes in a transaction   *)
(* that is conditional on revisions.  A target without a copy gets one     *)
(* when it is first read.                                                  *)
(***************************************************************************)
EXTENDS Naturals

CONSTANTS Users,        \* administrators with a settings page open
          Enforcers,    \* those that hold the System action "enforce"
          Targets,      \* GLOBAL and the tenants
          Tenants,      \* the targets that are tenants and may be suspended
          Fields,       \* the fields of the group
          Values,       \* the values of a field, an absent optional one included
          Default,      \* the registered defaults
          RuleSets,     \* the rules staged on the System page, as the fields
                        \* they lock for each target
          MaxSystem,    \* bound: the last revision of the System record
          MaxCopy       \* bound: the last revision of a copy

ASSUME SettingsAssumption ==
  /\ Enforcers \subseteq Users
  /\ Tenants \subseteq Targets
  /\ Default \in [Fields -> Values]
  /\ RuleSets \subseteq SUBSET (Fields \X Targets)
  /\ MaxSystem \in Nat /\ MaxCopy \in Nat \ {0}

VARIABLES system,       \* the System record
          copies,       \* the copy of each target
          suspended,    \* the tenants whose record is not active
          session       \* the page and the running request of each user

vars == <<system, copies, suspended, session>>

Ledger == INSTANCE SettingsLedger

NoSource == [revision |-> 0, value |-> Default, locks |-> {}]
NoCopy == [revision |-> 0, value |-> Default]

SystemPage == "system"
NoPage == "none"

ASSUME PageAssumption == SystemPage \notin Targets

\* A page holds what the reads behind it returned; a request, what it was
\* asked for and what it has read so far.
Pages    == [of: Targets \union {SystemPage, NoPage},
             source: Ledger!SystemRecords, copy: Ledger!Copies]
NoPageOpen == [of |-> NoPage, source |-> NoSource, copy |-> NoCopy]

Requests == [op: {"none", "open", "save", "reload", "overwrite", "system"},
             step: {"none", "validate", "source", "copy", "initialize",
                    "winner", "commit"},
             target: Targets \union {SystemPage, NoPage},
             value: [Fields -> Values],
             locks: SUBSET (Fields \X Targets),
             fields: SUBSET Fields,
             source: Ledger!SystemRecords, copy: Ledger!Copies,
             attempt: 0..2]

NoRequest == [op |-> "none", step |-> "none", target |-> NoPage,
              value |-> Default, locks |-> {}, fields |-> {},
              source |-> NoSource, copy |-> NoCopy, attempt |-> 0]

TypeOK ==
  /\ system \in Ledger!SystemRecords
  /\ copies \in [Targets -> Ledger!Copies]
  /\ suspended \in SUBSET Tenants
  /\ session \in [Users -> [page: Pages, request: Requests]]
  /\ system.revision <= MaxSystem
  /\ \A t \in Targets : copies[t].revision <= MaxCopy

Init ==
  /\ Ledger!Init
  /\ suspended = {}
  /\ session = [u \in Users |-> [page |-> NoPageOpen, request |-> NoRequest]]

\* The value a page shows: the fields the rules lock come from System.
Effective(source, copy, t) ==
  [f \in Fields |-> IF <<f, t>> \in source.locks THEN source.value[f]
                                                 ELSE copy.value[f]]

Shown(page) ==
  IF page.of = SystemPage THEN page.source.value
                          ELSE Effective(page.source, page.copy, page.of)

Page(u)    == session[u].page
Request(u) == session[u].request
At(u, step) == Request(u).step = step

Continue(u, request) ==
  session' = [session EXCEPT ![u].request = request]

Step(u, step) == Continue(u, [Request(u) EXCEPT !.step = step])

\* A request that succeeds shows a new page; a refused one leaves the page
\* with its draft.
Close(u, page) ==
  session' = [session EXCEPT ![u] = [page |-> page, request |-> NoRequest]]

Refuse(u) == Close(u, Page(u))

\* Faulty variants of the conditions below: they are left out.
SourceNotChecked(source) == TRUE
CopyNotChecked(t, revision) == TRUE

\* Conditions of the store's transactions.
SourceHolds(source) == system.revision = source.revision
CopyHolds(t, revision) == copies[t].revision = revision
-----------------------------------------------------------------------------
(* Requests begin.                                                         *)

Begin(u, op, target, value, locks, fields) ==
  /\ At(u, "none")
  /\ Continue(u, [NoRequest EXCEPT
       !.op = op, !.target = target, !.value = value, !.locks = locks,
       !.fields = fields,
       !.step = IF target = SystemPage THEN "source" ELSE "validate"])
  /\ UNCHANGED <<system, copies, suspended>>

Open(u) ==
  \E target \in Targets \union {SystemPage} :
    Begin(u, "open", target, Default, {}, {})

\* The form sends back every field: the edited ones, the others as shown.
\* A field the page shows as locked is sent as shown.
Save(u) ==
  /\ Page(u).of \in Targets
  /\ \E value \in [Fields -> Values] :
       /\ \A f \in Fields : <<f, Page(u).of>> \in Page(u).source.locks
                              => value[f] = Shown(Page(u))[f]
       /\ value # Shown(Page(u))
       /\ Begin(u, "save", Page(u).of, value, {}, {})

\* Saving the System page: values, and the rules staged on it.
SaveSystem(u) ==
  /\ Page(u).of = SystemPage
  /\ \E value \in [Fields -> Values], locks \in RuleSets :
       Begin(u, "system", SystemPage, value, locks, {})

\* "Overwrite from saved System settings": one request for each target.
Overwrite(u) ==
  /\ Page(u).of = SystemPage
  /\ \E t \in Targets, fields \in (SUBSET Fields) \ {{}} :
       Begin(u, "overwrite", t, Default, {}, fields)
-----------------------------------------------------------------------------
(* The reads of a request.                                                 *)

Validate(u) ==
  /\ At(u, "validate")
  /\ IF Request(u).target \in suspended THEN Refuse(u) ELSE Step(u, "source")
  /\ UNCHANGED <<system, copies, suspended>>

\* The System record is the first read of a snapshot and all of its own page.
ReadSource(u) ==
  LET target == Request(u).target
      page   == [of |-> target, source |-> system, copy |-> NoCopy]
  IN
  /\ At(u, "source") /\ Request(u).op # "system"
  /\ IF target = SystemPage
       THEN Close(u, page)
       ELSE Continue(u, [Request(u) EXCEPT !.source = system, !.step = "copy"])
  /\ UNCHANGED <<system, copies, suspended>>

\* A save of the System record compares its rules with those in force: only
\* changed rules need the permission, and a tenant they name must be active.
\* A rule for all targets names no tenant, so that a suspended tenant among
\* the locked targets may be refused or not.
PrepareSystem(u) ==
  LET locks    == Request(u).locks
      changed  == locks # system.locks
      inactive == \E lock \in locks : lock[2] \in suspended
  IN
  /\ At(u, "source") /\ Request(u).op = "system"
  /\ \/ /\ changed => u \in Enforcers
        /\ Step(u, "commit")
     \/ /\ changed /\ (u \in Enforcers => inactive)
        /\ Refuse(u)
  /\ UNCHANGED <<system, copies, suspended>>

\* What the prepared save compares with the form.
FormHolds(page, source, copy, value) ==
  /\ page.source.revision = source.revision
  /\ page.copy.revision = copy.revision
  /\ \A f \in Fields : <<f, page.of>> \in source.locks
                         => value[f] = Effective(source, copy, page.of)[f]

\* What the prepared overwrite compares with the System page.
SelectionHolds(page, source) == page.source.revision = source.revision

\* The snapshot is complete: the page is shown, the save answers, or the
\* request is checked against its page and goes on to its write.  The answer
\* to a save must be of the revision the save has written.
Snapshot(u, copy) ==
  LET request == Request(u)
      source  == request.source
      page    == [of |-> request.target, source |-> source, copy |-> copy]
      checked == CASE request.op = "save" ->
                        FormHolds(Page(u), source, copy, request.value)
                   [] request.op = "overwrite" ->
                        SelectionHolds(Page(u), source)
                   [] request.op = "reload" ->
                        copy.revision = Page(u).copy.revision + 1
                   [] OTHER -> TRUE
  IN
  \/ ~ checked /\ Refuse(u)
  \/ checked /\ request.op \in {"open", "reload"} /\ Close(u, page)
  \/ /\ checked /\ request.op \in {"save", "overwrite"}
     /\ Continue(u, [request EXCEPT !.copy = copy, !.step = "commit"])

ReadCopy(u) ==
  LET t == Request(u).target
  IN
  /\ At(u, "copy")
  /\ IF copies[t].revision > 0 THEN Snapshot(u, copies[t])
                               ELSE Step(u, "initialize")
  /\ UNCHANGED <<system, copies, suspended>>

\* A missing copy is created from the System values that were read.
Initialize(u) ==
  LET t    == Request(u).target
      copy == [revision |-> 1, value |-> Request(u).source.value]
  IN
  /\ At(u, "initialize")
  /\ IF SourceHolds(Request(u).source) /\ CopyHolds(t, 0)
       THEN /\ copies' = [copies EXCEPT ![t] = copy]
            /\ Snapshot(u, copy)
       ELSE /\ Step(u, "winner")
            /\ UNCHANGED copies
  /\ UNCHANGED <<system, suspended>>

\* Another request created the copy, or the System record changed: the whole
\* snapshot is taken again, three times at most.
ReadWinner(u) ==
  LET t       == Request(u).target
      attempt == Request(u).attempt
  IN
  /\ At(u, "winner")
  /\ \/ copies[t].revision > 0 /\ Snapshot(u, copies[t])
     \/ /\ copies[t].revision = 0
        /\ IF attempt < 2
             THEN Continue(u, [Request(u) EXCEPT !.attempt = attempt + 1,
                                                 !.step = "source"])
             ELSE Refuse(u)
  /\ UNCHANGED <<system, copies, suspended>>
-----------------------------------------------------------------------------
(* The writes.                                                             *)

\* Faulty variant of Kept: the enforced value is stored as the local one.
KeptAsShown(source, copy, t, value) == value

\* Faulty variant of Kept: the hidden local values are dropped.
KeptUnlocked(source, copy, t, value) ==
  [f \in {g \in Fields : <<g, t>> \notin source.locks} |-> value[f]]

\* An enforced field keeps the local value that the lock hides.
Kept(source, copy, t, value) ==
  [f \in Fields |-> IF <<f, t>> \in source.locks THEN copy.value[f]
                                                 ELSE value[f]]

CommitSave(u) ==
  LET request == Request(u)
      page    == Page(u)
      t       == request.target
  IN
  /\ At(u, "commit") /\ request.op = "save"
  /\ page.copy.revision < MaxCopy
  /\ IF /\ SourceHolds(request.source)
        /\ CopyHolds(t, page.copy.revision)
       THEN /\ copies' = [copies EXCEPT ![t] =
                 [revision |-> page.copy.revision + 1,
                  value |-> Kept(request.source, request.copy, t, request.value)]]
            /\ Continue(u, [NoRequest EXCEPT !.op = "reload",
                              !.target = t, !.step = "source"])
       ELSE /\ Refuse(u)
            /\ UNCHANGED copies
  /\ UNCHANGED <<system, suspended>>

\* The selected fields of the System values, the others as they were read.
Overwritten(source, copy, fields) ==
  [f \in Fields |-> IF f \in fields THEN source.value[f] ELSE copy.value[f]]

CommitOverwrite(u) ==
  LET request == Request(u)
      t       == request.target
  IN
  /\ At(u, "commit") /\ request.op = "overwrite"
  /\ request.copy.revision < MaxCopy
  /\ IF /\ SourceHolds(request.source)
        /\ CopyHolds(t, request.copy.revision)
       THEN /\ copies' = [copies EXCEPT ![t] =
                 [revision |-> request.copy.revision + 1,
                  value |-> Overwritten(request.source, request.copy,
                                        request.fields)]]
            /\ Close(u, Page(u))
       ELSE /\ Refuse(u)
            /\ UNCHANGED copies
  /\ UNCHANGED <<system, suspended>>

\* The System save answers with the record it wrote.
CommitSystem(u) ==
  LET request == Request(u)
      source  == [revision |-> Page(u).source.revision + 1,
                  value |-> request.value, locks |-> request.locks]
  IN
  /\ At(u, "commit") /\ request.op = "system"
  /\ Page(u).source.revision < MaxSystem
  /\ IF SourceHolds(Page(u).source)
       THEN /\ system' = source
            /\ Close(u, [Page(u) EXCEPT !.source = source])
       ELSE /\ Refuse(u)
            /\ UNCHANGED system
  /\ UNCHANGED <<copies, suspended>>

\* The tenant handlers, outside this component, suspend and restore tenants.
SetTenantStatus ==
  /\ \E t \in Tenants : suspended' = IF t \in suspended THEN suspended \ {t}
                                                        ELSE suspended \union {t}
  /\ UNCHANGED <<system, copies, session>>

Next ==
  \/ \E u \in Users :
       \/ Open(u) \/ Save(u) \/ SaveSystem(u) \/ Overwrite(u)
       \/ Validate(u) \/ ReadSource(u) \/ PrepareSystem(u) \/ ReadCopy(u)
       \/ Initialize(u) \/ ReadWinner(u)
       \/ CommitSave(u) \/ CommitOverwrite(u) \/ CommitSystem(u)
  \/ SetTenantStatus

Spec == Init /\ [][Next]_vars
-----------------------------------------------------------------------------
(* Properties.                                                             *)

\* The step in which the save, the overwrite or the System save of u commits.
Saves(u) ==
  Request(u).op = "save" /\ session'[u].request.op = "reload"

Overwrites(u, t, f) ==
  /\ Request(u).op = "overwrite" /\ Request(u).target = t
  /\ f \in Request(u).fields
  /\ session'[u] # session[u]

SavesSystem(u) ==
  Request(u).op = "system" /\ system' # system /\ session'[u] # session[u]

\* However the reads, the checks and the conditional writes of the requests
\* interleave, every change of the stored records is one of the four changes
\* of the ledger: a copy is created from the System values as they then are,
\* an overwrite copies them as they then are, a save passes no enforced field.
ImplementsLedger == Ledger!Spec

\* A field the administrator did not edit is not changed by the save, however
\* long the page was open and whatever was saved meanwhile (no lost update).
UneditedFieldsKept ==
  [][\A u \in Users : Saves(u) =>
       LET t == Request(u).target
       IN  \A f \in Fields :
             Request(u).value[f] = Shown(Page(u))[f]
               => copies'[t].value[f] = copies[t].value[f]]_vars

\* As long as a field of a target is enforced, its local value is preserved:
\* only an overwrite of that field replaces it.
LockedFieldsKept ==
  [][\A t \in Targets, f \in Fields :
       (/\ <<f, t>> \in system.locks
        /\ copies[t].revision > 0
        /\ ~ \E u \in Users : Overwrites(u, t, f))
       => copies'[t].value[f] = copies[t].value[f]]_vars

\* Saving the System page changes no value and no rule that the administrator
\* did not change on the page.
SystemEditsKept ==
  [][\A u \in Users : SavesSystem(u) =>
       /\ \A f \in Fields : Request(u).value[f] = Page(u).source.value[f]
            => system'.value[f] = system.value[f]
       /\ Request(u).locks = Page(u).source.locks
            => system'.locks = system.locks]_vars
=============================================================================
