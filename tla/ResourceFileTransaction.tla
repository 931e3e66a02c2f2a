----------------------- MODULE ResourceFileTransaction -----------------------
(***************************************************************************)
(* The journalled file transactions of @cloudigniter/cli, by which the     *)
(* Resource Studio and the module generator change several files of an     *)
(* application.                                                            *)
(*                                                                         *)
(* A transaction is prepared (before- and after-images are snapshotted     *)
(* into a journal), applied, and may be rolled back.  One call runs at a   *)
(* time, as the Studio's serial queue has it; the process may die and any  *)
(* file-system call may fail at every step, and a developer edits the same *)
(* files meanwhile.                                                        *)
(***************************************************************************)
EXTENDS Integers, FiniteSets

CONSTANTS
  Paths,         \* files of the application
  Dirs,          \* directories that may be missing
  DirsAbove,     \* the directories of Dirs above a file or a directory
  Images,        \* content and mode of a file
  Absent,        \* the state of a file that does not exist
  Transactions,  \* transaction ids
  Nothing,       \* no transaction, file or directory
  MaxEdits       \* bound of the model: edits by the developer

ASSUME TransactionAssumption ==
  /\ DirsAbove \in [Paths \cup Dirs -> SUBSET Dirs]
  /\ Absent \notin Images
  /\ Nothing \notin Transactions \cup Paths \cup Dirs
  /\ MaxEdits \in Nat

\* Directories form a tree: what is above a directory is above all below it.
ASSUME TreeAssumption ==
  /\ IsFiniteSet(Dirs)
  /\ \A d \in Dirs : d \notin DirsAbove[d]
  /\ \A d, e \in Dirs : e \in DirsAbove[d] => DirsAbove[e] \subseteq DirsAbove[d]

VARIABLES
  files,     \* the state of every file
  dirs,      \* the directories of Dirs that exist
  journals,  \* the journal on disk of every transaction
  call,      \* the call in progress: its step and its journal in memory
  edits,     \* number of edits so far
  touched,   \* history: files changed by others since a transaction read them
  disturbed  \* history: files edited since the call began

vars == <<files, dirs, journals, call, edits, touched, disturbed>>

-----------------------------------------------------------------------------
(* Journals.                                                               *)

FileStates == Images \cup {Absent}

\* A transaction directory without a journal file has the status "directory".
Statuses ==
  {"none", "directory", "prepared", "applying", "applied", "rolling-back",
   "rolled-back", "failed-conflicted", "failed-rolled-back"}

Resumable == {"applying", "rolling-back", "failed-conflicted"}

Journal(before, after) ==
  [status : Statuses, before : {before}, after : {after},
   planned : SUBSET Dirs, created : SUBSET Dirs]

IsImageMap(f) == DOMAIN f \subseteq Paths /\ f \in [DOMAIN f -> FileStates]

IsJournal(j) ==
  /\ j \in Journal(j.before, j.after)
  /\ IsImageMap(j.before) /\ IsImageMap(j.after)

NoImages == [p \in {} |-> Absent]

NoJournal ==
  [status |-> "none", before |-> NoImages, after |-> NoImages,
   planned |-> {}, created |-> {}]

Targets(j) == DOMAIN j.after

-----------------------------------------------------------------------------
(* The call in progress.                                                   *)

CreateSteps == {"snapshot", "directory", "prepare"}
ApplySteps == {"inspect", "begin"}
TrySteps == {"mkdir", "record", "compare", "replace", "verify", "finish"}
RollbackSteps == {"survey", "undo", "recompare", "restore", "rmdir",
                  "verifyBefore", "conclude", "unrestored"}
Steps == {"none", "conflicted"} \cup CreateSteps \cup ApplySteps \cup TrySteps
           \cup RollbackSteps

Idle ==
  [op |-> "idle", tx |-> Nothing, step |-> "none", todo |-> {}, target |-> Nothing,
   restore |-> {}, drift |-> FALSE, resume |-> FALSE, journal |-> NoJournal]

\* A call whose loop over todo goes on, or is over and followed by the next step.
Continue(c, step, todo, nextStep, nextTodo) ==
  IF todo # {} THEN [c EXCEPT !.step = step, !.todo = todo, !.target = Nothing]
  ELSE [c EXCEPT !.step = nextStep, !.todo = nextTodo, !.target = Nothing]

\* ciRollbackJournal starts by comparing every target with its after-image.
Survey(c, resume) ==
  [c EXCEPT !.step = "survey", !.todo = Targets(c.journal), !.target = Nothing,
            !.restore = {}, !.drift = FALSE, !.resume = resume]

\* Where an error takes the call: apply recovers by rolling back what it wrote, and
\* marks the journal when that fails too; everything else is thrown to the caller.
AfterError(c) ==
  IF c.op = "apply" /\ c.step \in TrySteps THEN Survey(c, TRUE)
  ELSE IF c.op = "apply" /\ c.step \in RollbackSteps
       THEN [c EXCEPT !.step = "conflicted"]
  ELSE Idle

\* ciWriteJournal replaces the journal at once, or fails before or after it did.
WriteJournal(j, next) ==
  LET failed == AfterError([call EXCEPT !.journal = j]) IN
  \/ /\ journals' = [journals EXCEPT ![call.tx] = j]
     /\ call' \in {next, failed}
  \/ call' = failed /\ UNCHANGED journals

Read == UNCHANGED <<files, dirs, journals, edits, touched, disturbed>>

-----------------------------------------------------------------------------
(* ciCreateResourceFileTransaction.                                        *)

BeginCreate(t) ==
  /\ call = Idle /\ journals[t].status = "none"
  /\ \E changed \in (SUBSET Paths) \ {{}} : \E after \in [changed -> FileStates] :
       call' = [Idle EXCEPT !.op = "create", !.tx = t, !.step = "snapshot",
                            !.todo = changed, !.journal.after = after]
  /\ disturbed' = {}
  /\ UNCHANGED <<files, dirs, journals, edits, touched>>

\* The before-image of a target, and the directories a write will have to create.
Snapshot(p) ==
  LET j == call.journal
      missing == IF j.after[p] = Absent THEN {} ELSE DirsAbove[p] \ dirs
      read == [j EXCEPT !.before = [q \in DOMAIN j.before \cup {p} |->
                                      IF q = p THEN files[p] ELSE j.before[q]],
                        !.planned = @ \cup missing]
  IN
  /\ call.step = "snapshot" /\ p \in call.todo
  /\ call' = Continue([call EXCEPT !.journal = read],
                      "snapshot", call.todo \ {p}, "directory", {})
  /\ touched' = [touched EXCEPT ![call.tx] = @ \ {p}]
  /\ UNCHANGED <<files, dirs, journals, edits, disturbed>>

MakeTransactionDirectory ==
  /\ call.step = "directory"
  /\ journals' = [journals EXCEPT ![call.tx].status = "directory"]
  /\ call' = [call EXCEPT !.step = "prepare"]
  /\ UNCHANGED <<files, dirs, edits, touched, disturbed>>

\* The blobs are written before the journal, so a journal always finds its images.
Prepare ==
  /\ call.step = "prepare"
  /\ journals' = [journals EXCEPT ![call.tx] = [call.journal EXCEPT !.status = "prepared"]]
  /\ call' = Idle
  /\ UNCHANGED <<files, dirs, edits, touched, disturbed>>

\* On an error the transaction directory is removed.
AbandonCreate ==
  /\ call.op = "create"
  /\ journals' = [journals EXCEPT ![call.tx] = NoJournal]
  /\ call' = Idle
  /\ UNCHANGED <<files, dirs, edits, touched, disturbed>>

-----------------------------------------------------------------------------
(* ciApplyResourceFileTransaction.                                         *)

BeginApply(t) ==
  /\ call = Idle /\ journals[t].status = "prepared"
  /\ call' = [Idle EXCEPT !.op = "apply", !.tx = t, !.step = "inspect",
                          !.todo = Targets(journals[t]), !.journal = journals[t]]
  /\ disturbed' = {}
  /\ UNCHANGED <<files, dirs, journals, edits, touched>>

\* Faulty variant of Inspect: the first target is inspected, not every one.
InspectFirst(p) ==
  /\ call.step = "inspect" /\ p \in call.todo
  /\ call' = IF files[p] # call.journal.before[p] THEN Idle
             ELSE [call EXCEPT !.step = "begin", !.todo = {}]
  /\ Read

\* ciInspectEntries; any conflict is reported and nothing is changed.
Inspect(p) ==
  LET drift == call.drift \/ files[p] # call.journal.before[p]
      rest == call.todo \ {p}
  IN
  /\ call.step = "inspect" /\ p \in call.todo
  /\ call' = IF rest = {} /\ drift THEN Idle
             ELSE Continue([call EXCEPT !.drift = drift], "inspect", rest, "begin", {})
  /\ Read

\* Faulty variant of MarkApplying: the status is set in memory only.
MarkApplyingInMemory ==
  LET j == [call.journal EXCEPT !.status = "applying"] IN
  /\ call.step = "begin"
  /\ call' = Continue([call EXCEPT !.journal = j], "mkdir", j.planned,
                      "compare", Targets(j))
  /\ Read

MarkApplying ==
  LET j == [call.journal EXCEPT !.status = "applying"] IN
  /\ call.step = "begin"
  /\ WriteJournal(j, Continue([call EXCEPT !.journal = j], "mkdir", j.planned,
                              "compare", Targets(j)))
  /\ UNCHANGED <<files, dirs, edits, touched, disturbed>>

Depth(d) == Cardinality(DirsAbove[d])

\* ciCreatePlannedDirectories: the shallowest first.
MakeDirectory(d) ==
  /\ call.step = "mkdir" /\ d \in call.todo
  /\ \A e \in call.todo : Depth(d) <= Depth(e)
  /\ DirsAbove[d] \subseteq dirs
  /\ IF d \in dirs
     THEN /\ call' = Continue(call, "mkdir", call.todo \ {d},
                              "compare", Targets(call.journal))
          /\ UNCHANGED dirs
     ELSE /\ call' = [call EXCEPT !.step = "record", !.target = d]
          /\ dirs' = dirs \cup {d}
  /\ UNCHANGED <<files, journals, edits, touched, disturbed>>

\* The directory is journalled after it was made.
RecordDirectory ==
  LET d == call.target
      j == [call.journal EXCEPT !.created = @ \cup {d}]
  IN
  /\ call.step = "record"
  /\ WriteJournal(j, Continue([call EXCEPT !.journal = j], "mkdir", call.todo \ {d},
                              "compare", Targets(j)))
  /\ UNCHANGED <<files, dirs, edits, touched, disturbed>>

\* A target is compared with its before-image once more before it is written.
Compare(p) ==
  /\ call.step = "compare" /\ p \in call.todo
  /\ call' = IF files[p] = call.journal.before[p]
             THEN [call EXCEPT !.step = "replace", !.target = p]
             ELSE AfterError(call)
  /\ Read

\* What the file-system calls do with file p, seen in state "from" when it was
\* compared: an absent file is created exclusively, a file is replaced by rename,
\* whatever it is by now, or unlinked; deleting an absent file does nothing.
Feasible(p, from, to) ==
  /\ from = Absent /\ to # Absent => files[p] = Absent
  /\ from # Absent /\ to = Absent => files[p] # Absent
  /\ to # Absent => DirsAbove[p] \subseteq dirs

Put(p, from, to) ==
  /\ Feasible(p, from, to)
  /\ files' = [files EXCEPT ![p] = IF from = to /\ to = Absent THEN @ ELSE to]
  /\ touched' = [t \in Transactions |->
                   IF t = call.tx \/ files'[p] = files[p] THEN touched[t]
                   ELSE touched[t] \cup {p}]

Replace ==
  LET p == call.target
      j == call.journal
  IN
  /\ call.step = "replace"
  /\ Put(p, j.before[p], j.after[p])
  /\ call' = Continue(call, "compare", call.todo \ {p}, "verify", Targets(j))
  /\ UNCHANGED <<dirs, journals, edits, disturbed>>

Verify(p) ==
  LET drift == call.drift \/ files[p] # call.journal.after[p]
      rest == call.todo \ {p}
  IN
  /\ call.step = "verify" /\ p \in call.todo
  /\ call' = IF rest = {} /\ drift THEN AfterError(call)
             ELSE Continue([call EXCEPT !.drift = drift], "verify", rest, "finish", {})
  /\ Read

MarkApplied ==
  LET j == [call.journal EXCEPT !.status = "applied"] IN
  /\ call.step = "finish"
  /\ WriteJournal(j, Idle)
  /\ UNCHANGED <<files, dirs, edits, touched, disturbed>>

-----------------------------------------------------------------------------
(* ciRollbackResourceFileTransaction and ciRollbackJournal.                *)

BeginRollback(t) ==
  /\ call = Idle /\ journals[t].status \in Resumable \cup {"applied"}
  /\ call' = Survey([Idle EXCEPT !.op = "rollback", !.tx = t, !.journal = journals[t]],
                    journals[t].status \in Resumable)
  /\ disturbed' = {}
  /\ UNCHANGED <<files, dirs, journals, edits, touched>>

\* A conflict ends the rollback before anything is changed.
SurveyTarget(p) ==
  LET j == call.journal
      written == files[p] = j.after[p]
      restored == call.resume /\ files[p] = j.before[p]
      drift == call.drift \/ ~(written \/ restored)
      c == [call EXCEPT !.drift = drift,
                        !.restore = IF written THEN @ \cup {p} ELSE @]
      rest == call.todo \ {p}
  IN
  /\ call.step = "survey" /\ p \in call.todo
  /\ call' = IF rest = {} /\ drift
             THEN IF c.op = "apply" THEN [c EXCEPT !.step = "conflicted"] ELSE Idle
             ELSE Continue(c, "survey", rest, "undo", {})
  /\ Read

\* The step after the restores: directories, if any, else the last comparison.
AfterRestores(c) ==
  Continue(c, "rmdir", c.journal.created, "verifyBefore", Targets(c.journal))

MarkRollingBack ==
  LET j == [call.journal EXCEPT !.status = "rolling-back"]
      c == [call EXCEPT !.journal = j]
  IN
  /\ call.step = "undo"
  /\ WriteJournal(j, IF c.restore = {} THEN AfterRestores(c)
                     ELSE [c EXCEPT !.step = "recompare", !.todo = c.restore])
  /\ UNCHANGED <<files, dirs, edits, touched, disturbed>>

Recompare(p) ==
  /\ call.step = "recompare" /\ p \in call.todo
  /\ call' = IF files[p] = call.journal.after[p]
             THEN [call EXCEPT !.step = "restore", !.target = p]
             ELSE AfterError(call)
  /\ Read

Restore ==
  LET p == call.target
      j == call.journal
      rest == call.todo \ {p}
  IN
  /\ call.step = "restore"
  /\ Put(p, j.after[p], j.before[p])
  /\ call' = IF rest = {} THEN AfterRestores(call)
             ELSE Continue(call, "recompare", rest, "rmdir", {})
  /\ UNCHANGED <<dirs, journals, edits, disturbed>>

\* Faulty variant of Empty: directories are removed with what they hold.
EmptyOrNot(d) == TRUE

Empty(d) ==
  /\ \A p \in Paths : d \in DirsAbove[p] => files[p] = Absent
  /\ \A e \in dirs : d \notin DirsAbove[e]

\* Faulty variant of Deepest: directories are removed in the order they were made.
Shallowest(d) == \A e \in call.todo : Depth(d) <= Depth(e)

Deepest(d) == \A e \in call.todo : Depth(e) <= Depth(d)

\* ciRemoveCreatedEmptyDirectories.
RemoveDirectory(d) ==
  /\ call.step = "rmdir" /\ d \in call.todo /\ Deepest(d)
  /\ dirs' = IF Empty(d) THEN dirs \ {d} ELSE dirs
  /\ call' = Continue(call, "rmdir", call.todo \ {d},
                      "verifyBefore", Targets(call.journal))
  /\ UNCHANGED <<files, journals, edits, touched, disturbed>>

VerifyBefore(p) ==
  LET drift == call.drift \/ files[p] # call.journal.before[p] IN
  /\ call.step = "verifyBefore" /\ p \in call.todo
  /\ call' = Continue([call EXCEPT !.drift = drift], "verifyBefore", call.todo \ {p},
                      IF drift THEN "unrestored" ELSE "conclude", {})
  /\ Read

MarkRolledBack ==
  LET j == [call.journal EXCEPT !.status = IF call.op = "apply" THEN "failed-rolled-back"
                                           ELSE "rolled-back"]
  IN
  /\ call.step = "conclude"
  /\ WriteJournal(j, Idle)
  /\ UNCHANGED <<files, dirs, edits, touched, disturbed>>

\* An error after the last comparison found a difference, in a rollback, or one
\* during the recovery of an apply.
MarkConflicted ==
  LET j == [call.journal EXCEPT !.status = "failed-conflicted"] IN
  /\ call.step \in {"unrestored", "conflicted"}
  /\ WriteJournal(j, AfterError([call EXCEPT !.journal = j]))
  /\ UNCHANGED <<files, dirs, edits, touched, disturbed>>

-----------------------------------------------------------------------------
(* Errors, crashes and the developer.                                      *)

\* A file-system call fails, or a comparison or an exclusive creation refuses.
Fail ==
  /\ call.op \in {"apply", "rollback"}
  /\ call' = AfterError(call)
  /\ Read

\* The process dies: what it knew is gone, the disk stays as it is.
Crash ==
  /\ call # Idle
  /\ call' = Idle
  /\ Read

\* The developer changes, deletes or creates a file, and the directories it needs.
Edit(p) ==
  /\ edits < MaxEdits
  /\ \E image \in FileStates \ {files[p]} :
       /\ files' = [files EXCEPT ![p] = image]
       /\ dirs' = IF image = Absent THEN dirs ELSE dirs \cup DirsAbove[p]
  /\ edits' = edits + 1
  /\ touched' = [t \in Transactions |-> touched[t] \cup {p}]
  /\ disturbed' = disturbed \cup {p}
  /\ UNCHANGED <<journals, call>>

Init ==
  /\ dirs \in SUBSET Dirs
  /\ \A d \in dirs : DirsAbove[d] \subseteq dirs
  /\ files \in [Paths -> FileStates]
  /\ \A p \in Paths : files[p] # Absent => DirsAbove[p] \subseteq dirs
  /\ journals = [t \in Transactions |-> NoJournal]
  /\ call = Idle
  /\ edits = 0
  /\ touched = [t \in Transactions |-> {}]
  /\ disturbed = {}

CreateNext ==
  \/ \E t \in Transactions : BeginCreate(t)
  \/ \E p \in Paths : Snapshot(p)
  \/ MakeTransactionDirectory \/ Prepare \/ AbandonCreate

ApplyNext ==
  \/ \E t \in Transactions : BeginApply(t)
  \/ \E p \in Paths : Inspect(p) \/ Compare(p) \/ Verify(p)
  \/ \E d \in Dirs : MakeDirectory(d)
  \/ MarkApplying \/ RecordDirectory \/ Replace \/ MarkApplied

RollbackNext ==
  \/ \E t \in Transactions : BeginRollback(t)
  \/ \E p \in Paths : SurveyTarget(p) \/ Recompare(p) \/ VerifyBefore(p)
  \/ \E d \in Dirs : RemoveDirectory(d)
  \/ MarkRollingBack \/ Restore \/ MarkRolledBack \/ MarkConflicted

Next ==
  \/ CreateNext \/ ApplyNext \/ RollbackNext
  \/ Fail \/ Crash
  \/ \E p \in Paths : Edit(p)

Spec == Init /\ [][Next]_vars

-----------------------------------------------------------------------------
(* Properties.                                                             *)

\* Files, journals and the call have the shape the code gives them, and a file's
\* directories exist.
TypeOK ==
  /\ files \in [Paths -> FileStates]
  /\ dirs \subseteq Dirs
  /\ \A p \in Paths : files[p] # Absent => DirsAbove[p] \subseteq dirs
  /\ \A t \in Transactions : IsJournal(journals[t])
  /\ call.op \in {"idle", "create", "apply", "rollback"}
  /\ call.step \in Steps
  /\ IsJournal(call.journal)
  /\ edits \in 0..MaxEdits

\* The status of a journal tells the truth about its files: whatever failed or
\* crashed and whenever, a target nobody else has changed is as it was before the
\* transaction, as it should be after it, or, in the resumable statuses, one of
\* the two, so that a rollback of it is never refused.
StatusTellsTheTruth ==
  \A t \in Transactions : LET j == journals[t] IN
    \A p \in DOMAIN j.before \ touched[t] :
      /\ j.status \in {"prepared", "rolled-back", "failed-rolled-back"}
           => files[p] = j.before[p]
      /\ j.status = "applied" => files[p] = j.after[p]
      /\ j.status \in Resumable => files[p] \in {j.before[p], j.after[p]}

\* deployment-and-rollback.mdx: a call that finds drift changes no target.  When a
\* call changes a file, no target has drifted but those edited since it began.
DriftStopsTheCall ==
  [][call # Idle /\ files' # files /\ edits' = edits =>
       \A p \in Targets(call.journal) \ disturbed :
         files[p] \in {call.journal.before[p], call.journal.after[p]}]_vars

\* A rollback that ends well has removed every directory it journalled but those that
\* hold something, or held something a developer has deleted since the call began.
DirectoriesRemoved ==
  [][\A t \in Transactions :
       journals'[t] # journals[t] /\ journals'[t].status \in {"rolled-back", "failed-rolled-back"}
         => \A d \in journals'[t].created :
              d \in dirs' => ~Empty(d) \/ \E p \in disturbed : d \in DirsAbove[p]]_vars
=============================================================================
