-------------------- MODULE ResourceFileTransactionProofs --------------------
(***************************************************************************)
(* Proofs about ResourceFileTransaction, for any files, directories,       *)
(* images and number of transactions and edits: the status of a journal    *)
(* is true of its files, drift stops a call, and a rollback removes the    *)
(* directories the transaction made.                                       *)
(***************************************************************************)
EXTENDS ResourceFileTransaction, FiniteSetTheorems, TLAPS

-----------------------------------------------------------------------------
(* The invariant.                                                          *)

\* What a journal says of the files in P.
AreBefore(fs, j, P) == \A p \in P : fs[p] = j.before[p]
AreAfter(fs, j, P) == \A p \in P : fs[p] = j.after[p]
AreEither(fs, j, P) == \A p \in P : fs[p] \in {j.before[p], j.after[p]}
AreSplit(fs, j, P, A) ==
  \A p \in P : fs[p] = IF p \in A THEN j.after[p] ELSE j.before[p]

JournalOK(j) ==
  /\ j = [status |-> j.status, before |-> j.before, after |-> j.after,
          planned |-> j.planned, created |-> j.created]
  /\ IsJournal(j)

IsComplete(j) == DOMAIN j.before = DOMAIN j.after

Truth(fs, j, P) ==
  /\ j.status \in {"prepared", "rolled-back", "failed-rolled-back"} => AreBefore(fs, j, P)
  /\ j.status = "applied" => AreAfter(fs, j, P)
  /\ j.status \in Resumable => AreEither(fs, j, P)

JournalsOK ==
  /\ DOMAIN journals = Transactions
  /\ \A t \in Transactions :
       /\ JournalOK(journals[t])
       /\ journals[t].status \notin {"none", "directory"} => IsComplete(journals[t])

\* The fields of a call.
Fields == {"op", "tx", "step", "todo", "target", "restore", "drift", "resume", "journal"}

DirSteps == {"mkdir", "record", "rmdir", "conflicted"}

CallTyped(c) ==
  /\ DOMAIN c = Fields
  /\ JournalOK(c.journal)
  /\ c.op = "idle" => c = Idle
  /\ c.op # "idle" => c.tx \in Transactions
  /\ \/ c.op = "idle" /\ c.step = "none"
     \/ c.op = "create" /\ c.step \in CreateSteps
     \/ c.op = "apply" /\ c.step \in ApplySteps \cup TrySteps \cup RollbackSteps \cup {"conflicted"}
     \/ c.op = "rollback" /\ c.step \in RollbackSteps
  /\ c.step = "record" => c.target \in Dirs
  /\ c.step \in {"replace", "restore"} => c.target \in c.todo
  /\ c.step \in Steps \ DirSteps => c.todo \subseteq Targets(c.journal)
  /\ c.restore \subseteq Targets(c.journal)
  /\ c.step = "survey" => c.restore \cap c.todo = {}
  /\ c.step = "undo" => c.todo = {}

\* What the disk says of the transaction in progress, at every step.
DiskAgrees(c, d) ==
  /\ c.op \in {"apply", "rollback"} =>
       d.before = c.journal.before /\ d.after = c.journal.after /\ IsComplete(d)
  /\ c.step \in {"snapshot", "directory"} => d.status = "none"
  /\ c.step = "prepare" => d.status = "directory"
  /\ c.step \in {"inspect", "begin"} => d.status = "prepared"
  /\ c.step \in TrySteps => d.status = "applying"
  /\ c.step \in {"mkdir", "record"} => c.journal.status = "applying"
  /\ c.step \in {"survey", "undo"} => d.status \in Resumable \cup {"applied"}
  /\ c.step \in {"recompare", "restore", "rmdir", "verifyBefore", "conclude", "unrestored"}
       => d.status = "rolling-back"
  /\ c.step = "conflicted"
       => d.status \in Resumable \cup {"applied", "rolled-back", "failed-rolled-back"}

\* How far the call has come with the files in P.
Progress(c, fs, P) ==
  /\ c.step = "inspect" => AreBefore(fs, c.journal, P \ c.todo)
  /\ c.step \in {"begin", "mkdir", "record", "rmdir", "verifyBefore", "conclude", "unrestored"}
       => AreBefore(fs, c.journal, P)
  /\ c.step \in {"compare", "replace"} => AreSplit(fs, c.journal, P, P \ c.todo)
  /\ c.step \in {"verify", "finish"} => AreAfter(fs, c.journal, P)
  /\ c.step \in {"survey", "undo"} => AreSplit(fs, c.journal, P \ c.todo, c.restore)
  /\ c.step \in {"recompare", "restore"} => AreSplit(fs, c.journal, P, c.todo)

\* A call that creates a transaction: its targets are read one by one.
Creating(c, fs, others) ==
  c.op = "create" =>
    /\ DOMAIN c.journal.before = DOMAIN c.journal.after \ c.todo
    /\ c.step # "snapshot" => c.todo = {}
    /\ AreBefore(fs, c.journal, DOMAIN c.journal.before \ others)

\* The targets that no developer has changed since the call began, unless the
\* comparisons of a loop that is not over have found one that drifted.
Undrifted(c, edited) ==
  IF c.step \in {"inspect", "survey"} /\ c.drift THEN {} ELSE Targets(c.journal) \ edited

CallGood(c, d, fs, others, edited) ==
  /\ CallTyped(c)
  /\ c.op # "idle" =>
       /\ DiskAgrees(c, d)
       /\ Progress(c, fs, Targets(c.journal) \ others)
       /\ Progress(c, fs, Undrifted(c, edited))
       /\ Creating(c, fs, others)

CallOK == CallGood(call, journals[call.tx], files, touched[call.tx], disturbed)

FilesOK ==
  /\ files \in [Paths -> FileStates]
  /\ dirs \subseteq Dirs
  /\ \A p \in Paths : files[p] # Absent => DirsAbove[p] \subseteq dirs
  /\ edits \in 0..MaxEdits
  /\ DOMAIN touched = Transactions

JournalsTrue ==
  \A t \in Transactions : Truth(files, journals[t], DOMAIN journals[t].before \ touched[t])

IInv == FilesOK /\ JournalsOK /\ JournalsTrue /\ CallOK

-----------------------------------------------------------------------------
(* Calls.                                                                  *)

LEMMA NoJournalOK == JournalOK(NoJournal)
<1>1. NoImages \in [{} -> FileStates] /\ DOMAIN NoImages = {}
  BY DEF NoImages
<1> QED BY <1>1 DEF JournalOK, IsJournal, Journal, IsImageMap, NoJournal, Statuses

\* Journals with the same images and another status or other directories.
LEMMA JournalChanged ==
  ASSUME NEW j, JournalOK(j), NEW s \in Statuses, NEW D \in SUBSET Dirs
  PROVE  /\ JournalOK([j EXCEPT !.status = s])
         /\ JournalOK([j EXCEPT !.created = D])
BY DEF JournalOK, IsJournal, Journal, IsImageMap

LEMMA IdleGood ==
  ASSUME NEW d, NEW fs, NEW others, NEW edited
  PROVE  CallGood(Idle, d, fs, others, edited)
<1>1. /\ DOMAIN Idle = Fields /\ Idle.op = "idle" /\ Idle.step = "none"
      /\ Idle.restore = {} /\ Idle.todo = {} /\ Idle.journal = NoJournal
  BY DEF Idle, Fields
<1> QED BY <1>1, NoJournalOK DEF CallGood, CallTyped, Steps, CreateSteps, ApplySteps,
             TrySteps, RollbackSteps, Targets

\* Continue keeps everything but the step, what is left to do and the target.
LEMMA ContinueFields ==
  ASSUME NEW c, DOMAIN c = Fields, NEW s, NEW T, NEW n, NEW N, NEW k,
         k = Continue(c, s, T, n, N)
  PROVE  /\ DOMAIN k = Fields
         /\ k.op = c.op /\ k.tx = c.tx /\ k.restore = c.restore /\ k.drift = c.drift
         /\ k.journal = c.journal
         /\ T # {} => k.step = s /\ k.todo = T
         /\ T = {} => k.step = n /\ k.todo = N
BY DEF Continue, Fields

LEMMA SurveyFields ==
  ASSUME NEW c, DOMAIN c = Fields, NEW r, NEW k, k = Survey(c, r)
  PROVE  /\ DOMAIN k = Fields
         /\ k.op = c.op /\ k.tx = c.tx /\ k.journal = c.journal
         /\ k.step = "survey" /\ k.todo = Targets(c.journal) /\ k.restore = {}
BY DEF Survey, Fields

\* A rollback that begins, alone or to recover a failed apply.
LEMMA SurveyGood ==
  ASSUME NEW c, DOMAIN c = Fields, JournalOK(c.journal), c.op \in {"apply", "rollback"},
         c.tx \in Transactions, NEW r, NEW d, NEW fs, NEW others, NEW edited,
         d.before = c.journal.before, d.after = c.journal.after, IsComplete(d),
         d.status \in Resumable \cup {"applied"}
  PROVE  CallGood(Survey(c, r), d, fs, others, edited) /\ Survey(c, r).tx = c.tx
<1>1. PICK k : k = Survey(c, r)
  OBVIOUS
<1>2. /\ DOMAIN k = Fields
      /\ k.op = c.op /\ k.tx = c.tx /\ k.journal = c.journal
      /\ k.step = "survey" /\ k.todo = Targets(c.journal) /\ k.restore = {}
  BY <1>1, SurveyFields
<1>3. CallTyped(k)
  BY <1>2 DEF CallTyped, CreateSteps, ApplySteps, TrySteps, RollbackSteps, Steps, DirSteps
<1>4. DiskAgrees(k, d)
  BY <1>2 DEF DiskAgrees, TrySteps
<1>5. \A P \in SUBSET Targets(c.journal) : Progress(k, fs, P)
  BY <1>2 DEF Progress, AreSplit
<1>6. Undrifted(k, edited) \in SUBSET Targets(c.journal)
  BY <1>2 DEF Undrifted
<1>7. Targets(k.journal) \ others \in SUBSET Targets(c.journal)
  BY <1>2
<1> QED BY <1>1, <1>2, <1>3, <1>4, <1>5, <1>6, <1>7 DEF CallGood, Creating

\* Where an error takes a call, the disk being as the recovery expects it.
LEMMA ErrorGood ==
  ASSUME NEW c, CallTyped(c), c.op \in {"apply", "rollback"},
         NEW d, NEW fs, NEW others, NEW edited,
         d.before = c.journal.before, d.after = c.journal.after, IsComplete(d),
         c.step \in TrySteps => d.status \in Resumable \cup {"applied"},
         c.step \in RollbackSteps
           => d.status \in Resumable \cup {"applied", "rolled-back", "failed-rolled-back"}
  PROVE  /\ CallGood(AfterError(c), d, fs, others, edited)
         /\ AfterError(c) = Idle \/ AfterError(c).tx = c.tx
<1>1. CASE c.op = "apply" /\ c.step \in TrySteps
  <2>1. AfterError(c) = Survey(c, TRUE)
    BY <1>1 DEF AfterError
  <2>2. DOMAIN c = Fields /\ JournalOK(c.journal) /\ c.tx \in Transactions
    BY <1>1 DEF CallTyped
  <2> QED BY <1>1, <2>1, <2>2, SurveyGood
<1>2. CASE c.op = "apply" /\ c.step \in RollbackSteps
  <2>1. PICK k : k = [c EXCEPT !.step = "conflicted"]
    OBVIOUS
  <2>2. AfterError(c) = k
    BY <1>2, <2>1 DEF AfterError, TrySteps, RollbackSteps
  <2>3. /\ DOMAIN k = Fields /\ k.op = "apply" /\ k.step = "conflicted" /\ k.tx = c.tx
        /\ k.journal = c.journal /\ k.restore = c.restore
    BY <1>2, <2>1 DEF CallTyped, Fields
  <2>4. CallTyped(k)
    BY <1>2, <2>3 DEF CallTyped, CreateSteps, ApplySteps, TrySteps, RollbackSteps, Steps, DirSteps
  <2>5. DiskAgrees(k, d)
    BY <1>2, <2>3 DEF DiskAgrees, TrySteps
  <2>6. \A P : Progress(k, fs, P)
    BY <2>3 DEF Progress
  <2> QED BY <2>2, <2>3, <2>4, <2>5, <2>6 DEF CallGood, Creating
<1>3. CASE ~(c.op = "apply" /\ c.step \in TrySteps \cup RollbackSteps)
  BY <1>3, IdleGood DEF AfterError
<1> QED BY <1>1, <1>2, <1>3

-----------------------------------------------------------------------------
(* Steps that change the call only, and steps that write the journal.      *)

LEMMA ReadStep ==
  ASSUME IInv, UNCHANGED <<files, dirs, journals, edits, touched>>, CallOK'
  PROVE  IInv'
BY DEF IInv, FilesOK, JournalsOK, JournalsTrue

\* A call that has begun, on which the steps below depend.
LEMMA CallFacts ==
  ASSUME IInv, call.op \in {"create", "apply", "rollback"}
  PROVE  /\ CallTyped(call) /\ call.tx \in Transactions
         /\ JournalOK(call.journal) /\ DOMAIN call = Fields
         /\ JournalOK(journals[call.tx])
         /\ DiskAgrees(call, journals[call.tx])
         /\ Progress(call, files, Targets(call.journal) \ touched[call.tx])
         /\ Progress(call, files, Undrifted(call, disturbed))
         /\ Creating(call, files, touched[call.tx])
BY DEF IInv, CallOK, CallGood, CallTyped, JournalsOK

\* Whether the write of the journal succeeds or fails, before or after it was made.
LEMMA WriteStep ==
  ASSUME IInv, call.op \in {"apply", "rollback"},
         NEW j, JournalOK(j), j.before = call.journal.before, j.after = call.journal.after,
         j.status \notin {"none", "directory"},
         Truth(files, j, DOMAIN j.before \ touched[call.tx]),
         call.step \in TrySteps => j.status \in {"applying", "applied"},
         call.step \in RollbackSteps
           => j.status \in Resumable \cup {"rolled-back", "failed-rolled-back"},
         NEW next, CallGood(next, j, files, touched[call.tx], disturbed),
         next = Idle \/ next.tx = call.tx,
         WriteJournal(j, next), UNCHANGED <<files, dirs, edits, touched, disturbed>>
  PROVE  IInv'
<1> DEFINE c == [call EXCEPT !.journal = j]
           failed == AfterError(c)
           d == journals[call.tx]
<1>1. /\ CallTyped(call) /\ call.tx \in Transactions /\ DOMAIN call = Fields
      /\ DiskAgrees(call, d) /\ DOMAIN journals = Transactions
  BY CallFacts DEF IInv, JournalsOK
<1>2. IsComplete(d) /\ d.before = j.before /\ d.after = j.after /\ IsComplete(j)
  BY <1>1 DEF DiskAgrees, IsComplete
<1>3. /\ DOMAIN c = Fields /\ c.op = call.op /\ c.tx = call.tx /\ c.step = call.step
      /\ c.todo = call.todo /\ c.target = call.target /\ c.restore = call.restore
      /\ c.journal = j
  BY <1>1 DEF Fields
<1>4. CallTyped(c)
  <2> HIDE DEF c
  <2> QED BY <1>1, <1>3 DEF CallTyped, Targets
<1>5. /\ call.step \in TrySteps => d.status \in Resumable
      /\ call.step \in RollbackSteps => d.status \in Resumable \cup {"applied"}
  BY <1>1 DEF DiskAgrees, Resumable, TrySteps, RollbackSteps
<1>6. /\ CallGood(failed, d, files, touched[call.tx], disturbed)
      /\ CallGood(failed, j, files, touched[call.tx], disturbed)
      /\ failed = Idle \/ failed.tx = call.tx
  <2>1. PICK k : k = c
    OBVIOUS
  <2>2. /\ CallTyped(k) /\ k.op \in {"apply", "rollback"} /\ k.step = call.step
        /\ k.tx = call.tx /\ k.journal = j
    BY <2>1, <1>3, <1>4
  <2>3. /\ CallGood(AfterError(k), d, files, touched[call.tx], disturbed)
        /\ AfterError(k) = Idle \/ AfterError(k).tx = call.tx
    BY <2>2, <1>2, <1>5, ErrorGood
  <2>4. CallGood(AfterError(k), j, files, touched[call.tx], disturbed)
    BY <2>2, <1>2, ErrorGood DEF Resumable
  <2> QED BY <2>1, <2>3, <2>4
<1> HIDE DEF c, failed
<1>7. CASE journals' = [journals EXCEPT ![call.tx] = j] /\ call' \in {next, failed}
  <2>1. /\ DOMAIN journals' = Transactions /\ journals'[call.tx] = j
        /\ \A t \in Transactions \ {call.tx} : journals'[t] = journals[t]
    BY <1>7, <1>1
  <2>2. JournalsOK'
    BY <2>1, <1>2 DEF JournalsOK, IInv
  <2>3. JournalsTrue'
    <3> SUFFICES ASSUME NEW t \in Transactions
                 PROVE  Truth(files, journals'[t], DOMAIN journals'[t].before \ touched[t])
      BY DEF JournalsTrue
    <3>1. CASE t = call.tx
      BY <3>1, <2>1
    <3>2. CASE t # call.tx
      BY <3>2, <2>1 DEF JournalsTrue, IInv
    <3> QED BY <3>1, <3>2
  <2>4. CallOK'
    <3>1. CallGood(call', j, files, touched[call.tx], disturbed)
      BY <1>7, <1>6
    <3>2. CASE call' = Idle
      BY <3>2, IdleGood DEF CallOK
    <3>3. CASE call'.tx = call.tx
      BY <3>1, <3>3, <2>1 DEF CallOK
    <3> QED BY <1>6, <1>7, <3>2, <3>3
  <2> QED BY <2>2, <2>3, <2>4 DEF IInv, FilesOK
<1>8. CASE call' = failed /\ UNCHANGED journals
  <2>1. CallOK'
    <3>1. CASE call' = Idle
      BY <3>1, IdleGood DEF CallOK
    <3>2. CASE call'.tx = call.tx
      BY <1>6, <3>2, <1>8 DEF CallOK
    <3> QED BY <1>6, <1>8, <3>1, <3>2
  <2> QED BY <2>1, <1>8, ReadStep
<1> QED BY <1>7, <1>8 DEF WriteJournal, c, failed

-----------------------------------------------------------------------------
(* Creating a transaction.                                                 *)

LEMMA BeginCreateStep == ASSUME IInv, NEW t \in Transactions, BeginCreate(t) PROVE IInv'
<1>0. PICK changed \in (SUBSET Paths) \ {{}} : \E after \in [changed -> FileStates] :
        call' = [Idle EXCEPT !.op = "create", !.tx = t, !.step = "snapshot",
                             !.todo = changed, !.journal.after = after]
  BY DEF BeginCreate
<1>1. PICK after \in [changed -> FileStates] :
        call' = [Idle EXCEPT !.op = "create", !.tx = t, !.step = "snapshot",
                             !.todo = changed, !.journal.after = after]
  BY <1>0
<1>2. /\ DOMAIN call' = Fields /\ call'.op = "create" /\ call'.tx = t
      /\ call'.step = "snapshot" /\ call'.todo = changed /\ call'.restore = {}
      /\ call'.journal = [NoJournal EXCEPT !.after = after]
  BY <1>1 DEF Idle, Fields
<1>3. PICK j : j = [NoJournal EXCEPT !.after = after]
  OBVIOUS
<1>4. /\ JournalOK(j) /\ Targets(j) = changed /\ DOMAIN j.before = {}
      /\ j.after = after
  BY <1>3, NoJournalOK DEF JournalOK, IsJournal, Journal, IsImageMap, Targets, NoJournal, NoImages
<1>5. CallTyped(call')
  BY <1>2, <1>3, <1>4 DEF CallTyped, CreateSteps, ApplySteps, TrySteps, RollbackSteps, Steps, DirSteps
<1>6. Creating(call', files, touched[t])
  BY <1>2, <1>3, <1>4 DEF Creating, AreBefore, Targets
<1>7. \A P : Progress(call', files, P)
  BY <1>2 DEF Progress
<1>8. DiskAgrees(call', journals[t])
  BY <1>2 DEF DiskAgrees, TrySteps, BeginCreate
<1>9. CallOK'
  BY <1>2, <1>5, <1>6, <1>7, <1>8 DEF CallOK, CallGood, BeginCreate
<1> QED BY <1>9, ReadStep DEF BeginCreate

\* Reading a target makes the past of its file irrelevant to the transaction.
LEMMA SnapshotStep == ASSUME IInv, NEW p \in Paths, Snapshot(p) PROVE IInv'
<1> DEFINE tx == call.tx
           j == call.journal
           missing == IF j.after[p] = Absent THEN {} ELSE DirsAbove[p] \ dirs
           image == [q \in DOMAIN j.before \cup {p} |->
                       IF q = p THEN files[p] ELSE j.before[q]]
<1>1. call.op = "create" /\ call.step = "snapshot" /\ p \in call.todo
  BY DEF Snapshot, IInv, CallOK, CallGood, CallTyped, CreateSteps, ApplySteps, TrySteps, RollbackSteps
<1>2. /\ CallTyped(call) /\ tx \in Transactions /\ JournalOK(j) /\ DOMAIN call = Fields
      /\ DiskAgrees(call, journals[tx]) /\ Creating(call, files, touched[tx])
  BY <1>1, CallFacts
<1>3. PICK m : m = [j EXCEPT !.before = image, !.planned = @ \cup missing]
  OBVIOUS
<1>4. m.before = image /\ m.after = j.after /\ Targets(m) = Targets(j)
  BY <1>2, <1>3 DEF JournalOK, Targets
<1>5. JournalOK(m)
  <2>1. image \in [DOMAIN j.before \cup {p} -> FileStates]
        /\ DOMAIN j.before \cup {p} \subseteq Paths
    BY <1>2 DEF JournalOK, IsJournal, IsImageMap, IInv, FilesOK
  <2>2. missing \subseteq Dirs
    BY TransactionAssumption
  <2> QED BY <1>2, <1>3, <2>1, <2>2 DEF JournalOK, IsJournal, Journal, IsImageMap
<1>6. PICK c : c = [call EXCEPT !.journal = m]
  OBVIOUS
<1>7. /\ DOMAIN c = Fields /\ c.op = "create" /\ c.tx = tx /\ c.restore = call.restore
      /\ c.journal = m
  BY <1>1, <1>2, <1>6 DEF Fields
<1>8. call' = Continue(c, "snapshot", call.todo \ {p}, "directory", {})
  BY <1>3, <1>6 DEF Snapshot
<1>9. /\ DOMAIN call' = Fields /\ call'.op = "create" /\ call'.tx = tx
      /\ call'.restore = call.restore /\ call'.journal = m
      /\ call'.step \in {"snapshot", "directory"} /\ call'.todo = call.todo \ {p}
      /\ call'.step # "snapshot" => call'.todo = {}
  BY <1>7, <1>8, ContinueFields
<1>10. /\ DOMAIN touched' = Transactions /\ touched'[tx] = touched[tx] \ {p}
       /\ \A t \in Transactions \ {tx} : touched'[t] = touched[t]
  BY <1>2 DEF Snapshot, IInv, FilesOK
<1>11. journals[tx].status = "none"
  BY <1>1, <1>2 DEF DiskAgrees
<1>12. CallTyped(call')
  BY <1>1, <1>2, <1>4, <1>5, <1>9 DEF CallTyped, CreateSteps, ApplySteps, TrySteps, RollbackSteps, Steps, DirSteps
<1>13. Creating(call', files, touched'[tx])
  <2>1. /\ DOMAIN j.before = DOMAIN j.after \ call.todo
        /\ AreBefore(files, j, DOMAIN j.before \ touched[tx])
        /\ call.todo \subseteq DOMAIN j.after
    BY <1>1, <1>2 DEF Creating, CallTyped, Targets, DirSteps, Steps, CreateSteps
  <2>2. DOMAIN m.before = DOMAIN m.after \ (call.todo \ {p})
    BY <1>1, <1>4, <2>1
  <2>3. AreBefore(files, m, DOMAIN m.before \ touched'[tx])
    BY <1>4, <1>10, <2>1 DEF AreBefore
  <2> QED BY <1>9, <2>2, <2>3 DEF Creating
<1>14. DiskAgrees(call', journals[tx]) /\ (\A P : Progress(call', files, P))
  BY <1>9, <1>11 DEF DiskAgrees, Progress, TrySteps
<1>15. CallOK'
  BY <1>9, <1>12, <1>13, <1>14 DEF CallOK, CallGood, Snapshot
<1>16. JournalsTrue'
  <2> SUFFICES ASSUME NEW t \in Transactions
               PROVE  Truth(files, journals[t], DOMAIN journals[t].before \ touched'[t])
    BY DEF JournalsTrue, Snapshot
  <2>1. CASE t = tx
    BY <2>1, <1>11 DEF Truth, Resumable
  <2>2. CASE t # tx
    BY <2>2, <1>10 DEF IInv, JournalsTrue
  <2> QED BY <2>1, <2>2
<1> QED BY <1>10, <1>15, <1>16 DEF IInv, FilesOK, JournalsOK, Snapshot

LEMMA MakeTransactionDirectoryStep ==
  ASSUME IInv, MakeTransactionDirectory PROVE IInv'
<1> DEFINE tx == call.tx
           d == [journals[tx] EXCEPT !.status = "directory"]
<1>1. call.op = "create" /\ call.step = "directory"
  BY DEF MakeTransactionDirectory, IInv, CallOK, CallGood, CallTyped, CreateSteps, ApplySteps,
    TrySteps, RollbackSteps
<1>2. /\ CallTyped(call) /\ tx \in Transactions /\ JournalOK(journals[tx]) /\ DOMAIN call = Fields
      /\ Creating(call, files, touched[tx])
  BY <1>1, CallFacts
<1>3. /\ DOMAIN call' = Fields /\ call'.op = "create" /\ call'.tx = tx
      /\ call'.restore = call.restore /\ call'.journal = call.journal
      /\ call'.step = "prepare" /\ call'.todo = call.todo
  BY <1>1, <1>2 DEF MakeTransactionDirectory, Fields
<1>4. /\ DOMAIN journals' = Transactions /\ journals'[tx] = d
      /\ \A t \in Transactions \ {tx} : journals'[t] = journals[t]
  BY <1>2 DEF MakeTransactionDirectory, IInv, JournalsOK
<1>5. JournalOK(d) /\ d.status = "directory"
  BY <1>2, JournalChanged DEF Statuses, JournalOK
<1>6. CallTyped(call')
  BY <1>1, <1>2, <1>3 DEF CallTyped, CreateSteps, ApplySteps, TrySteps, RollbackSteps, Steps, DirSteps
<1>7. DiskAgrees(call', d) /\ (\A P : Progress(call', files, P)) /\ Creating(call', files, touched[tx])
  BY <1>1, <1>2, <1>3, <1>5 DEF DiskAgrees, Progress, TrySteps, Creating
<1> HIDE DEF d
<1>8. CallOK'
  BY <1>3, <1>4, <1>6, <1>7 DEF CallOK, CallGood, MakeTransactionDirectory
<1>9. JournalsOK'
  BY <1>4, <1>5 DEF JournalsOK, IInv
<1>10. JournalsTrue'
  <2> SUFFICES ASSUME NEW t \in Transactions
               PROVE  Truth(files, journals'[t], DOMAIN journals'[t].before \ touched[t])
    BY DEF JournalsTrue, MakeTransactionDirectory
  <2>1. CASE t = tx
    BY <2>1, <1>4, <1>5 DEF Truth, Resumable
  <2>2. CASE t # tx
    BY <2>2, <1>4 DEF IInv, JournalsTrue
  <2> QED BY <2>1, <2>2
<1> QED BY <1>8, <1>9, <1>10 DEF IInv, FilesOK, MakeTransactionDirectory

\* The journal of one transaction is written and the call is over.
LEMMA LastWriteStep ==
  ASSUME IInv, call.tx \in Transactions, NEW j, JournalOK(j),
         j.status \notin {"none", "directory"} => IsComplete(j),
         Truth(files, j, DOMAIN j.before \ touched[call.tx]),
         journals' = [journals EXCEPT ![call.tx] = j], call' = Idle,
         UNCHANGED <<files, dirs, edits, touched, disturbed>>
  PROVE  IInv'
<1>1. /\ DOMAIN journals' = Transactions /\ journals'[call.tx] = j
      /\ \A t \in Transactions \ {call.tx} : journals'[t] = journals[t]
  BY DEF IInv, JournalsOK
<1>2. JournalsOK'
  BY <1>1 DEF JournalsOK, IInv
<1>3. JournalsTrue'
  <2> SUFFICES ASSUME NEW t \in Transactions
               PROVE  Truth(files, journals'[t], DOMAIN journals'[t].before \ touched[t])
    BY DEF JournalsTrue
  <2>1. CASE t = call.tx
    BY <2>1, <1>1
  <2>2. CASE t # call.tx
    BY <2>2, <1>1 DEF IInv, JournalsTrue
  <2> QED BY <2>1, <2>2
<1>4. CallOK'
  BY IdleGood DEF CallOK
<1> QED BY <1>2, <1>3, <1>4 DEF IInv, FilesOK

LEMMA PrepareStep == ASSUME IInv, Prepare PROVE IInv'
<1>1. call.op = "create" /\ call.step = "prepare"
  BY DEF Prepare, IInv, CallOK, CallGood, CallTyped, CreateSteps, ApplySteps, TrySteps, RollbackSteps
<1>2. /\ CallTyped(call) /\ call.tx \in Transactions /\ JournalOK(call.journal)
      /\ Creating(call, files, touched[call.tx])
  BY <1>1, CallFacts
<1>3. PICK j : j = [call.journal EXCEPT !.status = "prepared"]
  OBVIOUS
<1>4. /\ JournalOK(j) /\ j.status = "prepared" /\ j.before = call.journal.before
      /\ j.after = call.journal.after
  BY <1>2, <1>3, JournalChanged DEF Statuses, JournalOK
<1>5. Truth(files, j, DOMAIN j.before \ touched[call.tx])
  BY <1>1, <1>2, <1>4 DEF Truth, Creating, AreBefore, Resumable
<1>6. IsComplete(j)
  BY <1>1, <1>2, <1>4 DEF IsComplete, Creating
<1> QED BY <1>2, <1>3, <1>4, <1>5, <1>6, LastWriteStep DEF Prepare

LEMMA AbandonCreateStep == ASSUME IInv, AbandonCreate PROVE IInv'
<1>1. call.tx \in Transactions
  BY CallFacts DEF AbandonCreate
<1>2. Truth(files, NoJournal, DOMAIN NoJournal.before \ touched[call.tx])
  BY DEF Truth, NoJournal, Resumable
<1>3. NoJournal.status = "none"
  BY DEF NoJournal
<1> QED BY <1>1, <1>2, <1>3, NoJournalOK, LastWriteStep DEF AbandonCreate

-----------------------------------------------------------------------------
(* The steps of an apply or a rollback that only read.                     *)

\* The files of the transaction in progress are as its journal on disk says.
LEMMA OwnTruth ==
  ASSUME IInv, call.op \in {"apply", "rollback"}
  PROVE  /\ Truth(files, journals[call.tx], Targets(call.journal) \ touched[call.tx])
         /\ journals[call.tx].before = call.journal.before
         /\ journals[call.tx].after = call.journal.after
         /\ IsComplete(journals[call.tx])
<1>1. call.tx \in Transactions /\ DiskAgrees(call, journals[call.tx])
  BY CallFacts
<1> QED BY <1>1 DEF DiskAgrees, IsComplete, IInv, JournalsTrue, Targets

\* What a loop that compares files leaves in the call.
LEMMA DriftFields ==
  ASSUME NEW c, DOMAIN c = Fields, NEW b \in BOOLEAN, NEW k, k = [c EXCEPT !.drift = b]
  PROVE  /\ DOMAIN k = Fields
         /\ k.op = c.op /\ k.tx = c.tx /\ k.restore = c.restore /\ k.journal = c.journal
         /\ k.step = c.step /\ k.todo = c.todo
         /\ k.drift = b
BY DEF Fields

LEMMA BeginApplyStep == ASSUME IInv, NEW t \in Transactions, BeginApply(t) PROVE IInv'
<1> DEFINE j == journals[t]
<1>1. JournalOK(j) /\ j.status = "prepared" /\ IsComplete(j)
  BY DEF BeginApply, IInv, JournalsOK
<1>2. PICK k : k = call'
  OBVIOUS
<1>3. /\ DOMAIN k = Fields /\ k.op = "apply" /\ k.tx = t /\ k.step = "inspect"
      /\ k.todo = Targets(j) /\ k.journal = j /\ k.restore = {}
  BY <1>2 DEF BeginApply, Idle, Fields
<1>4. CallTyped(k)
  BY <1>1, <1>3 DEF CallTyped, CreateSteps, ApplySteps, TrySteps, RollbackSteps, Steps, DirSteps
<1>5. DiskAgrees(k, j)
  BY <1>1, <1>3 DEF DiskAgrees, TrySteps
<1>6. \A P \in SUBSET Targets(j) : Progress(k, files, P)
  BY <1>3 DEF Progress, AreBefore
<1>7. Undrifted(k, {}) \in SUBSET Targets(j) /\ Targets(j) \ touched[t] \in SUBSET Targets(j)
  BY <1>3 DEF Undrifted
<1>8. CallGood(k, j, files, touched[t], {})
  BY <1>3, <1>4, <1>5, <1>6, <1>7 DEF CallGood, Creating
<1>9. CallOK'
  BY <1>2, <1>3, <1>8 DEF CallOK, BeginApply
<1> QED BY <1>9, ReadStep DEF BeginApply

LEMMA InspectStep == ASSUME IInv, NEW p \in Paths, Inspect(p) PROVE IInv'
<1> DEFINE j == call.journal
           drift == call.drift \/ files[p] # j.before[p]
           rest == call.todo \ {p}
<1>1. call.op = "apply" /\ call.step = "inspect" /\ p \in call.todo
  BY DEF Inspect, IInv, CallOK, CallGood, CallTyped, CreateSteps, ApplySteps, TrySteps, RollbackSteps
<1>2. /\ CallTyped(call) /\ call.tx \in Transactions /\ DOMAIN call = Fields
      /\ DiskAgrees(call, journals[call.tx])
      /\ Progress(call, files, Undrifted(call, disturbed))
  BY <1>1, CallFacts
<1>3. AreBefore(files, j, Targets(j) \ touched[call.tx])
  BY <1>1, <1>2, OwnTruth DEF Truth, DiskAgrees, AreBefore
<1>4. CASE call' = Idle
  BY <1>4, IdleGood, ReadStep DEF Inspect, Read, CallOK
<1>5. CASE call' # Idle
  <2>1. PICK c : c = [call EXCEPT !.drift = drift]
    OBVIOUS
  <2>2. /\ DOMAIN c = Fields
        /\ c.op = "apply" /\ c.tx = call.tx /\ c.restore = call.restore /\ c.journal = j
        /\ c.drift = drift
    BY <1>1, <1>2, <2>1, DriftFields
  <2>3. call' = Continue(c, "inspect", rest, "begin", {}) /\ ~(rest = {} /\ drift)
    BY <1>5, <2>1 DEF Inspect
  <2>4. PICK k : k = call'
    OBVIOUS
  <2>5. /\ DOMAIN k = Fields /\ k.op = "apply" /\ k.tx = call.tx
        /\ k.restore = call.restore /\ k.journal = j /\ k.drift = drift
        /\ rest # {} => k.step = "inspect" /\ k.todo = rest
        /\ rest = {} => k.step = "begin" /\ k.todo = {}
    BY <2>2, <2>3, <2>4, ContinueFields
  <2>6. CallTyped(k)
    BY <1>1, <1>2, <2>5 DEF CallTyped, CreateSteps, ApplySteps, TrySteps, RollbackSteps, Steps, DirSteps
  <2>7. DiskAgrees(k, journals[call.tx])
    BY <1>1, <1>2, <2>5 DEF DiskAgrees, TrySteps
  <2>8. Progress(k, files, Targets(j) \ touched[call.tx])
    BY <1>3, <2>5 DEF Progress, AreBefore
  <2>9. Progress(k, files, Undrifted(k, disturbed))
    <3>1. CASE drift
      BY <2>3, <2>5, <3>1 DEF Progress, Undrifted, AreBefore
    <3>2. CASE ~drift
      <4>1. Undrifted(k, disturbed) = Targets(j) \ disturbed
        BY <2>5, <3>2 DEF Undrifted
      <4>2. AreBefore(files, j, (Targets(j) \ disturbed) \ call.todo) /\ files[p] = j.before[p]
        BY <1>1, <1>2, <3>2 DEF Progress, Undrifted
      <4>3. AreBefore(files, j, (Targets(j) \ disturbed) \ rest)
        BY <4>2 DEF AreBefore
      <4> QED BY <2>5, <4>1, <4>3 DEF Progress
    <3> QED BY <3>1, <3>2
  <2>10. CallOK'
    BY <2>4, <2>5, <2>6, <2>7, <2>8, <2>9 DEF CallOK, CallGood, Creating, Inspect, Read
  <2> QED BY <2>10, ReadStep DEF Inspect, Read
<1> QED BY <1>4, <1>5

LEMMA ErrorStep ==
  ASSUME IInv, call.op \in {"apply", "rollback"}, call' = AfterError(call), Read
  PROVE  IInv'
<1>1. /\ CallTyped(call) /\ DiskAgrees(call, journals[call.tx])
      /\ IsComplete(journals[call.tx])
      /\ journals[call.tx].before = call.journal.before
      /\ journals[call.tx].after = call.journal.after
  BY CallFacts, OwnTruth
<1>2. /\ call.step \in TrySteps => journals[call.tx].status \in Resumable
      /\ call.step \in RollbackSteps => journals[call.tx].status \in Resumable \cup {"applied"}
  BY <1>1 DEF DiskAgrees, TrySteps, RollbackSteps, Resumable
<1>3. PICK k : k = AfterError(call)
  OBVIOUS
<1>4. /\ CallGood(k, journals[call.tx], files, touched[call.tx], disturbed)
      /\ k = Idle \/ k.tx = call.tx
  BY <1>1, <1>2, <1>3, ErrorGood
<1>5. CallOK'
  <2>1. CASE k = Idle
    BY <1>3, <2>1, IdleGood DEF CallOK
  <2>2. CASE k.tx = call.tx
    BY <1>3, <1>4, <2>2 DEF CallOK, Read
  <2> QED BY <1>4, <2>1, <2>2
<1> QED BY <1>5, ReadStep DEF Read

LEMMA FailStep == ASSUME IInv, Fail PROVE IInv'
BY ErrorStep DEF Fail

LEMMA CrashStep == ASSUME IInv, Crash PROVE IInv'
BY IdleGood, ReadStep DEF Crash, Read, CallOK

LEMMA CompareStep == ASSUME IInv, NEW p \in Paths, Compare(p) PROVE IInv'
<1>1. call.op = "apply" /\ call.step = "compare" /\ p \in call.todo
  BY DEF Compare, IInv, CallOK, CallGood, CallTyped, CreateSteps, ApplySteps, TrySteps, RollbackSteps
<1>2. /\ CallTyped(call) /\ call.tx \in Transactions /\ DOMAIN call = Fields
      /\ DiskAgrees(call, journals[call.tx])
      /\ Progress(call, files, Targets(call.journal) \ touched[call.tx])
      /\ Progress(call, files, Undrifted(call, disturbed))
  BY <1>1, CallFacts
<1>3. CASE call' = AfterError(call)
  BY <1>1, <1>3, ErrorStep DEF Compare
<1>4. CASE call' = [call EXCEPT !.step = "replace", !.target = p]
  <2>1. PICK k : k = call'
    OBVIOUS
  <2>2. /\ DOMAIN k = Fields /\ k.op = "apply" /\ k.tx = call.tx
        /\ k.restore = call.restore /\ k.journal = call.journal
        /\ k.step = "replace" /\ k.todo = call.todo /\ k.target = p
    BY <1>1, <1>2, <1>4, <2>1 DEF Fields
  <2>3. CallTyped(k)
    BY <1>1, <1>2, <2>2 DEF CallTyped, CreateSteps, ApplySteps, TrySteps, RollbackSteps, Steps, DirSteps
  <2>4. DiskAgrees(k, journals[call.tx])
    BY <1>1, <1>2, <2>2 DEF DiskAgrees, TrySteps
  <2>5. Undrifted(k, disturbed) = Undrifted(call, disturbed)
    BY <1>1, <2>2 DEF Undrifted
  <2>6. \A P : Progress(call, files, P) => Progress(k, files, P)
    BY <1>1, <2>2 DEF Progress
  <2>7. CallOK'
    BY <1>2, <2>1, <2>2, <2>3, <2>4, <2>5, <2>6 DEF CallOK, CallGood, Creating, Compare, Read
  <2> QED BY <2>7, ReadStep DEF Compare, Read
<1> QED BY <1>3, <1>4 DEF Compare

LEMMA VerifyStep == ASSUME IInv, NEW p \in Paths, Verify(p) PROVE IInv'
<1> DEFINE drift == call.drift \/ files[p] # call.journal.after[p]
           rest == call.todo \ {p}
<1>1. call.op = "apply" /\ call.step = "verify" /\ p \in call.todo
  BY DEF Verify, IInv, CallOK, CallGood, CallTyped, CreateSteps, ApplySteps, TrySteps, RollbackSteps
<1>2. /\ CallTyped(call) /\ call.tx \in Transactions /\ DOMAIN call = Fields
      /\ DiskAgrees(call, journals[call.tx])
      /\ Progress(call, files, Targets(call.journal) \ touched[call.tx])
      /\ Progress(call, files, Undrifted(call, disturbed))
  BY <1>1, CallFacts
<1>3. CASE call' = AfterError(call)
  BY <1>1, <1>3, ErrorStep DEF Verify
<1>4. CASE call' = Continue([call EXCEPT !.drift = drift], "verify", rest, "finish", {})
  <2>1. PICK c : c = [call EXCEPT !.drift = drift]
    OBVIOUS
  <2>2. /\ DOMAIN c = Fields
        /\ c.op = "apply" /\ c.tx = call.tx /\ c.restore = call.restore
        /\ c.journal = call.journal
    BY <1>1, <1>2, <2>1, DriftFields
  <2>3. PICK k : k = call'
    OBVIOUS
  <2>4. /\ DOMAIN k = Fields /\ k.op = "apply" /\ k.tx = call.tx
        /\ k.restore = call.restore /\ k.journal = call.journal
        /\ k.step \in {"verify", "finish"} /\ k.todo \subseteq call.todo
    <3>1. k = Continue(c, "verify", rest, "finish", {})
      BY <1>4, <2>1, <2>3
    <3> QED BY <2>2, <3>1, ContinueFields
  <2>5. CallTyped(k)
    BY <1>1, <1>2, <2>4 DEF CallTyped, CreateSteps, ApplySteps, TrySteps, RollbackSteps, Steps, DirSteps
  <2>6. DiskAgrees(k, journals[call.tx])
    BY <1>1, <1>2, <2>4 DEF DiskAgrees, TrySteps
  <2>7. Undrifted(k, disturbed) = Undrifted(call, disturbed)
    BY <1>1, <2>4 DEF Undrifted
  <2>8. \A P : Progress(call, files, P) => Progress(k, files, P)
    BY <1>1, <2>4 DEF Progress
  <2>9. CallOK'
    BY <1>2, <2>3, <2>4, <2>5, <2>6, <2>7, <2>8 DEF CallOK, CallGood, Creating, Verify, Read
  <2> QED BY <2>9, ReadStep DEF Verify, Read
<1> QED BY <1>3, <1>4 DEF Verify

LEMMA BeginRollbackStep == ASSUME IInv, NEW t \in Transactions, BeginRollback(t) PROVE IInv'
<1> DEFINE j == journals[t]
<1>1. JournalOK(j) /\ j.status \in Resumable \cup {"applied"} /\ IsComplete(j)
  BY DEF BeginRollback, IInv, JournalsOK, Resumable
<1>2. PICK c : c = [Idle EXCEPT !.op = "rollback", !.tx = t, !.journal = j]
  OBVIOUS
<1>3. DOMAIN c = Fields /\ c.op = "rollback" /\ c.tx = t /\ c.journal = j
  BY <1>2 DEF Idle, Fields
<1>4. PICK r : r = (j.status \in Resumable)
  OBVIOUS
<1>5. call' = Survey(c, r)
  BY <1>2, <1>4 DEF BeginRollback
<1>6. CallGood(Survey(c, r), j, files, touched[t], {}) /\ Survey(c, r).tx = t
  BY <1>1, <1>3, SurveyGood
<1>7. CallOK'
  BY <1>5, <1>6 DEF CallOK, BeginRollback
<1> QED BY <1>7, ReadStep DEF BeginRollback

LEMMA SurveyTargetStep == ASSUME IInv, NEW p \in Paths, SurveyTarget(p) PROVE IInv'
<1> DEFINE j == call.journal
           written == files[p] = j.after[p]
           restored == call.resume /\ files[p] = j.before[p]
           drift == call.drift \/ ~(written \/ restored)
           restore == IF written THEN call.restore \cup {p} ELSE call.restore
           rest == call.todo \ {p}
           d == journals[call.tx]
<1>1. call.op \in {"apply", "rollback"} /\ call.step = "survey" /\ p \in call.todo
  BY DEF SurveyTarget, IInv, CallOK, CallGood, CallTyped, CreateSteps, ApplySteps, TrySteps, RollbackSteps
<1>2. /\ CallTyped(call) /\ call.tx \in Transactions /\ DOMAIN call = Fields
      /\ DiskAgrees(call, d)
      /\ Progress(call, files, Targets(j) \ touched[call.tx])
      /\ Progress(call, files, Undrifted(call, disturbed))
  BY <1>1, CallFacts
<1>3. AreEither(files, j, Targets(j) \ touched[call.tx])
  BY <1>1, <1>2, OwnTruth DEF Truth, DiskAgrees, AreEither, AreAfter
<1>4. PICK c1 : c1 = [call EXCEPT !.drift = drift]
  OBVIOUS
<1>5. PICK c : c = [c1 EXCEPT !.restore = restore]
  OBVIOUS
<1>6. c = [call EXCEPT !.drift = drift, !.restore = IF written THEN @ \cup {p} ELSE @]
  BY <1>2, <1>4, <1>5 DEF Fields
<1>7. /\ DOMAIN c1 = Fields
      /\ c1.op = call.op /\ c1.tx = call.tx /\ c1.restore = call.restore /\ c1.journal = j
      /\ c1.drift = drift /\ c1.step = "survey" /\ c1.todo = call.todo
  BY <1>1, <1>2, <1>4, DriftFields
<1>8. /\ DOMAIN c = Fields
      /\ c.op = call.op /\ c.tx = call.tx /\ c.restore = restore /\ c.journal = j
      /\ c.drift = drift /\ c.step = "survey" /\ c.todo = call.todo
  BY <1>5, <1>7 DEF Fields
<1>9. restore \subseteq Targets(j) /\ p \in Targets(j) /\ call.todo \subseteq Targets(j)
  BY <1>1, <1>2 DEF CallTyped, Steps, DirSteps, RollbackSteps
<1>10. call' = IF rest = {} /\ drift
               THEN IF c.op = "apply" THEN [c EXCEPT !.step = "conflicted"] ELSE Idle
               ELSE Continue(c, "survey", rest, "undo", {})
  BY <1>6 DEF SurveyTarget
<1> HIDE DEF restore
<1>11. CASE call' = Idle
  BY <1>11, IdleGood, ReadStep DEF SurveyTarget, Read, CallOK
<1>12. CASE c.op = "apply" /\ call' = [c EXCEPT !.step = "conflicted"]
  <2>1. PICK k : k = call'
    OBVIOUS
  <2>2. /\ DOMAIN k = Fields /\ k.op = "apply" /\ k.tx = call.tx /\ k.restore = restore
        /\ k.journal = j /\ k.step = "conflicted"
    BY <1>8, <1>12, <2>1 DEF Fields
  <2>3. CallTyped(k)
    BY <1>1, <1>2, <1>9, <2>2 DEF CallTyped, CreateSteps, ApplySteps, TrySteps, RollbackSteps, Steps, DirSteps
  <2>4. DiskAgrees(k, d)
    BY <1>1, <1>2, <2>2 DEF DiskAgrees, TrySteps
  <2>5. \A P : Progress(k, files, P)
    BY <2>2 DEF Progress
  <2>6. CallOK'
    BY <2>1, <2>2, <2>3, <2>4, <2>5 DEF CallOK, CallGood, Creating, SurveyTarget, Read
  <2> QED BY <2>6, ReadStep DEF SurveyTarget, Read
<1>13. CASE /\ ~(rest = {} /\ drift)
            /\ call' = Continue(c, "survey", rest, "undo", {})
  <2>1. PICK k : k = call'
    OBVIOUS
  <2>2. /\ DOMAIN k = Fields /\ k.op = call.op /\ k.tx = call.tx /\ k.restore = restore
        /\ k.journal = j /\ k.drift = drift /\ k.todo = rest
        /\ rest # {} => k.step = "survey"
        /\ rest = {} => k.step = "undo"
    BY <1>8, <1>13, <2>1, ContinueFields
  <2>3. CallTyped(k)
    <3>1. restore \cap rest = {}
      BY <1>1, <1>2 DEF CallTyped, restore
    <3> QED BY <1>1, <1>2, <1>9, <2>2, <3>1
          DEF CallTyped, CreateSteps, ApplySteps, TrySteps, RollbackSteps, Steps, DirSteps
  <2>4. DiskAgrees(k, d)
    BY <1>1, <1>2, <2>2 DEF DiskAgrees, TrySteps
  <2>5. ASSUME NEW P, AreSplit(files, j, P \ call.todo, call.restore),
               p \in P => files[p] \in {j.before[p], j.after[p]}
        PROVE  AreSplit(files, j, P \ rest, restore)
    <3>1. p \notin call.restore
      BY <1>1, <1>2 DEF CallTyped
    <3> QED BY <2>5, <3>1 DEF AreSplit, restore
  <2>6. Progress(k, files, Targets(j) \ touched[call.tx])
    <3>1. AreSplit(files, j, (Targets(j) \ touched[call.tx]) \ call.todo, call.restore)
      BY <1>1, <1>2 DEF Progress
    <3>2. p \in Targets(j) \ touched[call.tx] => files[p] \in {j.before[p], j.after[p]}
      BY <1>3 DEF AreEither
    <3>3. AreSplit(files, j, (Targets(j) \ touched[call.tx]) \ rest, restore)
      BY <2>5, <3>1, <3>2
    <3> QED BY <2>2, <3>3 DEF Progress
  <2>7. Progress(k, files, Undrifted(k, disturbed))
    <3>1. CASE drift
      BY <1>13, <2>2, <3>1 DEF Progress, Undrifted, AreSplit
    <3>2. CASE ~drift
      <4>1. Undrifted(k, disturbed) = Targets(j) \ disturbed
        BY <2>2, <3>2 DEF Undrifted
      <4>2. AreSplit(files, j, (Targets(j) \ disturbed) \ call.todo, call.restore)
        BY <1>1, <1>2, <3>2 DEF Progress, Undrifted
      <4>3. AreSplit(files, j, (Targets(j) \ disturbed) \ rest, restore)
        BY <2>5, <3>2, <4>2
      <4> QED BY <2>2, <4>1, <4>3 DEF Progress
    <3> QED BY <3>1, <3>2
  <2>8. CallOK'
    BY <1>1, <2>1, <2>2, <2>3, <2>4, <2>6, <2>7 DEF CallOK, CallGood, Creating, SurveyTarget, Read
  <2> QED BY <2>8, ReadStep DEF SurveyTarget, Read
<1> QED BY <1>10, <1>11, <1>12, <1>13

LEMMA RecompareStep == ASSUME IInv, NEW p \in Paths, Recompare(p) PROVE IInv'
<1>1. call.op \in {"apply", "rollback"} /\ call.step = "recompare" /\ p \in call.todo
  BY DEF Recompare, IInv, CallOK, CallGood, CallTyped, CreateSteps, ApplySteps, TrySteps, RollbackSteps
<1>2. /\ CallTyped(call) /\ call.tx \in Transactions /\ DOMAIN call = Fields
      /\ DiskAgrees(call, journals[call.tx])
      /\ Progress(call, files, Targets(call.journal) \ touched[call.tx])
      /\ Progress(call, files, Undrifted(call, disturbed))
  BY <1>1, CallFacts
<1>3. CASE call' = AfterError(call)
  BY <1>1, <1>3, ErrorStep DEF Recompare
<1>4. CASE call' = [call EXCEPT !.step = "restore", !.target = p]
  <2>1. PICK k : k = call'
    OBVIOUS
  <2>2. /\ DOMAIN k = Fields /\ k.op = call.op /\ k.tx = call.tx
        /\ k.restore = call.restore /\ k.journal = call.journal
        /\ k.step = "restore" /\ k.todo = call.todo /\ k.target = p
    BY <1>1, <1>2, <1>4, <2>1 DEF Fields
  <2>3. CallTyped(k)
    BY <1>1, <1>2, <2>2 DEF CallTyped, CreateSteps, ApplySteps, TrySteps, RollbackSteps, Steps, DirSteps
  <2>4. DiskAgrees(k, journals[call.tx])
    BY <1>1, <1>2, <2>2 DEF DiskAgrees, TrySteps
  <2>5. Undrifted(k, disturbed) = Undrifted(call, disturbed)
    BY <1>1, <2>2 DEF Undrifted
  <2>6. \A P : Progress(call, files, P) => Progress(k, files, P)
    BY <1>1, <2>2 DEF Progress
  <2>7. CallOK'
    BY <1>1, <1>2, <2>1, <2>2, <2>3, <2>4, <2>5, <2>6 DEF CallOK, CallGood, Creating, Recompare, Read
  <2> QED BY <2>7, ReadStep DEF Recompare, Read
<1> QED BY <1>3, <1>4 DEF Recompare

LEMMA VerifyBeforeStep == ASSUME IInv, NEW p \in Paths, VerifyBefore(p) PROVE IInv'
<1> DEFINE drift == call.drift \/ files[p] # call.journal.before[p]
           rest == call.todo \ {p}
           last == IF drift THEN "unrestored" ELSE "conclude"
<1>1. call.op \in {"apply", "rollback"} /\ call.step = "verifyBefore" /\ p \in call.todo
  BY DEF VerifyBefore, IInv, CallOK, CallGood, CallTyped, CreateSteps, ApplySteps, TrySteps, RollbackSteps
<1>2. /\ CallTyped(call) /\ call.tx \in Transactions /\ DOMAIN call = Fields
      /\ DiskAgrees(call, journals[call.tx])
      /\ Progress(call, files, Targets(call.journal) \ touched[call.tx])
      /\ Progress(call, files, Undrifted(call, disturbed))
  BY <1>1, CallFacts
<1>3. PICK c : c = [call EXCEPT !.drift = drift]
  OBVIOUS
<1>4. /\ DOMAIN c = Fields
      /\ c.op = call.op /\ c.tx = call.tx /\ c.restore = call.restore
      /\ c.journal = call.journal
  BY <1>1, <1>2, <1>3, DriftFields
<1>5. PICK k : k = call'
  OBVIOUS
<1>6. k = Continue(c, "verifyBefore", rest, last, {})
  BY <1>3, <1>5 DEF VerifyBefore
<1>7. /\ DOMAIN k = Fields /\ k.op = call.op /\ k.tx = call.tx
      /\ k.restore = call.restore /\ k.journal = call.journal
      /\ k.step \in {"verifyBefore", "unrestored", "conclude"} /\ k.todo \subseteq call.todo
  BY <1>4, <1>6, ContinueFields
<1>8. CallTyped(k)
  BY <1>1, <1>2, <1>7 DEF CallTyped, CreateSteps, ApplySteps, TrySteps, RollbackSteps, Steps, DirSteps
<1>9. DiskAgrees(k, journals[call.tx])
  BY <1>1, <1>2, <1>7 DEF DiskAgrees, TrySteps
<1>10. Undrifted(k, disturbed) = Undrifted(call, disturbed)
  BY <1>1, <1>7 DEF Undrifted
<1>11. \A P : Progress(call, files, P) => Progress(k, files, P)
  BY <1>1, <1>7 DEF Progress
<1>12. CallOK'
  BY <1>1, <1>2, <1>5, <1>7, <1>8, <1>9, <1>10, <1>11 DEF CallOK, CallGood, Creating, VerifyBefore, Read
<1> QED BY <1>12, ReadStep DEF VerifyBefore, Read

-----------------------------------------------------------------------------
(* The steps that write the journal, and those that change directories.    *)

LEMMA JournalFields ==
  ASSUME NEW c, DOMAIN c = Fields, NEW j, NEW k, k = [c EXCEPT !.journal = j]
  PROVE  /\ DOMAIN k = Fields
         /\ k.op = c.op /\ k.tx = c.tx /\ k.restore = c.restore /\ k.drift = c.drift
         /\ k.step = c.step /\ k.todo = c.todo /\ k.target = c.target
         /\ k.journal = j
BY DEF Fields

\* The journal with another status or another directory, while the disk agrees.
LEMMA NextJournal ==
  ASSUME IInv, call.op \in {"apply", "rollback"},
         NEW s \in Statuses, NEW D \in SUBSET Dirs, NEW j,
         j \in {[call.journal EXCEPT !.status = s], [call.journal EXCEPT !.created = D]}
  PROVE  /\ JournalOK(j) /\ j.before = call.journal.before /\ j.after = call.journal.after
         /\ IsComplete(j) /\ Targets(j) = Targets(call.journal)
         /\ DOMAIN j.before = Targets(call.journal)
         /\ j.status \in {s, call.journal.status}
<1>1. JournalOK(call.journal) /\ DiskAgrees(call, journals[call.tx])
  BY CallFacts
<1>2. JournalOK(j)
  <2>1. /\ JournalOK([call.journal EXCEPT !.status = s])
        /\ JournalOK([call.journal EXCEPT !.created = D])
    BY <1>1, JournalChanged
  <2> QED BY <2>1
<1>3. /\ j.before = call.journal.before /\ j.after = call.journal.after
      /\ j.status \in {s, call.journal.status}
  BY <1>1 DEF JournalOK
<1> QED BY <1>1, <1>2, <1>3 DEF DiskAgrees, IsComplete, Targets

\* From here on every target is as it was before the transaction, as it reaches the
\* loop over the directories or the one over the files.
LEMMA MakingGood ==
  ASSUME NEW c, NEW d, NEW fs, NEW others, NEW edited, NEW T,
         DOMAIN c = Fields, JournalOK(c.journal), c.op = "apply", c.tx \in Transactions,
         c.restore \subseteq Targets(c.journal), c.journal.status = "applying",
         d.before = c.journal.before, d.after = c.journal.after, IsComplete(d),
         d.status = "applying",
         AreBefore(fs, c.journal, Targets(c.journal) \ others),
         AreBefore(fs, c.journal, Targets(c.journal) \ edited)
  PROVE  CallGood(Continue(c, "mkdir", T, "compare", Targets(c.journal)),
                  d, fs, others, edited)
<1>0. PICK k : k = Continue(c, "mkdir", T, "compare", Targets(c.journal))
  OBVIOUS
<1>1. /\ DOMAIN k = Fields /\ k.op = "apply" /\ k.tx = c.tx /\ k.journal = c.journal
      /\ k.restore = c.restore
      /\ \/ k.step = "mkdir"
         \/ k.step = "compare" /\ k.todo = Targets(c.journal)
  BY <1>0, ContinueFields
<1>2. CallTyped(k)
  BY <1>1 DEF CallTyped, CreateSteps, ApplySteps, TrySteps, RollbackSteps, Steps, DirSteps
<1>3. DiskAgrees(k, d)
  BY <1>1 DEF DiskAgrees, TrySteps
<1>4. ASSUME NEW P \in SUBSET Targets(c.journal), AreBefore(fs, c.journal, P)
      PROVE  Progress(k, fs, P)
  BY <1>1, <1>4 DEF Progress, AreSplit, AreBefore
<1>5. Undrifted(k, edited) = Targets(c.journal) \ edited
  BY <1>1 DEF Undrifted
<1> QED BY <1>0, <1>1, <1>2, <1>3, <1>4, <1>5 DEF CallGood, Creating

LEMMA MarkApplyingStep == ASSUME IInv, MarkApplying PROVE IInv'
<1>1. call.op = "apply" /\ call.step = "begin"
  BY DEF MarkApplying, IInv, CallOK, CallGood, CallTyped, CreateSteps, ApplySteps, TrySteps, RollbackSteps
<1>2. /\ CallTyped(call) /\ call.tx \in Transactions /\ DOMAIN call = Fields
      /\ JournalOK(call.journal)
      /\ Progress(call, files, Targets(call.journal) \ touched[call.tx])
      /\ Progress(call, files, Undrifted(call, disturbed))
  BY <1>1, CallFacts
<1>3. PICK j : j = [call.journal EXCEPT !.status = "applying"]
  OBVIOUS
<1>4. /\ JournalOK(j) /\ j.before = call.journal.before /\ j.after = call.journal.after
      /\ IsComplete(j) /\ Targets(j) = Targets(call.journal)
      /\ DOMAIN j.before = Targets(call.journal)
  BY <1>1, <1>3, NextJournal DEF Statuses
<1>5. j.status = "applying"
  BY <1>2, <1>3 DEF JournalOK
<1>6. /\ AreBefore(files, j, Targets(j) \ touched[call.tx])
      /\ AreBefore(files, j, Targets(j) \ disturbed)
  BY <1>1, <1>2, <1>4 DEF Progress, Undrifted, AreBefore
<1>7. Truth(files, j, DOMAIN j.before \ touched[call.tx])
  BY <1>4, <1>5, <1>6 DEF Truth, AreBefore, AreEither
<1>8. PICK c : c = [call EXCEPT !.journal = j]
  OBVIOUS
<1>9. PICK k : k = Continue(c, "mkdir", j.planned, "compare", Targets(j))
  OBVIOUS
<1>10. /\ DOMAIN c = Fields /\ c.op = "apply" /\ c.tx = call.tx /\ c.restore = call.restore
       /\ c.journal = j
  BY <1>1, <1>2, <1>8, JournalFields
<1>11. CallGood(k, j, files, touched[call.tx], disturbed) /\ k.tx = call.tx
  <2>1. c.restore \subseteq Targets(j)
    BY <1>2, <1>4, <1>10 DEF CallTyped
  <2>2. /\ JournalOK(c.journal) /\ c.restore \subseteq Targets(c.journal)
        /\ c.journal.status = "applying" /\ c.tx \in Transactions
        /\ j.before = c.journal.before /\ j.after = c.journal.after
        /\ AreBefore(files, c.journal, Targets(c.journal) \ touched[call.tx])
        /\ AreBefore(files, c.journal, Targets(c.journal) \ disturbed)
        /\ k = Continue(c, "mkdir", j.planned, "compare", Targets(c.journal))
    BY <1>2, <1>4, <1>5, <1>6, <1>9, <1>10, <2>1
  <2>3. CallGood(Continue(c, "mkdir", j.planned, "compare", Targets(c.journal)),
                 j, files, touched[call.tx], disturbed)
    BY <1>4, <1>5, <1>10, <2>2, MakingGood
  <2>4. k.tx = c.tx
    BY <2>2, <1>10, ContinueFields
  <2> QED BY <1>10, <2>2, <2>3, <2>4
<1>12. WriteJournal(j, k)
  BY <1>3, <1>8, <1>9 DEF MarkApplying
<1>13. call.step \notin TrySteps \cup RollbackSteps
  BY <1>1 DEF TrySteps, RollbackSteps
<1> QED BY <1>1, <1>4, <1>5, <1>7, <1>11, <1>12, <1>13, WriteStep DEF MarkApplying

LEMMA RecordDirectoryStep == ASSUME IInv, RecordDirectory PROVE IInv'
<1> DEFINE D == call.journal.created \cup {call.target}
           T == call.todo \ {call.target}
<1>1. call.op = "apply" /\ call.step = "record"
  BY DEF RecordDirectory, IInv, CallOK, CallGood, CallTyped, CreateSteps, ApplySteps, TrySteps, RollbackSteps
<1>2. /\ CallTyped(call) /\ call.tx \in Transactions /\ DOMAIN call = Fields
      /\ JournalOK(call.journal) /\ DiskAgrees(call, journals[call.tx])
      /\ Progress(call, files, Targets(call.journal) \ touched[call.tx])
      /\ Progress(call, files, Undrifted(call, disturbed))
  BY <1>1, CallFacts
<1>3. PICK j : j = [call.journal EXCEPT !.created = D]
  OBVIOUS
<1>4. D \in SUBSET Dirs
  BY <1>1, <1>2 DEF CallTyped, JournalOK, IsJournal, Journal
<1>5. /\ JournalOK(j) /\ j.before = call.journal.before /\ j.after = call.journal.after
      /\ IsComplete(j) /\ Targets(j) = Targets(call.journal)
      /\ DOMAIN j.before = Targets(call.journal)
  <2>1. "applying" \in Statuses
    BY DEF Statuses
  <2> HIDE DEF D
  <2> QED BY <1>1, <1>3, <1>4, <2>1, NextJournal
<1>6. j.status = "applying"
  BY <1>1, <1>2, <1>3 DEF JournalOK, DiskAgrees
<1>7. /\ AreBefore(files, j, Targets(j) \ touched[call.tx])
      /\ AreBefore(files, j, Targets(j) \ disturbed)
  BY <1>1, <1>2, <1>5 DEF Progress, Undrifted, AreBefore
<1>8. Truth(files, j, DOMAIN j.before \ touched[call.tx])
  BY <1>5, <1>6, <1>7 DEF Truth, AreBefore, AreEither
<1>9. PICK c : c = [call EXCEPT !.journal = j]
  OBVIOUS
<1>10. PICK k : k = Continue(c, "mkdir", T, "compare", Targets(j))
  OBVIOUS
<1>11. /\ DOMAIN c = Fields /\ c.op = "apply" /\ c.tx = call.tx /\ c.restore = call.restore
       /\ c.journal = j
  BY <1>1, <1>2, <1>9, JournalFields
<1>12. CallGood(k, j, files, touched[call.tx], disturbed) /\ k.tx = call.tx
  <2>1. c.restore \subseteq Targets(j)
    BY <1>2, <1>5, <1>11 DEF CallTyped
  <2> HIDE DEF T
  <2>2. /\ JournalOK(c.journal) /\ c.restore \subseteq Targets(c.journal)
        /\ c.journal.status = "applying" /\ c.tx \in Transactions
        /\ j.before = c.journal.before /\ j.after = c.journal.after
        /\ AreBefore(files, c.journal, Targets(c.journal) \ touched[call.tx])
        /\ AreBefore(files, c.journal, Targets(c.journal) \ disturbed)
        /\ k = Continue(c, "mkdir", T, "compare", Targets(c.journal))
    BY <1>2, <1>5, <1>6, <1>7, <1>10, <1>11, <2>1
  <2>3. CallGood(Continue(c, "mkdir", T, "compare", Targets(c.journal)),
                 j, files, touched[call.tx], disturbed)
    BY <1>5, <1>6, <1>11, <2>2, MakingGood
  <2>4. k.tx = c.tx
    BY <2>2, <1>11, ContinueFields
  <2> QED BY <1>11, <2>2, <2>3, <2>4
<1>13. WriteJournal(j, k)
  BY <1>3, <1>9, <1>10 DEF RecordDirectory
<1>14. call.step \in TrySteps /\ call.step \notin RollbackSteps
  BY <1>1 DEF TrySteps, RollbackSteps
<1> QED BY <1>1, <1>5, <1>6, <1>8, <1>12, <1>13, <1>14, WriteStep DEF RecordDirectory

LEMMA MarkAppliedStep == ASSUME IInv, MarkApplied PROVE IInv'
<1>1. call.op = "apply" /\ call.step = "finish"
  BY DEF MarkApplied, IInv, CallOK, CallGood, CallTyped, CreateSteps, ApplySteps, TrySteps, RollbackSteps
<1>2. /\ JournalOK(call.journal)
      /\ Progress(call, files, Targets(call.journal) \ touched[call.tx])
  BY <1>1, CallFacts
<1>3. PICK j : j = [call.journal EXCEPT !.status = "applied"]
  OBVIOUS
<1>4. /\ JournalOK(j) /\ j.before = call.journal.before /\ j.after = call.journal.after
      /\ DOMAIN j.before = Targets(call.journal)
  BY <1>1, <1>3, NextJournal DEF Statuses
<1>5. j.status = "applied"
  BY <1>2, <1>3 DEF JournalOK
<1>6. Truth(files, j, DOMAIN j.before \ touched[call.tx])
  BY <1>1, <1>2, <1>4, <1>5 DEF Truth, Progress, AreAfter, Resumable
<1>7. CallGood(Idle, j, files, touched[call.tx], disturbed)
  BY IdleGood
<1>8. call.step \in TrySteps /\ call.step \notin RollbackSteps
  BY <1>1 DEF TrySteps, RollbackSteps
<1>9. WriteJournal(j, Idle)
  BY <1>3 DEF MarkApplied
<1> QED BY <1>1, <1>4, <1>5, <1>6, <1>7, <1>8, <1>9, WriteStep DEF MarkApplied

\* A rollback whose targets are as they were before the transaction.
LEMMA RestoredGood ==
  ASSUME NEW c, NEW d, NEW fs, NEW others, NEW edited,
         DOMAIN c = Fields, JournalOK(c.journal), c.op \in {"apply", "rollback"},
         c.tx \in Transactions, c.restore \subseteq Targets(c.journal),
         d.before = c.journal.before, d.after = c.journal.after, IsComplete(d),
         d.status = "rolling-back",
         AreBefore(fs, c.journal, Targets(c.journal) \ others),
         AreBefore(fs, c.journal, Targets(c.journal) \ edited)
  PROVE  CallGood(AfterRestores(c), d, fs, others, edited)
<1>0. PICK k : k = AfterRestores(c)
  OBVIOUS
<1>1. k = Continue(c, "rmdir", c.journal.created, "verifyBefore", Targets(c.journal))
  BY <1>0 DEF AfterRestores
<1>2. /\ DOMAIN k = Fields /\ k.op = c.op /\ k.tx = c.tx /\ k.journal = c.journal
      /\ k.restore = c.restore
      /\ \/ k.step = "rmdir"
         \/ k.step = "verifyBefore" /\ k.todo = Targets(c.journal)
  BY <1>1, ContinueFields
<1>3. CallTyped(k)
  BY <1>2 DEF CallTyped, CreateSteps, ApplySteps, TrySteps, RollbackSteps, Steps, DirSteps
<1>4. DiskAgrees(k, d)
  BY <1>2 DEF DiskAgrees, TrySteps
<1>5. ASSUME NEW P \in SUBSET Targets(c.journal), AreBefore(fs, c.journal, P)
      PROVE  Progress(k, fs, P)
  BY <1>2, <1>5 DEF Progress
<1>6. Undrifted(k, edited) = Targets(c.journal) \ edited
  BY <1>2 DEF Undrifted
<1> QED BY <1>0, <1>2, <1>3, <1>4, <1>5, <1>6 DEF CallGood, Creating

LEMMA AfterRestoresTx ==
  ASSUME NEW c, DOMAIN c = Fields PROVE AfterRestores(c).tx = c.tx
BY ContinueFields DEF AfterRestores

LEMMA MarkRollingBackStep == ASSUME IInv, MarkRollingBack PROVE IInv'
<1>1. call.op \in {"apply", "rollback"} /\ call.step = "undo"
  BY DEF MarkRollingBack, IInv, CallOK, CallGood, CallTyped, CreateSteps, ApplySteps, TrySteps, RollbackSteps
<1>2. /\ CallTyped(call) /\ call.tx \in Transactions /\ DOMAIN call = Fields
      /\ JournalOK(call.journal) /\ DiskAgrees(call, journals[call.tx])
      /\ Progress(call, files, Targets(call.journal) \ touched[call.tx])
      /\ Progress(call, files, Undrifted(call, disturbed))
  BY <1>1, CallFacts
<1>3. PICK j : j = [call.journal EXCEPT !.status = "rolling-back"]
  OBVIOUS
<1>4. /\ JournalOK(j) /\ j.before = call.journal.before /\ j.after = call.journal.after
      /\ IsComplete(j) /\ Targets(j) = Targets(call.journal)
      /\ DOMAIN j.before = Targets(call.journal)
  BY <1>1, <1>3, NextJournal DEF Statuses
<1>5. j.status = "rolling-back"
  BY <1>2, <1>3 DEF JournalOK
<1>6. call.todo = {}
  BY <1>1, <1>2 DEF CallTyped
<1>7. /\ AreSplit(files, j, Targets(j) \ touched[call.tx], call.restore)
      /\ AreSplit(files, j, Targets(j) \ disturbed, call.restore)
  BY <1>1, <1>2, <1>4, <1>6 DEF Progress, Undrifted, AreSplit
<1>8. Truth(files, j, DOMAIN j.before \ touched[call.tx])
  BY <1>4, <1>5, <1>7 DEF Truth, AreSplit, AreEither
<1>9. PICK c : c = [call EXCEPT !.journal = j]
  OBVIOUS
<1>10. /\ DOMAIN c = Fields /\ c.op = call.op /\ c.tx = call.tx /\ c.restore = call.restore
       /\ c.journal = j
  BY <1>1, <1>2, <1>9, JournalFields
<1>11. c.restore \subseteq Targets(j)
  BY <1>2, <1>4, <1>10 DEF CallTyped
<1>12. PICK k : k = IF c.restore = {} THEN AfterRestores(c)
                    ELSE [c EXCEPT !.step = "recompare", !.todo = c.restore]
  OBVIOUS
<1>13. CallGood(k, j, files, touched[call.tx], disturbed) /\ k.tx = call.tx
  <2>1. CASE c.restore = {}
    <3>1. k = AfterRestores(c)
      BY <1>12, <2>1
    <3>2. /\ AreBefore(files, c.journal, Targets(c.journal) \ touched[call.tx])
          /\ AreBefore(files, c.journal, Targets(c.journal) \ disturbed)
      BY <1>7, <1>10, <2>1 DEF AreSplit, AreBefore
    <3>3. /\ JournalOK(c.journal) /\ c.restore \subseteq Targets(c.journal)
          /\ c.tx \in Transactions /\ c.op \in {"apply", "rollback"}
          /\ j.before = c.journal.before /\ j.after = c.journal.after
      BY <1>1, <1>2, <1>4, <1>10, <1>11
    <3>4. CallGood(AfterRestores(c), j, files, touched[call.tx], disturbed)
      BY <1>4, <1>5, <1>10, <3>2, <3>3, RestoredGood
    <3> QED BY <1>10, <3>1, <3>4, AfterRestoresTx
  <2>2. CASE c.restore # {}
    <3>1. /\ DOMAIN k = Fields /\ k.op = call.op /\ k.tx = call.tx /\ k.journal = j
          /\ k.restore = call.restore /\ k.step = "recompare" /\ k.todo = call.restore
      BY <1>10, <1>12, <2>2 DEF Fields
    <3>2. CallTyped(k)
      BY <1>1, <1>2, <1>4, <1>10, <1>11, <3>1
        DEF CallTyped, CreateSteps, ApplySteps, TrySteps, RollbackSteps, Steps, DirSteps
    <3>3. DiskAgrees(k, j)
      BY <1>4, <1>5, <3>1 DEF DiskAgrees, TrySteps
    <3>4. Undrifted(k, disturbed) = Targets(j) \ disturbed
      BY <3>1 DEF Undrifted
    <3>5. \A P : AreSplit(files, j, P, call.restore) => Progress(k, files, P)
      BY <3>1 DEF Progress
    <3> QED BY <1>1, <1>7, <3>1, <3>2, <3>3, <3>4, <3>5 DEF CallGood, Creating
  <2> QED BY <2>1, <2>2
<1>14. WriteJournal(j, k)
  BY <1>3, <1>9, <1>12 DEF MarkRollingBack
<1>15. call.step \notin TrySteps
  BY <1>1 DEF TrySteps
<1> QED BY <1>1, <1>4, <1>5, <1>8, <1>13, <1>14, <1>15, WriteStep DEF MarkRollingBack, Resumable

LEMMA MarkRolledBackStep == ASSUME IInv, MarkRolledBack PROVE IInv'
<1>1. call.op \in {"apply", "rollback"} /\ call.step = "conclude"
  BY DEF MarkRolledBack, IInv, CallOK, CallGood, CallTyped, CreateSteps, ApplySteps, TrySteps, RollbackSteps
<1>2. /\ JournalOK(call.journal)
      /\ Progress(call, files, Targets(call.journal) \ touched[call.tx])
  BY <1>1, CallFacts
<1>3. PICK s \in {"rolled-back", "failed-rolled-back"} :
        s = IF call.op = "apply" THEN "failed-rolled-back" ELSE "rolled-back"
  OBVIOUS
<1>4. PICK j : j = [call.journal EXCEPT !.status = s]
  OBVIOUS
<1>5. s \in Statuses
  BY DEF Statuses
<1>6. /\ JournalOK(j) /\ j.before = call.journal.before /\ j.after = call.journal.after
      /\ DOMAIN j.before = Targets(call.journal)
  BY <1>1, <1>4, <1>5, NextJournal
<1>7. j.status = s
  BY <1>2, <1>4 DEF JournalOK
<1>8. Truth(files, j, DOMAIN j.before \ touched[call.tx])
  BY <1>1, <1>2, <1>6, <1>7 DEF Truth, Progress, AreBefore, Resumable
<1>9. CallGood(Idle, j, files, touched[call.tx], disturbed)
  BY IdleGood
<1>10. call.step \notin TrySteps
  BY <1>1 DEF TrySteps
<1>11. WriteJournal(j, Idle)
  BY <1>3, <1>4 DEF MarkRolledBack
<1> QED BY <1>1, <1>6, <1>7, <1>8, <1>9, <1>10, <1>11, WriteStep DEF MarkRolledBack

LEMMA MarkConflictedStep == ASSUME IInv, MarkConflicted PROVE IInv'
<1>1. /\ call.op \in {"apply", "rollback"} /\ call.step \in {"unrestored", "conflicted"}
      /\ call.step = "conflicted" => call.op = "apply"
  BY DEF MarkConflicted, IInv, CallOK, CallGood, CallTyped, CreateSteps, ApplySteps, TrySteps, RollbackSteps
<1>2. /\ CallTyped(call) /\ JournalOK(call.journal) /\ DOMAIN call = Fields
      /\ DiskAgrees(call, journals[call.tx])
  BY <1>1, CallFacts
<1>3. PICK j : j = [call.journal EXCEPT !.status = "failed-conflicted"]
  OBVIOUS
<1>4. /\ JournalOK(j) /\ j.before = call.journal.before /\ j.after = call.journal.after
      /\ IsComplete(j) /\ DOMAIN j.before = Targets(call.journal)
  BY <1>1, <1>3, NextJournal DEF Statuses
<1>5. j.status = "failed-conflicted"
  BY <1>2, <1>3 DEF JournalOK
<1>6. AreEither(files, j, Targets(call.journal) \ touched[call.tx])
  <2>1. journals[call.tx].status \in
          Resumable \cup {"applied", "rolled-back", "failed-rolled-back"}
    BY <1>1, <1>2 DEF DiskAgrees, Resumable
  <2> QED BY <1>1, <1>4, <2>1, OwnTruth DEF Truth, AreEither, AreAfter, AreBefore
<1>7. Truth(files, j, DOMAIN j.before \ touched[call.tx])
  BY <1>4, <1>5, <1>6 DEF Truth
<1>8. PICK c : c = [call EXCEPT !.journal = j]
  OBVIOUS
<1>9. /\ DOMAIN c = Fields /\ c.op = call.op /\ c.tx = call.tx /\ c.restore = call.restore
      /\ c.journal = j /\ c.step = call.step /\ c.todo = call.todo /\ c.target = call.target
  BY <1>2, <1>8, JournalFields
<1>10. CallTyped(c)
  BY <1>1, <1>2, <1>4, <1>9 DEF CallTyped, Targets
<1>11. PICK k : k = AfterError(c)
  OBVIOUS
<1>12. CallGood(k, j, files, touched[call.tx], disturbed) /\ (k = Idle \/ k.tx = call.tx)
  <2>1. c.step \notin TrySteps /\ c.op \in {"apply", "rollback"}
    BY <1>1, <1>9 DEF TrySteps
  <2>2. j.before = c.journal.before /\ j.after = c.journal.after
    BY <1>9
  <2>3. j.status \in Resumable \cup {"applied", "rolled-back", "failed-rolled-back"}
    BY <1>5 DEF Resumable
  <2> QED BY <1>4, <1>9, <1>10, <1>11, <2>1, <2>2, <2>3, ErrorGood
<1>13. WriteJournal(j, k)
  BY <1>3, <1>8, <1>11 DEF MarkConflicted
<1>14. call.step \notin TrySteps /\ j.status \in Resumable
  BY <1>1, <1>5 DEF TrySteps, Resumable
<1> QED BY <1>1, <1>4, <1>5, <1>7, <1>12, <1>13, <1>14, WriteStep DEF MarkConflicted

LEMMA DirsStep ==
  ASSUME IInv, UNCHANGED <<files, journals, edits, touched, disturbed>>, CallOK',
         dirs' \subseteq Dirs,
         \A p \in Paths : files[p] # Absent => DirsAbove[p] \subseteq dirs'
  PROVE  IInv'
BY DEF IInv, FilesOK, JournalsOK, JournalsTrue

LEMMA MakeDirectoryStep == ASSUME IInv, NEW e \in Dirs, MakeDirectory(e) PROVE IInv'
<1> DEFINE T == call.todo \ {e}
           d == journals[call.tx]
<1>1. call.op = "apply" /\ call.step = "mkdir"
  BY DEF MakeDirectory, IInv, CallOK, CallGood, CallTyped, CreateSteps, ApplySteps, TrySteps, RollbackSteps
<1>2. /\ CallTyped(call) /\ call.tx \in Transactions /\ DOMAIN call = Fields
      /\ JournalOK(call.journal) /\ DiskAgrees(call, d)
      /\ Progress(call, files, Targets(call.journal) \ touched[call.tx])
      /\ Progress(call, files, Undrifted(call, disturbed))
  BY <1>1, CallFacts
<1>3. /\ AreBefore(files, call.journal, Targets(call.journal) \ touched[call.tx])
      /\ AreBefore(files, call.journal, Targets(call.journal) \ disturbed)
  BY <1>1, <1>2 DEF Progress, Undrifted
<1>4. CallOK'
  <2>1. PICK k : k = call'
    OBVIOUS
  <2>2. CASE call' = Continue(call, "mkdir", T, "compare", Targets(call.journal))
    <3>1. /\ d.status = "applying" /\ call.journal.status = "applying" /\ IsComplete(d)
          /\ d.before = call.journal.before /\ d.after = call.journal.after
          /\ call.restore \subseteq Targets(call.journal)
      BY <1>1, <1>2 DEF DiskAgrees, TrySteps, CallTyped
    <3> HIDE DEF T, d
    <3>2. CallGood(Continue(call, "mkdir", T, "compare", Targets(call.journal)),
                   d, files, touched[call.tx], disturbed)
      BY <1>1, <1>2, <1>3, <3>1, MakingGood
    <3>3. k.tx = call.tx
      BY <1>2, <2>1, <2>2, ContinueFields
    <3> QED BY <2>1, <2>2, <3>2, <3>3 DEF CallOK, MakeDirectory, d
  <2>3. CASE call' = [call EXCEPT !.step = "record", !.target = e]
    <3>1. /\ DOMAIN k = Fields /\ k.op = "apply" /\ k.tx = call.tx
          /\ k.restore = call.restore /\ k.journal = call.journal
          /\ k.step = "record" /\ k.target = e
      BY <1>1, <1>2, <2>1, <2>3 DEF Fields
    <3>2. CallTyped(k)
      BY <1>1, <1>2, <3>1 DEF CallTyped, CreateSteps, ApplySteps, TrySteps, RollbackSteps, Steps, DirSteps
    <3>3. DiskAgrees(k, d)
      BY <1>1, <1>2, <3>1 DEF DiskAgrees, TrySteps
    <3>4. Undrifted(k, disturbed) = Undrifted(call, disturbed)
      BY <1>1, <3>1 DEF Undrifted
    <3>5. \A P : Progress(call, files, P) => Progress(k, files, P)
      BY <1>1, <3>1 DEF Progress
    <3> QED BY <1>2, <2>1, <3>1, <3>2, <3>3, <3>4, <3>5 DEF CallOK, CallGood, Creating, MakeDirectory
  <2> QED BY <2>2, <2>3 DEF MakeDirectory
<1>5. dirs \subseteq dirs' /\ dirs' \subseteq Dirs
  BY DEF MakeDirectory, IInv, FilesOK
<1>6. \A p \in Paths : files[p] # Absent => DirsAbove[p] \subseteq dirs'
  BY <1>5 DEF IInv, FilesOK
<1> QED BY <1>4, <1>5, <1>6, DirsStep DEF MakeDirectory

LEMMA RemoveDirectoryStep == ASSUME IInv, NEW e \in Dirs, RemoveDirectory(e) PROVE IInv'
<1> DEFINE T == call.todo \ {e}
           d == journals[call.tx]
<1>1. call.op \in {"apply", "rollback"} /\ call.step = "rmdir"
  BY DEF RemoveDirectory, IInv, CallOK, CallGood, CallTyped, CreateSteps, ApplySteps, TrySteps, RollbackSteps
<1>2. /\ CallTyped(call) /\ call.tx \in Transactions /\ DOMAIN call = Fields
      /\ JournalOK(call.journal) /\ DiskAgrees(call, d)
      /\ Progress(call, files, Targets(call.journal) \ touched[call.tx])
      /\ Progress(call, files, Undrifted(call, disturbed))
  BY <1>1, CallFacts
<1>3. CallOK'
  <2>1. PICK k : k = call'
    OBVIOUS
  <2>2. k = Continue(call, "rmdir", T, "verifyBefore", Targets(call.journal))
    BY <2>1 DEF RemoveDirectory
  <2>3. /\ DOMAIN k = Fields /\ k.op = call.op /\ k.tx = call.tx
        /\ k.restore = call.restore /\ k.journal = call.journal
        /\ \/ k.step = "rmdir"
           \/ k.step = "verifyBefore" /\ k.todo = Targets(call.journal)
    BY <1>2, <2>2, ContinueFields
  <2>4. CallTyped(k)
    BY <1>1, <1>2, <2>3 DEF CallTyped, CreateSteps, ApplySteps, TrySteps, RollbackSteps, Steps, DirSteps
  <2>5. DiskAgrees(k, d)
    BY <1>1, <1>2, <2>3 DEF DiskAgrees, TrySteps
  <2>6. Undrifted(k, disturbed) = Undrifted(call, disturbed)
    BY <1>1, <2>3 DEF Undrifted
  <2>7. \A P : Progress(call, files, P) => Progress(k, files, P)
    BY <1>1, <2>3 DEF Progress
  <2> QED BY <1>1, <1>2, <2>1, <2>3, <2>4, <2>5, <2>6, <2>7
        DEF CallOK, CallGood, Creating, RemoveDirectory
<1>4. dirs' \subseteq Dirs
  BY DEF RemoveDirectory, IInv, FilesOK
<1>5. \A p \in Paths : files[p] # Absent => DirsAbove[p] \subseteq dirs'
  BY DEF RemoveDirectory, Empty, IInv, FilesOK
<1> QED BY <1>3, <1>4, <1>5, DirsStep DEF RemoveDirectory

-----------------------------------------------------------------------------
(* The steps that change files.                                            *)

\* Progress with some of the files, when these have not changed.
LEMMA ProgressFewer ==
  ASSUME NEW c, NEW fs, NEW fs2, NEW P, NEW P2 \in SUBSET P,
         \A q \in P2 : fs2[q] = fs[q], Progress(c, fs, P)
  PROVE  Progress(c, fs2, P2)
BY DEF Progress, AreBefore, AreAfter, AreSplit

LEMMA TruthFewer ==
  ASSUME NEW j, NEW fs, NEW fs2, NEW P, NEW P2 \in SUBSET P,
         \A q \in P2 : fs2[q] = fs[q], Truth(fs, j, P)
  PROVE  Truth(fs2, j, P2)
BY DEF Truth, AreBefore, AreAfter, AreEither

LEMMA EditStep == ASSUME IInv, NEW p \in Paths, Edit(p) PROVE IInv'
<1>1. PICK image \in FileStates :
        /\ files' = [files EXCEPT ![p] = image]
        /\ dirs' = IF image = Absent THEN dirs ELSE dirs \cup DirsAbove[p]
  BY DEF Edit
<1>2. /\ files' \in [Paths -> FileStates] /\ files'[p] = image
      /\ \A q \in Paths \ {p} : files'[q] = files[q]
  BY <1>1 DEF IInv, FilesOK
<1>3. /\ DOMAIN touched' = Transactions
      /\ \A t \in Transactions : touched'[t] = touched[t] \cup {p}
      /\ disturbed' = disturbed \cup {p} /\ UNCHANGED <<journals, call>>
  BY DEF Edit
<1>4. FilesOK'
  <2>1. dirs \subseteq dirs' /\ dirs' \subseteq Dirs
    BY <1>1, TransactionAssumption DEF IInv, FilesOK
  <2>2. ASSUME NEW q \in Paths, files'[q] # Absent PROVE DirsAbove[q] \subseteq dirs'
    BY <1>1, <1>2, <2>1, <2>2 DEF IInv, FilesOK
  <2>3. edits' \in 0..MaxEdits
    BY TransactionAssumption DEF IInv, FilesOK, Edit
  <2> QED BY <1>2, <1>3, <2>1, <2>2, <2>3 DEF FilesOK
<1>5. JournalsOK'
  BY <1>3 DEF IInv, JournalsOK
<1>6. JournalsTrue'
  <2> SUFFICES ASSUME NEW t \in Transactions
               PROVE  Truth(files', journals[t], DOMAIN journals[t].before \ touched'[t])
    BY <1>3 DEF JournalsTrue
  <2>1. PICK P : P = DOMAIN journals[t].before \ touched[t]
    OBVIOUS
  <2>2. PICK P2 : P2 = DOMAIN journals[t].before \ touched'[t]
    OBVIOUS
  <2>3. Truth(files, journals[t], P) /\ JournalOK(journals[t])
    BY <2>1 DEF IInv, JournalsTrue, JournalsOK
  <2>4. P2 \in SUBSET P /\ \A q \in P2 : files'[q] = files[q]
    BY <1>2, <1>3, <2>1, <2>2, <2>3 DEF JournalOK, IsJournal, IsImageMap
  <2> QED BY <2>2, <2>3, <2>4, TruthFewer
<1>7. CASE call.op = "idle"
  <2>1. call = Idle
    BY <1>7 DEF IInv, CallOK, CallGood, CallTyped
  <2>2. CallOK'
    BY <1>3, <2>1, IdleGood DEF CallOK
  <2> QED BY <1>4, <1>5, <1>6, <2>2 DEF IInv
<1>8. CASE call.op # "idle"
  <2> DEFINE G == Targets(call.journal)
  <2>1. /\ CallTyped(call) /\ call.tx \in Transactions
        /\ JournalOK(call.journal)
        /\ DiskAgrees(call, journals[call.tx])
        /\ Progress(call, files, G \ touched[call.tx])
        /\ Progress(call, files, Undrifted(call, disturbed))
        /\ Creating(call, files, touched[call.tx])
    BY <1>8, CallFacts DEF IInv, CallOK, CallGood, CallTyped
  <2>2. G \subseteq Paths /\ DOMAIN call.journal.before \subseteq Paths
    BY <2>1 DEF JournalOK, IsJournal, IsImageMap, Targets
  <2>3. Progress(call, files', G \ touched'[call.tx])
    <3>1. PICK P : P = G \ touched[call.tx]
      OBVIOUS
    <3>2. PICK P2 : P2 = G \ touched'[call.tx]
      OBVIOUS
    <3>3. P2 \in SUBSET P /\ \A q \in P2 : files'[q] = files[q]
      BY <1>2, <1>3, <2>1, <2>2, <3>1, <3>2
    <3> QED BY <2>1, <3>1, <3>2, <3>3, ProgressFewer
  <2>4. Progress(call, files', Undrifted(call, disturbed'))
    <3>1. PICK P : P = Undrifted(call, disturbed)
      OBVIOUS
    <3>2. PICK P2 : P2 = Undrifted(call, disturbed')
      OBVIOUS
    <3>3. P2 \in SUBSET P /\ \A q \in P2 : files'[q] = files[q]
      BY <1>2, <1>3, <2>2, <3>1, <3>2 DEF Undrifted
    <3> QED BY <2>1, <3>1, <3>2, <3>3, ProgressFewer
  <2>5. Creating(call, files', touched'[call.tx])
    BY <1>2, <1>3, <2>1, <2>2 DEF Creating, AreBefore
  <2>6. CallOK'
    BY <1>3, <2>1, <2>3, <2>4, <2>5 DEF CallOK, CallGood
  <2> QED BY <1>4, <1>5, <1>6, <2>6 DEF IInv
<1> QED BY <1>7, <1>8

\* A file of the transaction in progress goes from one image to the other.
LEMMA PutFacts ==
  ASSUME IInv, call.tx \in Transactions, NEW p \in Paths, NEW from \in FileStates, NEW to \in FileStates,
         Put(p, from, to), UNCHANGED <<dirs, edits>>
  PROVE  /\ FilesOK'
         /\ files[p] = from => files'[p] = to
         /\ \A q \in Paths \ {p} : files'[q] = files[q]
         /\ touched'[call.tx] = touched[call.tx]
         /\ \A t \in Transactions : touched[t] \subseteq touched'[t]
         /\ \A t \in Transactions \ {call.tx} : files'[p] # files[p] => p \in touched'[t]
<1>1. /\ files' = [files EXCEPT ![p] = IF from = to /\ to = Absent THEN files[p] ELSE to]
      /\ to # Absent => DirsAbove[p] \subseteq dirs
  BY DEF Put, Feasible
<1>2. /\ files' \in [Paths -> FileStates]
      /\ files'[p] = IF from = to /\ to = Absent THEN files[p] ELSE to
      /\ \A q \in Paths \ {p} : files'[q] = files[q]
  BY <1>1 DEF IInv, FilesOK
<1>3. /\ DOMAIN touched' = Transactions
      /\ touched'[call.tx] = touched[call.tx]
      /\ \A t \in Transactions : touched[t] \subseteq touched'[t]
      /\ \A t \in Transactions \ {call.tx} : files'[p] # files[p] => p \in touched'[t]
  BY DEF Put
<1>4. ASSUME NEW q \in Paths, files'[q] # Absent PROVE DirsAbove[q] \subseteq dirs
  BY <1>1, <1>2, <1>4 DEF IInv, FilesOK
<1>5. FilesOK'
  BY <1>2, <1>3, <1>4 DEF IInv, FilesOK
<1> QED BY <1>2, <1>3, <1>5

\* What other journals say is kept; the transaction's own is resumable.
LEMMA PutKeepsTruth ==
  ASSUME IInv, call.tx \in Transactions, NEW p \in Paths,
         \A q \in Paths \ {p} : files'[q] = files[q],
         \A t \in Transactions : touched[t] \subseteq touched'[t],
         \A t \in Transactions \ {call.tx} : files'[p] # files[p] => p \in touched'[t],
         Truth(files', journals[call.tx], DOMAIN journals[call.tx].before \ touched'[call.tx]),
         UNCHANGED journals
  PROVE  JournalsTrue'
<1> SUFFICES ASSUME NEW t \in Transactions
             PROVE  Truth(files', journals[t], DOMAIN journals[t].before \ touched'[t])
  BY DEF JournalsTrue
<1>1. CASE t = call.tx
  BY <1>1
<1>2. CASE t # call.tx
  <2>1. PICK P : P = DOMAIN journals[t].before \ touched[t]
    OBVIOUS
  <2>2. PICK P2 : P2 = DOMAIN journals[t].before \ touched'[t]
    OBVIOUS
  <2>3. Truth(files, journals[t], P) /\ JournalOK(journals[t])
    BY <2>1 DEF IInv, JournalsTrue, JournalsOK
  <2>4. P2 \in SUBSET P /\ \A q \in P2 : files'[q] = files[q]
    BY <1>2, <2>1, <2>2, <2>3 DEF JournalOK, IsJournal, IsImageMap
  <2> QED BY <2>2, <2>3, <2>4, TruthFewer
<1> QED BY <1>1, <1>2

LEMMA ReplaceStep == ASSUME IInv, Replace PROVE IInv'
<1> DEFINE p == call.target
           j == call.journal
           d == journals[call.tx]
           rest == call.todo \ {p}
           X == Targets(j) \ touched[call.tx]
           Y == Targets(j) \ disturbed
<1>1. call.op = "apply" /\ call.step = "replace"
  BY DEF Replace, IInv, CallOK, CallGood, CallTyped, CreateSteps, ApplySteps, TrySteps, RollbackSteps
<1>2. /\ CallTyped(call) /\ call.tx \in Transactions /\ DOMAIN call = Fields
      /\ JournalOK(j) /\ DiskAgrees(call, d)
      /\ Progress(call, files, X)
      /\ Progress(call, files, Undrifted(call, disturbed))
  BY <1>1, CallFacts
<1>3. p \in call.todo /\ p \in Targets(j) /\ call.todo \subseteq Targets(j)
  BY <1>1, <1>2 DEF CallTyped, Steps, TrySteps, DirSteps
<1>4. Targets(j) \subseteq Paths /\ IsComplete(j)
  BY <1>1, <1>2 DEF JournalOK, IsJournal, IsImageMap, Targets, DiskAgrees, IsComplete
<1>5. j.before[p] \in FileStates /\ j.after[p] \in FileStates
  BY <1>2, <1>3, <1>4 DEF JournalOK, IsJournal, IsImageMap, Targets, IsComplete
<1>6. /\ FilesOK'
      /\ files[p] = j.before[p] => files'[p] = j.after[p]
      /\ \A q \in Paths \ {p} : files'[q] = files[q]
      /\ touched'[call.tx] = touched[call.tx]
      /\ \A t \in Transactions : touched[t] \subseteq touched'[t]
      /\ \A t \in Transactions \ {call.tx} : files'[p] # files[p] => p \in touched'[t]
  <2>1. p \in Paths /\ Put(p, j.before[p], j.after[p]) /\ UNCHANGED <<dirs, edits>>
    BY <1>3, <1>4 DEF Replace
  <2> HIDE DEF p, j
  <2> QED BY <1>2, <1>5, <2>1, PutFacts
<1>7. AreSplit(files', j, X, X \ rest) /\ AreSplit(files', j, Y, Y \ rest)
  <2>1. AreSplit(files, j, X, X \ call.todo) /\ AreSplit(files, j, Y, Y \ call.todo)
    BY <1>1, <1>2 DEF Progress, Undrifted
  <2>2. ASSUME NEW P \in SUBSET Targets(j), AreSplit(files, j, P, P \ call.todo)
        PROVE  AreSplit(files', j, P, P \ rest)
    BY <1>3, <1>4, <1>6, <2>2 DEF AreSplit
  <2> QED BY <2>1, <2>2
<1>8. JournalsTrue'
  <2>1. d.status = "applying" /\ d.before = j.before /\ d.after = j.after
        /\ DOMAIN d.before = Targets(j)
    BY <1>1, <1>2 DEF DiskAgrees, TrySteps, IsComplete, Targets
  <2>2. AreEither(files', d, X)
    BY <1>7, <2>1 DEF AreSplit, AreEither
  <2>3. Truth(files', d, DOMAIN d.before \ touched'[call.tx])
    BY <1>6, <2>1, <2>2 DEF Truth
  <2>4. p \in Paths /\ UNCHANGED journals
    BY <1>3, <1>4 DEF Replace
  <2> HIDE DEF p
  <2> QED BY <1>2, <1>6, <2>3, <2>4, PutKeepsTruth
<1>9. PICK k : k = call'
  OBVIOUS
<1>10. /\ DOMAIN k = Fields /\ k.op = "apply" /\ k.tx = call.tx /\ k.restore = call.restore
       /\ k.journal = j
       /\ rest # {} => k.step = "compare" /\ k.todo = rest
       /\ rest = {} => k.step = "verify" /\ k.todo = Targets(j)
  <2>1. k = Continue(call, "compare", rest, "verify", Targets(j))
    BY <1>9 DEF Replace
  <2> HIDE DEF rest, j
  <2>2. /\ DOMAIN k = Fields /\ k.op = call.op /\ k.tx = call.tx /\ k.restore = call.restore
        /\ k.journal = call.journal
        /\ rest # {} => k.step = "compare" /\ k.todo = rest
        /\ rest = {} => k.step = "verify" /\ k.todo = Targets(j)
    BY <1>2, <2>1, ContinueFields
  <2> QED BY <1>1, <2>2 DEF j
<1>11. CallTyped(k)
  BY <1>1, <1>2, <1>3, <1>10 DEF CallTyped, CreateSteps, ApplySteps, TrySteps, RollbackSteps, Steps, DirSteps
<1>12. DiskAgrees(k, d)
  BY <1>1, <1>2, <1>10 DEF DiskAgrees, TrySteps
<1>13. ASSUME NEW P \in SUBSET Targets(j), AreSplit(files', j, P, P \ rest)
       PROVE  Progress(k, files', P)
  BY <1>10, <1>13 DEF Progress, AreSplit, AreAfter
<1>14. Undrifted(k, disturbed) = Y
  BY <1>10 DEF Undrifted
<1>15. Progress(k, files', X) /\ Progress(k, files', Y)
  BY <1>7, <1>13
<1>16. CallOK'
  BY <1>6, <1>9, <1>10, <1>11, <1>12, <1>14, <1>15 DEF CallOK, CallGood, Creating, Replace
<1> QED BY <1>6, <1>8, <1>16 DEF IInv, JournalsOK, Replace

LEMMA RestoreStep == ASSUME IInv, Restore PROVE IInv'
<1> DEFINE p == call.target
           j == call.journal
           d == journals[call.tx]
           rest == call.todo \ {p}
           X == Targets(j) \ touched[call.tx]
           Y == Targets(j) \ disturbed
<1>1. call.op \in {"apply", "rollback"} /\ call.step = "restore"
  BY DEF Restore, IInv, CallOK, CallGood, CallTyped, CreateSteps, ApplySteps, TrySteps, RollbackSteps
<1>2. /\ CallTyped(call) /\ call.tx \in Transactions /\ DOMAIN call = Fields
      /\ JournalOK(j) /\ DiskAgrees(call, d)
      /\ Progress(call, files, X)
      /\ Progress(call, files, Undrifted(call, disturbed))
  BY <1>1, CallFacts
<1>3. p \in call.todo /\ p \in Targets(j) /\ call.todo \subseteq Targets(j)
  BY <1>1, <1>2 DEF CallTyped, Steps, RollbackSteps, DirSteps
<1>4. Targets(j) \subseteq Paths /\ IsComplete(j)
  BY <1>1, <1>2 DEF JournalOK, IsJournal, IsImageMap, Targets, DiskAgrees, IsComplete
<1>5. j.before[p] \in FileStates /\ j.after[p] \in FileStates
  BY <1>2, <1>3, <1>4 DEF JournalOK, IsJournal, IsImageMap, Targets, IsComplete
<1>6. /\ FilesOK'
      /\ files[p] = j.after[p] => files'[p] = j.before[p]
      /\ \A q \in Paths \ {p} : files'[q] = files[q]
      /\ touched'[call.tx] = touched[call.tx]
      /\ \A t \in Transactions : touched[t] \subseteq touched'[t]
      /\ \A t \in Transactions \ {call.tx} : files'[p] # files[p] => p \in touched'[t]
  <2>1. p \in Paths /\ Put(p, j.after[p], j.before[p]) /\ UNCHANGED <<dirs, edits>>
    BY <1>3, <1>4 DEF Restore
  <2> HIDE DEF p, j
  <2> QED BY <1>2, <1>5, <2>1, PutFacts
<1>7. AreSplit(files', j, X, rest) /\ AreSplit(files', j, Y, rest)
  <2>1. AreSplit(files, j, X, call.todo) /\ AreSplit(files, j, Y, call.todo)
    BY <1>1, <1>2 DEF Progress, Undrifted
  <2>2. ASSUME NEW P \in SUBSET Targets(j), AreSplit(files, j, P, call.todo)
        PROVE  AreSplit(files', j, P, rest)
    BY <1>3, <1>4, <1>6, <2>2 DEF AreSplit
  <2> QED BY <2>1, <2>2
<1>8. /\ d.status = "rolling-back" /\ d.before = j.before /\ d.after = j.after
      /\ DOMAIN d.before = Targets(j) /\ IsComplete(d)
  BY <1>1, <1>2 DEF DiskAgrees, IsComplete, Targets
<1>9. JournalsTrue'
  <2>1. AreEither(files', d, X)
    BY <1>7, <1>8 DEF AreSplit, AreEither
  <2>2. Truth(files', d, DOMAIN d.before \ touched'[call.tx])
    BY <1>6, <1>8, <2>1 DEF Truth
  <2>3. p \in Paths /\ UNCHANGED journals
    BY <1>3, <1>4 DEF Restore
  <2> HIDE DEF p
  <2> QED BY <1>2, <1>6, <2>2, <2>3, PutKeepsTruth
<1>10. PICK k : k = call'
  OBVIOUS
<1>11. CallGood(k, d, files', touched[call.tx], disturbed) /\ k.tx = call.tx
  <2>1. call.restore \subseteq Targets(j)
    BY <1>2 DEF CallTyped
  <2>2. CASE rest = {}
    <3>1. k = AfterRestores(call)
      BY <1>10, <2>2 DEF Restore
    <3>2. AreBefore(files', j, X) /\ AreBefore(files', j, Y)
      BY <1>7, <2>2 DEF AreSplit, AreBefore
    <3>3. CallGood(AfterRestores(call), d, files', touched[call.tx], disturbed)
      BY <1>1, <1>2, <1>8, <2>1, <3>2, RestoredGood
    <3> QED BY <1>2, <3>1, <3>3, AfterRestoresTx
  <2>3. CASE rest # {}
    <3>1. k = Continue(call, "recompare", rest, "rmdir", {})
      BY <1>10, <2>3 DEF Restore
    <3>2. /\ DOMAIN k = Fields /\ k.op = call.op /\ k.tx = call.tx /\ k.restore = call.restore
          /\ k.journal = j /\ k.step = "recompare" /\ k.todo = rest
      BY <1>2, <2>3, <3>1, ContinueFields
    <3>3. CallTyped(k)
      BY <1>1, <1>2, <1>3, <3>2 DEF CallTyped, CreateSteps, ApplySteps, TrySteps, RollbackSteps, Steps, DirSteps
    <3>4. DiskAgrees(k, d)
      BY <1>8, <3>2 DEF DiskAgrees, TrySteps
    <3>5. Undrifted(k, disturbed) = Y
      BY <3>2 DEF Undrifted
    <3>6. Progress(k, files', X) /\ Progress(k, files', Y)
      BY <1>7, <3>2 DEF Progress
    <3> QED BY <1>1, <3>2, <3>3, <3>4, <3>5, <3>6 DEF CallGood, Creating
  <2> QED BY <2>2, <2>3
<1>12. CallOK'
  BY <1>6, <1>10, <1>11 DEF CallOK, Restore
<1> QED BY <1>6, <1>9, <1>12 DEF IInv, JournalsOK, Restore

-----------------------------------------------------------------------------
(* The theorems.                                                           *)

LEMMA InitOK == Init => IInv
<1> SUFFICES ASSUME Init PROVE IInv
  OBVIOUS
<1>1. FilesOK
  BY TransactionAssumption DEF Init, FilesOK
<1>2. /\ DOMAIN journals = Transactions
      /\ \A t \in Transactions : journals[t] = NoJournal
  BY DEF Init
<1>3. NoJournal.status = "none"
  BY DEF NoJournal
<1>4. JournalsOK
  BY <1>2, <1>3, NoJournalOK DEF JournalsOK
<1>5. JournalsTrue
  BY <1>2, <1>3 DEF JournalsTrue, Truth, Resumable
<1>6. CallOK
  BY IdleGood DEF Init, CallOK
<1> QED BY <1>1, <1>4, <1>5, <1>6 DEF IInv

LEMMA NextOK == ASSUME IInv, [Next]_vars PROVE IInv'
<1>1. CASE CreateNext
  BY <1>1, BeginCreateStep, SnapshotStep, MakeTransactionDirectoryStep, PrepareStep,
     AbandonCreateStep DEF CreateNext
<1>2. CASE ApplyNext
  BY <1>2, BeginApplyStep, InspectStep, CompareStep, VerifyStep, MakeDirectoryStep,
     MarkApplyingStep, RecordDirectoryStep, ReplaceStep, MarkAppliedStep DEF ApplyNext
<1>3. CASE RollbackNext
  BY <1>3, BeginRollbackStep, SurveyTargetStep, RecompareStep, VerifyBeforeStep,
     RemoveDirectoryStep, MarkRollingBackStep, RestoreStep, MarkRolledBackStep,
     MarkConflictedStep DEF RollbackNext
<1>4. CASE Fail \/ Crash \/ \E p \in Paths : Edit(p)
  BY <1>4, FailStep, CrashStep, EditStep
<1>5. CASE UNCHANGED vars
  BY <1>5 DEF vars, IInv, FilesOK, JournalsOK, JournalsTrue, CallOK
<1> QED BY <1>1, <1>2, <1>3, <1>4, <1>5 DEF Next

\* The invariant holds of every reachable state: the journals are true of their files,
\* and a call has come as far with them as its step says.
THEOREM InductiveInvariant == Spec => []IInv
BY InitOK, NextOK, PTL DEF Spec

\* Files, journals and the call keep their shape, and a file's directories exist.
THEOREM TypeCorrect == Spec => []TypeOK
<1>1. IInv => TypeOK
  <2> SUFFICES ASSUME IInv PROVE TypeOK
    OBVIOUS
  <2>1. CallTyped(call)
    BY DEF IInv, CallOK, CallGood
  <2>2. call.op \in {"idle", "create", "apply", "rollback"} /\ call.step \in Steps
        /\ IsJournal(call.journal)
    BY <2>1 DEF CallTyped, Steps, JournalOK
  <2> QED BY <2>2 DEF TypeOK, IInv, FilesOK, JournalsOK, JournalOK
<1> QED BY <1>1, InductiveInvariant, PTL

\* Whatever fails or crashes and whenever (ciApplyResourceFileTransaction,
\* ciRollbackJournal), the status of a journal is true of the files that nobody else
\* has changed since the transaction read them.
THEOREM JournalsTellTheTruth == Spec => []StatusTellsTheTruth
<1>1. IInv => StatusTellsTheTruth
  BY DEF IInv, JournalsTrue, Truth, AreBefore, AreAfter, AreEither, StatusTellsTheTruth
<1> QED BY <1>1, InductiveInvariant, PTL

\* A call that changes a file has compared every target since it began: none has
\* drifted but those edited meanwhile.
THEOREM NothingChangedOnDrift == Spec => DriftStopsTheCall
<1> DEFINE Safe == call # Idle /\ files' # files /\ edits' = edits =>
       \A p \in Targets(call.journal) \ disturbed :
         files[p] \in {call.journal.before[p], call.journal.after[p]}
<1>1. IInv /\ [Next]_vars => [Safe]_vars
  <2> SUFFICES ASSUME IInv, Next, call # Idle, files' # files, edits' = edits
               PROVE  \A p \in Targets(call.journal) \ disturbed :
                        files[p] \in {call.journal.before[p], call.journal.after[p]}
    OBVIOUS
  <2>1. ASSUME NEW p \in Paths, Edit(p) PROVE FALSE
    <3>1. edits \in Nat /\ edits' = edits + 1
      BY <2>1, TransactionAssumption DEF Edit, IInv, FilesOK
    <3> QED BY <3>1
  <2>2. Replace \/ Restore
    <3>1. CASE CreateNext
      BY <3>1 DEF CreateNext, BeginCreate, Snapshot, MakeTransactionDirectory, Prepare, AbandonCreate
    <3>2. CASE ApplyNext
      BY <3>2 DEF ApplyNext, BeginApply, Inspect, Compare, Verify, MakeDirectory, MarkApplying,
                  RecordDirectory, MarkApplied, Read
    <3>3. CASE RollbackNext
      BY <3>3 DEF RollbackNext, BeginRollback, SurveyTarget, Recompare, VerifyBefore,
                  RemoveDirectory, MarkRollingBack, MarkRolledBack, MarkConflicted, Read
    <3>4. CASE Fail \/ Crash
      BY <3>4 DEF Fail, Crash, Read
    <3> QED BY <2>1, <3>1, <3>2, <3>3, <3>4 DEF Next
  <2>3. call.step \in {"replace", "restore"}
    BY <2>2 DEF Replace, Restore
  <2>4. Progress(call, files, Undrifted(call, disturbed))
    BY <2>3, CallFacts DEF IInv, CallOK, CallGood, CallTyped, TrySteps, RollbackSteps
  <2> QED BY <2>3, <2>4 DEF Progress, Undrifted, AreSplit
<1> QED BY <1>1, InductiveInvariant, PTL DEF Spec, DriftStopsTheCall, Safe

-----------------------------------------------------------------------------
(* The directories a rollback removes.                                     *)

\* A directory that is not removed holds something, or held something a developer has
\* changed since the call began.
IsKept(d) == d \in dirs => ~Empty(d) \/ \E p \in disturbed : d \in DirsAbove[p]

\* The directories already visited are kept, and none of those left is deeper.
Removing ==
  /\ call.step = "rmdir" =>
       /\ call.todo \subseteq call.journal.created
       /\ \A d \in call.journal.created \ call.todo :
            IsKept(d) /\ \A e \in call.todo : Depth(e) <= Depth(d)
  /\ call.step \in {"verifyBefore", "conclude"} => \A d \in call.journal.created : IsKept(d)

LastSteps == {"rmdir", "verifyBefore", "conclude"}

LEMMA DeeperBelow ==
  ASSUME NEW d \in Dirs, NEW e \in DirsAbove[d]
  PROVE  ~(Depth(d) <= Depth(e))
<1>1. /\ DirsAbove[d] \subseteq Dirs /\ DirsAbove[e] \subseteq DirsAbove[d]
      /\ e \in Dirs /\ e \notin DirsAbove[e]
  BY TransactionAssumption, TreeAssumption
<1>2. IsFiniteSet(DirsAbove[d])
  BY <1>1, TreeAssumption, FS_Subset
<1>3. /\ IsFiniteSet(DirsAbove[e])
      /\ Cardinality(DirsAbove[e]) <= Cardinality(DirsAbove[d])
      /\ Cardinality(DirsAbove[d]) = Cardinality(DirsAbove[e]) => DirsAbove[d] = DirsAbove[e]
  BY <1>1, <1>2, FS_Subset
<1>4. Cardinality(DirsAbove[e]) \in Nat /\ Cardinality(DirsAbove[d]) \in Nat
  BY <1>2, <1>3, FS_CardinalityType
<1> QED BY <1>1, <1>3, <1>4 DEF Depth

LEMMA ErrorLeaves ==
  ASSUME NEW c, DOMAIN c = Fields, NEW k, k = AfterError(c)
  PROVE  k.step \notin LastSteps
<1>1. Idle.step = "none"
  BY DEF Idle
<1>2. Survey(c, TRUE).step = "survey"
  BY SurveyFields
<1>3. [c EXCEPT !.step = "conflicted"].step = "conflicted"
  BY DEF Fields
<1> QED BY <1>1, <1>2, <1>3 DEF AfterError, LastSteps

LEMMA WriteLeaves ==
  ASSUME DOMAIN call = Fields, NEW j, NEW next, next.step \notin LastSteps, WriteJournal(j, next)
  PROVE  call'.step \notin LastSteps
<1>1. PICK c : c = [call EXCEPT !.journal = j]
  OBVIOUS
<1>2. DOMAIN c = Fields
  BY <1>1, JournalFields
<1>3. PICK k : k = AfterError(c)
  OBVIOUS
<1>4. k.step \notin LastSteps
  BY <1>2, <1>3, ErrorLeaves
<1>5. call' = next \/ call' = k
  BY <1>1, <1>3 DEF WriteJournal
<1> QED BY <1>4, <1>5

LEMMA CreateLeaves == ASSUME IInv, CreateNext PROVE call'.step \notin LastSteps
<1>0. DOMAIN call = Fields /\ (call.op = "create" => call.step \in CreateSteps)
  BY DEF IInv, CallOK, CallGood, CallTyped, ApplySteps
<1>1. ASSUME NEW t \in Transactions, BeginCreate(t) PROVE call'.step \notin LastSteps
  BY <1>1 DEF BeginCreate, Idle, LastSteps
<1>2. ASSUME NEW p \in Paths, Snapshot(p) PROVE call'.step \notin LastSteps
  <2>1. PICK m : call' = Continue([call EXCEPT !.journal = m],
                                  "snapshot", call.todo \ {p}, "directory", {})
    BY <1>2 DEF Snapshot
  <2>2. PICK c : c = [call EXCEPT !.journal = m]
    OBVIOUS
  <2>3. DOMAIN c = Fields /\ call' = Continue(c, "snapshot", call.todo \ {p}, "directory", {})
    BY <1>0, <2>1, <2>2, JournalFields
  <2> QED BY <2>3, ContinueFields DEF LastSteps
<1>3. ASSUME MakeTransactionDirectory PROVE call'.step \notin LastSteps
  BY <1>0, <1>3 DEF MakeTransactionDirectory, Fields, LastSteps
<1>4. ASSUME Prepare \/ AbandonCreate PROVE call'.step \notin LastSteps
  BY <1>4 DEF Prepare, AbandonCreate, Idle, LastSteps
<1> QED BY <1>1, <1>2, <1>3, <1>4 DEF CreateNext

LEMMA ApplyLeaves == ASSUME IInv, ApplyNext PROVE call'.step \notin LastSteps
<1>0. DOMAIN call = Fields /\ Idle.step \notin LastSteps
  BY DEF IInv, CallOK, CallGood, CallTyped, Idle, LastSteps
<1>1. ASSUME NEW t \in Transactions, BeginApply(t) PROVE call'.step \notin LastSteps
  BY <1>1 DEF BeginApply, Idle, LastSteps
<1>2. ASSUME NEW b \in BOOLEAN, NEW T, NEW s \in Steps \ LastSteps, NEW n \in Steps \ LastSteps, NEW N,
             call' = Continue([call EXCEPT !.drift = b], s, T, n, N)
      PROVE  call'.step \notin LastSteps
  <2>1. PICK c : c = [call EXCEPT !.drift = b]
    OBVIOUS
  <2>2. DOMAIN c = Fields /\ call' = Continue(c, s, T, n, N)
    BY <1>0, <1>2, <2>1, DriftFields
  <2> QED BY <2>2, ContinueFields
<1>3. ASSUME NEW p \in Paths, Inspect(p) PROVE call'.step \notin LastSteps
  <2>1. "inspect" \in Steps \ LastSteps /\ "begin" \in Steps \ LastSteps
    BY DEF Steps, LastSteps, ApplySteps
  <2> QED BY <1>0, <1>2, <1>3, <2>1 DEF Inspect
<1>4. ASSUME call' = AfterError(call) PROVE call'.step \notin LastSteps
  BY <1>0, <1>4, ErrorLeaves
<1>5. ASSUME NEW p \in Paths, Compare(p) PROVE call'.step \notin LastSteps
  BY <1>0, <1>4, <1>5 DEF Compare, Fields, LastSteps
<1>6. ASSUME NEW p \in Paths, Verify(p) PROVE call'.step \notin LastSteps
  <2>1. "verify" \in Steps \ LastSteps /\ "finish" \in Steps \ LastSteps
    BY DEF Steps, LastSteps, TrySteps
  <2> QED BY <1>2, <1>4, <1>6, <2>1 DEF Verify
<1>7. ASSUME NEW c, DOMAIN c = Fields, NEW T, NEW N, NEW k, k = Continue(c, "mkdir", T, "compare", N)
      PROVE  k.step \notin LastSteps
  BY <1>7, ContinueFields DEF LastSteps
<1>8. ASSUME NEW d \in Dirs, MakeDirectory(d) PROVE call'.step \notin LastSteps
  BY <1>0, <1>7, <1>8 DEF MakeDirectory, Fields, LastSteps
<1>9. ASSUME MarkApplying PROVE call'.step \notin LastSteps
  <2>1. PICK j : WriteJournal(j, Continue([call EXCEPT !.journal = j], "mkdir", j.planned,
                                          "compare", Targets(j)))
    BY <1>9 DEF MarkApplying
  <2>2. PICK c : c = [call EXCEPT !.journal = j]
    OBVIOUS
  <2>3. PICK k : k = Continue(c, "mkdir", j.planned, "compare", Targets(j))
    OBVIOUS
  <2>4. k.step \notin LastSteps
    BY <1>0, <1>7, <2>2, <2>3, JournalFields
  <2> QED BY <1>0, <2>1, <2>2, <2>3, <2>4, WriteLeaves
<1>10. ASSUME RecordDirectory PROVE call'.step \notin LastSteps
  <2>1. PICK j, T : WriteJournal(j, Continue([call EXCEPT !.journal = j], "mkdir", T,
                                             "compare", Targets(j)))
    BY <1>10 DEF RecordDirectory
  <2>2. PICK c : c = [call EXCEPT !.journal = j]
    OBVIOUS
  <2>3. PICK k : k = Continue(c, "mkdir", T, "compare", Targets(j))
    OBVIOUS
  <2>4. k.step \notin LastSteps
    BY <1>0, <1>7, <2>2, <2>3, JournalFields
  <2> QED BY <1>0, <2>1, <2>2, <2>3, <2>4, WriteLeaves
<1>11. ASSUME Replace PROVE call'.step \notin LastSteps
  <2>1. PICK T, N : call' = Continue(call, "compare", T, "verify", N)
    BY <1>11 DEF Replace
  <2> QED BY <1>0, <2>1, ContinueFields DEF LastSteps
<1>12. ASSUME MarkApplied PROVE call'.step \notin LastSteps
  BY <1>0, <1>12, WriteLeaves DEF MarkApplied
<1> QED BY <1>1, <1>3, <1>5, <1>6, <1>8, <1>9, <1>10, <1>11, <1>12 DEF ApplyNext

LEMMA StartRemoving ==
  ASSUME NEW c, DOMAIN c = Fields, NEW k, k = AfterRestores(c)
  PROVE  \/ k.step = "rmdir" /\ k.todo = k.journal.created
         \/ k.step = "verifyBefore" /\ k.journal.created = {}
<1>1. k = Continue(c, "rmdir", c.journal.created, "verifyBefore", Targets(c.journal))
  BY DEF AfterRestores
<1> QED BY <1>1, ContinueFields

LEMMA RestoresRemoving ==
  ASSUME NEW c, DOMAIN c = Fields, call' = AfterRestores(c)
  PROVE  Removing'
<1>1. PICK k : k = call'
  OBVIOUS
<1>2. \/ k.step = "rmdir" /\ k.todo = k.journal.created
      \/ k.step = "verifyBefore" /\ k.journal.created = {}
  BY <1>1, StartRemoving
<1> QED BY <1>1, <1>2 DEF Removing

LEMMA LeavesRemoving == ASSUME call'.step \notin LastSteps PROVE Removing'
BY DEF Removing, LastSteps

LEMMA MarkRollingBackRemoving == ASSUME IInv, MarkRollingBack PROVE Removing'
<1>1. DOMAIN call = Fields
  BY DEF IInv, CallOK, CallGood, CallTyped
<1>2. PICK j : j = [call.journal EXCEPT !.status = "rolling-back"]
  OBVIOUS
<1>3. PICK c : c = [call EXCEPT !.journal = j]
  OBVIOUS
<1>4. PICK k : k = IF c.restore = {} THEN AfterRestores(c)
                   ELSE [c EXCEPT !.step = "recompare", !.todo = c.restore]
  OBVIOUS
<1>5. WriteJournal(j, k)
  BY <1>2, <1>3, <1>4 DEF MarkRollingBack
<1>6. DOMAIN c = Fields
  BY <1>1, <1>3, JournalFields
<1>7. CASE call' = AfterError(c)
  BY <1>6, <1>7, ErrorLeaves, LeavesRemoving
<1>8. CASE call' = k /\ c.restore = {}
  BY <1>4, <1>6, <1>8, RestoresRemoving
<1>9. CASE call' = k /\ c.restore # {}
  <2>1. call'.step = "recompare"
    BY <1>4, <1>6, <1>9 DEF Fields
  <2> QED BY <2>1, LeavesRemoving DEF LastSteps
<1> QED BY <1>3, <1>5, <1>7, <1>8, <1>9 DEF WriteJournal

LEMMA RestoreRemoving == ASSUME IInv, Restore PROVE Removing'
<1>1. DOMAIN call = Fields
  BY DEF IInv, CallOK, CallGood, CallTyped
<1>2. PICK T : call' = IF T = {} THEN AfterRestores(call)
                       ELSE Continue(call, "recompare", T, "rmdir", {})
  BY DEF Restore
<1>3. CASE T = {}
  BY <1>1, <1>2, <1>3, RestoresRemoving
<1>4. CASE T # {}
  <2>1. call'.step = "recompare"
    BY <1>1, <1>2, <1>4, ContinueFields
  <2> QED BY <2>1, LeavesRemoving DEF LastSteps
<1> QED BY <1>3, <1>4

\* The deepest first: a directory removed later is not above one visited before.
LEMMA RemoveDirectoryRemoving ==
  ASSUME IInv, Removing, NEW d \in Dirs, RemoveDirectory(d) PROVE Removing'
<1> DEFINE created == call.journal.created
           rest == call.todo \ {d}
<1>1. /\ DOMAIN call = Fields /\ call.step = "rmdir" /\ d \in call.todo
      /\ \A e \in call.todo : Depth(e) <= Depth(d)
      /\ dirs' = IF Empty(d) THEN dirs \ {d} ELSE dirs
      /\ UNCHANGED <<files, disturbed>>
  BY DEF IInv, CallOK, CallGood, CallTyped, RemoveDirectory, Deepest
<1>2. /\ call.todo \subseteq created
      /\ \A e \in created \ call.todo : IsKept(e) /\ \A f \in call.todo : Depth(f) <= Depth(e)
  BY <1>1 DEF Removing
<1>3. /\ created \subseteq Dirs /\ dirs \subseteq Dirs
  BY DEF IInv, CallOK, CallGood, CallTyped, JournalOK, IsJournal, Journal, FilesOK
<1>4. ASSUME NEW e \in created \ rest PROVE IsKept(e)' /\ \A f \in rest : Depth(f) <= Depth(e)
  <2>1. CASE e = d
    BY <1>1, <2>1 DEF IsKept, Empty
  <2>2. CASE e # d
    <3>1. IsKept(e) /\ \A f \in call.todo : Depth(f) <= Depth(e)
      BY <1>2, <1>4, <2>2
    <3>2. ASSUME e \in dirs', \A p \in disturbed : e \notin DirsAbove[p] PROVE ~Empty(e)'
      <4>1. e \in dirs /\ ~Empty(e)
        BY <1>1, <3>1, <3>2 DEF IsKept
      <4>2. CASE \E p \in Paths : e \in DirsAbove[p] /\ files[p] # Absent
        BY <1>1, <4>2 DEF Empty
      <4>3. CASE \E f \in dirs : e \in DirsAbove[f]
        <5>1. PICK f \in dirs : e \in DirsAbove[f]
          BY <4>3
        <5>2. f # d
          BY <1>1, <3>1, <5>1, DeeperBelow
        <5>3. f \in dirs'
          BY <1>1, <5>1, <5>2
        <5> QED BY <5>1, <5>3 DEF Empty
      <4> QED BY <4>1, <4>2, <4>3 DEF Empty
    <3>3. IsKept(e)'
      BY <1>1, <3>2 DEF IsKept
    <3> QED BY <3>1, <3>3
  <2> QED BY <2>1, <2>2
<1>5. PICK k : k = call'
  OBVIOUS
<1>6. k = Continue(call, "rmdir", rest, "verifyBefore", Targets(call.journal))
  BY <1>5 DEF RemoveDirectory
<1> HIDE DEF rest
<1>7. /\ k.journal = call.journal
      /\ rest # {} => k.step = "rmdir" /\ k.todo = rest
      /\ rest = {} => k.step = "verifyBefore"
  BY <1>1, <1>6, ContinueFields
<1>8. CASE rest = {}
  <2>1. \A e \in created : IsKept(e)'
    BY <1>4, <1>8
  <2> QED BY <1>5, <1>7, <1>8, <2>1 DEF Removing
<1>9. CASE rest # {}
  <2>1. rest \subseteq created
    BY <1>2 DEF rest
  <2> QED BY <1>4, <1>5, <1>7, <1>9, <2>1 DEF Removing
<1> QED BY <1>8, <1>9

LEMMA VerifyBeforeRemoving ==
  ASSUME IInv, Removing, NEW p \in Paths, VerifyBefore(p) PROVE Removing'
<1> DEFINE drift == call.drift \/ files[p] # call.journal.before[p]
           rest == call.todo \ {p}
           last == IF drift THEN "unrestored" ELSE "conclude"
<1>1. DOMAIN call = Fields /\ call.step = "verifyBefore" /\ UNCHANGED <<files, dirs, disturbed>>
  BY DEF VerifyBefore, Read, IInv, CallOK, CallGood, CallTyped
<1>2. PICK c : c = [call EXCEPT !.drift = drift]
  OBVIOUS
<1>3. DOMAIN c = Fields /\ c.journal = call.journal
  BY <1>1, <1>2, DriftFields
<1>4. PICK k : k = call'
  OBVIOUS
<1>5. k = Continue(c, "verifyBefore", rest, last, {})
  BY <1>2, <1>4 DEF VerifyBefore
<1>6. k.journal = call.journal /\ k.step \in {"verifyBefore", "unrestored", "conclude"}
  BY <1>3, <1>5, ContinueFields
<1>7. \A e \in call.journal.created : IsKept(e)
  BY <1>1 DEF Removing
<1>8. \A e \in call.journal.created : IsKept(e)'
  BY <1>1, <1>7 DEF IsKept, Empty
<1> QED BY <1>4, <1>6, <1>8 DEF Removing

LEMMA EditRemoving == ASSUME IInv, Removing, NEW p \in Paths, Edit(p) PROVE Removing'
<1>1. PICK image \in FileStates :
        /\ files' = [files EXCEPT ![p] = image]
        /\ dirs' = IF image = Absent THEN dirs ELSE dirs \cup DirsAbove[p]
  BY DEF Edit
<1>2. /\ dirs \subseteq dirs' /\ dirs' \subseteq dirs \cup DirsAbove[p]
      /\ disturbed' = disturbed \cup {p} /\ UNCHANGED call
      /\ \A q \in Paths \ {p} : files'[q] = files[q]
  BY <1>1 DEF Edit, IInv, FilesOK
<1>3. ASSUME NEW e, IsKept(e) PROVE IsKept(e)'
  BY <1>2, <1>3 DEF IsKept, Empty
<1> QED BY <1>2, <1>3 DEF Removing

LEMMA RollbackRemoving == ASSUME IInv, Removing, RollbackNext PROVE Removing'
<1>0. DOMAIN call = Fields /\ Idle.step \notin LastSteps
  BY DEF IInv, CallOK, CallGood, CallTyped, Idle, LastSteps
<1>1. ASSUME NEW t \in Transactions, BeginRollback(t) PROVE Removing'
  <2>1. PICK c : c = [Idle EXCEPT !.op = "rollback", !.tx = t, !.journal = journals[t]]
    OBVIOUS
  <2>2. PICK r : r = (journals[t].status \in Resumable)
    OBVIOUS
  <2>3. PICK k : k = Survey(c, r)
    OBVIOUS
  <2>4. DOMAIN c = Fields
    BY <2>1 DEF Idle, Fields
  <2>5. k.step = "survey"
    BY <2>3, <2>4, SurveyFields
  <2>6. call' = Survey(c, r)
    BY <1>1, <2>1, <2>2 DEF BeginRollback
  <2> QED BY <2>3, <2>5, <2>6, LeavesRemoving DEF LastSteps
<1>2. ASSUME NEW p \in Paths, SurveyTarget(p) PROVE Removing'
  <2>1. PICK c, T : /\ DOMAIN c = Fields
                    /\ \/ call' = Idle
                       \/ call' = [c EXCEPT !.step = "conflicted"]
                       \/ call' = Continue(c, "survey", T, "undo", {})
    <3> DEFINE w == files[p] = call.journal.after[p]
               b == call.drift \/ ~(w \/ (call.resume /\ files[p] = call.journal.before[p]))
    <3>1. PICK c : c = [call EXCEPT !.drift = b, !.restore = IF w THEN @ \cup {p} ELSE @]
      OBVIOUS
    <3>2. DOMAIN c = Fields
      BY <1>0, <3>1
    <3> QED BY <1>2, <3>1, <3>2 DEF SurveyTarget
  <2>2. CASE call' = Idle
    BY <1>0, <2>2, LeavesRemoving
  <2>3. CASE call' = [c EXCEPT !.step = "conflicted"]
    BY <2>1, <2>3, LeavesRemoving DEF Fields, LastSteps
  <2>4. CASE call' = Continue(c, "survey", T, "undo", {})
    <3>1. call'.step \in {"survey", "undo"}
      BY <2>1, <2>4, ContinueFields
    <3> QED BY <3>1, LeavesRemoving DEF LastSteps
  <2> QED BY <2>1, <2>2, <2>3, <2>4
<1>3. ASSUME NEW p \in Paths, Recompare(p) PROVE Removing'
  <2>1. CASE call' = AfterError(call)
    BY <1>0, <2>1, ErrorLeaves, LeavesRemoving
  <2>2. CASE call' = [call EXCEPT !.step = "restore", !.target = p]
    BY <1>0, <2>2, LeavesRemoving DEF Fields, LastSteps
  <2> QED BY <1>3, <2>1, <2>2 DEF Recompare
<1>4. ASSUME MarkRolledBack PROVE Removing'
  <2>1. call'.step \notin LastSteps
    BY <1>0, <1>4, WriteLeaves DEF MarkRolledBack
  <2> QED BY <2>1, LeavesRemoving
<1>5. ASSUME MarkConflicted PROVE Removing'
  <2>1. PICK j : WriteJournal(j, AfterError([call EXCEPT !.journal = j]))
    BY <1>5 DEF MarkConflicted
  <2>2. PICK c : c = [call EXCEPT !.journal = j]
    OBVIOUS
  <2>3. PICK k : k = AfterError(c)
    OBVIOUS
  <2>4. DOMAIN c = Fields
    BY <1>0, <2>2, JournalFields
  <2>5. k.step \notin LastSteps
    BY <2>3, <2>4, ErrorLeaves
  <2>6. call'.step \notin LastSteps
    BY <1>0, <2>1, <2>2, <2>3, <2>5, WriteLeaves
  <2> QED BY <2>6, LeavesRemoving
<1> QED BY <1>1, <1>2, <1>3, <1>4, <1>5, MarkRollingBackRemoving, RestoreRemoving,
      RemoveDirectoryRemoving, VerifyBeforeRemoving DEF RollbackNext

LEMMA NextRemoving == ASSUME IInv, Removing, [Next]_vars PROVE Removing'
<1>1. CASE CreateNext \/ ApplyNext
  BY <1>1, CreateLeaves, ApplyLeaves, LeavesRemoving
<1>2. CASE RollbackNext
  BY <1>2, RollbackRemoving
<1>3. CASE Fail
  <2>1. DOMAIN call = Fields /\ call' = AfterError(call)
    BY <1>3 DEF Fail, IInv, CallOK, CallGood, CallTyped
  <2> QED BY <2>1, ErrorLeaves, LeavesRemoving
<1>4. CASE Crash
  BY <1>4, LeavesRemoving DEF Crash, Idle, LastSteps
<1>5. CASE \E p \in Paths : Edit(p)
  BY <1>5, EditRemoving
<1>6. CASE UNCHANGED vars
  BY <1>6 DEF vars, Removing, IsKept, Empty
<1> QED BY <1>1, <1>2, <1>3, <1>4, <1>5, <1>6 DEF Next

\* A rollback that ends well (ciRemoveCreatedEmptyDirectories) leaves none of the
\* directories its journal names but those that hold something, or held something a
\* developer has changed since the call began.
THEOREM CreatedDirectoriesRemoved == Spec => DirectoriesRemoved
<1> DEFINE Ends(t) == journals'[t] # journals[t]
                      /\ journals'[t].status \in {"rolled-back", "failed-rolled-back"}
           Safe == \A t \in Transactions : Ends(t) => \A d \in journals'[t].created :
                     d \in dirs' => ~Empty(d) \/ \E p \in disturbed : d \in DirsAbove[p]
<1>1. Init => Removing
  BY DEF Init, Idle, Removing
<1>2. IInv /\ Removing /\ [Next]_vars => [Safe]_vars
  <2> SUFFICES ASSUME IInv, Removing, Next, NEW t \in Transactions, Ends(t),
                      NEW d \in journals'[t].created, d \in dirs'
               PROVE  ~Empty(d) \/ \E p \in disturbed : d \in DirsAbove[p]
    OBVIOUS
  <2>0. DOMAIN journals = Transactions /\ JournalOK(call.journal)
    BY DEF IInv, JournalsOK, CallOK, CallGood, CallTyped
  <2>1. ASSUME NEW j, NEW next, WriteJournal(j, next) PROVE journals'[t] = j /\ t = call.tx
    BY <2>0, <2>1 DEF WriteJournal
  <2>2. MarkRolledBack
    <3>0. SUFFICES ASSUME ~MarkRolledBack PROVE FALSE
      OBVIOUS
    <3>1. CASE CreateNext
      <4>1. ~MakeTransactionDirectory
        <5>1. JournalOK(journals[t])
          BY DEF IInv, JournalsOK
        <5>2. SUFFICES ASSUME MakeTransactionDirectory PROVE FALSE
          OBVIOUS
        <5>3. journals'[t] = journals[t] \/ journals'[t] = [journals[t] EXCEPT !.status = "directory"]
          BY <2>0, <5>2 DEF MakeTransactionDirectory
        <5> QED BY <5>1, <5>3 DEF JournalOK
      <4>2. ~Prepare
        BY <2>0 DEF Prepare, JournalOK
      <4>3. ~AbandonCreate
        BY <2>0 DEF AbandonCreate, NoJournal
      <4> QED BY <3>1, <4>1, <4>2, <4>3 DEF CreateNext, BeginCreate, Snapshot
    <3>2. CASE ApplyNext
      <4>1. ~MarkApplying /\ ~MarkApplied
        BY <2>0, <2>1 DEF MarkApplying, MarkApplied, JournalOK
      <4>2. ~RecordDirectory
        <5>1. SUFFICES ASSUME RecordDirectory PROVE FALSE
          OBVIOUS
        <5>2. call.step = "record" /\ call.op \in {"create", "apply", "rollback"}
          BY <5>1 DEF RecordDirectory, IInv, CallOK, CallGood, CallTyped
        <5>3. call.journal.status = "applying"
          BY <5>2, CallFacts DEF DiskAgrees
        <5> QED BY <2>0, <2>1, <5>1, <5>3 DEF RecordDirectory, JournalOK
      <4> QED BY <3>2, <4>1, <4>2 DEF ApplyNext, BeginApply, Inspect, Compare, Verify, MakeDirectory, Replace, Read
    <3>3. CASE RollbackNext
      <4>1. ~MarkRollingBack /\ ~MarkConflicted
        BY <2>0, <2>1 DEF MarkRollingBack, MarkConflicted, JournalOK
      <4> QED BY <3>0, <3>3, <4>1 DEF RollbackNext, BeginRollback, SurveyTarget, Recompare, VerifyBefore, RemoveDirectory, Restore, Read
    <3>4. CASE Fail \/ Crash \/ (\E p \in Paths : Edit(p))
      BY <3>4 DEF Fail, Crash, Edit, Read
    <3> QED BY <3>1, <3>2, <3>3, <3>4 DEF Next
  <2>3. d \in call.journal.created /\ call.step = "conclude" /\ UNCHANGED <<files, dirs, disturbed>>
    BY <2>0, <2>1, <2>2 DEF MarkRolledBack, JournalOK
  <2> QED BY <2>3 DEF Removing, IsKept
<1>3. IInv /\ Removing /\ [Next]_vars => Removing'
  BY NextRemoving
<1> QED BY <1>1, <1>2, <1>3, InductiveInvariant, PTL DEF Spec, DirectoriesRemoved, Safe, Ends

=============================================================================
