------------------------ MODULE TenantSettingsProofs ------------------------
(***************************************************************************)
(* Proofs about TenantSettings, for any users, targets, fields, values and *)
(* rules: the requests implement SettingsLedger, and no edit is lost.      *)
(***************************************************************************)
EXTENDS TenantSettings, TLAPS

-----------------------------------------------------------------------------
(* The invariant.  What a page or a request has read is a record of the    *)
(* past: its revision is not above the stored one, and when the revisions  *)
(* are equal it is the stored record.                                      *)

SystemRead(source) ==
  /\ source \in Ledger!SystemRecords
  /\ source.revision <= system.revision
  /\ source.revision = system.revision => source = system

CopyRead(t, copy) ==
  /\ copy \in Ledger!Copies
  /\ copy.revision <= copies[t].revision
  /\ copy.revision = copies[t].revision => copy = copies[t]

PageOK(page) ==
  /\ page \in Pages
  /\ SystemRead(page.source)
  /\ page.of \in Targets => CopyRead(page.of, page.copy)

RequestOK(request) ==
  /\ request \in Requests
  /\ SystemRead(request.source)
  /\ request.target \in Targets => CopyRead(request.target, request.copy)

\* How far a request has come, beside the page it was made on.
Progress(page, request) ==
  /\ request.op \in {"save", "overwrite", "reload"} => request.target \in Targets
  /\ request.step \in {"validate", "source"}
       => request.target \in Targets \union {SystemPage}
  /\ request.step \in {"copy", "initialize", "winner"} => request.target \in Targets
  /\ request.op = "save" => page.of = request.target
  /\ request.op = "system" => page.of = SystemPage
  /\ request.step = "commit" /\ request.op \in {"save", "overwrite"}
       => request.copy.revision > 0
  /\ request.step = "commit" /\ request.op = "save"
       => FormHolds(page, request.source, request.copy, request.value)

SessionOK(s) ==
  PageOK(s.page) /\ RequestOK(s.request) /\ Progress(s.page, s.request)

Stored ==
  /\ system \in Ledger!SystemRecords /\ system.revision <= MaxSystem
  /\ copies \in [Targets -> Ledger!Copies]
  /\ \A t \in Targets : copies[t].revision <= MaxCopy
  /\ suspended \in SUBSET Tenants

\* A record that was never written is the one everybody starts from.
Unread == SystemRead(NoSource) /\ \A t \in Targets : CopyRead(t, NoCopy)

IInv ==
  /\ Stored /\ Unread
  /\ session \in [Users -> [page: Pages, request: Requests]]
  /\ \A u \in Users : SessionOK(session[u])

-----------------------------------------------------------------------------
LEMMA InitialRecords ==
  /\ NoSource \in Ledger!SystemRecords /\ NoCopy \in Ledger!Copies
  /\ NoPageOpen \in Pages /\ NoRequest \in Requests
<1>1. NoSource \in Ledger!SystemRecords /\ NoCopy \in Ledger!Copies
  BY SettingsAssumption DEF NoSource, NoCopy, Ledger!SystemRecords, Ledger!Copies
<1>2. NoPageOpen \in Pages
  BY <1>1 DEF NoPageOpen, Pages
<1>3. NoRequest \in Requests
  BY <1>1, SettingsAssumption DEF NoRequest, Requests
<1> QED BY <1>1, <1>2, <1>3

LEMMA InitOK == Init => IInv
<1> SUFFICES ASSUME Init PROVE IInv
  OBVIOUS
<1>1. system = NoSource /\ copies = [t \in Targets |-> NoCopy] /\ suspended = {}
  BY DEF Init, Ledger!Init, NoSource, NoCopy
<1>2. NoSource.revision = 0 /\ NoCopy.revision = 0
  BY DEF NoSource, NoCopy
<1>3. Stored /\ Unread
  BY <1>1, <1>2, InitialRecords, SettingsAssumption
  DEF Stored, Unread, SystemRead, CopyRead
<1>4. \A u \in Users : session[u] = [page |-> NoPageOpen, request |-> NoRequest]
  BY DEF Init
<1>5. session \in [Users -> [page: Pages, request: Requests]]
  BY InitialRecords DEF Init
<1>6. /\ NoPageOpen.source = NoSource /\ NoPageOpen.copy = NoCopy
      /\ NoPageOpen.of = NoPage
      /\ NoRequest.source = NoSource /\ NoRequest.copy = NoCopy
      /\ NoRequest.op = "none" /\ NoRequest.step = "none"
  BY DEF NoPageOpen, NoRequest
<1>7. PageOK(NoPageOpen) /\ RequestOK(NoRequest) /\ Progress(NoPageOpen, NoRequest)
  BY <1>3, <1>6, InitialRecords DEF Unread, PageOK, RequestOK, Progress
<1> QED BY <1>3, <1>4, <1>5, <1>7 DEF IInv, SessionOK

-----------------------------------------------------------------------------
(* A step writes records with their next revision, and moves one session.  *)

Advance ==
  /\ \/ system' = system
     \/ /\ system' \in Ledger!SystemRecords
        /\ system'.revision = system.revision + 1
  /\ \A t \in Targets :
       \/ copies'[t] = copies[t]
       \/ /\ copies'[t] \in Ledger!Copies
          /\ copies'[t].revision = copies[t].revision + 1

\* A write makes every record that was read one of the past.
LEMMA ReadsKept ==
  ASSUME Stored, Advance
  PROVE  /\ \A x : SystemRead(x) => SystemRead(x)'
         /\ \A t \in Targets : \A x : CopyRead(t, x) => CopyRead(t, x)'
<1>1. ASSUME NEW x, SystemRead(x) PROVE SystemRead(x)'
  BY <1>1 DEF SystemRead, Stored, Advance, Ledger!SystemRecords
<1>2. ASSUME NEW t \in Targets, NEW x, CopyRead(t, x) PROVE CopyRead(t, x)'
  <2>1. copies[t] \in Ledger!Copies
    BY DEF Stored
  <2> QED BY <1>2, <2>1 DEF CopyRead, Advance, Ledger!Copies
<1> QED BY <1>1, <1>2

LEMMA PagesKept ==
  ASSUME Stored, Advance, NEW page, PageOK(page)
  PROVE  PageOK(page)'
BY ReadsKept DEF PageOK

LEMMA RequestsKept ==
  ASSUME Stored, Advance, NEW request, RequestOK(request)
  PROVE  RequestOK(request)'
BY ReadsKept DEF RequestOK

\* The other sessions are as good as they were.
LEMMA OthersKept ==
  ASSUME IInv, Advance, Stored',
         NEW u \in Users, NEW page, NEW request,
         session' = [session EXCEPT ![u] = [page |-> page, request |-> request]],
         PageOK(page)', RequestOK(request)', Progress(page, request)
  PROVE  IInv'
<1>1. Unread'
  BY ReadsKept DEF IInv, Unread
<1>2. page \in Pages /\ request \in Requests
  BY DEF PageOK, RequestOK
<1>3. session' \in [Users -> [page: Pages, request: Requests]]
  BY <1>2 DEF IInv
<1>4. ASSUME NEW v \in Users PROVE SessionOK(session[v])'
  <2>1. CASE v = u
    <3>1. session'[v].page = page /\ session'[v].request = request
      BY <2>1 DEF IInv
    <3> QED BY <3>1 DEF SessionOK
  <2>2. CASE v # u
    <3>1. session'[v] = session[v] /\ SessionOK(session[v])
      BY <2>2 DEF IInv
    <3>2. PICK s : s = session[v]
      OBVIOUS
    <3>3. PageOK(s.page) /\ RequestOK(s.request) /\ Progress(s.page, s.request)
      BY <3>1, <3>2 DEF SessionOK
    <3>4. PageOK(s.page)' /\ RequestOK(s.request)'
      BY <3>3, PagesKept, RequestsKept DEF IInv
    <3>5. session'[v] = s
      BY <3>1, <3>2
    <3> QED BY <3>3, <3>4, <3>5 DEF SessionOK
  <2> QED BY <2>1, <2>2
<1> QED BY <1>1, <1>3, <1>4 DEF IInv

LEMMA ContinueOK ==
  ASSUME IInv, Advance, Stored', NEW u \in Users, NEW request,
         Continue(u, request), RequestOK(request)', Progress(Page(u), request)
  PROVE  IInv'
<1>1. PICK page : page = Page(u)
  OBVIOUS
<1>2. session' = [session EXCEPT ![u] = [page |-> page, request |-> request]]
  <2> DEFINE type == [page: Pages, request: Requests]
  <2>1. session \in [Users -> type] /\ session[u] \in type
    BY DEF IInv
  <2>2. [session[u] EXCEPT !.request = request] = [page |-> page, request |-> request]
    BY <1>1, <2>1 DEF Page
  <2> HIDE DEF type
  <2>3. session' = [session EXCEPT ![u] = [session[u] EXCEPT !.request = request]]
    BY <2>1 DEF Continue
  <2> QED BY <2>2, <2>3
<1>3. PageOK(page)
  BY <1>1 DEF Page, IInv, SessionOK
<1>4. PageOK(page)'
  BY <1>3, PagesKept DEF IInv
<1> QED BY <1>1, <1>2, <1>4, OthersKept

LEMMA CloseOK ==
  ASSUME IInv, Advance, Stored', NEW u \in Users, NEW page,
         Close(u, page), PageOK(page)'
  PROVE  IInv'
<1>1. PICK request : request = NoRequest
  OBVIOUS
<1>2. RequestOK(request)
  BY <1>1, InitialRecords DEF RequestOK, NoRequest, IInv, Unread
<1>3. Progress(page, request)
  BY <1>1 DEF Progress, NoRequest
<1>4. RequestOK(request)'
  BY <1>2, RequestsKept DEF IInv
<1> QED BY <1>1, <1>3, <1>4, OthersKept DEF Close

LEMMA RefuseOK ==
  ASSUME IInv, Advance, Stored', NEW u \in Users, Refuse(u)
  PROVE  IInv'
<1>1. PICK page : page = Page(u)
  OBVIOUS
<1>2. PageOK(page)
  BY <1>1 DEF Page, IInv, SessionOK
<1>3. PageOK(page)' /\ Close(u, page)
  BY <1>1, <1>2, PagesKept DEF Refuse, IInv
<1> QED BY <1>3, CloseOK

LEMMA SessionParts ==
  ASSUME IInv, NEW u \in Users
  PROVE  /\ PageOK(Page(u)) /\ RequestOK(Request(u))
         /\ Progress(Page(u), Request(u))
         /\ Page(u) \in Pages /\ Request(u) \in Requests
BY DEF IInv, SessionOK, Page, Request, PageOK, RequestOK

LEMMA NothingWritten ==
  ASSUME IInv, UNCHANGED <<system, copies, suspended>>
  PROVE  Advance /\ Stored'
BY DEF IInv, Stored, Advance

LEMMA BeginOK ==
  ASSUME IInv, NEW u \in Users,
         NEW op \in {"open", "save", "overwrite", "system"},
         NEW target \in Targets \union {SystemPage},
         NEW value \in [Fields -> Values],
         NEW locks \in SUBSET (Fields \X Targets), NEW fields \in SUBSET Fields,
         op \in {"save", "overwrite"} => target \in Targets,
         op = "save" => Page(u).of = target,
         op = "system" => Page(u).of = SystemPage,
         Begin(u, op, target, value, locks, fields)
  PROVE  IInv'
<1>1. PICK r : r = [NoRequest EXCEPT
       !.op = op, !.target = target, !.value = value, !.locks = locks,
       !.fields = fields,
       !.step = IF target = SystemPage THEN "source" ELSE "validate"]
  OBVIOUS
<1>2. /\ r.op = op /\ r.target = target
      /\ r.source = NoSource /\ r.copy = NoCopy
      /\ r.step \in {"source", "validate"}
  BY <1>1 DEF NoRequest
<1>3. r \in Requests
  BY <1>1, InitialRecords DEF NoRequest, Requests
<1>4. RequestOK(r)
  BY <1>2, <1>3 DEF RequestOK, IInv, Unread
<1>5. Progress(Page(u), r)
  BY <1>2 DEF Progress
<1>6. Continue(u, r) /\ Advance /\ Stored'
  BY <1>1, NothingWritten DEF Begin
<1>7. RequestOK(r)'
  BY <1>4, <1>6, RequestsKept DEF IInv
<1> QED BY <1>5, <1>6, <1>7, ContinueOK

\* A request goes on to a step that needs nothing but its target.
LEMMA StepOK ==
  ASSUME IInv, Advance, Stored', NEW u \in Users,
         NEW step \in {"source", "copy", "initialize", "winner", "commit"},
         Step(u, step),
         step = "source" => Request(u).target \in Targets \union {SystemPage},
         step \in {"copy", "initialize", "winner"} => Request(u).target \in Targets,
         step = "commit" => Request(u).op \notin {"save", "overwrite"}
  PROVE  IInv'
<1>1. PICK r : r = [Request(u) EXCEPT !.step = step]
  OBVIOUS
<1>2. /\ r.op = Request(u).op /\ r.target = Request(u).target
      /\ r.source = Request(u).source /\ r.copy = Request(u).copy
      /\ r.step = step /\ r \in Requests
  BY <1>1, SessionParts DEF Requests
<1>3. RequestOK(r)
  BY <1>2, SessionParts DEF RequestOK
<1>4. Progress(Page(u), r)
  BY <1>2, SessionParts DEF Progress
<1>5. Continue(u, r) /\ RequestOK(r)'
  BY <1>1, <1>3, RequestsKept DEF Step, IInv
<1> QED BY <1>4, <1>5, ContinueOK

\* A complete snapshot is what was stored, and the form it goes on with holds.
LEMMA SnapshotOK ==
  ASSUME IInv, Advance, Stored', NEW u \in Users, NEW copy, NEW t \in Targets,
         t = Request(u).target, CopyRead(t, copy)', copy.revision > 0,
         Snapshot(u, copy)
  PROVE  IInv'
<1>1. PICK source : source = Request(u).source
  OBVIOUS
<1>2. SystemRead(source)
  BY <1>1, SessionParts DEF RequestOK
<1>3. SystemRead(source)'
  BY <1>2, ReadsKept DEF IInv
<1>4. copy \in Ledger!Copies /\ source \in Ledger!SystemRecords
  BY <1>2 DEF CopyRead, SystemRead
<1>5. CASE Refuse(u)
  BY <1>5, RefuseOK
<1>6. CASE Close(u, [of |-> t, source |-> source, copy |-> copy])
  <2>1. PICK page : page = [of |-> t, source |-> source, copy |-> copy]
    OBVIOUS
  <2>2. page.of = t /\ page.source = source /\ page.copy = copy /\ page \in Pages
    BY <1>4, <2>1 DEF Pages
  <2>3. PageOK(page)'
    BY <1>3, <2>2 DEF PageOK
  <2> QED BY <1>6, <2>1, <2>3, CloseOK
<1>7. CASE /\ Request(u).op \in {"save", "overwrite"}
           /\ Request(u).op = "save"
                => FormHolds(Page(u), source, copy, Request(u).value)
           /\ Continue(u, [Request(u) EXCEPT !.copy = copy, !.step = "commit"])
  <2>1. PICK r : r = [Request(u) EXCEPT !.copy = copy, !.step = "commit"]
    OBVIOUS
  <2>2. /\ r.op = Request(u).op /\ r.target = t /\ r.source = source
        /\ r.copy = copy /\ r.step = "commit" /\ r.value = Request(u).value
        /\ r \in Requests
    BY <1>1, <1>4, <2>1, SessionParts DEF Requests
  <2>3. RequestOK(r)'
    BY <1>3, <2>2 DEF RequestOK
  <2>4. Progress(Page(u), r)
    BY <1>7, <2>2, SessionParts DEF Progress
  <2> QED BY <1>7, <2>1, <2>3, <2>4, ContinueOK
<1> QED BY <1>1, <1>5, <1>6, <1>7 DEF Snapshot

-----------------------------------------------------------------------------
(* The actions.                                                            *)

LEMMA BeginningsOK ==
  ASSUME IInv, NEW u \in Users, Open(u) \/ Save(u) \/ SaveSystem(u) \/ Overwrite(u)
  PROVE  IInv'
<1>1. Default \in [Fields -> Values] /\ RuleSets \subseteq SUBSET (Fields \X Targets)
  BY SettingsAssumption
<1>2. CASE Open(u)
  <2>1. PICK target \in Targets \union {SystemPage} :
          Begin(u, "open", target, Default, {}, {})
    BY <1>2 DEF Open
  <2> QED BY <1>1, <2>1, BeginOK
<1>3. CASE Save(u)
  <2>1. /\ Page(u).of \in Targets
        /\ \E value \in [Fields -> Values] :
             Begin(u, "save", Page(u).of, value, {}, {})
    BY <1>3 DEF Save
  <2>2. PICK target \in Targets, value \in [Fields -> Values] :
          target = Page(u).of /\ Begin(u, "save", target, value, {}, {})
    BY <2>1
  <2> QED BY <2>2, BeginOK
<1>4. CASE SaveSystem(u)
  <2>1. PICK value \in [Fields -> Values], locks \in RuleSets :
          Begin(u, "system", SystemPage, value, locks, {})
    BY <1>4 DEF SaveSystem
  <2>2. Page(u).of = SystemPage
    BY <1>4 DEF SaveSystem
  <2> QED BY <1>1, <2>1, <2>2, BeginOK
<1>5. CASE Overwrite(u)
  <2>1. PICK t \in Targets, fields \in SUBSET Fields :
          Begin(u, "overwrite", t, Default, {}, fields)
    BY <1>5 DEF Overwrite
  <2> QED BY <1>1, <2>1, BeginOK
<1> QED BY <1>2, <1>3, <1>4, <1>5

LEMMA ReadingsOK ==
  ASSUME IInv, NEW u \in Users,
         \/ Validate(u) \/ ReadSource(u) \/ PrepareSystem(u)
         \/ ReadCopy(u) \/ ReadWinner(u)
  PROVE  IInv'
<1>1. Advance /\ Stored'
  BY NothingWritten DEF Validate, ReadSource, PrepareSystem, ReadCopy, ReadWinner
<1>2. CASE Validate(u)
  BY <1>1, <1>2, StepOK, RefuseOK, SessionParts DEF Validate, At, Progress
<1>3. CASE ReadSource(u)
  <2>1. PICK source : source = system
    OBVIOUS
  <2>2. /\ UNCHANGED <<system, copies, suspended>>
        /\ source \in Ledger!SystemRecords
        /\ source.revision <= system.revision
    BY <1>3, <2>1 DEF ReadSource, IInv, Stored, Ledger!SystemRecords
  <2>3. SystemRead(source)'
    BY <2>1, <2>2 DEF SystemRead
  <2>4. Request(u).target \in Targets \union {SystemPage}
    BY <1>3, SessionParts DEF ReadSource, At, Progress
  <2>5. CASE Request(u).target = SystemPage
    <3>1. PICK page : page = [of |-> SystemPage, source |-> source, copy |-> NoCopy]
      OBVIOUS
    <3>2. /\ page \in Pages /\ page.of = SystemPage
          /\ page.source = source /\ page.copy = NoCopy
      BY <2>2, <3>1, InitialRecords DEF Pages
    <3>3. \A t \in Targets : CopyRead(t, NoCopy)'
      BY <1>1, ReadsKept DEF IInv, Unread
    <3>4. PICK copy : copy = NoCopy
      OBVIOUS
    <3>5. PageOK(page)'
      BY <2>3, <3>2, <3>3 DEF PageOK
    <3>6. Close(u, page)
      BY <1>3, <2>1, <2>5, <3>1 DEF ReadSource
    <3> QED BY <1>1, <3>5, <3>6, CloseOK
  <2>6. CASE Request(u).target # SystemPage
    <3>1. PICK r : r = [Request(u) EXCEPT !.source = source, !.step = "copy"]
      OBVIOUS
    <3>2. /\ r.op = Request(u).op /\ r.target = Request(u).target
          /\ r.source = source /\ r.copy = Request(u).copy
          /\ r.step = "copy" /\ r \in Requests
      BY <2>2, <3>1, SessionParts DEF Requests
    <3>3. r.target \in Targets => CopyRead(r.target, r.copy)
      BY <3>2, SessionParts DEF RequestOK
    <3>4. RequestOK(r)'
      BY <1>1, <2>3, <3>2, <3>3, ReadsKept DEF RequestOK, IInv
    <3>5. Progress(Page(u), r)
      BY <2>4, <2>6, <3>2, SessionParts DEF Progress
    <3>6. Continue(u, r)
      BY <1>3, <2>1, <2>6, <3>1 DEF ReadSource
    <3> QED BY <1>1, <3>4, <3>5, <3>6, ContinueOK
  <2> QED BY <2>5, <2>6
<1>4. CASE PrepareSystem(u)
  BY <1>1, <1>4, StepOK, RefuseOK DEF PrepareSystem
<1>5. CASE ReadCopy(u)
  <2>1. PICK t : t = Request(u).target
    OBVIOUS
  <2>2. t \in Targets
    BY <1>5, <2>1, SessionParts DEF ReadCopy, At, Progress
  <2>3. CASE copies[t].revision > 0
    <3>1. PICK copy : copy = copies[t]
      OBVIOUS
    <3>2. CopyRead(t, copy)'
      BY <1>5, <2>2, <3>1 DEF ReadCopy, CopyRead, IInv, Stored, Ledger!Copies
    <3> QED BY <1>1, <1>5, <2>1, <2>2, <2>3, <3>1, <3>2, SnapshotOK DEF ReadCopy
  <2>4. CASE ~(copies[t].revision > 0)
    BY <1>1, <1>5, <2>1, <2>2, <2>4, StepOK DEF ReadCopy
  <2> QED BY <2>3, <2>4
<1>6. CASE ReadWinner(u)
  <2>1. PICK t : t = Request(u).target
    OBVIOUS
  <2>2. t \in Targets
    BY <1>6, <2>1, SessionParts DEF ReadWinner, At, Progress
  <2>3. CASE copies[t].revision > 0
    <3>1. PICK copy : copy = copies[t]
      OBVIOUS
    <3>2. CopyRead(t, copy)'
      BY <1>6, <2>2, <3>1 DEF ReadWinner, CopyRead, IInv, Stored, Ledger!Copies
    <3>3. Snapshot(u, copy)
      BY <1>6, <2>1, <2>3, <3>1 DEF ReadWinner
    <3> QED BY <1>1, <2>1, <2>2, <2>3, <3>1, <3>2, <3>3, SnapshotOK
  <2>4. CASE Refuse(u)
    BY <1>1, <2>4, RefuseOK
  <2>5. CASE /\ Request(u).attempt < 2
             /\ Continue(u, [Request(u) EXCEPT !.attempt = Request(u).attempt + 1,
                                               !.step = "source"])
    <3>1. PICK r : r = [Request(u) EXCEPT !.attempt = Request(u).attempt + 1,
                                          !.step = "source"]
      OBVIOUS
    <3>2. /\ r.op = Request(u).op /\ r.target = t
          /\ r.source = Request(u).source /\ r.copy = Request(u).copy
          /\ r.step = "source" /\ r \in Requests
      <4>1. Request(u).attempt \in 0 .. 2 /\ Request(u) \in Requests
        BY SessionParts DEF Requests
      <4>2. PICK attempt : attempt = Request(u).attempt + 1
        OBVIOUS
      <4>3. attempt \in 0 .. 2
        BY <2>5, <4>1, <4>2
      <4>4. r = [Request(u) EXCEPT !.attempt = attempt, !.step = "source"]
        BY <3>1, <4>2
      <4> QED BY <2>1, <4>1, <4>3, <4>4 DEF Requests
    <3>3. RequestOK(r)
      BY <2>1, <3>2, SessionParts DEF RequestOK
    <3>4. RequestOK(r)'
      BY <1>1, <3>3, RequestsKept DEF IInv
    <3>5. Progress(Page(u), r)
      BY <2>1, <2>2, <3>2, SessionParts DEF Progress
    <3> QED BY <1>1, <2>5, <3>1, <3>4, <3>5, ContinueOK
  <2> QED BY <1>6, <2>1, <2>3, <2>4, <2>5 DEF ReadWinner
<1> QED BY <1>2, <1>3, <1>4, <1>5, <1>6

\* A step that writes the next revision of one copy.
LEMMA CopyWritten ==
  ASSUME IInv, NEW t \in Targets, NEW copy \in Ledger!Copies,
         copy.revision = copies[t].revision + 1, copy.revision <= MaxCopy,
         copies' = [copies EXCEPT ![t] = copy], UNCHANGED <<system, suspended>>
  PROVE  Advance /\ Stored' /\ CopyRead(t, copy)'
<1>1. copies'[t] = copy /\ \A v \in Targets \ {t} : copies'[v] = copies[v]
  BY DEF IInv, Stored
<1>2. copies' \in [Targets -> Ledger!Copies]
  BY DEF IInv, Stored
<1>3. Advance
  BY <1>1 DEF Advance
<1>4. Stored'
  BY <1>1, <1>2 DEF IInv, Stored
<1>5. CopyRead(t, copy)'
  BY <1>1 DEF CopyRead, Ledger!Copies
<1> QED BY <1>3, <1>4, <1>5

\* The first read of a target creates its copy from the System record as it is.
LEMMA InitializeStep ==
  ASSUME IInv, NEW u \in Users, Initialize(u)
  PROVE  IInv' /\ [\E t \in Targets : Ledger!FirstUse(t)]_<<system, copies>>
<1>1. PICK t : t = Request(u).target
  OBVIOUS
<1>2. t \in Targets /\ SystemRead(Request(u).source)
  BY <1>1, SessionParts DEF Initialize, At, Progress, RequestOK
<1>3. CASE SourceHolds(Request(u).source) /\ CopyHolds(t, 0)
  <2>1. Request(u).source = system /\ copies[t].revision = 0
    BY <1>2, <1>3 DEF SourceHolds, CopyHolds, SystemRead
  <2>2. PICK copy : copy = [revision |-> 1, value |-> system.value]
    OBVIOUS
  <2>3. copy \in Ledger!Copies /\ copy.revision = 1
    BY <2>2 DEF IInv, Stored, Ledger!SystemRecords, Ledger!Copies
  <2>4. /\ copies' = [copies EXCEPT ![t] = copy] /\ Snapshot(u, copy)
        /\ UNCHANGED <<system, suspended>>
    BY <1>1, <1>3, <2>1, <2>2 DEF Initialize
  <2>5. copy.revision = copies[t].revision + 1 /\ copy.revision <= MaxCopy
    BY <2>1, <2>3, SettingsAssumption
  <2>6. Advance /\ Stored' /\ CopyRead(t, copy)'
    BY <1>2, <2>1, <2>3, <2>4, <2>5, CopyWritten
  <2>7. IInv'
    BY <1>1, <1>2, <2>3, <2>4, <2>6, SnapshotOK
  <2>8. Ledger!FirstUse(t)
    BY <2>1, <2>2, <2>4 DEF Ledger!FirstUse
  <2> QED BY <1>2, <2>7, <2>8
<1>4. CASE ~(SourceHolds(Request(u).source) /\ CopyHolds(t, 0))
  <2>1. Step(u, "winner") /\ UNCHANGED <<system, copies, suspended>>
    BY <1>1, <1>4 DEF Initialize
  <2>2. IInv'
    BY <1>1, <1>2, <2>1, NothingWritten, StepOK
  <2> QED BY <2>1, <2>2
<1> QED BY <1>3, <1>4

\* When the conditions of a save hold, page and request have read the stored records.
LEMMA SavedAsRead ==
  ASSUME IInv, NEW u \in Users, At(u, "commit"), Request(u).op = "save",
         SourceHolds(Request(u).source),
         CopyHolds(Request(u).target, Page(u).copy.revision)
  PROVE  /\ Request(u).target \in Targets /\ Page(u).of = Request(u).target
         /\ Request(u).source = system /\ Page(u).source = system
         /\ Request(u).copy = copies[Request(u).target]
         /\ Page(u).copy = copies[Request(u).target]
         /\ copies[Request(u).target].revision > 0
         /\ FormHolds(Page(u), system, Request(u).copy, Request(u).value)
<1>1. /\ Request(u).target \in Targets /\ Page(u).of = Request(u).target
      /\ Request(u).copy.revision > 0
      /\ FormHolds(Page(u), Request(u).source, Request(u).copy, Request(u).value)
  BY SessionParts DEF Progress, At
<1>2. /\ SystemRead(Request(u).source) /\ SystemRead(Page(u).source)
      /\ CopyRead(Request(u).target, Request(u).copy)
      /\ CopyRead(Request(u).target, Page(u).copy)
  BY <1>1, SessionParts DEF RequestOK, PageOK
<1>3. Request(u).source = system
  BY <1>2 DEF SourceHolds, SystemRead
<1>4. Page(u).source = system
  BY <1>1, <1>2, <1>3 DEF FormHolds, SystemRead
<1>5. Page(u).copy = copies[Request(u).target]
  BY <1>2 DEF CopyHolds, CopyRead
<1>6. Request(u).copy = copies[Request(u).target]
  BY <1>1, <1>2, <1>5 DEF FormHolds, CopyRead
<1> QED BY <1>1, <1>3, <1>4, <1>5, <1>6

LEMMA CommitSaveStep ==
  ASSUME IInv, NEW u \in Users, CommitSave(u)
  PROVE  IInv' /\ [\E t \in Targets : Ledger!Edit(t)]_<<system, copies>>
<1>1. PICK t : t = Request(u).target
  OBVIOUS
<1>2. CASE SourceHolds(Request(u).source) /\ CopyHolds(t, Page(u).copy.revision)
  <2>1. /\ t \in Targets /\ Request(u).source = system
        /\ Request(u).copy = copies[t] /\ Page(u).copy = copies[t]
        /\ copies[t].revision > 0
    BY <1>1, <1>2, SavedAsRead DEF CommitSave
  <2>2. PICK value : value = Kept(system, copies[t], t, Request(u).value)
    OBVIOUS
  <2>3. /\ value \in [Fields -> Values]
        /\ \A f \in Ledger!Locked(t) : value[f] = copies[t].value[f]
    <3>1. copies[t].value \in [Fields -> Values]
      BY <2>1 DEF IInv, Stored, Ledger!Copies
    <3>2. Request(u).value \in [Fields -> Values]
      BY SessionParts DEF Requests
    <3> QED BY <2>2, <3>1, <3>2 DEF Kept, Ledger!Locked
  <2>4. PICK copy : copy = [revision |-> copies[t].revision + 1, value |-> value]
    OBVIOUS
  <2>5. /\ copy \in Ledger!Copies /\ copy.revision = copies[t].revision + 1
        /\ copy.revision <= MaxCopy
    <3>1. copies[t].revision \in Nat /\ copies[t].revision < MaxCopy
      BY <2>1 DEF IInv, Stored, Ledger!Copies, CommitSave
    <3> QED BY <2>3, <2>4, <3>1, SettingsAssumption DEF Ledger!Copies
  <2>6. PICK request :
          request = [NoRequest EXCEPT !.op = "reload", !.target = t, !.step = "source"]
    OBVIOUS
  <2>7. /\ copies' = [copies EXCEPT ![t] = copy] /\ Continue(u, request)
        /\ UNCHANGED <<system, suspended>>
    BY <1>1, <1>2, <2>1, <2>2, <2>4, <2>6 DEF CommitSave
  <2>8. Advance /\ Stored'
    BY <2>1, <2>5, <2>7, CopyWritten
  <2>9. IInv'
    <3>1. /\ request \in Requests /\ request.op = "reload" /\ request.target = t
          /\ request.step = "source" /\ request.source = NoSource
          /\ request.copy = NoCopy
      BY <2>1, <2>6, InitialRecords DEF NoRequest, Requests
    <3>2. RequestOK(request)
      BY <2>1, <3>1 DEF RequestOK, IInv, Unread
    <3>3. RequestOK(request)' /\ Progress(Page(u), request)
      BY <2>1, <2>8, <3>1, <3>2, RequestsKept DEF Progress, IInv
    <3> QED BY <2>7, <2>8, <3>3, ContinueOK
  <2>10. Ledger!Edit(t)
    <3>1. copies' = [copies EXCEPT ![t] =
                       [revision |-> copies[t].revision + 1, value |-> value]]
      BY <2>4, <2>7
    <3> QED BY <2>1, <2>3, <2>7, <3>1 DEF Ledger!Edit
  <2> QED BY <2>1, <2>9, <2>10
<1>3. CASE ~(SourceHolds(Request(u).source) /\ CopyHolds(t, Page(u).copy.revision))
  <2>1. Refuse(u) /\ UNCHANGED <<system, copies, suspended>>
    BY <1>1, <1>3 DEF CommitSave
  <2> QED BY <2>1, NothingWritten, RefuseOK
<1> QED BY <1>2, <1>3

LEMMA CommitOverwriteStep ==
  ASSUME IInv, NEW u \in Users, CommitOverwrite(u)
  PROVE  /\ IInv'
         /\ \/ UNCHANGED <<system, copies>>
            \/ Ledger!Overwrite(Request(u).target, Request(u).fields)
         /\ Request(u).target \in Targets /\ Request(u).fields \in SUBSET Fields
<1>1. PICK t, fields : t = Request(u).target /\ fields = Request(u).fields
  OBVIOUS
<1>2. /\ t \in Targets /\ fields \in SUBSET Fields
      /\ SystemRead(Request(u).source) /\ CopyRead(t, Request(u).copy)
      /\ Request(u).copy.revision > 0
  BY <1>1, SessionParts DEF CommitOverwrite, At, Progress, RequestOK, Requests
<1>3. CASE SourceHolds(Request(u).source) /\ CopyHolds(t, Request(u).copy.revision)
  <2>1. Request(u).source = system /\ Request(u).copy = copies[t]
    BY <1>2, <1>3 DEF SourceHolds, CopyHolds, SystemRead, CopyRead
  <2>2. PICK value : value = Overwritten(system, copies[t], fields)
    OBVIOUS
  <2>3. value \in [Fields -> Values]
    BY <1>2, <2>2
    DEF Overwritten, IInv, Stored, Ledger!Copies, Ledger!SystemRecords
  <2>4. PICK copy : copy = [revision |-> copies[t].revision + 1, value |-> value]
    OBVIOUS
  <2>5. /\ copy \in Ledger!Copies /\ copy.revision = copies[t].revision + 1
        /\ copy.revision <= MaxCopy
    <3>1. copies[t].revision \in Nat /\ copies[t].revision < MaxCopy
      BY <1>2, <2>1 DEF IInv, Stored, Ledger!Copies, CommitOverwrite
    <3> QED BY <2>3, <2>4, <3>1, SettingsAssumption DEF Ledger!Copies
  <2>6. /\ copies' = [copies EXCEPT ![t] = copy] /\ Refuse(u)
        /\ UNCHANGED <<system, suspended>>
    BY <1>1, <1>3, <2>1, <2>2, <2>4 DEF CommitOverwrite, Refuse
  <2>7. IInv'
    BY <1>2, <2>5, <2>6, CopyWritten, RefuseOK
  <2>8. Ledger!Overwrite(t, fields)
    BY <1>2, <2>1, <2>2, <2>4, <2>6 DEF Ledger!Overwrite, Overwritten
  <2> QED BY <1>1, <1>2, <2>7, <2>8
<1>4. CASE ~(SourceHolds(Request(u).source) /\ CopyHolds(t, Request(u).copy.revision))
  <2>1. Refuse(u) /\ UNCHANGED <<system, copies, suspended>>
    BY <1>1, <1>4 DEF CommitOverwrite
  <2> QED BY <1>1, <1>2, <2>1, NothingWritten, RefuseOK
<1> QED BY <1>3, <1>4

LEMMA CommitSystemStep ==
  ASSUME IInv, NEW u \in Users, CommitSystem(u)
  PROVE  IInv' /\ [Ledger!SaveSystem]_<<system, copies>> /\ UNCHANGED copies
<1>1. SystemRead(Page(u).source) /\ Page(u) \in Pages
  BY SessionParts DEF PageOK
<1>2. CASE SourceHolds(Page(u).source)
  <2>1. Page(u).source = system
    BY <1>1, <1>2 DEF SourceHolds, SystemRead
  <2>2. PICK source :
          source = [revision |-> system.revision + 1,
                    value |-> Request(u).value, locks |-> Request(u).locks]
    OBVIOUS
  <2>3. /\ source \in Ledger!SystemRecords
        /\ source.revision = system.revision + 1 /\ source.revision <= MaxSystem
    <3>1. /\ system.revision \in Nat /\ system.revision < MaxSystem
      BY <2>1 DEF IInv, Stored, Ledger!SystemRecords, CommitSystem
    <3>2. /\ Request(u).value \in [Fields -> Values]
          /\ Request(u).locks \in SUBSET (Fields \X Targets)
      BY SessionParts DEF Requests
    <3> QED BY <2>2, <3>1, <3>2, SettingsAssumption DEF Ledger!SystemRecords
  <2>4. PICK page : page = [Page(u) EXCEPT !.source = source]
    OBVIOUS
  <2>5. /\ system' = source /\ Close(u, page) /\ UNCHANGED <<copies, suspended>>
    BY <1>2, <2>1, <2>2, <2>4 DEF CommitSystem
  <2>6. Advance /\ Stored'
    BY <2>3, <2>5 DEF Advance, IInv, Stored
  <2>7. /\ page.of = Page(u).of /\ page.source = source /\ page.copy = Page(u).copy
        /\ page \in Pages
    BY <1>1, <2>3, <2>4 DEF Pages
  <2>8. page.of \in Targets => CopyRead(page.of, page.copy)
    BY <2>7, SessionParts DEF PageOK
  <2>9. SystemRead(source)'
    BY <2>3, <2>5 DEF SystemRead, Ledger!SystemRecords
  <2>10. PageOK(page)'
    BY <2>6, <2>7, <2>8, <2>9, ReadsKept DEF PageOK, IInv
  <2>11. IInv'
    BY <2>5, <2>6, <2>10, CloseOK
  <2>12. Ledger!SaveSystem
    <3>1. /\ Request(u).value \in [Fields -> Values]
          /\ Request(u).locks \in SUBSET (Fields \X Targets)
      BY SessionParts DEF Requests
    <3> QED BY <2>2, <2>5, <3>1 DEF Ledger!SaveSystem
  <2> QED BY <2>5, <2>11, <2>12
<1>3. CASE ~SourceHolds(Page(u).source)
  <2>1. Refuse(u) /\ UNCHANGED <<system, copies, suspended>>
    BY <1>3 DEF CommitSystem
  <2> QED BY <2>1, NothingWritten, RefuseOK
<1> QED BY <1>2, <1>3

LEMMA StatusStep ==
  ASSUME IInv, SetTenantStatus
  PROVE  IInv' /\ UNCHANGED <<system, copies, session>>
<1>1. UNCHANGED <<system, copies, session>> /\ suspended' \in SUBSET Tenants
  BY DEF SetTenantStatus, IInv, Stored
<1>2. Stored' /\ Unread'
  BY <1>1 DEF IInv, Stored, Unread, SystemRead, CopyRead
<1>3. ASSUME NEW u \in Users PROVE SessionOK(session[u])'
  BY <1>1 DEF IInv, SessionOK, PageOK, RequestOK, SystemRead, CopyRead
<1> QED BY <1>1, <1>2, <1>3 DEF IInv

\* One step, seen by the invariant and by the ledger.
LEMMA StepImplementsLedger ==
  ASSUME IInv, [Next]_vars
  PROVE  IInv' /\ [Ledger!Next]_<<system, copies>>
<1>1. CASE UNCHANGED vars
  <2>1. UNCHANGED <<system, copies, suspended, session>>
    BY <1>1 DEF vars
  <2>2. Stored' /\ Unread'
    BY <2>1 DEF IInv, Stored, Unread, SystemRead, CopyRead
  <2>3. ASSUME NEW u \in Users PROVE SessionOK(session[u])'
    BY <2>1 DEF IInv, SessionOK, PageOK, RequestOK, SystemRead, CopyRead
  <2> QED BY <2>1, <2>2, <2>3 DEF IInv
<1>2. ASSUME NEW u \in Users,
             Open(u) \/ Save(u) \/ SaveSystem(u) \/ Overwrite(u)
      PROVE  IInv' /\ [Ledger!Next]_<<system, copies>>
  BY <1>2, BeginningsOK DEF Open, Save, SaveSystem, Overwrite, Begin
<1>3. ASSUME NEW u \in Users,
             \/ Validate(u) \/ ReadSource(u) \/ PrepareSystem(u)
             \/ ReadCopy(u) \/ ReadWinner(u)
      PROVE  IInv' /\ [Ledger!Next]_<<system, copies>>
  BY <1>3, ReadingsOK DEF Validate, ReadSource, PrepareSystem, ReadCopy, ReadWinner
<1>4. ASSUME NEW u \in Users, Initialize(u) \/ CommitSave(u)
      PROVE  IInv' /\ [Ledger!Next]_<<system, copies>>
  BY <1>4, InitializeStep, CommitSaveStep DEF Ledger!Next
<1>5. ASSUME NEW u \in Users, CommitOverwrite(u)
      PROVE  IInv' /\ [Ledger!Next]_<<system, copies>>
  BY <1>5, CommitOverwriteStep DEF Ledger!Next
<1>6. ASSUME NEW u \in Users, CommitSystem(u)
      PROVE  IInv' /\ [Ledger!Next]_<<system, copies>>
  BY <1>6, CommitSystemStep DEF Ledger!Next
<1>7. ASSUME SetTenantStatus PROVE IInv' /\ [Ledger!Next]_<<system, copies>>
  BY <1>7, StatusStep
<1> QED BY <1>1, <1>2, <1>3, <1>4, <1>5, <1>6, <1>7 DEF Next

-----------------------------------------------------------------------------
(* Who moves a session, and how.                                           *)

ActionOf(u) ==
  \/ Open(u) \/ Save(u) \/ SaveSystem(u) \/ Overwrite(u)
  \/ Validate(u) \/ ReadSource(u) \/ PrepareSystem(u) \/ ReadCopy(u)
  \/ Initialize(u) \/ ReadWinner(u)
  \/ CommitSave(u) \/ CommitOverwrite(u) \/ CommitSystem(u)

\* Actions leave the sessions of others alone.
LEMMA SessionsOfOthers ==
  ASSUME IInv, NEW u \in Users, NEW v \in Users, u # v, ActionOf(v)
  PROVE  session'[u] = session[u]
<1>1. ASSUME NEW r, Continue(v, r) PROVE session'[u] = session[u]
  BY <1>1 DEF Continue, IInv
<1>2. ASSUME NEW p, Close(v, p) PROVE session'[u] = session[u]
  BY <1>2 DEF Close, IInv
<1>3. ASSUME NEW copy, Snapshot(v, copy) PROVE session'[u] = session[u]
  BY <1>1, <1>2, <1>3 DEF Snapshot, Refuse
<1>4. ASSUME NEW step, Step(v, step) PROVE session'[u] = session[u]
  BY <1>1, <1>4 DEF Step
<1>5. CASE Open(v) \/ Save(v) \/ SaveSystem(v) \/ Overwrite(v)
  BY <1>1, <1>5 DEF Open, Save, SaveSystem, Overwrite, Begin
<1>6. CASE Validate(v) \/ ReadSource(v) \/ PrepareSystem(v)
  BY <1>1, <1>2, <1>4, <1>6 DEF Validate, ReadSource, PrepareSystem, Refuse
<1>7. CASE ReadCopy(v) \/ Initialize(v) \/ ReadWinner(v)
  BY <1>1, <1>2, <1>3, <1>4, <1>7 DEF ReadCopy, Initialize, ReadWinner, Refuse
<1>8. CASE CommitSave(v) \/ CommitOverwrite(v) \/ CommitSystem(v)
  BY <1>1, <1>2, <1>8 DEF CommitSave, CommitOverwrite, CommitSystem, Refuse
<1> QED BY <1>5, <1>6, <1>7, <1>8 DEF ActionOf

LEMMA OwnAction ==
  ASSUME IInv, Next, NEW u \in Users, session'[u] # session[u]
  PROVE  ActionOf(u)
<1>1. CASE SetTenantStatus
  BY <1>1 DEF SetTenantStatus
<1>2. ASSUME NEW v \in Users, ActionOf(v) PROVE ActionOf(u)
  BY <1>2, SessionsOfOthers
<1> QED BY <1>1, <1>2 DEF Next, ActionOf

\* An overwrite is over when it has written.
LEMMA OverwriteCloses ==
  ASSUME IInv, NEW u \in Users, CommitOverwrite(u)
  PROVE  session'[u].request = NoRequest
BY DEF CommitOverwrite, Refuse, Close, IInv

\* A save is answered by its commit only.
LEMMA SaveCommits ==
  ASSUME IInv, Next, NEW u \in Users, Saves(u)
  PROVE  /\ CommitSave(u)
         /\ SourceHolds(Request(u).source)
         /\ CopyHolds(Request(u).target, Page(u).copy.revision)
<1>1. Request(u).op = "save" /\ session'[u].request.op = "reload"
  BY DEF Saves
<1>2. session'[u] # session[u]
  BY <1>1 DEF Request
<1>3. ActionOf(u)
  BY <1>2, OwnAction
<1>4. ASSUME NEW r, Continue(u, r) PROVE r.op = "reload"
  <2>1. session'[u].request = r
    BY <1>4 DEF Continue, IInv
  <2> QED BY <1>1, <2>1
<1>5. ASSUME NEW p, Close(u, p) PROVE FALSE
  <2>1. session'[u].request = NoRequest
    BY <1>5 DEF Close, IInv
  <2> QED BY <1>1, <2>1 DEF NoRequest
<1>6. ASSUME NEW step, Step(u, step) PROVE FALSE
  <2>1. PICK r : r = [Request(u) EXCEPT !.step = step]
    OBVIOUS
  <2>2. r.op = Request(u).op
    BY <2>1, SessionParts DEF Requests
  <2> QED BY <1>1, <1>4, <1>6, <2>1, <2>2 DEF Step
<1>7. ASSUME NEW copy, Snapshot(u, copy) PROVE FALSE
  <2>1. PICK r : r = [Request(u) EXCEPT !.copy = copy, !.step = "commit"]
    OBVIOUS
  <2>2. r.op = Request(u).op
    BY <2>1, SessionParts DEF Requests
  <2> QED BY <1>1, <1>4, <1>5, <1>7, <2>1, <2>2 DEF Snapshot, Refuse
<1>8. ~(Open(u) \/ Save(u) \/ SaveSystem(u) \/ Overwrite(u))
  <2>1. ASSUME NEW op \in {"open", "save", "overwrite", "system"},
               NEW target, NEW value, NEW locks, NEW fields,
               Begin(u, op, target, value, locks, fields)
        PROVE  FALSE
    <3>1. PICK r : r = [NoRequest EXCEPT
       !.op = op, !.target = target, !.value = value, !.locks = locks,
       !.fields = fields,
       !.step = IF target = SystemPage THEN "source" ELSE "validate"]
      OBVIOUS
    <3>2. r.op = op
      BY <3>1 DEF NoRequest
    <3> QED BY <1>4, <2>1, <3>1, <3>2 DEF Begin
  <2> QED BY <2>1 DEF Open, Save, SaveSystem, Overwrite
<1>9. ~(Validate(u) \/ PrepareSystem(u))
  BY <1>5, <1>6 DEF Validate, PrepareSystem, Refuse
<1>10. ~ReadSource(u)
  <2>1. PICK r : r = [Request(u) EXCEPT !.source = system, !.step = "copy"]
    OBVIOUS
  <2>2. r.op = Request(u).op
    BY <2>1, SessionParts DEF Requests
  <2> QED BY <1>1, <1>4, <1>5, <2>1, <2>2 DEF ReadSource
<1>11. ~(ReadCopy(u) \/ Initialize(u))
  BY <1>6, <1>7 DEF ReadCopy, Initialize
<1>12. ~ReadWinner(u)
  <2>1. PICK r : r = [Request(u) EXCEPT !.attempt = Request(u).attempt + 1,
                                        !.step = "source"]
    OBVIOUS
  <2>2. r.op = Request(u).op
    BY <2>1, SessionParts DEF Requests
  <2> QED BY <1>1, <1>4, <1>5, <1>7, <2>1, <2>2 DEF ReadWinner, Refuse
<1>13. ~(CommitOverwrite(u) \/ CommitSystem(u))
  BY <1>1 DEF CommitOverwrite, CommitSystem
<1>14. CommitSave(u)
  BY <1>3, <1>8, <1>9, <1>10, <1>11, <1>12, <1>13 DEF ActionOf
<1> QED BY <1>5, <1>14 DEF CommitSave, Refuse

-----------------------------------------------------------------------------
(* The theorems.                                                           *)

\* The invariant holds in every reachable state.
THEOREM InductiveInvariant == Spec => []IInv
<1>1. IInv /\ [Next]_vars => IInv'
  BY StepImplementsLedger
<1> QED BY InitOK, <1>1, PTL DEF Spec

\* Stored records, pages and requests keep their shape, and revisions their bounds.
THEOREM TypeCorrect == Spec => []TypeOK
<1>1. IInv => TypeOK
  BY DEF IInv, Stored, TypeOK
<1> QED BY <1>1, InductiveInvariant, PTL

\* Every interleaving of requests changes the stored records by atomic changes of the
\* ledger only: SaveSystem, FirstUse, Edit and Overwrite on the records as they are.
THEOREM RequestsImplementLedger == Spec => ImplementsLedger
<1>1. Init => Ledger!Init
  BY DEF Init
<1>2. IInv /\ [Next]_vars => [Ledger!Next]_(Ledger!vars)
  BY StepImplementsLedger DEF Ledger!vars
<1> QED BY <1>1, <1>2, InductiveInvariant, PTL DEF Spec, ImplementsLedger, Ledger!Spec

\* No save changes a field its administrator left as the page showed it, however old
\* the page is: the two revisions of the page are compared, and a locked field keeps
\* its local value.
THEOREM NoLostUpdate == Spec => UneditedFieldsKept
<1>1. ASSUME IInv, [Next]_vars, NEW u \in Users, Saves(u), NEW f \in Fields,
             Request(u).value[f] = Shown(Page(u))[f]
      PROVE  copies'[Request(u).target].value[f] = copies[Request(u).target].value[f]
  <2>1. Next
    BY <1>1 DEF vars, Saves, Request
  <2>2. PICK t : t = Request(u).target
    OBVIOUS
  <2>3. /\ CommitSave(u) /\ SourceHolds(Request(u).source)
        /\ CopyHolds(t, Page(u).copy.revision)
    BY <1>1, <2>1, <2>2, SaveCommits
  <2>4. /\ t \in Targets /\ Page(u).of = t
        /\ Request(u).source = system /\ Page(u).source = system
        /\ Request(u).copy = copies[t] /\ Page(u).copy = copies[t]
    BY <1>1, <2>2, <2>3, SavedAsRead DEF CommitSave
  <2>5. copies'[t].value = Kept(system, copies[t], t, Request(u).value)
    BY <1>1, <2>2, <2>3, <2>4 DEF CommitSave, IInv, Stored
  <2> QED BY <1>1, <2>2, <2>4, <2>5, PageAssumption DEF Kept, Shown, Effective
<1>2. IInv /\ [Next]_vars =>
        [\A u \in Users : Saves(u) =>
           LET t == Request(u).target
           IN  \A f \in Fields :
                 Request(u).value[f] = Shown(Page(u))[f]
                   => copies'[t].value[f] = copies[t].value[f]]_vars
  BY <1>1
<1> QED BY <1>2, InductiveInvariant, PTL DEF Spec, UneditedFieldsKept

\* A local value hidden by an enforced field outlives every save and every change of the
\* rules that is on its way: only an overwrite of that field replaces it.
THEOREM HiddenValuesSurvive == Spec => LockedFieldsKept
<1>1. ASSUME IInv, [Next]_vars, NEW t \in Targets, NEW f \in Fields,
             <<f, t>> \in system.locks, copies[t].revision > 0,
             ~ \E u \in Users : Overwrites(u, t, f)
      PROVE  copies'[t].value[f] = copies[t].value[f]
  <2>1. ASSUME NEW v \in Targets, Ledger!FirstUse(v) \/ Ledger!Edit(v)
        PROVE  copies'[t].value[f] = copies[t].value[f]
    <3>1. CASE Ledger!FirstUse(v)
      BY <1>1, <3>1 DEF Ledger!FirstUse, IInv, Stored
    <3>2. CASE Ledger!Edit(v)
      BY <1>1, <3>2 DEF Ledger!Edit, Ledger!Locked, IInv, Stored
    <3> QED BY <2>1, <3>1, <3>2
  <2>2. CASE UNCHANGED copies
    BY <2>2
  <2>3. ASSUME NEW u \in Users, Initialize(u) \/ CommitSave(u)
        PROVE  copies'[t].value[f] = copies[t].value[f]
    BY <1>1, <2>1, <2>2, <2>3, InitializeStep, CommitSaveStep
  <2>4. ASSUME NEW u \in Users, CommitOverwrite(u)
        PROVE  copies'[t].value[f] = copies[t].value[f]
    <3>1. PICK v, fields : v = Request(u).target /\ fields = Request(u).fields
      OBVIOUS
    <3>2. CASE Ledger!Overwrite(v, fields)
      <4>1. v \in Targets
        BY <1>1, <2>4, <3>1, CommitOverwriteStep
      <4>2. CASE t # v
        BY <1>1, <3>2, <4>1, <4>2 DEF Ledger!Overwrite, IInv, Stored
      <4>3. CASE t = v
        <5>1. session'[u] # session[u]
          <6>1. session'[u].request = NoRequest
            BY <1>1, <2>4, <3>1, <3>2, OverwriteCloses
          <6>2. Request(u).step = "commit"
            BY <2>4 DEF CommitOverwrite, At
          <6> QED BY <6>1, <6>2 DEF NoRequest, Request
        <5>2. f \notin fields
          BY <1>1, <2>4, <3>1, <4>3, <5>1 DEF Overwrites, CommitOverwrite
        <5> QED BY <1>1, <3>2, <4>1, <4>3, <5>2 DEF Ledger!Overwrite, IInv, Stored
      <4> QED BY <4>2, <4>3
    <3> QED BY <1>1, <2>2, <2>4, <3>1, <3>2, CommitOverwriteStep
  <2>5. CASE Next /\ ~(\E u \in Users : Initialize(u) \/ CommitSave(u)
                                          \/ CommitOverwrite(u))
    BY <2>2, <2>5 DEF Next, Open, Save, SaveSystem, Overwrite, Begin, Validate,
       ReadSource, PrepareSystem, ReadCopy, ReadWinner, CommitSystem, SetTenantStatus
  <2> QED BY <1>1, <2>2, <2>3, <2>4, <2>5 DEF vars
<1>2. IInv /\ [Next]_vars =>
        [\A t \in Targets, f \in Fields :
           (/\ <<f, t>> \in system.locks
            /\ copies[t].revision > 0
            /\ ~ \E u \in Users : Overwrites(u, t, f))
           => copies'[t].value[f] = copies[t].value[f]]_vars
  BY <1>1
<1> QED BY <1>2, InductiveInvariant, PTL DEF Spec, LockedFieldsKept

\* No save of the System page changes a value or the rules the administrator left as
\* they were, whatever other administrators saved since the page was opened.
THEOREM SystemEditsSafe == Spec => SystemEditsKept
<1>1. ASSUME IInv, [Next]_vars, NEW u \in Users, SavesSystem(u)
      PROVE  /\ \A f \in Fields : Request(u).value[f] = Page(u).source.value[f]
                  => system'.value[f] = system.value[f]
             /\ Request(u).locks = Page(u).source.locks
                  => system'.locks = system.locks
  <2>1. Next /\ ActionOf(u) /\ system' # system
    BY <1>1, OwnAction DEF SavesSystem, vars
  <2>2. CommitSystem(u) /\ SourceHolds(Page(u).source)
    BY <2>1 DEF ActionOf, Open, Save, SaveSystem, Overwrite, Begin, Validate,
       ReadSource, PrepareSystem, ReadCopy, ReadWinner, Initialize, CommitSave,
       CommitOverwrite, CommitSystem
  <2>3. SystemRead(Page(u).source)
    BY <1>1, SessionParts DEF PageOK
  <2>4. Page(u).source = system
    BY <2>2, <2>3 DEF SourceHolds, SystemRead
  <2>5. system' = [revision |-> system.revision + 1, value |-> Request(u).value,
                   locks |-> Request(u).locks]
    BY <2>2, <2>4 DEF CommitSystem
  <2> QED BY <2>4, <2>5
<1>2. IInv /\ [Next]_vars =>
        [\A u \in Users : SavesSystem(u) =>
           /\ \A f \in Fields : Request(u).value[f] = Page(u).source.value[f]
                => system'.value[f] = system.value[f]
           /\ Request(u).locks = Page(u).source.locks
                => system'.locks = system.locks]_vars
  BY <1>1
<1> QED BY <1>2, InductiveInvariant, PTL DEF Spec, SystemEditsKept
=============================================================================
