--------------------------- MODULE RoomThreadProofs ---------------------------
(***************************************************************************)
(* Theorems about RoomThread for every set of users, tabs and messages and *)
(* every number of concurrent requests.                                    *)
(***************************************************************************)
EXTENDS RoomThread, TLAPS

----------------------------------------------------------------------------
(* Type correctness *)

LEMMA NewRequestType ==
  ASSUME NEW op \in AllOps \union {"subscribe", "list"}, NEW u \in Users,
         NEW t \in Tabs \union {"none"}, NEW id \in Msgs \union {NoMsg}
  PROVE  NewRequest(op, u, t, id) \in Request
<1>1. NoPage \in Pages /\ 0 \in 0..MaxVersion
  BY VersionAssumption DEF NoPage, Pages
<1> QED BY <1>1 DEF NewRequest, Request, Stages, AllOps

LEMMA AfterMemberIsStage ==
  ASSUME NEW op PROVE AfterMember(op) \in Stages
BY DEF AfterMember, Stages

LEMMA FinishType ==
  ASSUME TypeOK, NEW r \in Requests, Finish(r)
  PROVE  req' \in [Requests -> Request \union {Idle}]
BY DEF TypeOK, Finish

LEMMA RequestAtStage ==
  ASSUME TypeOK, NEW r \in Requests, NEW s \in Stages, At(r, s)
  PROVE  Busy(r) /\ req[r] \in Request
<1>1. req[r] # Idle
  BY DEF At, Idle, Stages
<1> QED BY <1>1 DEF TypeOK, Busy

LEMMA ProceedType ==
  ASSUME TypeOK, NEW r \in Requests, Busy(r), NEW s \in Stages, Proceed(r, s)
  PROVE  req' \in [Requests -> Request \union {Idle}]
<1>1. req[r] \in Request
  BY DEF TypeOK, Busy
<1>2. [req[r] EXCEPT !.stage = s] \in Request
  BY <1>1 DEF Request
<1> QED BY <1>2 DEF TypeOK, Proceed

LEMMA PageType == TypeOK => Page \in Pages
<1> SUFFICES ASSUME TypeOK, NEW m \in Msgs
             PROVE  (IF Present(m) THEN msg[m].version ELSE 0) \in 0..MaxVersion
  BY DEF Page, Pages
<1>1. CASE Present(m)
  <2>1. msg[m] \in Row
    BY <1>1 DEF Present, Stored, TypeOK
  <2> QED BY <1>1, <2>1, VersionAssumption DEF Row, Versions
<1> QED BY <1>1, VersionAssumption

LEMMA MergeType ==
  ASSUME NEW shown \in Pages, NEW page \in Pages
  PROVE  Merge(shown, page) \in Pages
BY DEF Merge, Pages

LEMMA AfterType ==
  ASSUME NEW shown \in Pages, NEW ev \in Event
  PROVE  After(shown, ev) \in Pages
<1>1. 0 \in 0..MaxVersion
  BY VersionAssumption
<1> DEFINE v == CASE ev.kind = "message" -> IF shown[ev.id] = 0 THEN ev.version
                                            ELSE shown[ev.id]
                  [] ev.kind = "edited" -> IF shown[ev.id] = 0 THEN 0 ELSE ev.version
                  [] OTHER -> 0
<1>2. v \in 0..MaxVersion
  BY <1>1 DEF Pages, Event
<1>3. After(shown, ev) = [shown EXCEPT ![ev.id] = v]
  BY DEF After
<1> HIDE DEF v
<1> QED BY <1>2, <1>3 DEF Pages

LEMMA ClosedType == Closed \in View
<1>1. NoPage \in Pages
  BY VersionAssumption DEF NoPage, Pages
<1> QED BY <1>1 DEF Closed, View

\* What the two steps of a list change in a view.
LEMMA ViewSteps ==
  ASSUME NEW v \in View, NEW b \in BOOLEAN, NEW p \in Pages
  PROVE  /\ [v EXCEPT !.joinedFirst = b] \in View
         /\ [v EXCEPT !.shown = p, !.loaded = TRUE] \in View
BY DEF View

LEMMA TypeInit == Init => TypeOK
BY ClosedType DEF Init, TypeOK, NoRow, Idle

LEMMA TypeClients ==
  ASSUME TypeOK, Govern \/ (\E r \in Requests, op \in Ops, u \in Users,
                               m \in Msgs \union {NoMsg} : Start(r, op, u, m))
                 \/ (\E t \in Tabs, r, s \in Requests : OpenRoom(t, r, s))
                 \/ (\E t \in Tabs : CloseRoom(t) \/ Reconnect(t) \/ Deliver(t))
  PROVE  TypeOK'
<1> USE DEF tables
<1>1. CASE Govern
  BY <1>1 DEF Govern, TypeOK
<1>2. ASSUME NEW r \in Requests, NEW op \in Ops, NEW u \in Users,
             NEW m \in Msgs \union {NoMsg}, Start(r, op, u, m)
      PROVE  TypeOK'
  <2>1. NewRequest(op, u, "none", m) \in Request
    BY NewRequestType, OpsAssumption
  <2> QED BY <1>2, <2>1 DEF Start, TypeOK
<1>3. ASSUME NEW t \in Tabs, NEW r \in Requests, NEW s \in Requests, OpenRoom(t, r, s)
      PROVE  TypeOK'
  <2>1. /\ NewRequest("list", UserOf[t], t, NoMsg) \in Request
        /\ NewRequest("subscribe", UserOf[t], t, NoMsg) \in Request
    BY NewRequestType, TabsAssumption
  <2>2. [Closed EXCEPT !.open = TRUE, !.steady = TRUE] \in View
    BY ClosedType DEF View
  <2> QED BY <1>3, <2>1, <2>2 DEF OpenRoom, TypeOK
<1>4. ASSUME NEW t \in Tabs, CloseRoom(t) PROVE TypeOK'
  <2>1. inbox' \in [Tabs -> Seq(Event)]
    BY <1>4 DEF CloseRoom, TypeOK
  <2> QED BY <1>4, <2>1, ClosedType DEF CloseRoom, TypeOK
<1>5. ASSUME NEW t \in Tabs, Reconnect(t) PROVE TypeOK'
  <2>1. inbox' \in [Tabs -> Seq(Event)]
    BY <1>5 DEF Reconnect, TypeOK
  <2>2. [view[t] EXCEPT !.steady = FALSE] \in View
    BY DEF TypeOK, View
  <2>3. view' \in [Tabs -> View]
    BY <1>5, <2>2 DEF Reconnect, TypeOK
  <2> QED BY <1>5, <2>1, <2>3 DEF Reconnect, TypeOK
<1>6. ASSUME NEW t \in Tabs, Deliver(t) PROVE TypeOK'
  <2>1. Head(inbox[t]) \in Event /\ Tail(inbox[t]) \in Seq(Event)
    BY <1>6 DEF Deliver, TypeOK
  <2>2. [view[t] EXCEPT !.shown = After(view[t].shown, Head(inbox[t]))] \in View
    BY <2>1, AfterType DEF TypeOK, View
  <2>3. view' \in [Tabs -> View]
    BY <1>6, <2>2 DEF Deliver, TypeOK
  <2> QED BY <1>6, <2>1, <2>3 DEF Deliver, TypeOK
<1> QED BY <1>1, <1>2, <1>3, <1>4, <1>5, <1>6

\* The steps that only decide whether a request goes on, and where to.
LEMMA TypeReads ==
  ASSUME TypeOK, NEW r \in Requests,
         Find(r) \/ ReadRoom(r) \/ ReadBan(r) \/ ReadMember(r) \/ ReadParent(r)
           \/ ReadRole(r)
  PROVE  TypeOK'
<1> USE DEF tables
<1>1. Busy(r)
  BY RequestAtStage DEF Find, ReadRoom, ReadBan, ReadMember, ReadParent, ReadRole, Stages
<1>2. Finish(r) \/ (\E s \in Stages : Proceed(r, s))
  <2>1. AfterMember(req[r].op) \in Stages
    BY AfterMemberIsStage
  <2> QED BY <2>1 DEF Find, ReadRoom, ReadBan, ReadMember, ReadParent, ReadRole, Stages
<1>3. req' \in [Requests -> Request \union {Idle}]
  BY <1>1, <1>2, FinishType, ProceedType
<1> QED BY <1>3 DEF Find, ReadRoom, ReadBan, ReadMember, ReadParent, ReadRole, TypeOK

LEMMA TypeWrites ==
  ASSUME TypeOK, NEW r \in Requests, Attributed(r),
         Create(r) \/ Update(r) \/ Erase(r) \/ Emit(r) \/ Join(r) \/ ReadPage(r)
           \/ ShowPage(r)
  PROVE  TypeOK'
<1> USE DEF tables
<1>0. Busy(r) /\ req[r] \in Request
  BY RequestAtStage
  DEF Create, Update, Erase, Emit, Join, ReadPage, ShowPage, Stages
<1>1. CASE Create(r)
  <2>1. CASE ~Live
    BY <1>1, <2>1, FinishType DEF Create, TypeOK
  <2>2. ASSUME NEW m \in Msgs,
               msg' = [msg EXCEPT ![m] = [sender |-> req[r].user, version |-> 1,
                                          deleted |-> FALSE]],
               req' = [req EXCEPT ![r].stage = "emit", ![r].id = m, ![r].version = 1]
        PROVE  TypeOK'
    <3>1. 1 \in Versions /\ 1 \in 0..MaxVersion
      BY VersionAssumption DEF Versions
    <3>2. [sender |-> req[r].user, version |-> 1, deleted |-> FALSE] \in Row
      BY <1>0, <3>1 DEF Row, Request
    <3>3. [req[r] EXCEPT !.stage = "emit", !.id = m, !.version = 1] \in Request
      BY <1>0, <3>1 DEF Request, Stages
    <3> QED BY <1>1, <2>2, <3>2, <3>3 DEF Create, TypeOK
  <2> QED BY <1>1, <2>1, <2>2 DEF Create
<1>2. CASE Update(r)
  <2>1. CASE ~Stored(req[r].id)
    BY <1>2, <2>1, FinishType DEF Update, TypeOK
  <2>2. CASE Stored(req[r].id)
    <3> DEFINE m == req[r].id
               next == msg[m].version + 1
    <3>1. /\ next \in Versions
          /\ msg' = [msg EXCEPT ![m].version = next]
          /\ req' = [req EXCEPT ![r].stage = "emit", ![r].version = next]
      BY <1>2, <2>2 DEF Update
    <3>2. next \in 0..MaxVersion
      BY <3>1 DEF Versions
    <3> HIDE DEF next
    <3>3. [req[r] EXCEPT !.stage = "emit", !.version = next] \in Request
      BY <1>0, <3>2 DEF Request, Stages
    <3>4. msg[m] \in Row /\ m \in Msgs
      <4>1. m \in Msgs
      BY <1>0, <1>2 DEF Update, At, Attributed
    <4> QED BY <2>2, <4>1 DEF Stored, TypeOK
    <3>5. [msg[m] EXCEPT !.version = next] \in Row
      BY <3>1, <3>4 DEF Row
    <3> QED BY <1>2, <3>1, <3>3, <3>4, <3>5 DEF Update, TypeOK
  <2> QED BY <2>1, <2>2
<1>3. CASE Erase(r)
  <2>1. CASE ~Stored(req[r].id)
    BY <1>3, <2>1, FinishType DEF Erase, TypeOK
  <2>2. CASE Stored(req[r].id)
    <3> DEFINE m == req[r].id
    <3>1. msg' = [msg EXCEPT ![m].deleted = TRUE] /\ Proceed(r, "emit")
      BY <1>3, <2>2 DEF Erase
    <3>2. req' \in [Requests -> Request \union {Idle}]
      BY <1>0, <3>1, ProceedType DEF Stages
    <3>3. [msg[m] EXCEPT !.deleted = TRUE] \in Row /\ m \in Msgs
      <4>1. m \in Msgs
      BY <1>0, <1>3 DEF Erase, At, Attributed
    <4>2. msg[m] \in Row
      BY <2>2, <4>1 DEF Stored, TypeOK
    <4> QED BY <4>1, <4>2 DEF Row
    <3> QED BY <1>3, <3>2, <3>3 DEF Erase, TypeOK
  <2> QED BY <2>1, <2>2
<1>4. CASE Emit(r)
  <2> DEFINE ev == [kind |-> Kind(req[r].op), id |-> req[r].id,
                    version |-> req[r].version]
  <2>1. ev \in Event
    BY <1>0, <1>4 DEF Emit, At, Attributed, Event, Kind, Request
  <2>2. inbox' = [t \in Tabs |-> IF t \in channel THEN Append(inbox[t], ev)
                                                  ELSE inbox[t]]
    BY <1>4 DEF Emit
  <2> HIDE DEF ev
  <2>3. inbox' \in [Tabs -> Seq(Event)]
    BY <2>1, <2>2 DEF TypeOK
  <2> QED BY <1>4, <2>3, FinishType DEF Emit, TypeOK
<1>5. CASE Join(r)
  BY <1>0, <1>5, FinishType DEF Join, At, Attributed, TypeOK
<1>6. CASE ReadPage(r)
  <2> DEFINE t == req[r].tab
  <2>1. t \in Tabs
    BY <1>0, <1>6 DEF ReadPage, At, Attributed
  <2>2. [req[r] EXCEPT !.stage = "respond", !.page = Page] \in Request
    BY <1>0, PageType DEF Request, Stages
  <2>3. [view[t] EXCEPT !.joinedFirst = t \in channel] \in View
    <3>1. view[t] \in View /\ (t \in channel) \in BOOLEAN
      BY <2>1 DEF TypeOK
    <3>2. NoPage \in Pages
      BY VersionAssumption DEF NoPage, Pages
    <3> QED BY <3>1, <3>2, ViewSteps
  <2>4. req' \in [Requests -> Request \union {Idle}]
    BY <1>6, <2>2 DEF ReadPage, TypeOK
  <2>5. view' \in [Tabs -> View]
    BY <1>6, <2>1, <2>3 DEF ReadPage, TypeOK
  <2> QED BY <1>6, <2>4, <2>5 DEF ReadPage, TypeOK
<1>7. CASE ShowPage(r)
  <2> DEFINE t == req[r].tab
  <2>1. t \in Tabs
    BY <1>0, <1>7 DEF ShowPage, At, Attributed
  <2>2. [view[t] EXCEPT !.shown = Merge(view[t].shown, req[r].page), !.loaded = TRUE]
          \in View
    <3>1. view[t] \in View /\ view[t].shown \in Pages /\ req[r].page \in Pages
      BY <1>0, <2>1 DEF TypeOK, View, Request
    <3>2. Merge(view[t].shown, req[r].page) \in Pages
      BY <3>1, MergeType
    <3> QED BY <3>1, <3>2, ViewSteps
  <2>3. view' \in [Tabs -> View]
    BY <1>7, <2>1, <2>2 DEF ShowPage, TypeOK
  <2> QED BY <1>7, <2>3, FinishType DEF ShowPage, TypeOK
<1> QED BY <1>1, <1>2, <1>3, <1>4, <1>5, <1>6, <1>7

----------------------------------------------------------------------------
(* The inductive invariant *)

ThreadInv == TypeOK /\ AllAttributed /\ MembersRecorded /\ OutsidersSeeNothing

LEMMA ThreadInit == Init => ThreadInv
<1> SUFFICES ASSUME Init PROVE ThreadInv
  OBVIOUS
<1>1. AllAttributed
  BY DEF Init, AllAttributed, Attributed, Busy
<1>2. MembersRecorded
  BY DEF Init, Policy!Init, MembersRecorded, IsMember
<1>3. OutsidersSeeNothing
  BY DEF Init, OutsidersSeeNothing, Stored, Closed
<1> QED BY <1>1, <1>2, <1>3, TypeInit DEF ThreadInv

LEMMA TypeStep == ThreadInv /\ [Next]_vars => TypeOK'
<1> SUFFICES ASSUME ThreadInv, [Next]_vars PROVE TypeOK'
  OBVIOUS
<1>1. CASE UNCHANGED vars
  BY <1>1 DEF vars, ThreadInv, TypeOK
<1>2. ASSUME NEW r \in Requests, Step(r) PROVE TypeOK'
  <2>1. Attributed(r)
    BY DEF ThreadInv, AllAttributed
  <2> QED BY <1>2, <2>1, TypeReads, TypeWrites DEF Step, ThreadInv
<1> QED BY <1>1, <1>2, TypeClients DEF Next, ThreadInv

\* Nobody but RoomPolicy changes roles, and the history follows it.
LEMMA HistoryStep ==
  ThreadInv /\ [Next]_vars => MembersRecorded' /\ been \subseteq been'
<1> SUFFICES ASSUME ThreadInv, [Next]_vars
             PROVE  MembersRecorded' /\ been \subseteq been'
  OBVIOUS
<1>1. CASE Govern
  BY <1>1 DEF Govern, MembersRecorded, IsMember
<1>2. CASE UNCHANGED tables
  BY <1>2 DEF tables, ThreadInv, MembersRecorded, IsMember
<1> QED BY <1>1, <1>2 DEF Next, Step, vars, tables, Start, OpenRoom, CloseRoom, Reconnect,
  Deliver, Find, ReadRoom, ReadBan, ReadMember, ReadParent, ReadRole, Create, Update,
  Erase, Emit, Join, ReadPage, ShowPage

LEMMA AttributedKept ==
  ASSUME NEW r \in Requests, Attributed(r), been \subseteq been',
         req'[r] = req[r] \/ req'[r] = Idle
  PROVE  Attributed(r)'
BY DEF Attributed, Busy

LEMMA AttributedNew ==
  ASSUME NEW r \in Requests, NEW op \in AllOps \union {"subscribe", "list"}, NEW u, NEW t,
         NEW id, op \in {"subscribe", "list"} => t \in Tabs /\ u = UserOf[t],
         op \in {"reply", "edit", "delete"} => id \in Msgs,
         req'[r] = NewRequest(op, u, t, id)
  PROVE  Attributed(r)'
BY DEF Attributed, NewRequest, PastChecks

\* Where each stage leads.
LEMMA AttributedOwnStep ==
  ASSUME ThreadInv, NEW r \in Requests, Step(r), been \subseteq been'
  PROVE  Attributed(r)'
<1>1. Attributed(r) /\ req \in [Requests -> Request \union {Idle}]
  BY DEF ThreadInv, AllAttributed, TypeOK
<1>2. Busy(r) /\ req[r] \in Request
  BY RequestAtStage DEF Step, Find, ReadRoom, ReadBan, ReadMember, ReadParent, ReadRole,
  Create, Update, Erase, Emit, Join, ReadPage, ShowPage, Stages, ThreadInv
<1>3. CASE Finish(r)
  BY <1>1, <1>3, AttributedKept DEF Finish
<1>4. CASE Find(r) \/ ReadRoom(r) \/ ReadBan(r)
  <2>1. CASE Proceed(r, "room") \/ Proceed(r, "bans") \/ Proceed(r, "member")
    BY <1>1, <1>2, <2>1 DEF Proceed, Attributed, PastChecks, Request
  <2> QED BY <1>3, <1>4, <2>1 DEF Find, ReadRoom, ReadBan
<1>5. CASE ReadMember(r) /\ ~Finish(r)
  <2>1. Proceed(r, AfterMember(req[r].op)) /\ IsMember(req[r].user)
    BY <1>5 DEF ReadMember
  <2>2. req[r].user \in been'
    BY <1>2, <2>1 DEF ThreadInv, MembersRecorded, Request
  <2>3. req'[r] = [req[r] EXCEPT !.stage = AfterMember(req[r].op)]
    BY <1>1, <2>1 DEF Proceed
  <2>4. /\ req[r].op \in AllOps \union {"subscribe", "list"}
        /\ req'[r].op = req[r].op /\ req'[r].user = req[r].user
        /\ req'[r].tab = req[r].tab /\ req'[r].id = req[r].id
        /\ req'[r].stage = AfterMember(req[r].op)
    BY <1>2, <2>3 DEF Request
  <2> QED BY <1>1, <1>2, <2>2, <2>4 DEF Attributed, AfterMember, AllOps
<1>6. CASE ReadParent(r) /\ ~Finish(r)
  BY <1>1, <1>2, <1>6 DEF ReadParent, At, Proceed, Attributed, PastChecks, Request
<1>7. CASE ReadRole(r) /\ ~Finish(r)
  <2>1. req[r].stage = "role" /\ Proceed(r, "erase")
    BY <1>7 DEF ReadRole, At
  <2>2. req'[r] = [req[r] EXCEPT !.stage = "erase"]
    BY <1>1, <2>1 DEF Proceed
  <2>3. /\ req'[r].stage = "erase" /\ req'[r].id = req[r].id /\ req'[r].op = req[r].op
        /\ req'[r].user = req[r].user /\ req'[r].tab = req[r].tab
    BY <1>2, <2>2 DEF Request
  <2> QED BY <1>1, <1>2, <2>1, <2>3 DEF Attributed, PastChecks
<1>8. CASE Create(r) /\ ~Finish(r)
  <2>1. PICK m \in Msgs :
          req' = [req EXCEPT ![r].stage = "emit", ![r].id = m, ![r].version = 1]
    BY <1>8 DEF Create
  <2>2. req[r].stage = "create"
    BY <1>8 DEF Create, At
  <2>3. /\ req'[r].stage = "emit" /\ req'[r].id = m /\ req'[r].op = req[r].op
        /\ req'[r].user = req[r].user /\ req'[r].tab = req[r].tab
    BY <1>1, <1>2, <2>1 DEF Request
  <2> QED BY <1>1, <1>2, <2>2, <2>3 DEF Attributed, PastChecks
<1>9. CASE Update(r) /\ ~Finish(r)
  <2> DEFINE next == msg[req[r].id].version + 1
  <2>1. At(r, "update") /\ req' = [req EXCEPT ![r].stage = "emit", ![r].version = next]
    BY <1>9 DEF Update
  <2> HIDE DEF next
  <2> QED BY <1>1, <1>2, <2>1 DEF At, Attributed, PastChecks, Request
<1>10. CASE Erase(r) /\ ~Finish(r)
  BY <1>1, <1>2, <1>10 DEF Erase, At, Proceed, Attributed, PastChecks, Request
<1>11. CASE ReadPage(r)
  BY <1>1, <1>2, <1>11 DEF ReadPage, At, Attributed, PastChecks, Request
<1> QED BY <1>3, <1>4, <1>5, <1>6, <1>7, <1>8, <1>9, <1>10, <1>11
  DEF Step, Emit, Join, ShowPage

LEMMA AttributedStep == ThreadInv /\ [Next]_vars => AllAttributed'
<1> SUFFICES ASSUME ThreadInv, [Next]_vars, NEW q \in Requests PROVE Attributed(q)'
  BY DEF AllAttributed
<1>1. Attributed(q) /\ been \subseteq been' /\ req \in [Requests -> Request \union {Idle}]
  BY HistoryStep DEF ThreadInv, AllAttributed, TypeOK
<1>2. CASE UNCHANGED req
  BY <1>1, <1>2, AttributedKept
<1>3. ASSUME NEW r \in Requests, Step(r) PROVE Attributed(q)'
  <2>1. CASE q = r
    BY <1>1, <1>3, <2>1, AttributedOwnStep
  <2>2. CASE q # r
    <3>1. req'[q] = req[q]
      BY <1>1, <1>3, <2>2 DEF Step, Find, ReadRoom, ReadBan, ReadMember, ReadParent,
      ReadRole, Create, Update, Erase, Emit, Join, ReadPage, ShowPage, Proceed, Finish
    <3> QED BY <1>1, <3>1, AttributedKept
  <2> QED BY <2>1, <2>2
<1>4. ASSUME NEW r \in Requests, NEW op \in Ops, NEW u \in Users,
             NEW m \in Msgs \union {NoMsg}, Start(r, op, u, m)
      PROVE  Attributed(q)'
  <2>1. CASE q = r
    <3>1. op \in AllOps /\ (op # "send" => m \in Msgs)
      BY <1>4, OpsAssumption DEF Start
    <3>2. req'[q] = NewRequest(op, u, "none", m)
      BY <1>1, <1>4, <2>1 DEF Start
    <3> QED BY <3>1, <3>2, AttributedNew DEF AllOps
  <2>2. CASE q # r
    BY <1>1, <1>4, <2>2, AttributedKept DEF Start
  <2> QED BY <2>1, <2>2
<1>5. ASSUME NEW t \in Tabs, NEW r \in Requests, NEW s \in Requests, OpenRoom(t, r, s)
      PROVE  Attributed(q)'
  <2>1. CASE req'[q] = req[q]
    BY <1>1, <2>1, AttributedKept
  <2>2. CASE req'[q] = NewRequest("list", UserOf[t], t, NoMsg)
    BY <2>2, AttributedNew
  <2>3. CASE req'[q] = NewRequest("subscribe", UserOf[t], t, NoMsg)
    BY <2>3, AttributedNew
  <2> QED BY <1>1, <1>5, <2>1, <2>2, <2>3 DEF OpenRoom
<1>6. ASSUME NEW t \in Tabs, CloseRoom(t) \/ Reconnect(t) PROVE Attributed(q)'
  BY <1>1, <1>6, AttributedKept DEF CloseRoom, Reconnect
<1> QED BY <1>2, <1>3, <1>4, <1>5, <1>6 DEF Next, Govern, Deliver, vars

----------------------------------------------------------------------------
(* Nothing reaches a user who was never a member *)

\* The two halves of OutsidersSeeNothing: what is written, and what is shown.
LEMMA SendersStep ==
  ThreadInv /\ [Next]_vars => \A m \in Msgs : Stored(m)' => msg'[m].sender \in been'
<1> SUFFICES ASSUME ThreadInv, [Next]_vars, NEW m \in Msgs, Stored(m)'
             PROVE  msg'[m].sender \in been'
  OBVIOUS
<1>1. /\ Stored(m) => msg[m].sender \in been
      /\ been \subseteq been'
      /\ msg \in [Msgs -> Row \union {NoRow}]
  BY HistoryStep DEF ThreadInv, OutsidersSeeNothing, TypeOK
<1>2. CASE msg'[m] = msg[m]
  BY <1>1, <1>2 DEF Stored
<1>3. CASE msg'[m] = NoRow
  BY <1>3 DEF Stored
<1>4. ASSUME NEW r \in Requests, Create(r) PROVE msg'[m].sender \in been'
  <2>1. req[r].user \in been
    <3>1. Busy(r) /\ req[r].stage = "create"
      BY <1>4, RequestAtStage DEF Create, At, Stages, ThreadInv
    <3> QED BY <3>1 DEF PastChecks, ThreadInv, AllAttributed, Attributed
  <2>2. msg' = msg \/ \E n \in Msgs : msg' = [msg EXCEPT ![n] = [sender |-> req[r].user,
                                                version |-> 1, deleted |-> FALSE]]
    BY <1>4 DEF Create
  <2>3. msg'[m] = msg[m] \/ msg'[m].sender = req[r].user
    BY <1>1, <2>2
  <2> QED BY <1>1, <1>2, <2>1, <2>3
<1>5. ASSUME NEW r \in Requests, Update(r) \/ Erase(r) PROVE msg'[m].sender \in been'
  <2>1. CASE Stored(m)
    <3>1. msg[m] \in Row
      BY <1>1, <2>1 DEF Stored
    <3>2. msg'[m].sender = msg[m].sender
      BY <1>1, <1>5, <3>1 DEF Update, Erase, Row
    <3> QED BY <1>1, <2>1, <3>2
  <2>2. CASE ~Stored(m)
    BY <1>1, <1>2, <1>5, <2>2 DEF Update, Erase, Stored
  <2> QED BY <2>1, <2>2
<1> QED BY <1>1, <1>2, <1>3, <1>4, <1>5 DEF Next, Step, vars, Govern, Start, OpenRoom,
  CloseRoom, Reconnect, Deliver, Find, ReadRoom, ReadBan, ReadMember, ReadParent,
  ReadRole, Emit, Join, ReadPage, ShowPage

LEMMA TabRequest ==
  ASSUME ThreadInv, NEW r \in Requests, Join(r) \/ ReadPage(r) \/ ShowPage(r)
  PROVE  req[r].tab \in Tabs /\ UserOf[req[r].tab] \in been
<1>1. Busy(r) /\ req[r].stage \in {"join", "read", "respond"}
  BY RequestAtStage DEF Join, ReadPage, ShowPage, At, Stages, ThreadInv
<1> QED BY <1>1 DEF ThreadInv, AllAttributed, Attributed, PastChecks

LEMMA ShownStep ==
  ASSUME ThreadInv, [Next]_vars, NEW t \in Tabs, UserOf[t] \notin been'
  PROVE  (t \notin channel /\ inbox[t] = <<>> /\ view[t].shown = NoPage)'
<1> DEFINE Quiet == t \notin channel /\ inbox[t] = <<>> /\ view[t].shown = NoPage
<1>1. /\ UserOf[t] \notin been
      /\ Quiet
      /\ view \in [Tabs -> View] /\ inbox \in [Tabs -> Seq(Event)]
  BY HistoryStep DEF ThreadInv, OutsidersSeeNothing, TypeOK
<1>2. CASE UNCHANGED <<channel, inbox, view>>
  BY <1>1, <1>2
<1>3. ASSUME NEW r \in Requests, NEW s \in Requests, NEW p \in Tabs, OpenRoom(p, r, s)
      PROVE  Quiet'
  BY <1>1, <1>3 DEF OpenRoom, Closed
<1>4. ASSUME NEW p \in Tabs, CloseRoom(p) PROVE Quiet'
  BY <1>1, <1>4 DEF CloseRoom, Closed
<1>5. ASSUME NEW p \in Tabs, Reconnect(p) PROVE Quiet'
  <2>1. view'[t].shown = view[t].shown
    BY <1>1, <1>5 DEF Reconnect, View
  <2> QED BY <1>1, <1>5, <2>1 DEF Reconnect
<1>6. ASSUME NEW p \in Tabs, Deliver(p) PROVE Quiet'
  <2>1. p # t
    BY <1>1, <1>6 DEF Deliver
  <2>2. view'[t] = view[t] /\ inbox'[t] = inbox[t] /\ channel' = channel
    BY <1>1, <1>6, <2>1 DEF Deliver
  <2> QED BY <1>1, <2>2
<1>7. ASSUME NEW r \in Requests, Emit(r) PROVE Quiet'
  BY <1>1, <1>7 DEF Emit
<1>8. ASSUME NEW r \in Requests, Join(r) \/ ReadPage(r) \/ ShowPage(r) PROVE Quiet'
  <2>1. req[r].tab # t
    BY <1>1, <1>8, TabRequest
  <2>2. view'[t] = view[t] /\ inbox' = inbox /\ (t \in channel' => t \in channel)
    BY <1>1, <1>8, <2>1 DEF Join, ReadPage, ShowPage
  <2> QED BY <1>1, <2>2
<1> QED BY <1>2, <1>3, <1>4, <1>5, <1>6, <1>7, <1>8 DEF Next, Step, vars, Govern, Start,
  Find, ReadRoom, ReadBan, ReadMember, ReadParent, ReadRole, Create, Update, Erase

LEMMA ThreadInvariant == Spec => []ThreadInv
<1>1. ThreadInv /\ [Next]_vars => OutsidersSeeNothing'
  BY SendersStep, ShownStep DEF OutsidersSeeNothing
<1>2. ThreadInv /\ [Next]_vars => ThreadInv'
  BY <1>1, TypeStep, AttributedStep, HistoryStep DEF ThreadInv
<1> QED BY <1>2, ThreadInit, PTL DEF Spec

\* Every reachable state is type correct: every request keeps the shape its stage needs,
\* every queued event names a message, every view is a page.
THEOREM TypeCorrect == Spec => []TypeOK
<1>1. ThreadInv => TypeOK
  BY DEF ThreadInv
<1> QED BY <1>1, ThreadInvariant, PTL

\* A user who has never been a member posts nothing to the room, is in no channel of it,
\* is sent nothing and is shown nothing, with any number of checks, joins, kicks and
\* reconnections interleaved (assertGroupRoomMember before every handler).
THEOREM OutsidersExcluded == Spec => []OutsidersSeeNothing
<1>1. ThreadInv => OutsidersSeeNothing
  BY DEF ThreadInv
<1> QED BY <1>1, ThreadInvariant, PTL

----------------------------------------------------------------------------
(* What becomes of a message *)

\* A deleted room has no messages: the foreign key keeps a late create out, and no
\* update brings a row back.
THEOREM DeletedRoomEmpty == Spec => []GoneWithTheRoom
<1>1. Init => GoneWithTheRoom
  BY DEF Init, GoneWithTheRoom, Stored
<1>2. ThreadInv /\ GoneWithTheRoom /\ [Next]_vars => GoneWithTheRoom'
  <2> SUFFICES ASSUME ThreadInv, GoneWithTheRoom, [Next]_vars, NEW m \in Msgs, ~Live'
               PROVE  ~Stored(m)'
    BY DEF GoneWithTheRoom
  <2>1. CASE Govern
    <3>1. CASE room' = "deleted"
      BY <2>1, <3>1 DEF Govern, Stored
    <3>2. CASE room' # "deleted"
      <4>1. room' = room
        BY <2>1, <3>2 DEF Govern, Live, Policy!Next, Policy!Perform, Policy!Create,
        Policy!Join, Policy!Invite, Policy!Admit, Policy!Leave, Policy!Delete,
        Policy!Ban, Policy!Unban, Policy!Kick, Policy!AddAdmin, Policy!Regrade
      <4> QED BY <2>1, <3>2, <4>1 DEF Govern, GoneWithTheRoom, Live, Stored
    <3> QED BY <3>1, <3>2
  <2>2. CASE UNCHANGED <<room, msg>>
    BY <2>2 DEF GoneWithTheRoom, Live, Stored
  <2>3. ASSUME NEW r \in Requests, Create(r) \/ Update(r) \/ Erase(r) PROVE ~Stored(m)'
    <3>1. room' = room /\ ~Live /\ \A n \in Msgs : ~Stored(n)
      BY <2>3 DEF Create, Update, Erase, tables, Live, GoneWithTheRoom
    <3>2. Update(r) \/ Erase(r) => req[r].id \in Msgs
      BY RequestAtStage DEF Update, Erase, At, Stages, ThreadInv, AllAttributed, Attributed
    <3>3. msg' = msg
      BY <2>3, <3>1, <3>2 DEF Create, Update, Erase
    <3> QED BY <3>1, <3>3 DEF Stored
  <2> QED BY <2>1, <2>2, <2>3 DEF Next, Step, vars, tables, Start, OpenRoom, CloseRoom,
    Reconnect, Deliver, Find, ReadRoom, ReadBan, ReadMember, ReadParent, ReadRole, Emit,
    Join, ReadPage, ShowPage
<1> QED BY <1>1, <1>2, ThreadInvariant, PTL DEF Spec

LEMMA DeletionStep ==
  ASSUME ThreadInv, [Next]_vars, NEW m \in Msgs, Stored(m), msg[m].deleted, Stored(m)'
  PROVE  msg'[m].deleted
<1>1. msg \in [Msgs -> Row \union {NoRow}] /\ msg[m] \in Row
  BY DEF ThreadInv, TypeOK, Stored
<1>2. CASE msg'[m] = msg[m]
  BY <1>2
<1>3. CASE msg'[m] = NoRow
  BY <1>3 DEF Stored
<1>4. ASSUME NEW r \in Requests, Create(r) PROVE msg'[m].deleted
  BY <1>1, <1>4, <1>2 DEF Create
<1>5. ASSUME NEW r \in Requests, Update(r) PROVE msg'[m].deleted
  BY <1>1, <1>5 DEF Update, Row
<1>6. ASSUME NEW r \in Requests, Erase(r) PROVE msg'[m].deleted
  BY <1>1, <1>6 DEF Erase, Row
<1> QED BY <1>2, <1>3, <1>4, <1>5, <1>6 DEF Next, Step, vars, Govern, Start, OpenRoom,
  CloseRoom, Reconnect, Deliver, Find, ReadRoom, ReadBan, ReadMember, ReadParent,
  ReadRole, Emit, Join, ReadPage, ShowPage

\* A deleted message stays deleted as long as its row exists: an edit whose checks came
\* before the deletion changes the text of a message nobody is shown.
THEOREM DeletionIsFinal == Spec => DeletionSticks
<1>1. ThreadInv /\ [Next]_vars =>
        \A m \in Msgs : Stored(m) /\ msg[m].deleted /\ Stored(m)' => msg'[m].deleted
  BY DeletionStep
<1> QED BY <1>1, ThreadInvariant, PTL DEF Spec, DeletionSticks

----------------------------------------------------------------------------
(* The page and the events together miss nothing *)

LEMMA RoomStaysDeleted ==
  ASSUME [Next]_vars, room = "deleted" PROVE room' = "deleted"
<1>1. CASE Govern
  BY <1>1 DEF Govern, Policy!Next, Policy!Perform, Policy!Create, Policy!Join,
  Policy!Invite, Policy!Admit, Policy!Leave, Policy!Delete, Policy!Ban, Policy!Unban,
  Policy!Kick, Policy!AddAdmin, Policy!Regrade
<1> QED BY <1>1 DEF Next, Step, vars, tables, Start, OpenRoom, CloseRoom, Reconnect,
  Deliver, Find, ReadRoom, ReadBan, ReadMember, ReadParent, ReadRole, Create, Update,
  Erase, Emit, Join, ReadPage, ShowPage

\* A row goes with its room only.
LEMMA RowStays ==
  ASSUME ThreadInv, [Next]_vars, NEW m \in Msgs, Stored(m), room' # "deleted"
  PROVE  Stored(m)'
<1>1. msg \in [Msgs -> Row \union {NoRow}] /\ msg[m] \in Row
  BY DEF ThreadInv, TypeOK, Stored
<1>2. CASE msg'[m] = msg[m]
  BY <1>2 DEF Stored
<1>3. ASSUME NEW r \in Requests, Create(r) PROVE Stored(m)'
  BY <1>1, <1>2, <1>3 DEF Create
<1>4. ASSUME NEW r \in Requests, Update(r) \/ Erase(r) PROVE Stored(m)'
  <2>1. CASE msg'[m] = msg[m]
    BY <1>2, <2>1
  <2>2. CASE \E v \in Versions : msg'[m] = [msg[m] EXCEPT !.version = v]
    BY <1>1, <2>2, VersionAssumption DEF Stored, NoRow, Row, Versions
  <2>3. CASE msg'[m] = [msg[m] EXCEPT !.deleted = TRUE]
    BY <1>1, <2>3 DEF Stored, NoRow, Row, Versions
  <2>4. CASE Update(r)
    <3>1. msg' = msg \/ \E v \in Versions : msg' = [msg EXCEPT ![req[r].id].version = v]
      BY <2>4 DEF Update
    <3> QED BY <1>1, <2>1, <2>2, <3>1
  <2> QED BY <1>1, <1>4, <2>1, <2>3, <2>4 DEF Erase
<1> QED BY <1>2, <1>3, <1>4 DEF Next, Step, vars, Govern, Start, OpenRoom,
  CloseRoom, Reconnect, Deliver, Find, ReadRoom, ReadBan, ReadMember, ReadParent,
  ReadRole, Emit, Join, ReadPage, ShowPage

LEMMA GoneStays ==
  ASSUME ThreadInv, [Next]_vars, NEW m \in Msgs, Gone(m) PROVE Gone(m)'
BY RoomStaysDeleted, RowStays, DeletionStep DEF Gone

LEMMA GoneIsAbsent ==
  ASSUME GoneWithTheRoom, NEW m \in Msgs, Gone(m) PROVE ~Present(m)
BY DEF GoneWithTheRoom, Gone, Present, Live

LEMMA TruthStays ==
  ASSUME ThreadInv, [Next]_vars, NEW kind, NEW m \in Msgs, NEW version,
         Truthful(kind, m, version)
  PROVE  Truthful(kind, m, version)'
BY GoneStays DEF Truthful

\* A step of one request is not seen by another, and changes neither what its request
\* is for nor whose it is.
LEMMA OtherRequests ==
  ASSUME NEW r \in Requests, Step(r), NEW q \in Requests \ {r},
         req \in [Requests -> Request \union {Idle}]
  PROVE  req'[q] = req[q]
BY DEF Step, Find, ReadRoom, ReadBan, ReadMember, ReadParent, ReadRole, Create, Update,
  Erase, Emit, Join, ReadPage, ShowPage, Proceed, Finish

LEMMA OwnRequest ==
  ASSUME ThreadInv, NEW r \in Requests, Step(r)
  PROVE  /\ Busy(r) /\ req[r] \in Request
         /\ \/ req'[r] = Idle
            \/ req'[r].op = req[r].op /\ req'[r].tab = req[r].tab
<1>1. Busy(r) /\ req[r] \in Request
  BY RequestAtStage DEF Step, Find, ReadRoom, ReadBan, ReadMember, ReadParent, ReadRole,
  Create, Update, Erase, Emit, Join, ReadPage, ShowPage, Stages, ThreadInv
<1>2. req \in [Requests -> Request \union {Idle}]
  BY DEF ThreadInv, TypeOK
<1>3. CASE Finish(r)
  BY <1>1, <1>2, <1>3 DEF Finish
<1>4. ASSUME NEW stage, Proceed(r, stage)
      PROVE  req'[r].op = req[r].op /\ req'[r].tab = req[r].tab
  BY <1>1, <1>2, <1>4 DEF Proceed, Request
<1>5. ASSUME NEW n, NEW m,
             req' = [req EXCEPT ![r].stage = "emit", ![r].id = m, ![r].version = n]
      PROVE  req'[r].op = req[r].op /\ req'[r].tab = req[r].tab
  BY <1>1, <1>2, <1>5 DEF Request
<1>6. ASSUME NEW n, req' = [req EXCEPT ![r].stage = "emit", ![r].version = n]
      PROVE  req'[r].op = req[r].op /\ req'[r].tab = req[r].tab
  BY <1>1, <1>2, <1>6 DEF Request
<1>7. ASSUME NEW n, req' = [req EXCEPT ![r].stage = "respond", ![r].page = n]
      PROVE  req'[r].op = req[r].op /\ req'[r].tab = req[r].tab
  BY <1>1, <1>2, <1>7 DEF Request
<1>8. CASE Find(r) \/ ReadRoom(r) \/ ReadBan(r) \/ ReadMember(r) \/ ReadParent(r)
             \/ ReadRole(r) \/ Emit(r) \/ Join(r) \/ ShowPage(r)
  BY <1>1, <1>3, <1>4, <1>8 DEF Find, ReadRoom, ReadBan, ReadMember, ReadParent, ReadRole,
  Emit, Join, ShowPage
<1>9. CASE Create(r)
  BY <1>1, <1>3, <1>5, <1>9 DEF Create
<1>10. CASE Update(r)
  BY <1>1, <1>3, <1>6, <1>10 DEF Update
<1>11. CASE Erase(r)
  BY <1>1, <1>3, <1>4, <1>11 DEF Erase
<1>12. CASE ReadPage(r)
  BY <1>1, <1>7, <1>12 DEF ReadPage
<1> QED BY <1>8, <1>9, <1>10, <1>11, <1>12 DEF Step

LEMMA CourseKept ==
  ASSUME ThreadInv, [Next]_vars, NEW q \in Requests, OnCourse(q),
         req'[q] = req[q] \/ req'[q] = Idle
  PROVE  OnCourse(q)'
<1>1. CASE req'[q] = Idle
  BY <1>1 DEF OnCourse, At, Idle
<1>2. CASE req'[q] = req[q]
  <2>1. ASSUME At(q, "emit") PROVE Truthful(Kind(req[q].op), req[q].id, req[q].version)'
    <3>1. Busy(q) /\ req[q].id \in Msgs
      BY <2>1, RequestAtStage DEF Stages, ThreadInv, AllAttributed, Attributed, At
    <3>2. PICK k, m, v : k = Kind(req[q].op) /\ m = req[q].id /\ v = req[q].version
      OBVIOUS
    <3>3. Truthful(k, m, v)
      BY <2>1, <3>2 DEF OnCourse
    <3>4. Truthful(k, m, v)'
      BY <3>1, <3>2, <3>3, TruthStays
    <3>5. k = Kind(req'[q].op) /\ m = req'[q].id /\ v = req'[q].version
      BY <1>2, <3>2
    <3> QED BY <3>4, <3>5 DEF Truthful, Gone, Stored
  <2> QED BY <1>2, <2>1 DEF OnCourse, At
<1> QED BY <1>1, <1>2

LEMMA CourseOwnStep ==
  ASSUME ThreadInv, GoneWithTheRoom, [Next]_vars, NEW r \in Requests, OnCourse(r), Step(r)
  PROVE  OnCourse(r)'
<1>1. Busy(r) /\ req[r] \in Request /\ Attributed(r)
  BY OwnRequest DEF ThreadInv, AllAttributed
<1>2. req \in [Requests -> Request \union {Idle}]
  BY DEF ThreadInv, TypeOK
<1>3. CASE Finish(r)
  BY <1>2, <1>3, CourseKept DEF Finish
<1>4. ASSUME NEW stage \in {"room", "bans", "member"}, Proceed(r, stage)
      PROVE  OnCourse(r)'
  BY <1>1, <1>2, <1>4 DEF Proceed, Request, OnCourse, At
<1>5. CASE ReadMember(r) /\ ~Finish(r)
  <2>1. req'[r].stage = AfterMember(req[r].op) /\ req'[r].op = req[r].op
    BY <1>1, <1>2, <1>5 DEF ReadMember, Proceed, Request
  <2>2. req[r].op \in AllOps \union {"subscribe", "list"}
    BY <1>1 DEF Request
  <2> QED BY <2>1, <2>2 DEF OnCourse, At, AfterMember, AllOps
<1>6. CASE ReadParent(r) /\ ~Finish(r)
  <2>1. req'[r].stage = "create" /\ req'[r].op = req[r].op
    BY <1>1, <1>2, <1>6 DEF ReadParent, Proceed, Request
  <2> QED BY <1>6, <2>1 DEF OnCourse, At, ReadParent
<1>7. CASE ReadRole(r) /\ ~Finish(r)
  <2>1. req'[r].stage = "erase" /\ req'[r].op = req[r].op
    BY <1>1, <1>2, <1>7 DEF ReadRole, Proceed, Request
  <2> QED BY <1>7, <2>1 DEF OnCourse, At, ReadRole
<1>8. CASE Create(r) /\ ~Finish(r)
  <2>1. PICK m \in Msgs :
          req' = [req EXCEPT ![r].stage = "emit", ![r].id = m, ![r].version = 1]
    BY <1>8 DEF Create
  <2>2. req'[r].stage = "emit" /\ req'[r].op = req[r].op /\ req'[r].version = 1
    BY <1>1, <1>2, <2>1 DEF Request
  <2>3. req[r].op \in {"send", "reply"}
    BY <1>8 DEF OnCourse, Create
  <2> QED BY <2>2, <2>3 DEF OnCourse, At, Kind, Truthful, AllOps
<1>9. CASE Update(r) /\ ~Finish(r)
  <2>1. PICK v \in Versions :
          req' = [req EXCEPT ![r].stage = "emit", ![r].version = v]
    BY <1>9 DEF Update
  <2>2. req'[r].stage = "emit" /\ req'[r].op = req[r].op /\ req'[r].version = v
    BY <1>1, <1>2, <2>1 DEF Request
  <2>3. req[r].op = "edit" /\ v # 0
    BY <1>9 DEF OnCourse, Update, Versions
  <2> QED BY <2>2, <2>3 DEF OnCourse, At, Kind, Truthful, AllOps
<1>10. CASE Erase(r) /\ ~Finish(r)
  <2>1. /\ Stored(req[r].id)
        /\ msg' = [msg EXCEPT ![req[r].id].deleted = TRUE]
        /\ req'[r].stage = "emit" /\ req'[r].op = req[r].op /\ req'[r].id = req[r].id
    BY <1>1, <1>2, <1>10 DEF Erase, Proceed, Request
  <2>2. req[r].op = "delete" /\ req[r].id \in Msgs
    BY <1>1, <1>10 DEF OnCourse, Erase, Attributed, At
  <2>3. msg[req[r].id] \in Row /\ msg \in [Msgs -> Row \union {NoRow}]
    BY <2>1, <2>2 DEF ThreadInv, TypeOK, Stored
  <2>4. msg'[req[r].id].deleted = TRUE /\ msg'[req[r].id].sender \in Users
    BY <2>1, <2>2, <2>3 DEF Row
  <2>5. Gone(req[r].id)'
    <3>1. PICK m \in Msgs : m = req[r].id
      BY <2>2
    <3>2. Stored(m)'
      <4>1. Stored(m) /\ room' = room /\ room # "deleted"
        <5>1. room # "deleted"
          BY <2>1, <3>1 DEF GoneWithTheRoom, Live
        <5> QED BY <1>10, <2>1, <3>1, <5>1 DEF Erase, tables
      <4> QED BY <4>1, RowStays
    <3> QED BY <2>1, <2>4, <3>1, <3>2 DEF Gone, Stored
  <2> QED BY <2>1, <2>2, <2>5 DEF OnCourse, At, Kind, Truthful, AllOps
<1>11. CASE ReadPage(r)
  <2>1. req'[r].stage = "respond" /\ req'[r].op = req[r].op
    BY <1>1, <1>2, <1>11 DEF ReadPage, Request
  <2>2. req[r].op = "list"
    BY <1>11 DEF OnCourse, ReadPage
  <2> QED BY <2>1, <2>2 DEF OnCourse, At
<1>12. CASE Find(r) \/ ReadRoom(r) \/ ReadBan(r)
  BY <1>3, <1>4, <1>12 DEF Find, ReadRoom, ReadBan
<1> QED BY <1>3, <1>5, <1>6, <1>7, <1>8, <1>9, <1>10, <1>11, <1>12
  DEF Step, Emit, Join, ShowPage

LEMMA CourseNew ==
  ASSUME NEW r \in Requests, NEW op, NEW u, NEW t, NEW id,
         req'[r] = NewRequest(op, u, t, id)
  PROVE  OnCourse(r)'
BY DEF NewRequest, OnCourse, At

LEMMA CourseStep ==
  ASSUME ThreadInv, GoneWithTheRoom, [Next]_vars, NEW q \in Requests, OnCourse(q)
  PROVE  OnCourse(q)'
<1>1. req \in [Requests -> Request \union {Idle}]
  BY DEF ThreadInv, TypeOK
<1>2. ASSUME NEW r \in Requests, Step(r) PROVE OnCourse(q)'
  BY <1>1, <1>2, OtherRequests, CourseKept, CourseOwnStep
<1>3. ASSUME NEW r \in Requests, NEW op \in Ops, NEW u \in Users,
             NEW m \in Msgs \union {NoMsg}, Start(r, op, u, m)
      PROVE  OnCourse(q)'
  <2>1. req'[q] = req[q] \/ req'[q] = NewRequest(op, u, "none", m)
    BY <1>1, <1>3 DEF Start
  <2> QED BY <2>1, CourseNew, CourseKept
<1>4. ASSUME NEW t \in Tabs, NEW r \in Requests, NEW s \in Requests, OpenRoom(t, r, s)
      PROVE  OnCourse(q)'
  <2>1. \/ req'[q] = req[q]
        \/ req'[q] = NewRequest("list", UserOf[t], t, NoMsg)
        \/ req'[q] = NewRequest("subscribe", UserOf[t], t, NoMsg)
    BY <1>1, <1>4 DEF OpenRoom
  <2> QED BY <2>1, CourseNew, CourseKept
<1>5. ASSUME NEW t \in Tabs, CloseRoom(t) \/ Reconnect(t) PROVE OnCourse(q)'
  BY <1>1, <1>5, CourseKept DEF CloseRoom, Reconnect
<1>6. CASE UNCHANGED req
  BY <1>6, CourseKept
<1> QED BY <1>2, <1>3, <1>4, <1>5, <1>6 DEF Next, Govern, Deliver, vars

\* No event says what will turn out untrue.
LEMMA EventsStep ==
  ASSUME ThreadInv, [Next]_vars, EventsTruthful, \A r \in Requests : OnCourse(r)
  PROVE  EventsTruthful'
<1> DEFINE True(ev) == Truthful(ev.kind, ev.id, ev.version)
<1> SUFFICES ASSUME NEW t \in Tabs, NEW i \in 1..Len(inbox'[t]),
                    NEW ev, ev = inbox'[t][i]
             PROVE  True(ev)'
  BY DEF EventsTruthful, Truthful, Gone, Stored
<1>1. inbox[t] \in Seq(Event) /\ inbox \in [Tabs -> Seq(Event)]
  BY DEF ThreadInv, TypeOK
<1>2. CASE \E j \in 1..Len(inbox[t]) : ev = inbox[t][j]
  <2>1. PICK j \in 1..Len(inbox[t]) : ev = inbox[t][j]
    BY <1>2
  <2>2. ev \in Event /\ True(ev)
    BY <1>1, <2>1 DEF EventsTruthful
  <2> QED BY <2>2, TruthStays DEF Event
<1>3. CASE inbox'[t] = inbox[t] \/ inbox'[t] = <<>>
  BY <1>1, <1>2, <1>3
<1>4. CASE inbox[t] # <<>> /\ inbox'[t] = Tail(inbox[t])
  <2>1. i + 1 \in 1..Len(inbox[t]) /\ ev = inbox[t][i + 1]
    BY <1>1, <1>4
  <2> QED BY <1>2, <2>1
<1>5. ASSUME NEW r \in Requests, Emit(r) PROVE True(ev)'
  <2> DEFINE new == [kind |-> Kind(req[r].op), id |-> req[r].id,
                     version |-> req[r].version]
  <2>1. inbox'[t] = inbox[t] \/ inbox'[t] = Append(inbox[t], new)
    BY <1>5 DEF Emit
  <2>2. Busy(r) /\ req[r].id \in Msgs
    BY <1>5, RequestAtStage DEF Emit, Stages, ThreadInv, AllAttributed, Attributed, At
  <2>3. Truthful(Kind(req[r].op), req[r].id, req[r].version)
    BY <1>5 DEF OnCourse, Emit
  <2>4. new.kind = Kind(req[r].op) /\ new.id = req[r].id /\ new.version = req[r].version
    OBVIOUS
  <2> HIDE DEF new
  <2>5. CASE ev = new
    <3>1. ev.id \in Msgs /\ True(ev)
      BY <2>2, <2>3, <2>4, <2>5
    <3> QED BY <3>1, TruthStays
  <2>6. CASE inbox'[t] = Append(inbox[t], new) /\ ev # new
    <3>1. i \in 1..Len(inbox[t]) /\ ev = inbox[t][i]
      BY <1>1, <2>6
    <3> QED BY <1>2, <3>1
  <2> QED BY <1>3, <2>1, <2>5, <2>6
<1>6. inbox'[t] = inbox[t] \/ inbox'[t] = <<>>
        \/ (inbox[t] # <<>> /\ inbox'[t] = Tail(inbox[t]))
        \/ \E r \in Requests : Emit(r)
  BY <1>1 DEF Next, Step, vars, Govern, Start, OpenRoom,
  CloseRoom, Reconnect, Deliver, Find, ReadRoom, ReadBan, ReadMember, ReadParent,
  ReadRole, Create, Update, Erase, Join, ReadPage, ShowPage
<1> QED BY <1>3, <1>4, <1>5, <1>6

LEMMA ListsKept ==
  ASSUME NEW t \in Tabs, NEW q \in Requests, OneList, Lists(q, t),
         \A s \in Requests : Lists(s, t)' => Lists(s, t),
         view'[t].open = view[t].open, view'[t].loaded = view[t].loaded
  PROVE  /\ view'[t].open /\ ~view'[t].loaded
         /\ \A s \in Requests : Lists(s, t)' => s = q
BY DEF OneList

LEMMA ListsStay ==
  ASSUME ThreadInv, NEW r \in Requests, Step(r), NEW t \in Tabs, NEW s \in Requests,
         Lists(s, t)'
  PROVE  Lists(s, t)
<1>1. req \in [Requests -> Request \union {Idle}]
  BY DEF ThreadInv, TypeOK
<1>2. CASE s = r
  BY <1>2, OwnRequest DEF Lists, Busy
<1>3. CASE s # r
  BY <1>1, <1>3, OtherRequests DEF Lists, Busy
<1> QED BY <1>2, <1>3

LEMMA OneListStep ==
  ASSUME ThreadInv, OneList, [Next]_vars, \A r \in Requests : OnCourse(r)
  PROVE  OneList'
<1> SUFFICES ASSUME NEW t \in Tabs, NEW q \in Requests, Lists(q, t)'
             PROVE  /\ view'[t].open /\ ~view'[t].loaded
                    /\ \A s \in Requests : Lists(s, t)' => s = q
  BY DEF OneList
<1> DEFINE Goal == /\ view'[t].open /\ ~view'[t].loaded
                   /\ \A s \in Requests : Lists(s, t)' => s = q
<1>1. /\ req \in [Requests -> Request \union {Idle}]
      /\ view \in [Tabs -> View] /\ view[t] \in View
  BY DEF ThreadInv, TypeOK
<1>2. ASSUME NEW r \in Requests, Step(r) PROVE Goal
  <2>1. Lists(q, t) /\ \A s \in Requests : Lists(s, t)' => Lists(s, t)
    BY <1>2, ListsStay
  <2>2. CASE view'[t].open = view[t].open /\ view'[t].loaded = view[t].loaded
    BY <2>1, <2>2, ListsKept
  <2>3. CASE ReadPage(r)
    BY <1>1, <2>2, <2>3 DEF ReadPage, View
  <2>4. CASE ShowPage(r)
    <3>1. CASE req[r].tab = t
      <4>1. req[r].op = "list" /\ Busy(r)
        BY <1>2, <2>4, OwnRequest DEF OnCourse, ShowPage
      <4>2. Lists(r, t)
        BY <3>1, <4>1 DEF Lists
      <4>3. q = r
        BY <2>1, <4>2 DEF OneList
      <4>4. ~Busy(r)'
        BY <1>1, <2>4 DEF ShowPage, Finish, Busy
      <4> QED BY <4>3, <4>4 DEF Lists
    <3>2. CASE req[r].tab # t
      <4>1. view'[t] = view[t]
        BY <1>1, <2>4, <3>2 DEF ShowPage
      <4> QED BY <2>2, <4>1
    <3> QED BY <3>1, <3>2
  <2> QED BY <1>2, <2>2, <2>3, <2>4 DEF Step, Find, ReadRoom, ReadBan, ReadMember,
    ReadParent, ReadRole, Create, Update, Erase, Emit, Join
<1>3. ASSUME NEW r \in Requests, NEW op \in Ops, NEW u \in Users,
             NEW m \in Msgs \union {NoMsg}, Start(r, op, u, m)
      PROVE  Goal
  <2>1. req'[r].op # "list"
    BY <1>1, <1>3, OpsAssumption DEF Start, NewRequest, AllOps
  <2>2. \A s \in Requests : Lists(s, t)' => Lists(s, t)
    BY <1>1, <1>3, <2>1 DEF Start, Lists, Busy
  <2> QED BY <1>3, <2>2, ListsKept DEF Start
<1>4. ASSUME NEW p \in Tabs, NEW r \in Requests, NEW s \in Requests, OpenRoom(p, r, s)
      PROVE  Goal
  <2>1. /\ req'[r].op = "list" /\ req'[r].tab = p
        /\ req'[s].op = "subscribe" /\ req'[s].tab = p
        /\ \A x \in Requests \ {r, s} : req'[x] = req[x]
    BY <1>1, <1>4 DEF OpenRoom, NewRequest
  <2>2. CASE p = t
    <3>1. \A x \in Requests : ~Lists(x, t)
      BY <1>4, <2>2 DEF OneList, OpenRoom
    <3>2. \A x \in Requests : Lists(x, t)' => x = r
      BY <2>1, <3>1 DEF Lists, Busy
    <3>3. view'[t] = [Closed EXCEPT !.open = TRUE, !.steady = TRUE]
      BY <1>1, <1>4, <2>2 DEF OpenRoom
    <3>4. view'[t].open /\ ~view'[t].loaded
      BY <3>3 DEF Closed
    <3> QED BY <3>2, <3>4
  <2>3. CASE p # t
    <3>1. \A x \in Requests : Lists(x, t)' => Lists(x, t)
      BY <2>1, <2>3 DEF Lists, Busy
    <3>2. view'[t] = view[t]
      BY <1>1, <1>4, <2>3 DEF OpenRoom
    <3> QED BY <3>1, <3>2, ListsKept
  <2> QED BY <2>2, <2>3
<1>5. ASSUME NEW p \in Tabs, CloseRoom(p) PROVE Goal
  <2>1. \A x \in Requests : Lists(x, t)' => Lists(x, t)
    BY <1>5 DEF CloseRoom, Lists, Busy
  <2>2. p # t
    BY <1>5 DEF CloseRoom, Lists, Busy
  <2>3. view'[t] = view[t]
    BY <1>1, <1>5, <2>2 DEF CloseRoom
  <2> QED BY <2>1, <2>3, ListsKept
<1>6. ASSUME NEW p \in Tabs, Reconnect(p) PROVE Goal
  <2>1. \A x \in Requests : Lists(x, t)' => Lists(x, t)
    BY <1>6 DEF Reconnect, Lists, Busy
  <2>2. view'[t].open = view[t].open /\ view'[t].loaded = view[t].loaded
    BY <1>1, <1>6 DEF Reconnect, View
  <2> QED BY <2>1, <2>2, ListsKept
<1>7. ASSUME NEW p \in Tabs, Deliver(p) PROVE Goal
  <2>1. \A x \in Requests : Lists(x, t)' => Lists(x, t)
    BY <1>7 DEF Deliver, Lists, Busy
  <2>2. view'[t].open = view[t].open /\ view'[t].loaded = view[t].loaded
    BY <1>1, <1>7 DEF Deliver, View
  <2> QED BY <2>1, <2>2, ListsKept
<1>8. CASE UNCHANGED <<req, view>>
  BY <1>8, ListsKept DEF Lists, Busy
<1> QED BY <1>2, <1>3, <1>4, <1>5, <1>6, <1>7, <1>8 DEF Next, Govern, vars

----------------------------------------------------------------------------
(* Whatever is there is shown or still to come *)

\* What is on its way to a tab stays on its way if its events and the requests about to
\* tell it of a message stay.
LEMMA ComingKept ==
  ASSUME NEW t \in Tabs, NEW m \in Msgs, Coming(t, m), inbox'[t] = inbox[t],
         \A q \in Requests :
           At(q, "emit") \/ (At(q, "respond") /\ req[q].tab = t) => req'[q] = req[q]
  PROVE  Coming(t, m)'
BY DEF Coming, At

LEMMA CoveredKept ==
  ASSUME NEW t \in Tabs, Covered(t),
         Watching(t)' => Watching(t) /\ (t \in channel => t \in channel'),
         ASSUME NEW m \in Msgs, Present(m)' PROVE Present(m),
         ASSUME NEW m \in Msgs, Present(m)', view[t].shown[m] # 0
         PROVE  view'[t].shown[m] # 0,
         ASSUME NEW m \in Msgs, Present(m)', Coming(t, m)
         PROVE  view'[t].shown[m] # 0 \/ Coming(t, m)'
  PROVE  Covered(t)'
BY DEF Covered

LEMMA CoveredReads ==
  ASSUME ThreadInv, NEW t \in Tabs, Covered(t), NEW r \in Requests, Step(r),
         UNCHANGED <<channel, inbox, view>>,
         ~At(r, "emit") /\ ~At(r, "respond"),
         \A m \in Msgs : Present(m)' => Present(m)
  PROVE  Covered(t)'
<1>1. req \in [Requests -> Request \union {Idle}]
  BY DEF ThreadInv, TypeOK
<1>2. ASSUME NEW m \in Msgs, Coming(t, m) PROVE Coming(t, m)'
  <2>1. \A q \in Requests : At(q, "emit") \/ At(q, "respond") => req'[q] = req[q]
    BY <1>1, OtherRequests
  <2>2. inbox'[t] = inbox[t]
    OBVIOUS
  <2> QED BY <1>2, <2>1, <2>2, ComingKept
<1> QED BY <1>2, CoveredKept DEF Watching

\* A message is announced before its request ends.
LEMMA CoveredCreate ==
  ASSUME ThreadInv, NEW t \in Tabs, Covered(t), NEW r \in Requests, Create(r), OnCourse(r)
  PROVE  Covered(t)'
<1>1. /\ req \in [Requests -> Request \union {Idle}]
      /\ msg \in [Msgs -> Row \union {NoRow}]
  BY DEF ThreadInv, TypeOK
<1>2. /\ Step(r) /\ UNCHANGED <<channel, inbox, view>>
      /\ ~At(r, "emit") /\ ~At(r, "respond")
  BY DEF Step, Create, At
<1>3. CASE msg' = msg
  <2>1. \A m \in Msgs : Present(m)' => Present(m)
    BY <1>3 DEF Present, Stored
  <2> QED BY <1>2, <2>1, CoveredReads
<1>4. ASSUME NEW n \in Msgs, ~Stored(n),
             msg' = [msg EXCEPT ![n] = [sender |-> req[r].user, version |-> 1,
                                        deleted |-> FALSE]],
             req' = [req EXCEPT ![r].stage = "emit", ![r].id = n, ![r].version = 1]
      PROVE  Covered(t)'
  <2> SUFFICES ASSUME Watching(t)
               PROVE  /\ t \in channel'
                      /\ \A m \in Msgs : Present(m)' =>
                           view'[t].shown[m] # 0 \/ Coming(t, m)'
    BY <1>2 DEF Covered, Watching
  <2>1. t \in channel'
    BY <1>2 DEF Covered
  <2>2. ASSUME NEW m \in Msgs, Present(m)', m # n
        PROVE  view'[t].shown[m] # 0 \/ Coming(t, m)'
    <3>1. Present(m)
      BY <1>1, <1>4, <2>2 DEF Present, Stored
    <3>2. CASE Coming(t, m)
      <4>1. \A q \in Requests : At(q, "emit") \/ At(q, "respond") => req'[q] = req[q]
        BY <1>1, <1>2, OtherRequests
      <4>2. inbox'[t] = inbox[t]
        BY <1>2
      <4> QED BY <3>2, <4>1, <4>2, ComingKept
    <3> QED BY <1>2, <3>1, <3>2 DEF Covered
  <2>3. Coming(t, n)'
    <3>1. req[r].op \in {"send", "reply"}
      BY DEF OnCourse, Create
    <3>2. req[r] \in Request
      BY <1>2, OwnRequest
    <3>3. req'[r].stage = "emit" /\ req'[r].id = n /\ req'[r].op = req[r].op
      BY <1>1, <1>4, <3>2 DEF Request
    <3>4. Kind(req'[r].op) = "message"
      BY <3>1, <3>3 DEF Kind
    <3> QED BY <3>3, <3>4 DEF Coming, At
  <2> QED BY <2>1, <2>2, <2>3
<1> QED BY <1>3, <1>4 DEF Create

LEMMA CoveredChange ==
  ASSUME ThreadInv, NEW t \in Tabs, Covered(t), NEW r \in Requests, Update(r) \/ Erase(r)
  PROVE  Covered(t)'
<1>1. msg \in [Msgs -> Row \union {NoRow}]
  BY DEF ThreadInv, TypeOK
<1>2. /\ Step(r) /\ UNCHANGED <<channel, inbox, view>>
      /\ ~At(r, "emit") /\ ~At(r, "respond")
  BY DEF Step, Update, Erase, At
<1>3. ASSUME NEW m \in Msgs, Present(m)' PROVE Present(m)
  <2>1. CASE msg'[m] = msg[m]
    BY <1>3, <2>1 DEF Present, Stored
  <2>2. ASSUME Stored(m),
               \/ msg'[m] = [msg[m] EXCEPT !.deleted = TRUE]
               \/ \E v \in Versions : msg'[m] = [msg[m] EXCEPT !.version = v]
        PROVE  Present(m)
    <3>1. msg[m] \in Row
      BY <1>1, <2>2 DEF Stored
    <3> QED BY <1>3, <2>2, <3>1 DEF Present, Row
  <2>3. CASE Update(r)
    <3>1. \/ msg' = msg
          \/ /\ Stored(req[r].id)
             /\ \E v \in Versions : msg' = [msg EXCEPT ![req[r].id].version = v]
      BY <2>3 DEF Update
    <3>2. CASE m # req[r].id \/ msg' = msg
      BY <1>1, <2>1, <3>1, <3>2
    <3>3. CASE m = req[r].id /\ msg' # msg
      <4>1. \E v \in Versions : msg'[m] = [msg[m] EXCEPT !.version = v]
        BY <1>1, <3>1, <3>3
      <4> QED BY <2>2, <3>1, <3>3, <4>1
    <3> QED BY <3>2, <3>3
  <2>4. CASE Erase(r)
    <3>1. \/ msg' = msg
          \/ Stored(req[r].id) /\ msg' = [msg EXCEPT ![req[r].id].deleted = TRUE]
      BY <2>4 DEF Erase
    <3>2. CASE m # req[r].id \/ msg' = msg
      BY <1>1, <2>1, <3>1, <3>2
    <3>3. CASE m = req[r].id /\ msg' # msg
      BY <1>1, <2>2, <3>1, <3>3
    <3> QED BY <3>2, <3>3
  <2> QED BY <2>3, <2>4
<1> QED BY <1>2, <1>3, CoveredReads

\* An event joins those on their way to a tab in the channel.
LEMMA CoveredEmit ==
  ASSUME ThreadInv, NEW t \in Tabs, Covered(t), NEW r \in Requests, Emit(r)
  PROVE  Covered(t)'
<1> DEFINE ev == [kind |-> Kind(req[r].op), id |-> req[r].id, version |-> req[r].version]
<1>1. /\ req \in [Requests -> Request \union {Idle}]
      /\ inbox[t] \in Seq(Event)
  BY DEF ThreadInv, TypeOK
<1>2. Step(r) /\ UNCHANGED <<msg, channel, view>>
  BY DEF Step, Emit
<1> SUFFICES ASSUME Watching(t), NEW m \in Msgs, Present(m), Coming(t, m)
             PROVE  Coming(t, m)'
  BY <1>2 DEF Covered, Watching, Present, Stored
<1>3. inbox'[t] = Append(inbox[t], ev)
  BY DEF Emit, Covered
<1>4. ev.kind = Kind(req[r].op) /\ ev.id = req[r].id
  OBVIOUS
<1> HIDE DEF ev
<1>5. ASSUME NEW i \in 1..Len(inbox[t]), inbox[t][i].kind = "message",
             inbox[t][i].id = m
      PROVE  Coming(t, m)'
  <2>1. i \in 1..Len(inbox'[t]) /\ inbox'[t][i] = inbox[t][i]
    BY <1>1, <1>3
  <2> QED BY <1>5, <2>1 DEF Coming
<1>6. ASSUME Kind(req[r].op) = "message", req[r].id = m
      PROVE  Coming(t, m)'
  <2>1. Len(inbox[t]) + 1 \in 1..Len(inbox'[t]) /\ inbox'[t][Len(inbox[t]) + 1] = ev
    BY <1>1, <1>3
  <2> QED BY <1>4, <1>6, <2>1 DEF Coming
<1>7. ASSUME NEW q \in Requests \ {r},
             \/ At(q, "emit") /\ Kind(req[q].op) = "message" /\ req[q].id = m
             \/ At(q, "respond") /\ req[q].tab = t /\ req[q].page[m] # 0
      PROVE  Coming(t, m)'
  <2>1. req'[q] = req[q]
    BY <1>1, <1>2, OtherRequests
  <2> QED BY <1>7, <2>1 DEF Coming, At
<1>8. ~At(r, "respond")
  BY DEF Emit, At
<1> QED BY <1>5, <1>6, <1>7, <1>8 DEF Coming

LEMMA CoveredJoin ==
  ASSUME ThreadInv, NEW t \in Tabs, Covered(t), NEW r \in Requests, Join(r)
  PROVE  Covered(t)'
<1>1. req \in [Requests -> Request \union {Idle}]
  BY DEF ThreadInv, TypeOK
<1>2. /\ Step(r) /\ UNCHANGED <<msg, inbox, view>> /\ channel \subseteq channel'
      /\ ~At(r, "emit") /\ ~At(r, "respond")
  BY DEF Step, Join, At
<1>3. ASSUME NEW m \in Msgs, Coming(t, m) PROVE Coming(t, m)'
  <2>1. \A q \in Requests : At(q, "emit") \/ At(q, "respond") => req'[q] = req[q]
    BY <1>1, <1>2, OtherRequests
  <2>2. inbox'[t] = inbox[t]
    BY <1>2
  <2> QED BY <1>3, <2>1, <2>2, ComingKept
<1>4. \A m \in Msgs : Present(m)' => Present(m)
  BY <1>2 DEF Present, Stored
<1>5. Watching(t)' => Watching(t) /\ (t \in channel => t \in channel')
  BY <1>2 DEF Watching
<1>6. \A m \in Msgs : view'[t].shown[m] = view[t].shown[m]
  BY <1>2
<1> QED BY <1>3, <1>4, <1>5, <1>6, CoveredKept

LEMMA ViewJoined ==
  ASSUME NEW v \in View, NEW b \in BOOLEAN
  PROVE  [v EXCEPT !.joinedFirst = b].joinedFirst = b
BY DEF View

\* A page that is read holds every message, and its answer is then under way.
LEMMA CoveredReadPage ==
  ASSUME ThreadInv, NEW t \in Tabs, Covered(t), NEW r \in Requests, ReadPage(r)
  PROVE  Covered(t)'
<1>1. /\ req \in [Requests -> Request \union {Idle}]
      /\ view \in [Tabs -> View] /\ view[t] \in View
      /\ msg \in [Msgs -> Row \union {NoRow}]
  BY DEF ThreadInv, TypeOK
<1>2. /\ Step(r) /\ UNCHANGED <<msg, channel, inbox>>
      /\ ~At(r, "emit") /\ ~At(r, "respond")
      /\ req' = [req EXCEPT ![r].stage = "respond", ![r].page = Page]
      /\ view' = [view EXCEPT ![req[r].tab].joinedFirst = req[r].tab \in channel]
  BY DEF Step, ReadPage, At
<1>3. req[r] \in Request
  BY <1>2, OwnRequest
<1>4. CASE req[r].tab = t
  <2>1. view'[t].joinedFirst => t \in channel'
    <3>1. view'[t] = [view[t] EXCEPT !.joinedFirst = t \in channel]
      BY <1>1, <1>2, <1>4
    <3>2. (t \in channel) \in BOOLEAN
      OBVIOUS
    <3>3. view'[t].joinedFirst = (t \in channel)
      BY <1>1, <3>1, <3>2, ViewJoined
    <3> QED BY <1>2, <3>3
  <2>2. ASSUME NEW m \in Msgs, Present(m)' PROVE Coming(t, m)'
    <3>1. Present(m)
      BY <1>2, <2>2 DEF Present, Stored
    <3>2. msg[m] \in Row
      BY <1>1, <3>1 DEF Present, Stored
    <3>3. Page[m] = msg[m].version /\ msg[m].version # 0
      BY <3>1, <3>2 DEF Page, Row, Versions
    <3>4. req'[r].stage = "respond" /\ req'[r].page = Page /\ req'[r].tab = t
      BY <1>1, <1>2, <1>3, <1>4 DEF Request
    <3>5. req'[r].page[m] # 0
      BY <3>3, <3>4
    <3> QED BY <3>4, <3>5 DEF Coming, At
  <2> QED BY <2>1, <2>2 DEF Covered, Watching
<1>5. CASE req[r].tab # t
  <2>1. view'[t] = view[t]
    BY <1>1, <1>2, <1>5
  <2>2. ASSUME NEW m \in Msgs, Coming(t, m) PROVE Coming(t, m)'
    <3>1. \A q \in Requests : At(q, "emit") \/ At(q, "respond") => req'[q] = req[q]
      BY <1>1, <1>2, OtherRequests
    <3>2. inbox'[t] = inbox[t]
      BY <1>2
    <3> QED BY <2>2, <3>1, <3>2, ComingKept
  <2>3. \A m \in Msgs : Present(m)' => Present(m)
    BY <1>2 DEF Present, Stored
  <2>4. Watching(t)' => Watching(t) /\ (t \in channel => t \in channel')
    BY <1>2, <2>1 DEF Watching
  <2>5. \A m \in Msgs : view'[t].shown[m] = view[t].shown[m]
    BY <2>1
  <2> QED BY <2>2, <2>3, <2>4, <2>5, CoveredKept
<1> QED BY <1>4, <1>5

\* A merge takes nothing away, and shows what is on the page.
LEMMA CoveredShowPage ==
  ASSUME ThreadInv, NEW t \in Tabs, Covered(t), NEW r \in Requests, ShowPage(r)
  PROVE  Covered(t)'
<1>1. /\ req \in [Requests -> Request \union {Idle}]
      /\ view \in [Tabs -> View] /\ view[t] \in View
  BY DEF ThreadInv, TypeOK
<1>2. /\ Step(r) /\ UNCHANGED <<msg, channel, inbox>> /\ ~At(r, "emit")
      /\ view' = [view EXCEPT ![req[r].tab].shown = Merge(@, req[r].page),
                             ![req[r].tab].loaded = TRUE]
  BY DEF Step, ShowPage, At
<1>3. \A m \in Msgs : Present(m)' => Present(m)
  BY <1>2 DEF Present, Stored
<1>4. /\ Watching(t)' => Watching(t) /\ (t \in channel => t \in channel')
      /\ req[r].tab # t => view'[t] = view[t]
      /\ req[r].tab = t => view'[t].shown = Merge(view[t].shown, req[r].page)
  <2>1. CASE req[r].tab # t
    BY <1>1, <1>2, <2>1 DEF Watching
  <2>2. CASE req[r].tab = t
    <3>1. PICK p : p = Merge(view[t].shown, req[r].page)
      OBVIOUS
    <3>2. view'[t] = [view[t] EXCEPT !.shown = p, !.loaded = TRUE]
      BY <1>1, <1>2, <2>2, <3>1
    <3> QED BY <1>1, <1>2, <2>2, <3>1, <3>2 DEF Watching, View
  <2> QED BY <2>1, <2>2
<1>5. ASSUME NEW m \in Msgs, view[t].shown[m] # 0 PROVE view'[t].shown[m] # 0
  BY <1>4, <1>5 DEF Merge
<1>6. ASSUME NEW m \in Msgs, Coming(t, m)
      PROVE  view'[t].shown[m] # 0 \/ Coming(t, m)'
  <2>1. CASE req[r].tab = t /\ req[r].page[m] # 0
    BY <1>4, <2>1 DEF Merge
  <2>2. CASE \E i \in 1..Len(inbox[t]) : inbox[t][i].kind = "message" /\ inbox[t][i].id = m
    BY <1>2, <2>2 DEF Coming
  <2>3. ASSUME NEW q \in Requests \ {r},
               \/ At(q, "emit") /\ Kind(req[q].op) = "message" /\ req[q].id = m
               \/ At(q, "respond") /\ req[q].tab = t /\ req[q].page[m] # 0
        PROVE  Coming(t, m)'
    <3>1. req'[q] = req[q]
      BY <1>1, <1>2, OtherRequests
    <3> QED BY <2>3, <3>1 DEF Coming, At
  <2> QED BY <1>2, <1>6, <2>1, <2>2, <2>3 DEF Coming
<1> QED BY <1>3, <1>4, <1>5, <1>6, CoveredKept

\* An event with a text shows its message or leaves it shown; one that takes a message
\* away is of a message that is gone.
LEMMA AfterShows ==
  ASSUME NEW shown \in Pages, NEW ev \in Event, NEW m \in Msgs,
         ev.id = m /\ ev.kind # "deleted" => ev.version # 0,
         ev.id = m => ev.kind # "deleted",
         shown[m] # 0 \/ (ev.kind = "message" /\ ev.id = m)
  PROVE  After(shown, ev)[m] # 0
<1>1. CASE ev.id # m
  BY <1>1 DEF After, Pages
<1>2. CASE ev.id = m
  BY <1>2 DEF After, Pages, Event
<1> QED BY <1>1, <1>2

LEMMA CoveredDeliver ==
  ASSUME ThreadInv, GoneWithTheRoom, EventsTruthful, NEW t \in Tabs, Covered(t),
         NEW p \in Tabs, Deliver(p)
  PROVE  Covered(t)'
<1>1. /\ view \in [Tabs -> View] /\ view[t] \in View
      /\ inbox \in [Tabs -> Seq(Event)] /\ inbox[t] \in Seq(Event)
  BY DEF ThreadInv, TypeOK
<1>2. UNCHANGED <<msg, channel, req>>
  BY DEF Deliver
<1>3. \A m \in Msgs : Present(m)' => Present(m)
  BY <1>2 DEF Present, Stored
<1>4. CASE p # t \/ ~view[t].open
  <2>1. view'[t] = view[t]
    BY <1>1, <1>4 DEF Deliver
  <2>2. Watching(t)' => p # t
    BY <1>4, <2>1 DEF Watching
  <2> SUFFICES ASSUME Watching(t)' PROVE Covered(t)'
    BY DEF Covered
  <2>3. inbox'[t] = inbox[t]
    BY <1>1, <2>2 DEF Deliver
  <2>4. \A m \in Msgs : Coming(t, m) => Coming(t, m)'
    BY <1>2, <2>3 DEF Coming, At
  <2>5. Watching(t) /\ (t \in channel => t \in channel')
    BY <1>2, <2>1 DEF Watching
  <2>6. \A m \in Msgs : view'[t].shown[m] = view[t].shown[m]
    BY <2>1
  <2> QED BY <1>3, <2>4, <2>5, <2>6, CoveredKept
<1>5. CASE p = t /\ view[t].open
  <2> DEFINE ev == Head(inbox[t])
  <2>1. /\ inbox[t] # <<>> /\ inbox'[t] = Tail(inbox[t])
        /\ view' = [view EXCEPT ![t].shown = After(@, ev)]
    BY <1>1, <1>5 DEF Deliver
  <2>2. /\ Watching(t)' => Watching(t) /\ (t \in channel => t \in channel')
        /\ view'[t].shown = After(view[t].shown, ev)
    <3>1. PICK x : x = After(view[t].shown, ev)
      OBVIOUS
    <3>2. view'[t] = [view[t] EXCEPT !.shown = x]
      BY <1>1, <2>1, <3>1
    <3> QED BY <1>1, <1>2, <3>1, <3>2 DEF Watching, View
  <2>3. /\ ev \in Event /\ ev = inbox[t][1] /\ 1 \in 1..Len(inbox[t])
    BY <1>1, <2>1
  <2>4. Truthful(ev.kind, ev.id, ev.version)
    BY <2>3 DEF EventsTruthful
  <2> HIDE DEF ev
  <2>5. ASSUME NEW m \in Msgs, Present(m)',
               view[t].shown[m] # 0 \/ (ev.kind = "message" /\ ev.id = m)
        PROVE  view'[t].shown[m] # 0
    <3>1. ev.id = m => ev.kind # "deleted"
      BY <1>3, <2>4, <2>5, GoneIsAbsent DEF Truthful
    <3>2. ev.id = m /\ ev.kind # "deleted" => ev.version # 0
      BY <2>4 DEF Truthful
    <3>3. view[t].shown \in Pages
      BY <1>1 DEF View
    <3> QED BY <2>2, <2>3, <2>5, <3>1, <3>2, <3>3, AfterShows
  <2>6. ASSUME NEW m \in Msgs, Present(m)', Coming(t, m)
        PROVE  view'[t].shown[m] # 0 \/ Coming(t, m)'
    <3>1. ASSUME NEW i \in 1..Len(inbox[t]), inbox[t][i].kind = "message",
                 inbox[t][i].id = m
          PROVE  view'[t].shown[m] # 0 \/ Coming(t, m)'
      <4>1. CASE i = 1
        BY <2>3, <2>5, <2>6, <3>1, <4>1
      <4>2. CASE i # 1
        <5>1. i - 1 \in 1..Len(inbox'[t]) /\ inbox'[t][i - 1] = inbox[t][i]
          BY <1>1, <2>1, <4>2
        <5> QED BY <3>1, <5>1 DEF Coming
      <4> QED BY <4>1, <4>2
    <3>2. CASE \/ \E q \in Requests :
                    At(q, "emit") /\ Kind(req[q].op) = "message" /\ req[q].id = m
               \/ \E q \in Requests :
                    At(q, "respond") /\ req[q].tab = t /\ req[q].page[m] # 0
      BY <1>2, <3>2 DEF Coming, At
    <3> QED BY <2>6, <3>1, <3>2 DEF Coming
  <2> QED BY <1>3, <2>2, <2>5, <2>6, CoveredKept
<1> QED BY <1>4, <1>5

\* What users do: a tab that opens the room is not watching yet, one that closes it or
\* loses its socket is not any more.
LEMMA CoveredClients ==
  ASSUME ThreadInv, \A r \in Requests : OnCourse(r), NEW t \in Tabs, Covered(t),
         (\E r \in Requests, op \in Ops, u \in Users, m \in Msgs \union {NoMsg} :
            Start(r, op, u, m))
         \/ (\E p \in Tabs, r, s \in Requests : OpenRoom(p, r, s))
         \/ (\E p \in Tabs : CloseRoom(p) \/ Reconnect(p))
  PROVE  Covered(t)'
<1>1. /\ req \in [Requests -> Request \union {Idle}]
      /\ view \in [Tabs -> View] /\ view[t] \in View
      /\ inbox \in [Tabs -> Seq(Event)]
  BY DEF ThreadInv, TypeOK
<1>2. \A m \in Msgs : Present(m)' => Present(m)
  BY DEF Start, OpenRoom, CloseRoom, Reconnect, Present, Stored
<1> DEFINE Same == /\ view'[t] = view[t] /\ inbox'[t] = inbox[t]
                   /\ t \in channel => t \in channel'
                   /\ \A q \in Requests :
                        At(q, "emit") \/ (At(q, "respond") /\ req[q].tab = t) =>
                          req'[q] = req[q]
<1>3. CASE Same
  <2>1. \A m \in Msgs : Coming(t, m) => Coming(t, m)'
    BY <1>3, ComingKept
  <2>2. Watching(t)' => Watching(t) /\ (t \in channel => t \in channel')
    BY <1>3 DEF Watching
  <2>3. \A m \in Msgs : view'[t].shown[m] = view[t].shown[m]
    BY <1>3
  <2> QED BY <1>2, <2>1, <2>2, <2>3, CoveredKept
<1>4. ASSUME NEW r \in Requests, NEW op \in Ops, NEW u \in Users,
             NEW m \in Msgs \union {NoMsg}, Start(r, op, u, m)
      PROVE  Covered(t)'
  <2>1. Same
    BY <1>1, <1>4 DEF Start, Busy, At, Idle
  <2> QED BY <1>3, <2>1
<1>5. ASSUME NEW p \in Tabs, NEW r \in Requests, NEW s \in Requests, OpenRoom(p, r, s)
      PROVE  Covered(t)'
  <2>1. CASE p = t
    <3>1. view'[t] = [Closed EXCEPT !.open = TRUE, !.steady = TRUE]
      BY <1>1, <1>5, <2>1 DEF OpenRoom
    <3>2. ~view'[t].joinedFirst
      BY <3>1 DEF Closed
    <3> QED BY <3>2 DEF Covered, Watching
  <2>2. CASE p # t
    <3>1. Same
      BY <1>1, <1>5, <2>2 DEF OpenRoom, Busy, At, Idle
    <3> QED BY <1>3, <3>1
  <2> QED BY <2>1, <2>2
<1>6. ASSUME NEW p \in Tabs, CloseRoom(p) PROVE Covered(t)'
  <2>1. CASE p = t
    <3>1. view'[t] = Closed
      BY <1>1, <1>6, <2>1 DEF CloseRoom
    <3> QED BY <3>1 DEF Closed, Covered, Watching
  <2>2. CASE p # t
    <3>1. ASSUME NEW q \in Requests,
                 At(q, "emit") \/ (At(q, "respond") /\ req[q].tab = t)
          PROVE  req'[q] = req[q]
      <4>1. ~(req[q].op = "list" /\ req[q].tab = p)
        BY <2>2, <3>1 DEF OnCourse, AllOps
      <4> QED BY <1>6, <4>1 DEF CloseRoom
    <3>2. Same
      BY <1>1, <1>6, <2>2, <3>1 DEF CloseRoom
    <3> QED BY <1>3, <3>2
  <2> QED BY <2>1, <2>2
<1>7. ASSUME NEW p \in Tabs, Reconnect(p) PROVE Covered(t)'
  <2>1. CASE p = t
    <3>1. ~view'[t].steady
      BY <1>1, <1>7, <2>1 DEF Reconnect, View
    <3> QED BY <3>1 DEF Covered, Watching
  <2>2. CASE p # t
    <3>1. ASSUME NEW q \in Requests,
                 At(q, "emit") \/ (At(q, "respond") /\ req[q].tab = t)
          PROVE  req'[q] = req[q]
      <4>1. req[q].op # "subscribe"
        BY <3>1 DEF OnCourse, AllOps
      <4> QED BY <1>7, <4>1 DEF Reconnect
    <3>2. Same
      BY <1>1, <1>7, <2>2, <3>1 DEF Reconnect
    <3> QED BY <1>3, <3>2
  <2> QED BY <2>1, <2>2
<1> QED BY <1>4, <1>5, <1>6, <1>7

\* Nothing is there after a deletion.
LEMMA CoveredGovern ==
  ASSUME NEW t \in Tabs, Covered(t), Govern PROVE Covered(t)'
<1>1. UNCHANGED <<channel, req, inbox, view>>
  BY DEF Govern
<1>2. \A m \in Msgs : Present(m)' => Present(m)
  BY DEF Govern, Present, Stored
<1>3. \A m \in Msgs : Coming(t, m) => Coming(t, m)'
  BY <1>1 DEF Coming, At
<1>4. Watching(t)' => Watching(t) /\ (t \in channel => t \in channel')
  BY <1>1 DEF Watching
<1>5. \A m \in Msgs : view'[t].shown[m] = view[t].shown[m]
  BY <1>1
<1> QED BY <1>2, <1>3, <1>4, <1>5, CoveredKept

LEMMA CoveredStep ==
  ASSUME ThreadInv, NothingMissedInv, [Next]_vars, NEW t \in Tabs
  PROVE  Covered(t)'
<1> USE DEF NothingMissedInv
<1>1. ASSUME NEW r \in Requests,
             Find(r) \/ ReadRoom(r) \/ ReadBan(r) \/ ReadMember(r) \/ ReadParent(r)
               \/ ReadRole(r)
      PROVE  Covered(t)'
  <2>1. /\ Step(r) /\ UNCHANGED <<channel, inbox, view>>
        /\ ~At(r, "emit") /\ ~At(r, "respond")
    BY <1>1 DEF Step, Find, ReadRoom, ReadBan, ReadMember, ReadParent, ReadRole, At
  <2>2. \A m \in Msgs : Present(m)' => Present(m)
    BY <1>1 DEF Find, ReadRoom, ReadBan, ReadMember, ReadParent, ReadRole, Present, Stored
  <2> QED BY <2>1, <2>2, CoveredReads
<1>2. ASSUME NEW r \in Requests, Step(r) PROVE Covered(t)'
  BY <1>1, <1>2, CoveredCreate, CoveredChange, CoveredEmit, CoveredJoin,
  CoveredReadPage, CoveredShowPage DEF Step
<1>3. CASE UNCHANGED vars
  BY <1>3 DEF vars, Covered, Watching, Coming, Present, Stored, At
<1> QED BY <1>2, <1>3, CoveredGovern, CoveredClients, CoveredDeliver DEF Next

LEMMA NothingMissedInit == Init => NothingMissedInv
<1> SUFFICES ASSUME Init PROVE NothingMissedInv
  OBVIOUS
<1>1. GoneWithTheRoom
  BY DEF Init, GoneWithTheRoom, Stored
<1>2. EventsTruthful
  BY DEF Init, EventsTruthful
<1>3. \A r \in Requests : OnCourse(r)
  BY DEF Init, OnCourse, At, Idle
<1>4. OneList
  BY DEF Init, OneList, Lists, Busy
<1>5. \A t \in Tabs : Covered(t)
  BY DEF Init, Covered, Watching, Closed
<1> QED BY <1>1, <1>2, <1>3, <1>4, <1>5 DEF NothingMissedInv

\* An open view whose socket stayed, and which was in the channel when its page was read,
\* shows every message of the room as soon as no event is on its way, wherever the page's
\* answer came among the events: listRoomMessages and emitRoomMessage together miss
\* nothing, although neither is ordered with the other.
THEOREM ViewsMissNothing == Spec => []NothingMissed
<1>1. ThreadInv /\ NothingMissedInv /\ [Next]_vars /\ GoneWithTheRoom' =>
        NothingMissedInv'
  BY EventsStep, CourseStep, OneListStep, CoveredStep DEF NothingMissedInv
<1>2. NothingMissedInv => NothingMissed
  <2> SUFFICES ASSUME NothingMissedInv, NEW t \in Tabs, NEW m \in Msgs, Settled(t),
                      Present(m)
               PROVE  view[t].shown[m] # 0
    BY DEF NothingMissed
  <2>1. view[t].shown[m] # 0 \/ Coming(t, m)
    BY DEF NothingMissedInv, Covered, Watching, Settled
  <2>2. ASSUME NEW r \in Requests, At(r, "respond"), req[r].tab = t PROVE FALSE
    <3>1. Lists(r, t)
      BY <2>2 DEF NothingMissedInv, OnCourse, At, Lists, Busy, Idle
    <3> QED BY <3>1 DEF NothingMissedInv, OneList, Settled
  <2>3. ~Coming(t, m)
    BY <2>2 DEF Coming, Settled
  <2> QED BY <2>1, <2>3
<1> QED BY <1>1, <1>2, NothingMissedInit, ThreadInvariant, DeletedRoomEmpty, PTL DEF Spec
=============================================================================
