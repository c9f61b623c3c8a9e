------------------------------ MODULE RoomThread ------------------------------
(***************************************************************************)
(* The messages of one group room and the browser tabs that show them: the *)
(* room half of chat_app_be/src/messages/messages.service.ts, the socket   *)
(* channel `room:{id}` of chat.gateway.ts, and the view that               *)
(* chat_app_fe/src/components/ActiveRoomChat.tsx keeps from a page fetched  *)
(* over HTTP and from the channel's events.  The two paths are not ordered *)
(* with each other.  Membership and bans change as RoomPolicy says, in one *)
(* step each; a handler here is one step per awaited call.                 *)
(***************************************************************************)
EXTENDS Naturals, Sequences

CONSTANTS
  Users, Creator, MAX_ROOM_PARTICIPANTS,  \* see Rooms
  PlatformStaff,  \* the accounts with platform role admin or moderator
  Tabs,           \* browser tabs, one socket each
  UserOf,         \* UserOf[t]: the account signed in in tab t
  Msgs,           \* Message ids (bounds how many are posted)
  NoMsg,          \* no message id
  Requests,       \* slots for requests in flight (bounds concurrency)
  Ops,            \* the operations clients call besides opening the room
  MaxVersion      \* bounds the edits of a message

AllOps == {"send", "reply", "edit", "delete"}

ASSUME TabsAssumption == UserOf \in [Tabs -> Users]
ASSUME StaffAssumption == PlatformStaff \subseteq Users
ASSUME NoMsgAssumption == NoMsg \notin Msgs
ASSUME OpsAssumption == Ops \subseteq AllOps
ASSUME VersionAssumption == MaxVersion \in Nat \ {0}

VARIABLES
  room, role, banned,  \* the tables of RoomPolicy
  msg,      \* msg[m]: the Message row of id m, or NoRow
  channel,  \* the tabs whose sockets have joined `room:{id}`
  req,      \* req[r]: the state of the request in slot r
  inbox,    \* inbox[t]: the events on their way to tab t, in order
  view,     \* view[t]: what tab t shows of the room
  been      \* history: the users who have at some time been members

vars == <<room, role, banned, msg, channel, req, inbox, view, been>>
tables == <<room, role, banned, been>>

Policy == INSTANCE RoomPolicy

----------------------------------------------------------------------------
Live == room \in {"public", "private"}

\* A row: who posted it, which edit it holds (1 as posted), and its deletedAt.
Versions == 1..MaxVersion
Row == [sender : Users, version : Versions, deleted : BOOLEAN]
NoRow == [version |-> 0]

Stored(m) == msg[m] # NoRow
Present(m) == Stored(m) /\ ~msg[m].deleted

\* The latest page of listRoomMessages, as the version of each message on it, 0 for
\* the others.  A page holds every message of the room here.
Page == [m \in Msgs |-> IF Present(m) THEN msg[m].version ELSE 0]
Pages == [Msgs -> 0..MaxVersion]
NoPage == [m \in Msgs |-> 0]

\* A tab's view of the room: whether it is open and has its page, whether its socket
\* has stayed the one that subscribed, whether that was in the channel when the page
\* was read, and the version it shows of each message.
View == [open : BOOLEAN, loaded : BOOLEAN, steady : BOOLEAN, joinedFirst : BOOLEAN,
         shown : Pages]
Closed == [open |-> FALSE, loaded |-> FALSE, steady |-> FALSE, joinedFirst |-> FALSE,
           shown |-> NoPage]

Event == [kind : {"message", "edited", "deleted"}, id : Msgs, version : 0..MaxVersion]

\* The stage of a request names the call it awaits next.
Stages == {"find", "room", "bans", "member", "parent", "role", "create", "update",
           "erase", "emit", "join", "read", "respond"}

\* Tab requests (subscribe, list) come from an open view, the others from any client.
\* ev is the event a write will emit, page what a list has read.
Request == [stage : Stages, op : AllOps \union {"subscribe", "list"}, user : Users,
            tab : Tabs \union {"none"}, id : Msgs \union {NoMsg},
            version : 0..MaxVersion, page : Pages]

Idle == [stage |-> "idle"]

Busy(r) == req[r] # Idle
At(r, stage) == req[r].stage = stage

Finish(r) == req' = [req EXCEPT ![r] = Idle]
Proceed(r, stage) == req' = [req EXCEPT ![r].stage = stage]

NewRequest(op, user, tab, id) ==
  [stage |-> IF op \in {"edit", "delete"} THEN "find" ELSE "room", op |-> op,
   user |-> user, tab |-> tab, id |-> id, version |-> 0, page |-> NoPage]

AfterMember(op) ==
  CASE op = "send" -> "create"
    [] op = "reply" -> "parent"
    [] op = "edit" -> "update"
    [] op = "delete" -> "role"
    [] op = "subscribe" -> "join"
    [] OTHER -> "read"

----------------------------------------------------------------------------
\* Members, roles and bans change; deleting the room deletes its messages.  Sockets
\* stay in the channel whatever happens to the membership of their user.
Govern ==
  /\ Policy!Next
  /\ msg' = IF room' = "deleted" THEN [m \in Msgs |-> NoRow] ELSE msg
  /\ been' = been \union {u \in Users : role'[u] # "none"}
  /\ UNCHANGED <<channel, req, inbox, view>>

\* A client calls an operation; a message it names is one that it has seen posted.
Start(r, op, user, id) ==
  /\ ~Busy(r)
  /\ room # "absent"
  /\ IF op = "send" THEN id = NoMsg ELSE id # NoMsg /\ Stored(id)
  /\ req' = [req EXCEPT ![r] = NewRequest(op, user, "none", id)]
  /\ UNCHANGED <<tables, msg, channel, inbox, view>>

\* The room's page mounts: its effects fetch the latest page and subscribe.
OpenRoom(t, r, s) ==
  /\ ~Busy(r) /\ ~Busy(s) /\ r # s
  /\ room # "absent"
  /\ ~view[t].open
  /\ view' = [view EXCEPT ![t] = [Closed EXCEPT !.open = TRUE, !.steady = TRUE]]
  /\ req' = [req EXCEPT ![r] = NewRequest("list", UserOf[t], t, NoMsg),
                        ![s] = NewRequest("subscribe", UserOf[t], t, NoMsg)]
  /\ UNCHANGED <<tables, msg, channel, inbox>>

\* It unmounts: the response to its list is dropped, its listeners go, and
\* room:unsubscribe leaves the channel; a subscribe in progress goes on and joins it
\* again.  Events on their way go unheard, unless the room is open again by then.
CloseRoom(t) ==
  /\ view[t].open
  /\ view' = [view EXCEPT ![t] = Closed]
  /\ channel' = channel \ {t}
  /\ req' = [r \in Requests |->
               IF Busy(r) /\ req[r].op = "list" /\ req[r].tab = t THEN Idle ELSE req[r]]
  /\ UNCHANGED <<tables, msg, inbox>>

\* The connection is lost and made again: the new socket is in no channel, events of
\* the meantime are gone, and a subscribe in progress joins the old socket.  The
\* view's "reconnect" handler is not called: socket.io emits that event on the
\* manager, not on the socket it is registered on.
Reconnect(t) ==
  /\ view[t].open
  /\ view' = [view EXCEPT ![t].steady = FALSE]
  /\ inbox' = [inbox EXCEPT ![t] = <<>>]
  /\ channel' = channel \ {t}
  /\ req' = [r \in Requests |->
               IF Busy(r) /\ req[r].op = "subscribe" /\ req[r].tab = t
               THEN Idle ELSE req[r]]
  /\ UNCHANGED <<tables, msg>>

----------------------------------------------------------------------------
\* updateMessage, deleteMessage: the message must be there and not deleted, and an
\* edit is its sender's.
Find(r) ==
  /\ At(r, "find")
  /\ IF Present(req[r].id) /\ (req[r].op = "edit" => msg[req[r].id].sender = req[r].user)
     THEN Proceed(r, "room")
     ELSE Finish(r)
  /\ UNCHANGED <<tables, msg, channel, inbox, view>>

\* assertGroupRoomMember: the room, then the ban, then the membership.
ReadRoom(r) ==
  /\ At(r, "room")
  /\ IF Live THEN Proceed(r, "bans") ELSE Finish(r)
  /\ UNCHANGED <<tables, msg, channel, inbox, view>>

ReadBan(r) ==
  /\ At(r, "bans")
  /\ IF req[r].user \in banned THEN Finish(r) ELSE Proceed(r, "member")
  /\ UNCHANGED <<tables, msg, channel, inbox, view>>

\* (mutant: a user without a ban is taken for a member)
IsMemberUnlessBanned(u) == u \notin banned

IsMember(u) == role[u] # "none"

ReadMember(r) ==
  /\ At(r, "member")
  /\ IF IsMember(req[r].user) THEN Proceed(r, AfterMember(req[r].op)) ELSE Finish(r)
  /\ UNCHANGED <<tables, msg, channel, inbox, view>>

\* assertValidReplyInRoom: the parent must not be deleted.
ReadParent(r) ==
  /\ At(r, "parent")
  /\ IF Present(req[r].id) THEN Proceed(r, "create") ELSE Finish(r)
  /\ UNCHANGED <<tables, msg, channel, inbox, view>>

\* deleteMessage reads the role again; others' messages are for the room's owner and
\* admins and for platform staff.
ReadRole(r) ==
  /\ At(r, "role")
  /\ LET mine == Stored(req[r].id) /\ msg[req[r].id].sender = req[r].user
         staff == \/ role[req[r].user] \in {"owner", "admin"}
                  \/ req[r].user \in PlatformStaff
     IN IF mine \/ staff THEN Proceed(r, "erase") ELSE Finish(r)
  /\ UNCHANGED <<tables, msg, channel, inbox, view>>

\* (mutant: the row is written without the room's foreign key)
CreateInAnyRoom(r) ==
  /\ At(r, "create")
  /\ \E m \in Msgs :
       /\ ~Stored(m)
       /\ msg' = [msg EXCEPT ![m] = [sender |-> req[r].user, version |-> 1,
                                     deleted |-> FALSE]]
       /\ req' = [req EXCEPT ![r].stage = "emit", ![r].id = m, ![r].version = 1]
  /\ UNCHANGED <<tables, channel, inbox, view>>

\* message.create; it fails when the room is gone.
Create(r) ==
  /\ At(r, "create")
  /\ IF ~Live THEN Finish(r) /\ UNCHANGED msg
     ELSE \E m \in Msgs :
            /\ ~Stored(m)
            /\ msg' = [msg EXCEPT ![m] = [sender |-> req[r].user, version |-> 1,
                                          deleted |-> FALSE]]
            /\ req' = [req EXCEPT ![r].stage = "emit", ![r].id = m, ![r].version = 1]
  /\ UNCHANGED <<tables, channel, inbox, view>>

\* (mutant: the whole row that Find has read is written back)
UpdateWholeRow(r) ==
  /\ At(r, "update")
  /\ LET m == req[r].id
         next == msg[m].version + 1
     IN IF Stored(m)
        THEN /\ next \in Versions
             /\ msg' = [msg EXCEPT ![m].version = next, ![m].deleted = FALSE]
             /\ req' = [req EXCEPT ![r].stage = "emit", ![r].version = next]
        ELSE Finish(r) /\ UNCHANGED msg
  /\ UNCHANGED <<tables, channel, inbox, view>>

\* message.update of the body, by id: whether it has been deleted since is not asked.
Update(r) ==
  /\ At(r, "update")
  /\ LET m == req[r].id
         next == msg[m].version + 1
     IN IF Stored(m)
        THEN /\ next \in Versions
             /\ msg' = [msg EXCEPT ![m].version = next]
             /\ req' = [req EXCEPT ![r].stage = "emit", ![r].version = next]
        ELSE Finish(r) /\ UNCHANGED msg
  /\ UNCHANGED <<tables, channel, inbox, view>>

\* message.update of deletedAt.
Erase(r) ==
  /\ At(r, "erase")
  /\ IF Stored(req[r].id)
     THEN msg' = [msg EXCEPT ![req[r].id].deleted = TRUE] /\ Proceed(r, "emit")
     ELSE Finish(r) /\ UNCHANGED msg
  /\ UNCHANGED <<tables, channel, inbox, view>>

\* The event that announces the write.
Kind(op) ==
  CASE op = "edit" -> "edited"
    [] op = "delete" -> "deleted"
    [] OTHER -> "message"

\* (mutant: the event names the message, without what it says)
EmitIdOnly(r) ==
  /\ At(r, "emit")
  /\ LET ev == [kind |-> Kind(req[r].op), id |-> req[r].id]
     IN inbox' = [t \in Tabs |-> IF t \in channel THEN Append(inbox[t], ev)
                                                  ELSE inbox[t]]
  /\ Finish(r)
  /\ UNCHANGED <<tables, msg, channel, view>>

\* emitRoomMessage, emitMessageEdited, emitMessageDeletedInGroup, once the write has
\* resolved: to every socket in the channel by then.
Emit(r) ==
  /\ At(r, "emit")
  /\ LET ev == [kind |-> Kind(req[r].op), id |-> req[r].id, version |-> req[r].version]
     IN inbox' = [t \in Tabs |-> IF t \in channel THEN Append(inbox[t], ev)
                                                  ELSE inbox[t]]
  /\ Finish(r)
  /\ UNCHANGED <<tables, msg, channel, view>>

\* handleRoomSubscribe: join what was checked.
Join(r) ==
  /\ At(r, "join")
  /\ channel' = channel \union {req[r].tab}
  /\ Finish(r)
  /\ UNCHANGED <<tables, msg, inbox, view>>

\* listRoomMessages reads its page, ...
ReadPage(r) ==
  /\ At(r, "read")
  /\ req' = [req EXCEPT ![r].stage = "respond", ![r].page = Page]
  /\ view' = [view EXCEPT ![req[r].tab].joinedFirst = req[r].tab \in channel]
  /\ UNCHANGED <<tables, msg, channel, inbox>>

\* (mutant: the page replaces what the tab holds)
MergeReplace(shown, page) == page

\* mergeLatestPageWithExisting: a message on the page is shown as the page has it, any
\* other as it was.
Merge(shown, page) == [m \in Msgs |-> IF page[m] # 0 THEN page[m] ELSE shown[m]]

\* ... and the response reaches the tab, at its own time.
ShowPage(r) ==
  /\ At(r, "respond")
  /\ LET t == req[r].tab IN
     view' = [view EXCEPT ![t].shown = Merge(@, req[r].page), ![t].loaded = TRUE]
  /\ Finish(r)
  /\ UNCHANGED <<tables, msg, channel, inbox>>

----------------------------------------------------------------------------
\* The tab's listeners: appendIncomingMessage ignores a message it has, onEdited one
\* it does not have.
After(shown, ev) ==
  [shown EXCEPT ![ev.id] =
     CASE ev.kind = "message" -> IF @ = 0 THEN ev.version ELSE @
       [] ev.kind = "edited" -> IF @ = 0 THEN 0 ELSE ev.version
       [] OTHER -> 0]

Deliver(t) ==
  /\ inbox[t] # <<>>
  /\ inbox' = [inbox EXCEPT ![t] = Tail(@)]
  /\ view' = IF view[t].open
             THEN [view EXCEPT ![t].shown = After(@, Head(inbox[t]))]
             ELSE view
  /\ UNCHANGED <<tables, msg, channel, req>>

----------------------------------------------------------------------------
Init ==
  /\ Policy!Init
  /\ msg = [m \in Msgs |-> NoRow]
  /\ channel = {}
  /\ req = [r \in Requests |-> Idle]
  /\ inbox = [t \in Tabs |-> <<>>]
  /\ view = [t \in Tabs |-> Closed]
  /\ been = {}

Step(r) ==
  \/ Find(r)
  \/ ReadRoom(r)
  \/ ReadBan(r)
  \/ ReadMember(r)
  \/ ReadParent(r)
  \/ ReadRole(r)
  \/ Create(r)
  \/ Update(r)
  \/ Erase(r)
  \/ Emit(r)
  \/ Join(r)
  \/ ReadPage(r)
  \/ ShowPage(r)

Next ==
  \/ Govern
  \/ \E r \in Requests : Step(r)
  \/ \E r \in Requests, op \in Ops, u \in Users, m \in Msgs \union {NoMsg} :
       Start(r, op, u, m)
  \/ \E t \in Tabs, r, s \in Requests : OpenRoom(t, r, s)
  \/ \E t \in Tabs : CloseRoom(t) \/ Reconnect(t) \/ Deliver(t)

Spec == Init /\ [][Next]_vars

----------------------------------------------------------------------------
TypeOK ==
  /\ msg \in [Msgs -> Row \union {NoRow}]
  /\ channel \in SUBSET Tabs
  /\ req \in [Requests -> Request \union {Idle}]
  /\ inbox \in [Tabs -> Seq(Event)]
  /\ view \in [Tabs -> View]
  /\ been \in SUBSET Users

\* A tab that was in the channel when its page was read, and whose socket has lived
\* since, shows every message there is once nothing is on its way to it: the page and
\* the events together miss nothing, in whatever order they arrive.
Settled(t) ==
  /\ view[t].open /\ view[t].loaded /\ view[t].steady /\ view[t].joinedFirst
  /\ inbox[t] = <<>>
  /\ \A r \in Requests : ~At(r, "emit")

NothingMissed ==
  \A t \in Tabs, m \in Msgs : Settled(t) /\ Present(m) => view[t].shown[m] # 0

\* A user who has never been a member neither posts nor is sent or shown anything,
\* however checks, joins, kicks and invitations interleave.
OutsidersSeeNothing ==
  /\ \A m \in Msgs : Stored(m) => msg[m].sender \in been
  /\ \A t \in Tabs :
       UserOf[t] \notin been =>
         t \notin channel /\ inbox[t] = <<>> /\ view[t].shown = NoPage

\* What the proof of OutsidersSeeNothing carries: members are in the history, and so is
\* the user of a request past its checks; a request of a tab is of the tab's user.
MembersRecorded == \A u \in Users : IsMember(u) => u \in been

PastChecks == {"parent", "role", "create", "update", "erase", "emit", "join", "read",
               "respond"}

Attributed(r) ==
  Busy(r) =>
    /\ req[r].stage \in PastChecks => req[r].user \in been
    /\ req[r].op \in {"subscribe", "list"} =>
         req[r].tab \in Tabs /\ req[r].user = UserOf[req[r].tab]
    /\ req[r].stage \in {"join", "read", "respond"} => req[r].op \in {"subscribe", "list"}
    /\ req[r].op \in {"reply", "edit", "delete"} => req[r].id \in Msgs
    /\ req[r].stage \in {"role", "update", "erase"} => req[r].op \in {"edit", "delete"}
    /\ req[r].stage = "emit" => req[r].id \in Msgs

AllAttributed == \A r \in Requests : Attributed(r)

\* A deleted room has no messages: no send, reply or edit that passed its checks
\* earlier leaves a row behind.
GoneWithTheRoom == ~Live => \A m \in Msgs : ~Stored(m)

\* What the proof of NothingMissed carries.  A deletion is announced of a message that
\* is gone for good, anything else with a text; the stages past the checks are those of
\* the operation; a tab has one list in flight, which has not loaded it yet.
Gone(m) == room = "deleted" \/ (Stored(m) /\ msg[m].deleted)

Truthful(kind, m, version) == IF kind = "deleted" THEN Gone(m) ELSE version # 0

EventsTruthful ==
  \A t \in Tabs : \A i \in 1..Len(inbox[t]) :
    Truthful(inbox[t][i].kind, inbox[t][i].id, inbox[t][i].version)

OnCourse(r) ==
  /\ At(r, "parent") => req[r].op = "reply"
  /\ At(r, "create") => req[r].op \in {"send", "reply"}
  /\ At(r, "update") => req[r].op = "edit"
  /\ At(r, "role") \/ At(r, "erase") => req[r].op = "delete"
  /\ At(r, "join") => req[r].op = "subscribe"
  /\ At(r, "read") \/ At(r, "respond") => req[r].op = "list"
  /\ At(r, "emit") => req[r].op \in AllOps
                      /\ Truthful(Kind(req[r].op), req[r].id, req[r].version)

Lists(r, t) == Busy(r) /\ req[r].op = "list" /\ req[r].tab = t

OneList ==
  \A t \in Tabs, r \in Requests : Lists(r, t) =>
    /\ view[t].open /\ ~view[t].loaded
    /\ \A s \in Requests : Lists(s, t) => s = r

\* Every message is shown, or an event or a page with it is still to come: one that the
\* page was too early for was announced to the channel the tab was in.
Coming(t, m) ==
  \/ \E i \in 1..Len(inbox[t]) : inbox[t][i].kind = "message" /\ inbox[t][i].id = m
  \/ \E r \in Requests : At(r, "emit") /\ Kind(req[r].op) = "message" /\ req[r].id = m
  \/ \E r \in Requests : At(r, "respond") /\ req[r].tab = t /\ req[r].page[m] # 0

Watching(t) == view[t].open /\ view[t].steady /\ view[t].joinedFirst

Covered(t) ==
  Watching(t) => /\ t \in channel
                 /\ \A m \in Msgs : Present(m) => view[t].shown[m] # 0 \/ Coming(t, m)

NothingMissedInv ==
  /\ GoneWithTheRoom
  /\ EventsTruthful
  /\ \A r \in Requests : OnCourse(r)
  /\ OneList
  /\ \A t \in Tabs : Covered(t)

\* A deleted message stays deleted: an edit that passed its checks before the deletion
\* changes its text only.
DeletionSticks ==
  [][\A m \in Msgs :
       Stored(m) /\ msg[m].deleted /\ Stored(m)' => msg'[m].deleted]_vars
=============================================================================
