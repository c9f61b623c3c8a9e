--------------------------- MODULE DirectMessages ---------------------------
(***************************************************************************)
(* The personal messages of two users: the direct-message half of          *)
(* messages.service.ts with its read cursors and unread counts, the events *)
(* of chat.gateway.ts to the users' own channels, and the tabs that show   *)
(* them, an open conversation (ActiveChat.tsx) and a badge                 *)
(* (useUnreadSummary.ts).  Answers over HTTP and events over the socket    *)
(* are not ordered with each other, nor are two answers.                   *)
(***************************************************************************)
EXTENDS FiniteSets, Naturals, Sequences

CONSTANTS
  Users,        \* the two users
  Senders,      \* those who send and delete messages
  Watchers,     \* those who have a tab
  DmRooms,      \* ids of direct-message rooms (bounds how many are created)
  MaxMessages,  \* bounds the messages; their ids are numbers in order of creation
  MaxEvents,    \* bounds the events on their way to a tab
  Requests      \* slots for requests in flight (bounds concurrency)

ASSUME UsersAssumption == Cardinality(Users) = 2
ASSUME TabsAssumption == Senders \subseteq Users /\ Watchers \subseteq Users
ASSUME BoundsAssumption == MaxMessages \in Nat /\ MaxEvents \in Nat

VARIABLES
  relation, \* of the pair: "friends", "strangers" or "banned" (either way)
  rooms,   \* the DM rooms of the pair
  msg,     \* msg[i]: the Message row of id i, or NoRow
  cursor,  \* cursor[u][d]: u's lastReadMessageId in room d, 0 when null or without a row
  req,     \* req[r]: the request in slot r, or Idle
  events,  \* events[u]: the events on their way to u's tab, in order
  chat,    \* chat[u]: the conversation in u's tab, or Closed
  badge,   \* badge[u]: the unread messages that u's tab counts
  seen,    \* history: seen[u], the messages up to which u's cursor has been set
  overlaps \* history: overlaps[u], the kinds of requests of u's tab that have overlapped

vars == <<relation, rooms, msg, cursor, req, events, chat, badge, seen, overlaps>>
tables == <<rooms, msg, cursor, seen>>
tabs == <<events, chat, badge, overlaps>>

----------------------------------------------------------------------------
Ids == 1..MaxMessages
Peer(u) == CHOOSE v \in Users : v # u

Row == [room : DmRooms, sender : Users, deleted : BOOLEAN]
NoRow == [sender |-> "none"]
Stored(i) == msg[i] # NoRow
Present(i) == Stored(i) /\ ~msg[i].deleted

\* An open conversation: whether it has its page, and the messages it shows.
Chat == [loaded : BOOLEAN, shown : SUBSET Ids]
Closed == [shown |-> {}]
Open(u) == chat[u] # Closed

Event == [kind : {"message", "deleted", "refresh"}, id : 0..MaxMessages]

\* stage: the call awaited next, or "respond" once the answer is on its way.  room, id and
\* page: what it has read or written.  then: whether the answer to a mark fetches the counts
\* again; that of an opening does while its conversation is mounted.  asFriends: the two
\* were friends when it began (history).
Ops == {"send", "delete", "list", "mark", "summary"}
Stages == {"friends", "find", "createRoom", "create", "erase", "emit", "notify",
           "page", "latest", "upsert", "count", "respond"}
NoRoom == "none"
Request == [stage : Stages, op : Ops, user : Users, room : DmRooms \union {NoRoom},
            id : 0..MaxMessages, page : SUBSET Ids,
            then : {"refetch", "ifMounted", "nothing"}, asFriends : BOOLEAN]
Idle == [stage |-> "idle"]

Busy(r) == req[r] # Idle
At(r, stage, op) == req[r].stage = stage /\ req[r].op = op
Proceed(r, stage) == req' = [req EXCEPT ![r].stage = stage]
Finish(r) == req' = [req EXCEPT ![r] = Idle]
New(stage, op, u) ==
  [stage |-> stage, op |-> op, user |-> u, room |-> NoRoom, id |-> 0, page |-> {},
   then |-> "refetch", asFriends |-> op = "send" /\ relation = "friends"]

InFlight(u, op) == {r \in Requests : Busy(r) /\ req[r].op = op /\ req[r].user = u}
Marking(u, then) == {r \in InFlight(u, "mark") : req[r].then = then}

\* Starting `op` for u beside another one in flight is recorded; so is, as "left", that one
\* of the marks that overlap is of a conversation that has been closed meanwhile.
Overlap(u, op) ==
  LET left == IF op = "mark" /\ Marking(u, "nothing") # {} THEN {"left"} ELSE {} IN
  overlaps' = IF InFlight(u, op) = {} THEN overlaps
              ELSE [overlaps EXCEPT ![u] = @ \union {op} \union left]

----------------------------------------------------------------------------
\* The friendship ends, by a removal or a ban.  Neither is undone here (a bound): a new
\* friendship after it is a pair of friends again.
Relate ==
  /\ relation = "friends" /\ relation' \in {"strangers", "banned"}
  /\ UNCHANGED <<tables, req, tabs>>

\* assertCanSendPersonalMessage: the bans first, then the friendship.
StartSend(r, u) ==
  /\ ~Busy(r) /\ relation # "banned"
  /\ req' = [req EXCEPT ![r] = New("friends", "send", u)]
  /\ UNCHANGED <<relation, tables, tabs>>

\* (mutant: a conversation that exists is not checked again)
areFriendsOrHaveRoom(r) ==
  /\ At(r, "friends", "send")
  /\ IF relation = "friends" \/ rooms # {} THEN Proceed(r, "find") ELSE Finish(r)
  /\ UNCHANGED <<relation, tables, tabs>>

areFriends(r) ==
  /\ At(r, "friends", "send")
  /\ IF relation = "friends" THEN Proceed(r, "find") ELSE Finish(r)
  /\ UNCHANGED <<relation, tables, tabs>>

\* findDmRoom returns a room that has both as members: any one of them.
findDmRoom(r, found, none) ==
  IF rooms = {} THEN req' = [req EXCEPT ![r] = none]
  ELSE \E d \in rooms : req' = [req EXCEPT ![r].stage = found, ![r].room = d]

\* getOrCreateDmRoom.
FindForSend(r) ==
  /\ At(r, "find", "send")
  /\ findDmRoom(r, "create", [req[r] EXCEPT !.stage = "createRoom"])
  /\ UNCHANGED <<relation, tables, tabs>>

createDmRoom(r) ==
  /\ At(r, "createRoom", "send")
  /\ \E d \in DmRooms \ rooms :
       /\ rooms' = rooms \union {d}
       /\ req' = [req EXCEPT ![r].stage = "create", ![r].room = d]
  /\ UNCHANGED <<relation, msg, cursor, seen, tabs>>

Create(r) ==
  /\ At(r, "create", "send")
  /\ \E i \in Ids :
       /\ ~Stored(i) /\ \A j \in 1..(i - 1) : Stored(j)
       /\ msg' = [msg EXCEPT ![i] =
                    [room |-> req[r].room, sender |-> req[r].user, deleted |-> FALSE]]
       /\ req' = [req EXCEPT ![r] = [req[r] EXCEPT !.stage = "emit", !.id = i, !.room = NoRoom,
                                       !.asFriends = FALSE]]
  /\ UNCHANGED <<relation, rooms, cursor, seen, tabs>>

Publish(event) ==
  /\ \A u \in Watchers : Len(events[u]) < MaxEvents
  /\ events' = [u \in Users |-> IF u \in Watchers THEN Append(events[u], event) ELSE <<>>]

\* emitDmMessage, and in its own time the call to refetch the unread counts.
EmitMessage(r) ==
  /\ At(r, "emit", "send")
  /\ Publish([kind |-> "message", id |-> req[r].id])
  /\ Proceed(r, "notify")
  /\ UNCHANGED <<relation, tables, chat, badge, overlaps>>

notifyUnreadRefresh(r) ==
  /\ At(r, "notify", "send")
  /\ Publish([kind |-> "refresh", id |-> 0])
  /\ Finish(r)
  /\ UNCHANGED <<relation, tables, chat, badge, overlaps>>

\* deleteMessage: the sender's own, whatever has become of the friendship.
StartDelete(r, u, i) ==
  /\ ~Busy(r) /\ Present(i) /\ msg[i].sender = u
  /\ req' = [req EXCEPT ![r] = [New("erase", "delete", u) EXCEPT !.id = i]]
  /\ UNCHANGED <<relation, tables, tabs>>

Erase(r) ==
  /\ At(r, "erase", "delete")
  /\ msg' = [msg EXCEPT ![req[r].id].deleted = TRUE]
  /\ Proceed(r, "emit")
  /\ UNCHANGED <<relation, rooms, cursor, seen, tabs>>

emitMessageDeletedInDm(r) ==
  /\ At(r, "emit", "delete")
  /\ Publish([kind |-> "deleted", id |-> req[r].id])
  /\ Finish(r)
  /\ UNCHANGED <<relation, tables, chat, badge, overlaps>>

----------------------------------------------------------------------------
\* listDmMessages: the room, then its latest page, then the answer.  The page holds every
\* message of the room here.
FindForList(r) ==
  /\ At(r, "find", "list")
  /\ findDmRoom(r, "page", [req[r] EXCEPT !.stage = "respond"])
  /\ UNCHANGED <<relation, tables, tabs>>

ReadPage(r) ==
  /\ At(r, "page", "list")
  /\ req' = [req EXCEPT ![r].stage = "respond",
                        ![r].page = {i \in Ids : Present(i) /\ msg[i].room = req[r].room}]
  /\ UNCHANGED <<relation, tables, tabs>>

\* markRoomRead: the latest message that is not deleted, and the cursor is set to it.
Latest(d) ==
  LET there == {i \in Ids : Present(i) /\ msg[i].room = d} IN
  IF there = {} THEN 0 ELSE CHOOSE i \in there : \A j \in there : j <= i

FindForMark(r) ==
  /\ At(r, "find", "mark")
  /\ findDmRoom(r, "latest", [req[r] EXCEPT !.stage = "respond"])
  /\ UNCHANGED <<relation, tables, tabs>>

ReadLatest(r) ==
  /\ At(r, "latest", "mark")
  /\ req' = [req EXCEPT ![r].stage = "upsert", ![r].id = Latest(req[r].room)]
  /\ UNCHANGED <<relation, tables, tabs>>

Upsert(r) ==
  /\ At(r, "upsert", "mark")
  /\ LET u == req[r].user  d == req[r].room IN
     /\ cursor' = [cursor EXCEPT ![u][d] = req[r].id]
     /\ seen' = [seen EXCEPT ![u] = @ \union {i \in 1..req[r].id : msg[i].room = d}]
  /\ req' = [req EXCEPT ![r].stage = "respond", ![r].room = NoRoom, ![r].id = 0]
  /\ UNCHANGED <<relation, rooms, msg, tabs>>

\* (mutant: a deleted message is no anchor)
AnchorPresent(d, i) == IF i # 0 /\ Present(i) /\ msg[i].room = d THEN i ELSE 0

\* countUnreadFromOthers: what others have sent after the anchor, everything without one.
Anchor(d, i) == IF i # 0 /\ Stored(i) /\ msg[i].room = d THEN i ELSE 0

countUnreadFromOthers(u, d, last) ==
  Cardinality({i \in Ids : i > Anchor(d, last) /\ Present(i)
                            /\ msg[i].room = d /\ msg[i].sender # u})

\* getUnreadSummary: of every room the cursor, then the count.  The client keeps one count
\* for the peer, that of the room listed last.
ReadState(r) ==
  /\ At(r, "find", "summary")
  /\ IF rooms = {} THEN Proceed(r, "respond")
     ELSE \E d \in rooms :
       req' = [req EXCEPT ![r].stage = "count", ![r].room = d,
                          ![r].id = cursor[req[r].user][d]]
  /\ UNCHANGED <<relation, tables, tabs>>

Count(r) ==
  /\ At(r, "count", "summary")
  /\ req' = [req EXCEPT ![r].stage = "respond", ![r].room = NoRoom,
       ![r].id = countUnreadFromOthers(req[r].user, req[r].room, req[r].id)]
  /\ UNCHANGED <<relation, tables, tabs>>

----------------------------------------------------------------------------
\* ActiveChat is mounted: it asks for the page and marks the conversation read, and its
\* listeners are there before any answer or event.
OpenChat(r, q, u) ==
  /\ ~Open(u) /\ r # q /\ ~Busy(r) /\ ~Busy(q)
  /\ chat' = [chat EXCEPT ![u] = [loaded |-> FALSE, shown |-> {}]]
  /\ req' = [req EXCEPT ![r] = New("find", "list", u),
                        ![q] = [New("find", "mark", u) EXCEPT !.then = "ifMounted"]]
  /\ Overlap(u, "mark")
  /\ UNCHANGED <<relation, tables, events, badge>>

\* (mutant: no mark in flight is used when it is answered)
CloseChatCancelsAll(u) ==
  /\ Open(u)
  /\ chat' = [chat EXCEPT ![u] = Closed]
  /\ req' = [r \in Requests |->
       IF r \in InFlight(u, "list") THEN Idle
       ELSE IF r \in InFlight(u, "mark") THEN [req[r] EXCEPT !.then = "nothing"] ELSE req[r]]
  /\ UNCHANGED <<relation, tables, events, badge, overlaps>>

\* Unmounted: the answers to what it asked for when it was opened are ignored from then on
\* (`cancelled`).  Those to the marks that its events have asked for are not.
CloseChat(u) ==
  /\ Open(u)
  /\ chat' = [chat EXCEPT ![u] = Closed]
  /\ req' = [r \in Requests |->
       IF r \in InFlight(u, "list") THEN Idle
       ELSE IF r \in Marking(u, "ifMounted") THEN [req[r] EXCEPT !.then = "nothing"]
       ELSE req[r]]
  /\ overlaps' = IF "mark" \in overlaps[u] /\ Marking(u, "ifMounted") # {}
                 THEN [overlaps EXCEPT ![u] = @ \union {"left"}] ELSE overlaps
  /\ UNCHANGED <<relation, tables, events, badge>>

\* (mutant: the page replaces what is shown)
MergeReplace(shown, page) == page

\* mergeLatestPageWithExisting, as sets.
Merge(shown, page) == shown \union page

ShowPage(r) ==
  /\ At(r, "respond", "list")
  /\ chat' = [chat EXCEPT ![req[r].user] =
       [loaded |-> TRUE, shown |-> Merge(@.shown, req[r].page)]]
  /\ Finish(r)
  /\ UNCHANGED <<relation, tables, events, badge, overlaps>>

\* onConversationOpened: the counts are fetched again; not for an opening that is over.
Marked(r) ==
  /\ At(r, "respond", "mark")
  /\ LET u == req[r].user IN
     IF req[r].then = "nothing" THEN Finish(r) /\ UNCHANGED overlaps
     ELSE /\ req' = [req EXCEPT ![r] = New("find", "summary", u)]
          /\ Overlap(u, "summary")
  /\ UNCHANGED <<relation, tables, events, chat, badge>>

ShowBadge(r) ==
  /\ At(r, "respond", "summary")
  /\ badge' = [badge EXCEPT ![req[r].user] = req[r].id]
  /\ Finish(r)
  /\ UNCHANGED <<relation, tables, events, chat, overlaps>>

\* An event arrives.  A message is appended and the conversation marked read; a deletion
\* takes the message out; `unread:refresh` fetches the counts.
Deliver(r, u) ==
  /\ events[u] # <<>> /\ ~Busy(r)
  /\ LET e == Head(events[u]) IN
     /\ events' = [events EXCEPT ![u] = Tail(@)]
     /\ \/ /\ e.kind = "message" /\ Open(u)
           /\ chat' = [chat EXCEPT ![u].shown = @ \union {e.id}]
           /\ req' = [req EXCEPT ![r] = New("find", "mark", u)]
           /\ Overlap(u, "mark")
        \/ /\ e.kind = "deleted" /\ Open(u)
           /\ chat' = [chat EXCEPT ![u].shown = @ \ {e.id}]
           /\ UNCHANGED <<req, overlaps>>
        \/ /\ e.kind # "refresh" /\ ~Open(u)
           /\ UNCHANGED <<req, chat, overlaps>>
        \/ /\ e.kind = "refresh"
           /\ req' = [req EXCEPT ![r] = New("find", "summary", u)]
           /\ Overlap(u, "summary")
           /\ UNCHANGED chat
  /\ UNCHANGED <<relation, tables, badge>>

----------------------------------------------------------------------------
Init ==
  /\ relation = "friends"
  /\ rooms = {}
  /\ msg = [i \in Ids |-> NoRow]
  /\ cursor = [u \in Users |-> [d \in DmRooms |-> 0]]
  /\ req = [r \in Requests |-> Idle]
  /\ events = [u \in Users |-> <<>>]
  /\ chat = [u \in Users |-> Closed]
  /\ badge = [u \in Users |-> 0]
  /\ seen = [u \in Users |-> {}]
  /\ overlaps = [u \in Users |-> {}]

Handle(r) ==
  \/ areFriends(r) \/ FindForSend(r) \/ createDmRoom(r) \/ Create(r)
  \/ EmitMessage(r) \/ notifyUnreadRefresh(r)
  \/ Erase(r) \/ emitMessageDeletedInDm(r)
  \/ FindForList(r) \/ ReadPage(r) \/ ShowPage(r)
  \/ FindForMark(r) \/ ReadLatest(r) \/ Upsert(r) \/ Marked(r)
  \/ ReadState(r) \/ Count(r) \/ ShowBadge(r)

Next ==
  \/ Relate
  \/ \E r \in Requests : Handle(r)
  \/ \E r \in Requests, u \in Senders :
       StartSend(r, u) \/ \E i \in Ids : StartDelete(r, u, i)
  \/ \E u \in Watchers :
       \/ \E r, q \in Requests : OpenChat(r, q, u)
       \/ \E r \in Requests : Deliver(r, u)
       \/ CloseChat(u)

Spec == Init /\ [][Next]_vars

----------------------------------------------------------------------------
\* The shape of the state.
TypeOK ==
  /\ relation \in {"friends", "strangers", "banned"}
  /\ rooms \subseteq DmRooms
  /\ msg \in [Ids -> Row \union {NoRow}]
  /\ cursor \in [Users -> [DmRooms -> 0..MaxMessages]]
  /\ req \in [Requests -> Request \union {Idle}]
  /\ events \in [Users -> Seq(Event)]
  /\ chat \in [Users -> Chat \union {Closed}]
  /\ badge \in [Users -> 0..MaxMessages]
  /\ seen \in [Users -> SUBSET Ids]
  /\ overlaps \in [Users -> SUBSET {"mark", "summary", "left"}]

\* A message is stored only when the two were friends as its request began: a removal or a
\* ban stops every message that is not already on its way.
BanStopsNewMessages ==
  \A r \in Requests : At(r, "create", "send") => req[r].asFriends

\* The pair has one conversation: two first messages have not raced.
OneRoom == Cardinality(rooms) <= 1

\* An open conversation whose page has arrived shows every message that is not deleted,
\* whichever of page and event came first, once nothing is on its way to it.
NothingMissed ==
  \A u \in Watchers :
    (OneRoom /\ Open(u) /\ chat[u].loaded /\ events[u] = <<>>)
      => \A i \in Ids :
           Present(i) /\ ~(\E r \in Requests : At(r, "emit", "send") /\ req[r].id = i)
             => i \in chat[u].shown

\* What u's cursor has covered is not counted as unread again, whatever is deleted before
\* and after, as long as no two requests of u to mark the conversation overlap.
Unread(u) == {i \in Ids : \E d \in rooms : /\ i > Anchor(d, cursor[u][d])
                                          /\ Present(i) /\ msg[i].room = d
                                          /\ msg[i].sender # u}

ReadStaysRead ==
  \A u \in Users : "mark" \notin overlaps[u] => seen[u] \intersect Unread(u) = {}

\* When nothing is on its way, a message not yet read shows in the badge: also one that has
\* become unread again as marks overlapped, for each fetches the counts after it.  Not so
\* when two fetches have overlapped, or a mark with one whose conversation was closed, which
\* moves the cursor back and fetches nothing.
AtRest(u) ==
  /\ events[u] = <<>> /\ InFlight(u, "mark") \union InFlight(u, "summary") = {}
  /\ ~\E r \in Requests : req[r].stage \in {"emit", "notify"}

BadgeNotices ==
  \A u \in Watchers :
    (OneRoom /\ AtRest(u) /\ overlaps[u] \subseteq {"mark"} /\ Unread(u) # {})
      => badge[u] > 0
=============================================================================
