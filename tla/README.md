# Verification of the chat application

TLA+ specifications, TLC model-checking runs and TLAPS proofs about the chat backend
(`chat_app_be`, NestJS with Prisma on PostgreSQL) and the React client (`chat_app_fe`).
`PROJECT.json` maps every definition to the source lines it stands for and lists the runs,
hazards, findings and theorems.

## The system

| Component | State | Operations | Talks to |
|---|---|---|---|
| Rooms (`rooms.service.ts`) | tables Room, RoomMember (role), RoomBan | create, join, invite, leave, delete, ban, unban, add and remove admin, promote and demote moderator, kick, update, lists | messages (cascade), storage |
| Friends (`friends.service.ts`) | tables Friendship, UserBan | send, accept, decline, cancel, remove, ban, unban, lists | direct messages (`assertCanSendPersonalMessage`) |
| Messages (`messages.service.ts`) | tables Message, Attachment, ChatReadState; DM rooms | post, reply, edit, soft-delete, page, upload, mark read, unread summary | rooms, friends, gateway |
| Gateway (`chat.gateway.ts`) | socket.io channels `user:{id}` and `room:{id}`, `presenceBySocket` | connect, disconnect, subscribe, unsubscribe, send, presence; events `chat:message`, `message:edited`, `message:deleted`, `unread:refresh`, `presence:sync` | messages, clients |
| Sessions (`auth.service.ts`, `jwt.strategy.ts`) | table AuthSession, password and reset hashes; 15-minute tokens | register, login, refresh, revoke, logout, change, reset | all guards |
| Users (`users.service.ts`, `admin.controller.ts`) | table User, avatar files | profile, avatar, platform role, delete account | rooms, storage |
| Storage (multer, `uploads/`) | files, written before the handler runs | upload, stream, unlink | messages, rooms, users |
| Client socket (`socketClient.ts`) | one shared socket | connect, replace, emit with acknowledgement | gateway |
| Client views (`ActiveRoomChat.tsx`, `ActiveChat.tsx`, `chatMessages.ts`) | the messages shown, `hasMore` | load page, merge, append, react to events | HTTP API, client socket |
| Client hooks (`usePresenceActivity`, `usePresenceMap`, `useUnreadSummary`) | presence, unread counts, idle timer | mount, timer, event | client socket |
| `chat_app_fe/server` | its own tables | an earlier Express server | nothing above |

What is hard. A handler of the backend is a chain of awaited database calls without a lock
and, apart from a few two-statement writes, without a transaction: between a check and the
write it protects, any other request may run. Uniqueness and foreign keys are the only
things the database enforces. Events go out after the write has resolved and reach the
sockets that are in a channel by then; the page a client fetches over HTTP is ordered with
neither. Channel membership is checked when it begins and not again. Clients lose
connections; several tabs share an account. In the client, answers arrive in any order and find
components that have moved on.

What makes each component correct:

- Rooms: the owner is fixed and cannot be lost; rank decides who may remove, ban and appoint
  whom; a banned user is not a member; capacity; nothing outlives the room.
- Friends: friendship needs both sides to have asked; a ban ends and excludes it; a removal
  ends it.
- Room thread: only members post and see; an open view ends up with what the table holds; a
  deletion is final.
- Direct messages: one room for a pair; nothing sent across a ban. Unread: the cursor only
  advances.
- Presence: a user is online exactly while a tab is. Sessions: a revoked session stops
  working for HTTP requests (a socket opened before stays, chat.gateway.ts:78-96); a token is
  used once. Storage: a row has its file and a file has its row.

## Modules

| Module | What it is |
|---|---|
| `Rooms` | all eleven operations on the membership of one room, one step per database call |
| `RoomPolicy` | what the same operations promise: one decision each, by rank, at once |
| `Friends` | all seven operations on Friendship and UserBan, one step per database call |
| `RoomThread` | messages of a room, the room channel, and the tabs that show it; `RoomPolicy` is its environment |
| `DirectMessages` | the messages of two users, their DM room, read cursors, unread counts and the badge |
| `Conversation` | one open conversation of the client: the list with its pages, the composer, the socket's acknowledgements |
| `RoomPages` | the list of rooms, a room's page and its moderation panel, over `RoomPolicy` |
| `Sessions` | accounts, sign-in sessions, tokens, password change and reset, platform roles |
| `Presence` | a user's tabs with their sockets and idle timers, and the gateway's entries |
| `Storage` | the upload directory against the rows that name its files |
| `MC...` | symmetry, constraints and constants for TLC, one for each of the above but `RoomPolicy` |
| `RoomsProofs`, `FriendsProofs`, `RoomThreadProofs`, `SessionsProofs`, `StorageProofs`, `DirectMessagesProofs`, `ConversationProofs` | the theorems about the module of that name |
| `TabProofs` | the theorems about `RoomPages` and `Presence`, what runs in a tab |

How they compose: `Rooms` implements `RoomPolicy`, which is then the room service of
`RoomThread` and of `RoomPages`. `Conversation` is the client's side of `RoomThread` and of
`DirectMessages` in full (the two components share this code): its server stores a message
and sends the events in one step, because what can happen between the two is their subject.

### How a handler becomes actions

`req[r]` is the state of a request in flight: its operation, who asks, and what it has read.
`stage` names the call it awaits next. An action performs that call and everything up to the
next `await`: the check on the result, the early returns (`Finish`), the transition
(`Proceed`). A statement with no await between read and write is part of the action; a
transaction (`banFromRoom`, `banUser`, `deleteRoom`) is one action. A write by id that finds
no row, a create that violates a unique key and a write whose foreign key is gone throw, and
are modelled by finishing without effect. `Requests` bounds how many requests are in flight,
`Faults` lets any of them stop before its next call (`Abort`): a database error, a closed
connection or a restart of the process, whose effect on the tables is the same, as the
handlers catch nothing and hold nothing.

**Rooms.** `room`, `role`, `banned` are the Room row, the RoomMember rows (one for each user
and room by the unique key) and the RoomBan rows. `MayPerform` is the table of the role
checks on the caller, `TargetAllowed` of those on the target. A kick checks its actor and
then reads the actor again (`ReadActor`), compares (`KickAllowed`), deletes (`Remove`) and,
for an owner or admin, writes the ban (`RecordBan`). `isStaffRole` and
`isRoomAdminOrOwnerRole` are predicates in the code and sets here.

**RoomPolicy.** Stated by rank (owner, admin, moderator, member), without requests.
`Rooms` implements it with one request at a time and no faults; the refinement maps `banned`
to the bans together with those a kick has still to record, so that a kick takes effect when
its member row goes. Implementing `Policy!Spec` alone would let any change pass as something
the owner could have done; `ImplementsPolicy` therefore also asks that each change be the
decision of the request that is running, by its caller and on its target (`Perform`).

**Friends.** `row` holds Friendship rows by id: a pair can have two, one in each direction,
because the unique key is on the ordered pair. `findFriendshipPair` is `findFirst` without
an order and returns any of them. `banned` holds the UserBan pairs. `asked` is a history
variable, used by no guard.

**RoomThread.** A message is a sender, a version of its text and a `deleted` flag. The tables
of `RoomPolicy` change in single steps of `Govern`, which also cascades a room's deletion to
its messages. `channel` is the set of tabs in `room:{id}`; `inbox[t]` the events on their way
to a tab, in order; `view[t]` what it shows. `OpenRoom` starts the page request and the
subscription, as the two effects of `ActiveRoomChat` do, and they proceed independently.
`Reconnect` replaces the socket: no channel, no events of the meantime. `been` is a history
variable. The races inside membership handlers are `Rooms`' subject and not repeated here;
no property of `RoomThread` depends on a banned user not being a member.

**DirectMessages.** `rooms` are the DM rooms of the pair: `findDmRoom` returns any of them,
`createDmRoom` adds one. `relation` abstracts `Friends`' tables to what
`assertCanSendPersonalMessage` asks of them; the ban and the friendship are read in two
steps (`StartSend`, `areFriends`). `cursor[u][d]` is `ChatReadState.lastReadMessageId`;
`Anchor` and `Count` are `countUnreadFromOthers`, which dates the cursor by the message it
names. A tab has the open conversation (`chat`) and the badge (`useUnreadSummary`), which
asks for a summary whenever an event arrives. Message ids are their order of creation. A
request to mark the conversation read carries what its answer will do (`then`): fetch the
counts, or do so if the conversation it opened is still mounted (`ifMounted`); `CloseChat`
turns the latter into `nothing`, as `cancelled` does in the client.
`seen` and `overlaps` are history variables.

**Conversation.** `view` is a sequence, so the order in which `mergeOlderMessages` and
`appendIncomingMessage` put messages counts. `req[q]` is an HTTP request or an
`emitWithAck`; its stages are asked, served and answered, so an answer may be overtaken by
packets of the socket (`wire`), which are ordered. Events reach a socket that has joined
the conversation's channel (`channel`): it has asked for it when the conversation opens, and
`JoinChannel` and `RefuseJoin` answer in any order with the page and with sends. A friend's
conversation (`direct`) uses the user's own channel, which the gateway joins when it has
verified the token. `paged` and `unheard` are history variables: the last message when the
first page was read, and when the channel was joined. `Drop` loses the packets and strands the
sends; `SubmitText` on a dropped socket replaces it (`connectSocket`) and the conversation's
listeners are gone (`listening`). `GiveUp` is the five-second timeout; the send may still
arrive (`late`). `text` says what the draft is: nothing, a new message, or the text of an
edit and of which message.

**RoomPages.** `detail` is `RoomChatPage`'s `room`, `panel` the moderation panel, `list`
`RoomsPage`. `call[c]` is a request in flight together with the handler that awaits it
(`by`) and what the handler's closure holds (`gov`, `search`, `then`, `gone`): React keeps an
old closure running after its component has rendered anew or is gone. A read takes its value
when it is served and shows it when it is answered. A change is one step of `RoomPolicy`;
one that the policy refuses (`Allowed`), or for which nothing is to do, is answered without it.
`settled` is a history variable: nothing has overtaken what is shown or being loaded.

**Sessions.** A token carries its role and session and has a remaining life in ticks; a tick
takes one from every token. The guard (`jwt.strategy.ts`) looks at the token only, as in the
code. `gone` and `fallen` count the ticks since a session's row, or an admin role, was last
there: they are what "for at most a token's lifetime" is stated with. Passwords are numbered
in the order they are chosen.

**Presence.** `tab[t]` has the state of `socketClient.ts` (none, connecting, open, refused),
which hooks have their listeners on the socket there is, the status buffered while it is
not connected, and `isAfk`. `server[t]` is the gateway's entry; a connection that only one
end knows to be lost leaves a ghost entry until the ping timeout (`DropGhost`), or a tab that
thinks it is connected (`NoticeDrop`). `Restart` empties the gateway's map.

**Storage.** A handler's steps are the calls on the disk and on the database. multer's file
is there before the handler begins (`Upload`). `Abort` stops a request between two steps.
`abandoned` collects files whose purge stopped or came too late; `removed` those of a
removed picture; both are history variables.

## Runs

| Run | Expects | Checks | Instance |
|---|---|---|---|
| `rooms_concurrent` | pass | `OwnerAnchored`, `OvershootBounded`, `OwnerPowers` | 4 users, 2 requests, capacity 2, faults; 1.1 million states |
| `rooms_serial` | pass | `TypeOK`, `BannedStayOut`, `ImplementsPolicy` | 4 users, 1 request, capacity 3, all operations |
| `rooms_ban_race` | violation | `BannedStayOut` | 3 users, 2 requests |
| `friends` | pass | `TypeOK`, `BothAsked`, `AcceptAheadOfBan` | 2 users, 3 row ids, 2 requests, faults |
| `room_thread` | pass | `TypeOK`, `NothingMissed`, `OutsidersSeeNothing`, `GoneWithTheRoom`, `DeletionSticks` | 2 users, 1 tab, 2 messages, 2 versions, 2 requests; sends, replies, edits, deletions; 610 thousand states |
| `direct` | pass | `BanStopsNewMessages`, `NothingMissed`, `ReadStaysRead`, `BadgeNotices` | a sender and a reader with a tab, 2 messages, 3 requests; 1.5 million states |
| `conversation_list` | pass | `HistoryReachable`, `ShownOnce` | 3 messages, one of them from before, pages of one, 1 file, 2 packets, 2 requests; 970 thousand states |
| `conversation_composer` | pass | `UploadedOnce`, `EditsKeepToTheirMessage`, `AckedIsShown` | 2 messages, 1 file, 2 packets, 2 requests; 1.27 million states |
| `room_pages` | pass | `OfferedIsAllowed`, `PanelCurrent`, `ListCurrent`, `BusyOnlyWhileWaiting`, `OpensItsOwnRoom` | 3 users, capacity 3, 2 requests, 1 change by others and 1 by the user, faults; 320 thousand states |
| `sessions` | pass | `RevocationTakesEffect`, `SessionsKnowThePassword`, `ResetOnce`, `RolesByAdmins` | 2 accounts, 2 sessions, 2 requests, a token lives one tick, 3 passwords; 1.45 million states |
| `presence` | pass | `AwayIsReported`, `ViewCurrent`, `EventuallyAway`, `Recovers` | 2 tabs; 117 thousand states; liveness |
| `storage` | pass | `RowsHaveFiles`, `AvatarsHaveFiles`, `NothingOfTheGone`, `PurgeComplete` | 2 users, 1 room, 3 files, 2 requests; 440 thousand states |

Every module has a type invariant; the runs of `DirectMessages`, `Conversation`,
`RoomPages`, `Sessions`, `Presence` and `Storage` spend their time on the
other properties, and each `TypeOK` held on the same instance.

What the passing runs show:

- `OwnerAnchored`: no interleaving of kicks, bans, role changes, leaves and deletion that act
  on stale reads leaves a room without its owner, with another one, or with the owner banned;
  nothing is left of a deleted room.
- `OvershootBounded`: capacity is checked apart from the insert; concurrent entries exceed it
  by at most the number of requests in flight less one (and they do reach that).
- `OwnerPowers`: although authority is checked earlier than it is used, whoever becomes admin
  was made so by the owner's request, and a room is deleted by the owner's.
- `ImplementsPolicy`: taken one at a time, the call sequences of the eleven handlers amount
  to decisions by the rank of their callers. `BannedStayOut` holds then as well,
  which is what makes its violation under concurrency a matter of interleaving alone.
- `BothAsked`, `AcceptAheadOfBan`: accepts, declines, renewals and cancels that write rows
  they read earlier never make friends of someone who did not ask, and an accept cannot
  overtake a ban: its row is gone. The same is not true of a send.
- `NothingMissed`: if the channel was joined before the page was read, and the socket stayed,
  then after all events have arrived the view has every message, wherever the page's
  response falls among them.
- `OutsidersSeeNothing`: checks and joins are apart, but who was never a member at any time is
  in no channel and in no sender column.
- `GoneWithTheRoom`, `DeletionSticks`: a send or reply that comes late leaves no message in a
  deleted room, and a late edit revives no deleted message.

- `BanStopsNewMessages`: a personal message that reaches its insert was asked for while the
  two were friends. `NothingMissed` (`DirectMessages`): as for rooms, with the events to the
  users' own channels, for a pair with one room.
- `ReadStaysRead`: what a user has read does not become unread again through deletions
  before or at the cursor, as the cursor is a message and is compared by its date, unless two
  marks overlapped.
- `BadgeNotices`: when all is quiet an unread message shows in the badge, also one that
  overlapping marks have made unread again, for each of them fetches the counts after it. Two
  things are excluded, since they do harm: two fetches that overlapped (the older answer may
  come last), and an opening's mark that overlapped another and found its conversation closed.
- `HistoryReachable`, `ShownOnce`: pages prepended unsorted, the latest page merged, files and
  events appended leave neither gap nor double. It speaks of the messages that pages and
  events bring (`Reached`): those there were when the first page was read, and those since the
  channel was joined. What was posted between the two, if the page was first, is missed.
- `AckedIsShown`: the composer adds nothing itself, so a send acknowledged on a socket that
  stayed is in the list by then, if the channel had been joined when it was stored; it holds
  because the event leaves before the acknowledgement. `UploadedOnce`, `EditsKeepToTheirMessage`: the composer's modes.
- `OfferedIsAllowed`: the two tables of role rules agree. `PanelCurrent`, `ListCurrent`: after
  the user's own changes the page shows what the tables hold, if no load was overtaken
  (`settled`). `BusyOnlyWhileWaiting`, `OpensItsOwnRoom`: answers that find another page.
- `RevocationTakesEffect`, `RolesByAdmins`: stale tokens, and refreshes that read a row
  before it went, last a token's lifetime and no longer. `SessionsKnowThePassword`: the one
  way to keep a session of an old password is a login that was under way. `ResetOnce`.
- `AwayIsReported`: of the flag in the page and the entry at the gateway, only the harmless
  way of differing occurs (a tab shown away until its next idle period). `ViewCurrent`: no
  change of the map goes without its broadcast. `EventuallyAway`, `Recovers`: see Fairness.
- `RowsHaveFiles`, `AvatarsHaveFiles`, `NothingOfTheGone`, `PurgeComplete`: with every
  handler free to stop anywhere, files go after their rows, except in `removeAvatar`.

### What the code does that the documents do not say

`rooms_ban_race` shows a ban that races a join: the user is member and banned, which
kickMember's comment excludes (`findings`). The models reach these as well; the passing
properties are stated so as to exclude exactly them:

- `kickMember` (rooms.service.ts:684-712) reads its actor twice; an actor demoted to a plain
  member in between falls through to the case the comment at 712 keeps for the owner.
- `sendFriendRequest` (friends.service.ts:131) can create or confirm a friendship beside a
  ban committed after its check, although the dialog says "your friendship will end"
  (FriendsListPanel.tsx:65).
- Two opposite requests make two Friendship rows; once both are accepted, a removal
  (friends.service.ts:324) deletes one and the two stay friends (FriendsListPanel.tsx:58).
- A kicked or banned member's socket stays in `room:{id}` (chat.gateway.ts:201), although
  "Banned users cannot access messages or files" (messages.service.ts:274).
- A page that was read before an edit and arrives after its event puts the old text back
  (chatMessages.ts:36), though the merge is meant to refresh rows "after reconnect or edits".
- Two first messages of a pair may create two DM rooms (messages.service.ts:583).
- `markRoomRead` calls that overlap may move the cursor back (messages.service.ts:723).
- A friend's conversation is opened, closed while its request to mark it is held up, and opened
  again; the held-up mark puts the cursor back behind the second one's and, as its answer is
  dropped (ActiveChat.tsx:107), nobody fetches the counts: a message is unread and no badge
  shows it until the next event.
- The room's channel is joined when its checks have passed (chat.gateway.ts:201), and neither
  the first page nor the composer waits for it (ActiveRoomChat.tsx:169-209). A message posted
  after the page was read and before the join is not shown until the room is opened again, and
  the sender's own is acknowledged and not shown, if the subscription is late or refused. A file
  that is stored before the first page is read is shown from its answer, which may leave a gap
  below it.
- When all the messages shown are deleted while there are older ones, the thread says "No
  messages yet" and renders nothing that could load them (ChatThread.tsx:230). When the oldest
  one shown was deleted and its event missed, older pages are refused ("Invalid before cursor",
  messages.service.ts:786-811) until the conversation is opened again.
- A kick whose second call fails has removed the member without the ban that
  rooms.service.ts:676-678 promises (`Rooms`, by `Abort`).
- A conversation does not subscribe again after its socket reconnects
  (ActiveRoomChat.tsx:243 listens for an event that socket.io v4 sends elsewhere).
- `deleteRoom` unlinks under a doubled path (rooms.service.ts:452) and the files stay.
- `refreshRoom` and `handleJoin` (RoomChatPage.tsx:50-78) may put the room of the URL before
  on the page.
- A moderator kicks twice and is made admin meanwhile: the refresh after the first kick shows
  the new rank and the panel loads the bans, then the second kick is answered to a closure of
  the old rank, whose `load` empties the list of bans again (RoomModerationPanel.tsx:81-95).

### Bounds

- Two requests in flight are enough for every read of one handler to be made stale by the
  other; a slot is reused, so behaviours have any number of requests one after the other.
  The theorems hold for any number.
- `rooms_serial` has capacity 3, for an owner, a moderator to kick and a member to be kicked.
- Four users in `rooms_concurrent` are the owner, an actor, a target and one more to fill the
  room at capacity two. `rooms_concurrent` leaves out `unban`, `promote` and `demote`, which
  are in `rooms_serial`; the theorems cover all eleven operations concurrently.
- No operation of `Friends` reads a row of another pair, so two accounts are all there is.
  Three row ids are both directions and one that a request remembers after it is deleted.
- One tab in `RoomThread`: emits go to each tab of the channel alike and tabs share nothing.
  Two messages let an event and a page differ on one and agree on the other.
  A page holds the whole room, which for two messages is what `limit` would give. A reply
  differs from a send in one more check, of its parent, so while the tab has a part there are
  sends only (`SendsOnly`); edits, replies and deletions come while it is closed, as they
  concern rows, in a public room without moderators, who are to messages what members are
  (`NoTab`). The theorem about views has all of them with any tabs.
- `MaxVersion` bounds edits of a message; only one edit is needed for an old and a new text.
  An edit at the bound is not taken, in which case its request stays open.
- `direct`: one user writes and deletes, the other watches; the code treats the two alike, and
  every message concerns both. Two messages make one before and one after a cursor. A pair
  with two DM rooms is reached and not followed (`OneRoom`), as its conversation is split. The
  friendship ends once. At most one kind of request overlaps in a behaviour (`OneKind`), since
  the conditional properties name one each. Marks that overlap take a third request: the marks
  of two openings, or of an opening and an event, and the sender's or a summary. `MarksOnly`
  then keeps the two friends, takes the sender's requests one at a time, and has the page of an
  opening answered before its mark is served; otherwise there are two requests
  (`TwoAtATime`).
- `conversation_list` and `conversation_composer` share the list only through the events, which
  both have. Pages of one message give three pages' worth of history with three messages. In
  the first the user types and edits nothing (`NothingWritten`) but sends a file, which is
  shown from its answer, deletes, and loads older pages. In the second no page is on its way
  after the first, which is read before anything is posted (`NoPages`); before the channel is
  joined, and after a drop, only a text is sent (`FewConcerns`). One file, as attaching another
  needs the first to be gone. The theorems hold without these constraints.
- `room_pages`: three users are the tab's, a target and somebody who changes the room. The
  others make one change, the user one (`FewChanges`): a page that is overtaken once promises
  nothing more until it is opened anew, and then all is as at the start. `Apart` keeps the two
  rooms' panels, a search and a deletion, and what a closed panel has left in flight from
  being combined; `OvertakenAlone` lets requests overlap only while a property still looks.
- `sessions`: a token that lives for one tick distinguishes now, within its life, and after;
  three passwords are an old and a new one, and one more with which a used reset token can be
  tried again or the second account registers; two session rows with ids that may be drawn
  again.
- `presence`: two tabs are what the aggregate and the notices between tabs need.
- `storage`: three files are a picture and its successor, and an attachment; one room, with a
  second user whose files are in it.
- Users other than the creator, row ids, messages, files and slots are interchangeable:
  symmetry is used in the runs without liveness properties; `presence` has none.

Deadlock is checked in every run but `storage` and `direct`, where names of files and messages
run out and everything may come to an end.

### Fairness

`presence` assumes weak fairness of what goes on without a user: timers fire (`GoIdle`), a
notice to another tab arrives (`ReceiveNotice`), a socket that is connecting is accepted or
refused (socket.io retries for ever, socketClient.ts:15-34), both ends find out about a lost
connection (ping timeouts: `NoticeDrop`, `DropGhost`). No fairness is assumed of the user,
of drops and restarts, or of the token's clock. `EventuallyAway` and `Recovers` therefore say:
*if* from some time on only such steps happen, then the user is shown away, and the tabs
are connected. The first excludes a tab whose activity hook reports on a socket that another
hook has replaced; the second a token that has expired, as the client then stops.

No other run assumes fairness. The pages' and conversations' properties are stated for the
moment when nothing is in flight, which needs none.

## Proofs

`tlapm XProofs.tla` for each X of `Rooms`, `Friends`, `RoomThread`, `Sessions`, `Storage`,
`DirectMessages`, `Conversation`, and `Tab` for `RoomPages` and `Presence`. All theorems hold for
every value of the constants that satisfies the named assumptions of the modules (for instance: finitely many
users and requests in `Rooms`, whose capacity counts them; `NoId` not an id; a tab has a user;
two parties to a direct conversation; a page holds at least one message). Every strengthened
invariant below was first checked by TLC on the instance of its run.

**Rooms.** `TypeCorrect`; `OwnerStaysAnchored`; `OwnerPowersHold`; `CapacityOvershoot`;
`SerialBansHold`; `SerialRoomsImplementPolicy`.

- `OwnerAnchored` is not inductive: a kick about to delete a row must be known not to name
  the owner. `AimedAwayFromOwner` says so of every request at a writing stage. It survives
  because what a handler has once read of the owner's row cannot change while the room
  lives: every writer has made the same check.
- `OwnerPowers` follows from `OwnersRequests`: a request past an owner-only check was made
  by the creator, who is the only owner.
- `OvershootBounded` is strengthened to `PlacesTaken`: the members together with the users
  some request is about to enrol. A successful count raises it by one, when at most one less
  than all other slots are arriving; no insert raises it; roles and removals do not. The proof
  needs the finiteness of the sets and the cardinality facts of `FiniteSetTheorems`.
- The refinement is proved under `Serial`: one request slot and no faults. Both are needed:
  `rooms_ban_race` shows what two requests do, and a kick that stopped between deleting the
  row and recording the ban would lose a ban the policy has imposed. The invariant,
  `SerialInv`, says that whatever the request in flight has read is still true
  (`StillTrue`: the room, its caller's and its target's role, the count, the bans, by stage),
  and that members are neither banned nor about to be recorded as banned. From it each writing
  step is shown to be the one decision of the policy by that caller on that target (`Perform`),
  and every other step to change nothing the mapping shows. `ImplementsPolicy` is all of it:
  the policy's initial state, and each step.

**Friends.** `TypeCorrect`; `NobodyBefriendedUnasked`; `AcceptNeverOvertakesBan`. The
invariant `FriendsInv` has a part for each request (it knows the row it is about; the row
stays one of the two accounts while it exists; the peer has asked) and for each row (its
requester has asked; both have if it is accepted). Ids of deleted rows are not reused while a
request remembers them, as for uuids; without it neither theorem is true.

**RoomThread.** `TypeCorrect`; `OutsidersExcluded`; `DeletedRoomEmpty`; `DeletionIsFinal`;
`ViewsMissNothing`.

- `ThreadInv` adds to the type invariant that members are in the history (`MembersRecorded`)
  and that a request past its membership check is of a user in the history, a tab's request
  of that tab's user, and an emit's of a message (`AllAttributed`). Type correctness itself
  needs the latter: an update is of the message found, never of `NoMsg`.
- `NothingMissed` speaks of the time when all has arrived; `NothingMissedInv` of any time. For
  a tab that joined the channel first, every message of the table is shown, or its event is
  in the tab's inbox or about to be emitted, or it is on the page that is under way
  (`Covered`). That a page or an event takes nothing away needs that deletions are announced
  only of messages that are gone for good (`EventsTruthful`, and for requests about to emit
  `OnCourse`), and that a tab has at most one page under way, which it has not shown yet
  (`OneList`).

**Sessions.** `TypeCorrect`; `RevocationIsBounded`; `SessionsEndWithPassword`;
`ResetTokenUsedOnce`; `RolesChangedByAdmins`. `RevocationTakesEffect` is an accounting: the
ticks a token has left and those its session has been gone for never exceed a lifetime
(`LifeCoversAbsence`). A refresh that read the row before it was deleted signs a new token
with a full life, so the sum holds only because a refresh in flight read the row since the
last tick (`PresentNotGone`): a handler takes less than a tick. Roles are the same sum with
the ticks since the role was lost (`AdminsNotFallen`, `LifeCoversFall`, the latter also for a
role change past its guard). `StoredNotSpent` is what keeps a used reset token from being
found again. `KnownAccounts` says that nothing is in flight for an account that is not
registered.

**Storage.** `TypeCorrect`; `ListedCanBeDownloaded`; `PicturesCanBeShown`;
`RowsOfTheLiving`; `PurgesAreComplete`. A file under a row can be lost only by an unlink
that is about something else, so the invariant is about who may name a file: one that a
handler carries is nobody else's (`CarriedApart`); pictures are no attachments and belong to
one user, also where a handler remembers one (`PicturesApart`); a picture that was replaced is
no longer anybody's (`Replaced`); what a purge has listed loses its rows in its transaction
(`ListedForPurge`). `GoneHaveNothing` and `AllDrawn` (a name is drawn once) complete it.
`PurgeComplete`, an action property, needs in addition that each file the account had when
its deletion began is still to be listed, or listed, or some other purge's, at every stage of
the handler (`MineAccounted`).

**Presence.** `PresenceTypeCorrect`; `AwayReachesTheGateway`; `ConnectedPagesAreCurrent`. With the
type invariant the two properties are inductive as they stand: each transition of a page's
socket sets the flag, the buffered status and the gateway's entry together.

**DirectMessages.** `TypeCorrect`; `BanStops`; `ReadIsRead`; `PagesMissNothing`;
`UnreadShows`.

- `BanStopsNewMessages` and the cursor: `AllSound` says what each request knows at each stage.
  A position about to be written as a cursor covers all that the cursor covers
  (`Covers`), unless two requests to mark have overlapped, which `OneAtATime` pins down.
- `NothingMissed`: `NothingLost`, as `Covered` above.
- `BadgeNotices`: `BadgeFollows`. Unless something is on its way that will ask for the counts
  again (`Stale`), the counts being fetched, or the badge when none are, are about the unread
  messages there are (`Accurate`). A mark whose answer will fetch nothing has to be shown to
  do no harm while no other overlaps with it: it runs alone (`LeftAlone`), what it writes covers
  what has been seen, and that is everything up to the cursor (`PastIsSeen`), so that it makes
  nothing unread.
- The latest message is the maximum of a finite set of numbers, which exists by
  well-foundedness; unread counts are cardinalities.

**Conversation.** `TypeCorrect`; `ListsRepeatNothing`; `HistoryIsReachable`;
`AcknowledgedIsShown`; `FilesGoOnce`; `EditsStayApart`.

- The list is a sequence, and half of the work is about the operators on it: that a finite set
  of numbers can be sorted (`Enumerable`, by the least counterexample, as the library's
  induction theorems cannot be instantiated), that the sorted sequence has each element once,
  what `Merge`, `mergeOlder` and `Without` show, and what `LastOf` is of a set that fits a
  page. `Keep` (filter) is defined by positions for this reason.
- `HistoryReachable` splits in two at the moment when the channel was joined (`unheard`). What
  there was by then and when the first page was read (`Old`) comes in pages: what is shown of it
  together with a page in flight is closed upwards (`UpTo`), and complete if the page is said to
  be the last (`PagesReach`); whatever else is shown is `Newer`, so it opens no gap. What is
  posted later comes over the socket: on one that stayed each is shown, deleted, or its event
  is on the wire (`NewOnesCome`). That both moments are noted once and only go down, and that
  nothing newer than either exists at that time, is `HistoriesStep`, `ReadStays` and
  `NoneNewer`.
- `AckedIsShown`, an action property, is the other half of `NewOnesCome`: ahead of every
  acknowledgement on the wire of a message since the join is that message's event. It holds of the send's own two
  packets, and survives timeouts, which take only acknowledgements off.
- `UploadsCounted` and `DraftsKept` are the strengthenings for the composer.

**RoomPages.** `PagesTypeCorrect`; `MenusFollowTheRules`; `PanelShowsTheRoom`;
`ListShowsTheRooms`; `ButtonsComeBack`; `PageOpensItsOwnRoom`.

- The invariant, `PagesInv`, has to say what is in flight. `Made` is what each handler asks and
  what is in its answer; `InPlace`, that each handler still to go on belongs to the page in the
  URL, and those of the panel to the panel that is open. `InPlace` survives a change of page
  because `AfterMove` turns every other handler into one that shows nothing.
- `PanelCurrent` and `ListCurrent` speak of the time when nothing is in flight; `PanelSettled`
  and `ListSettled` of any time. While nothing was overtaken, what is shown is how things are;
  or exactly one load is under way, and what it has read so far is so (`LoadsWell`,
  `StillSo`); or a change of the user's own has been made, whose answer will load again
  (`Overtaken`). Members are shown only to a member (`MembersAre`): without it a request to join
  that is left from before could change the room without a load, and it cannot, being a
  member's.
- `BusyOnlyWhileWaiting` is inductive with `Made` and `InPlace`: a flag is set with the
  request whose handler resets it, and whatever closes the dialog or leaves the page resets it
  with the component's state.
- `PageOpensItsOwnRoom` is about one step: the answer to a handler that opens a page is of the
  room it asked for (`Made`), which is the room in the URL (`InPlace`).
- `MenusFollowTheRules` needs the type invariant only: it compares two tables of rules, and
  has a step for each entry of the menus.
- Two things were found by proving and not by the run. A load by a closure of the old
  rank (above) broke `PanelCurrent` with more changes than `FewChanges` admits; `Reload` now
  says that it overtakes. And `ShowDetail` had two cases that could both be true.

Model-checked only: `EventuallyAway` and `Recovers` of `Presence`. Liveness under fairness is
not for this prover. No module here uses RECURSIVE or ENABLED.

## Not modelled

- DTO validation, the resolution of user names and invitations by name; profile edits,
  `updateRoom`, the lists of sessions, users and friends: one write or none each.
- In `RoomThread`, `DirectMessages`: a stop of the process between create and emit.
  `room:unsubscribe` takes effect when the room is closed. Edits, replies and uploads of
  direct messages (the same code as for rooms, which is modelled). In `DirectMessages` the
  sockets stay connected and in the user's channel, no request of the client fails, and the
  friendship is not renewed.
- In `Conversation`: images (sent as text is), replies but for their ending an edit, the
  reasons for which an HTTP request is refused, `canSend` of a personal conversation (taken to be
  true: one may write).
- In `RoomPages`: the tabs of the panel, the confirmation's wording, the right-hand member list
  (RoomChatRightPanel), which loads as the panel does.
- Files of deleted messages stay, in the code and in `Storage` (a soft deletion keeps its
  attachment rows); downloads change nothing.
- The browser's stored session over several tabs (authStorage.ts, AuthProvider.tsx): the late
  401 of an old sign-in clears a newer one (api.ts:156), and a merge of a profile answer into
  the session stored by then (ProfileMenu.tsx:57-75). The client never uses its refresh
  token, so a sign-in ends after fifteen minutes, although authStorage.ts:3 says that it
  survives browser restarts.
- The contacts page and the friends panel (ChatPage, FriendsListPanel): a list, an action, a
  reload, as in `RoomPages`. Forms with a single request. The Express server in
  `chat_app_fe/server`, which nothing uses.

## Plan

1. Done: `Rooms` with `RoomPolicy`, `Friends`, `RoomThread`, and their proofs.
2. Done: `Sessions`, `Presence`, `Storage`, `DirectMessages`, `Conversation`, `RoomPages`.
   The client socket and the timeline, planned as modules of their own, are part of
   `Presence` and `Conversation`.
3. Done: the proofs about `Sessions`, `Storage`, `Presence`, `DirectMessages` and
   `Conversation`; `NothingMissed` of `RoomThread`; the refinement of `RoomPolicy` by serial
   `Rooms`, with `BannedStayOut`.
4. Done: the proofs about `RoomPages`, whose guards were first written without ENABLED. Every
   safety property of a passing run is a theorem.
